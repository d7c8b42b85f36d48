---------------------------- MODULE PacketDriver ----------------------------
(***************************************************************************)
(* The packet driver cog (spin/packet_driver.spin) and the serial line.    *)
(*                                                                         *)
(* The cog runs two coroutines: the receiver, a state machine that takes a *)
(* byte at a time and writes payloads into one of two buffers, and the     *)
(* transmitter, which empties a small ring of reply bytes.  A good packet  *)
(* is published in a mailbox in hub memory, where `status` is the only     *)
(* synchronisation with the Spin program that handles packets.             *)
(***************************************************************************)
EXTENDS PacketFormat, FiniteSets

CONSTANTS
  TXSIZE,        \* size of the ring of reply bytes; 16 in the code
  NoiseBytes,    \* values a damaged byte may take
  Bursts,        \* byte sequences line noise may insert
  MaxFaults      \* bound on the faults of the line in one behaviour

ASSUME PacketDriverAssumption ==
  /\ TXSIZE \in Nat /\ TXSIZE > 1
  /\ NoiseBytes \subseteq Byte
  /\ \A s \in Bursts : s \in Seq(Byte)
  /\ MaxFaults \in Nat

VARIABLES
  toTarget,      \* bytes on the line from the host, oldest first
  toHost,        \* bytes on the line to the host
  faults,        \* faults so far
  hits,          \* faults of the frame under way
  cog,           \* the driver's cog: running or stopped
  rcv_state,     \* what the next byte means, or what the receiver waits for
  rcv_chk, rcv_type, rcv_length, rcv_cnt, crc,   \* cog registers
  rcv_buf1,      \* the buffer being received into; rcv_buf2 is the other one
  buffers,       \* the two payload buffers
  sndbyte,       \* the reply about to be queued
  tx,            \* the ring of reply bytes
  status,        \* mailbox: PENDING, OK or ERROR
  pkt_type, pkt_buffer, pkt_length,   \* mailbox: the packet published
  accepted       \* history: the packets published, in order

lineVars   == <<toTarget, toHost, faults, hits>>
headerVars == <<rcv_chk, rcv_type, rcv_length, rcv_cnt, crc>>
mailbox    == <<pkt_type, pkt_buffer, pkt_length>>
driverVars == <<cog, rcv_state, headerVars, rcv_buf1, buffers, sndbyte, tx,
                status, mailbox, accepted>>

ListenStates == {"SOH", "PKTN", "TYPE", "LEN_HI", "LEN_LO", "CHK", "DATA",
                 "CRC_HI", "CRC_LO"}

(* "WAIT": busy-waiting for the mailbox to be free (do_crc_lo).  "REPLY":  *)
(* busy-waiting for room in the reply ring (send_ack_nak).                 *)
RcvStates == ListenStates \cup {"WAIT", "REPLY"}

Payload(b, len) == [i \in 1..len |-> buffers[b][i - 1]]

(* A frame is being received, published or answered. *)
Receiving == cog = "running" /\ rcv_state \in ListenStates

DriverInit ==
  /\ toTarget = <<>> /\ toHost = <<>> /\ faults = 0 /\ hits = 0
  /\ cog = "running"
  /\ rcv_state = "SOH"
  /\ rcv_chk = 0 /\ rcv_type = 0 /\ rcv_length = 0 /\ rcv_cnt = 0 /\ crc = 0
  /\ rcv_buf1 = 0
  /\ buffers = [b \in 0..1 |-> [i \in 0..PKTMAXLEN - 1 |-> 0]]
  /\ sndbyte = ACK
  /\ tx = <<ACK>>
  /\ status = "PENDING"
  /\ pkt_type = 0 /\ pkt_buffer = 0 /\ pkt_length = 0
  /\ accepted = <<>>

-----------------------------------------------------------------------------
(* The receiver: one operator per entry of its dispatch table, b the byte  *)
(* just assembled.                                                         *)

do_soh(b) ==
  /\ rcv_state = "SOH"
  /\ rcv_state' = IF b = SOH THEN "PKTN" ELSE "SOH"
  /\ UNCHANGED <<headerVars, buffers, sndbyte, status>>

(* The packet number only starts the checksum; nothing remembers it. *)
do_pktn(b) ==
  /\ rcv_state = "PKTN"
  /\ rcv_chk' = b
  /\ rcv_state' = "TYPE"
  /\ UNCHANGED <<rcv_type, rcv_length, rcv_cnt, crc, buffers, sndbyte, status>>

do_type(b) ==
  /\ rcv_state = "TYPE"
  /\ rcv_type' = b
  /\ rcv_chk' = (rcv_chk + b) % 256
  /\ rcv_state' = "LEN_HI"
  /\ UNCHANGED <<rcv_length, rcv_cnt, crc, buffers, sndbyte, status>>

do_len_hi(b) ==
  /\ rcv_state = "LEN_HI"
  /\ rcv_length' = 256 * b
  /\ rcv_chk' = (rcv_chk + b) % 256
  /\ rcv_state' = "LEN_LO"
  /\ UNCHANGED <<rcv_type, rcv_cnt, crc, buffers, sndbyte, status>>

do_len_lo(b) ==
  /\ rcv_state = "LEN_LO"
  /\ rcv_length' = rcv_length + b
  /\ rcv_chk' = (rcv_chk + b) % 256
  /\ rcv_state' = "CHK"
  /\ UNCHANGED <<rcv_type, rcv_cnt, crc, buffers, sndbyte, status>>

(* send_nak: the error is stored over whatever status holds. *)
send_nak ==
  /\ status' = "ERROR"
  /\ sndbyte' = NAK
  /\ rcv_state' = "REPLY"

BeginPayload ==
  /\ crc' = 0
  /\ rcv_cnt' = rcv_length
  /\ rcv_state' = IF rcv_length = 0 THEN "CRC_HI" ELSE "DATA"
  /\ UNCHANGED <<sndbyte, status>>

header_ok(b) == b = rcv_chk /\ rcv_length <= PKTMAXLEN

do_chk(b) ==
  /\ rcv_state = "CHK"
  /\ \/ header_ok(b) /\ BeginPayload
     \/ ~header_ok(b) /\ send_nak /\ UNCHANGED <<crc, rcv_cnt>>
  /\ UNCHANGED <<rcv_chk, rcv_type, rcv_length, buffers>>

do_data(b) ==
  /\ rcv_state = "DATA"
  /\ crc' = updcrc(crc, b)
  /\ buffers' = [buffers EXCEPT ![rcv_buf1][rcv_length - rcv_cnt] = b]
  /\ rcv_cnt' = rcv_cnt - 1
  /\ rcv_state' = IF rcv_cnt = 1 THEN "CRC_HI" ELSE "DATA"
  /\ UNCHANGED <<rcv_chk, rcv_type, rcv_length, sndbyte, status>>

(* The two CRC bytes are folded into the register and the result compared  *)
(* with zero; with this register that is a comparison with each half.      *)
do_crc_hi(b) ==
  /\ rcv_state = "CRC_HI"
  /\ crc' = crc - 256 * b
  /\ rcv_state' = "CRC_LO"
  /\ UNCHANGED <<rcv_chk, rcv_type, rcv_length, rcv_cnt, buffers, sndbyte, status>>

(* A slip: a packet is taken whatever its CRC. *)
payload_unchecked(b) == b \in Byte

payload_ok(b) == crc = b

do_crc_lo(b) ==
  /\ rcv_state = "CRC_LO"
  /\ crc' = crc - b
  /\ \/ payload_ok(b) /\ rcv_state' = "WAIT" /\ UNCHANGED <<sndbyte, status>>
     \/ ~payload_ok(b) /\ send_nak
  /\ UNCHANGED <<rcv_chk, rcv_type, rcv_length, rcv_cnt, buffers>>

dispatch(b) ==
  \/ do_soh(b)
  \/ do_pktn(b)
  \/ do_type(b)
  \/ do_len_hi(b)
  \/ do_len_lo(b)
  \/ do_chk(b)
  \/ do_data(b)
  \/ do_crc_hi(b)
  \/ do_crc_lo(b)

receive ==
  /\ Receiving
  /\ toTarget # <<>>
  /\ toTarget' = Tail(toTarget)
  /\ dispatch(Head(toTarget))
  /\ UNCHANGED <<toHost, faults, hits, cog, rcv_buf1, tx, mailbox, accepted>>

(* A receiver that busy-waits does not sample the line. *)
MissByte ==
  /\ cog = "running" /\ ~Receiving
  /\ toTarget # <<>>
  /\ toTarget' = Tail(toTarget)
  /\ UNCHANGED <<toHost, faults, hits, driverVars>>

(* Slips of the publication: receiving on into the buffer just published;  *)
(* running on past the second buffer.                                      *)
same_buffer       == rcv_buf1
next_buffer       == rcv_buf1 + 1

mailbox_free == status = "PENDING"
other_buffer == 1 - rcv_buf1

(* The tail of do_crc_lo: once the mailbox is free, store the packet and   *)
(* STATUS_OK in it, swap the buffers and go and acknowledge.  send_ack_nak *)
(* stores STATUS_OK a second time five instructions later, long before a   *)
(* Spin program can have seen the first store, let alone released it.      *)
publish ==
  /\ cog = "running"
  /\ rcv_state = "WAIT"
  /\ mailbox_free
  /\ pkt_type' = rcv_type
  /\ pkt_length' = rcv_length
  /\ pkt_buffer' = rcv_buf1
  /\ status' = "OK"
  /\ rcv_buf1' = other_buffer
  /\ sndbyte' = ACK
  /\ rcv_state' = "REPLY"
  /\ accepted' = Append(accepted, Packet(rcv_type, Payload(rcv_buf1, rcv_length)))
  /\ UNCHANGED <<lineVars, cog, headerVars, buffers, tx>>

(* send_ack_nak: queue the reply, waiting for room, and look for a frame. *)
send_byte ==
  /\ cog = "running"
  /\ rcv_state = "REPLY"
  /\ Len(tx) < TXSIZE - 1
  /\ tx' = Append(tx, sndbyte)
  /\ rcv_state' = "SOH"
  /\ UNCHANGED <<lineVars, cog, headerVars, rcv_buf1, buffers, sndbyte, status,
                 mailbox, accepted>>

(* The transmitter sends the oldest reply byte. *)
transmit ==
  /\ cog = "running"
  /\ tx # <<>>
  /\ toHost' = Append(toHost, Head(tx))
  /\ tx' = Tail(tx)
  /\ UNCHANGED <<toTarget, faults, hits, cog, rcv_state, headerVars, rcv_buf1, buffers,
                 sndbyte, status, mailbox, accepted>>

(* stopx: the cog stops where it is; reply bytes still queued are lost. *)
stop ==
  /\ cog' = "stopped"
  /\ tx' = <<>>
  /\ UNCHANGED <<lineVars, rcv_state, headerVars, rcv_buf1, buffers, sndbyte,
                 status, mailbox, accepted>>

DriverStep == receive \/ MissByte \/ publish \/ send_byte \/ transmit

-----------------------------------------------------------------------------
(* The line.  A start bit that is only noise, or a missing stop bit, loses *)
(* a byte (the abort in `receive`); a byte may be damaged; noise may look  *)
(* like bytes.  On the way back a reply may be lost or damaged into        *)
(* something that is not ACK.  A frame is hit at most once: the header is  *)
(* covered by a sum of bytes, which two damaged bytes can leave unchanged. *)

Fault == faults < MaxFaults /\ faults' = faults + 1

LoseByte ==
  /\ Fault
  /\ toTarget # <<>> /\ hits = 0
  /\ toTarget' = Tail(toTarget)
  /\ hits' = 1
  /\ UNCHANGED <<toHost, driverVars>>

DamageByte ==
  /\ Fault
  /\ toTarget # <<>> /\ hits = 0
  /\ \E b \in NoiseBytes \ {Head(toTarget)} : toTarget' = <<b>> \o Tail(toTarget)
  /\ hits' = 1
  /\ UNCHANGED <<toHost, driverVars>>

Burst ==
  /\ Fault
  /\ toTarget = <<>>
  /\ toTarget' \in Bursts
  /\ UNCHANGED <<toHost, hits, driverVars>>

LoseReply ==
  /\ Fault
  /\ toHost # <<>>
  /\ toHost' = Tail(toHost)
  /\ UNCHANGED <<toTarget, hits, driverVars>>

DamageReply ==
  /\ Fault
  /\ toHost # <<>>
  /\ \E b \in NoiseBytes \ {ACK} : toHost' = <<b>> \o Tail(toHost)
  /\ UNCHANGED <<toTarget, hits, driverVars>>

LineFault == LoseByte \/ DamageByte \/ Burst \/ LoseReply \/ DamageReply

-----------------------------------------------------------------------------
Word  == {n \in Nat : n < 65536}
Count == 0..PKTMAXLEN      \* payload bytes

LineTypeOK ==
  /\ toTarget \in Seq(Byte) /\ toHost \in Seq(Byte)
  /\ faults \in 0..MaxFaults /\ hits \in 0..1

RegisterRanges ==
  /\ rcv_chk \in Byte /\ rcv_type \in Byte /\ crc \in Int
  /\ rcv_length \in Word /\ rcv_cnt \in Count

(* The length fits 16 bits and, once past the header check, the buffer; so *)
(* does the count of the payload bytes still to come.                      *)
LengthFits ==
  /\ rcv_state = "LEN_LO" => rcv_length <= 65280
  /\ rcv_state = "DATA" => rcv_cnt \in 1..rcv_length /\ rcv_length <= PKTMAXLEN
  /\ rcv_state \in {"CRC_HI", "CRC_LO", "WAIT"} => rcv_length <= PKTMAXLEN

MailboxTypeOK ==
  /\ status \in {"PENDING", "OK", "ERROR"}
  /\ pkt_type \in Byte /\ pkt_buffer \in 0..1 /\ pkt_length \in Count

ReplyTypeOK ==
  /\ sndbyte \in {ACK, NAK} /\ tx \in Seq({ACK, NAK}) /\ Len(tx) < TXSIZE

DriverTypeOK ==
  /\ cog \in {"running", "stopped"} /\ rcv_state \in RcvStates /\ rcv_buf1 \in 0..1
  /\ buffers \in [0..1 -> [0..PKTMAXLEN - 1 -> Byte]]
  /\ RegisterRanges
  /\ LengthFits
  /\ MailboxTypeOK
  /\ ReplyTypeOK
=============================================================================
