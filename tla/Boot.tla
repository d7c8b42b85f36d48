-------------------------------- MODULE Boot --------------------------------
(***************************************************************************)
(* The boot loader in the Propeller's ROM and the two programs that talk   *)
(* to it: the loader (src/loader/PLoadLib.c) finds the chip and sends it a *)
(* program, the IDE (xbasic-qt/PropellerID.cpp) only finds it, and reads   *)
(* its port through a ring of its own.                                     *)
(***************************************************************************)
EXTENDS ImageFile

CONSTANTS
  HandshakeBits,  \* bits of the LFSR that each side sends; 250 in the code
  VersionBits,    \* bits of the version; 8
  Version,        \* the version of the chip
  BitTries,       \* timeouts a bit may be late by; 100
  AckTries,       \* times the answer to a program is asked for; 100
  DrainMax,       \* stray bytes read before the second attempt; 300
  Chunk,          \* stray bytes read at a time; 10
  RingSize,       \* size of the ring of the IDE; 1024
  Strays,         \* what a stray byte may be
  MaxFaults       \* bound on the faults in one behaviour

VARIABLES
  host,           \* loader or ide
  device,         \* what is at the port: propeller, silent, or echo
  toChip, toHost, \* bytes under way
  chip,           \* what the chip is doing
  answered,       \* bits it has answered
  longs,          \* longs it has received: command, count, program
  garbled,        \* one of them was received wrong
  eeprom,         \* what its EEPROM holds, if it was written
  bpc,            \* where the host is
  retry, LFSR, n, ii, to, rc, version,   \* variables of hwfind and upload
  dlbuf, type,    \* the program to upload, and the command
  rxqueue, rxhead, rxtail,   \* the ring
  faults,         \* faults so far
  disturbed       \* one of them hit an answer

chipVars == <<chip, answered, longs, garbled, eeprom>>
locals   == <<LFSR, n, ii, to, rc, version>>
job      == <<host, device, dlbuf, type>>
ring     == <<rxqueue, rxhead, rxtail>>
bootVars == <<job, toChip, toHost, chipVars, bpc, retry, locals, ring, faults, disturbed>>

ACK  == 6
F9   == 249
bitbyte(b) == 254 + b

iterate(x) == ((2 * x) % 256) + (((x \div 128) + (x \div 32) + (x \div 16) + (x \div 2)) % 2)
lfsr ==
  LET state[k \in 0..2 * HandshakeBits] == IF k = 0 THEN 80 ELSE iterate(state[k - 1])
  IN  [k \in DOMAIN state |-> state[k]]
lfsr_bit(k) == lfsr[k] % 2

(* The bytes with which the host begins, and how many it says in all. *)
magic == <<F9>> \o [k \in 1..HandshakeBits |-> bitbyte(lfsr_bit(k - 1))]
Said  == Len(magic) + HandshakeBits + VersionBits

(* What is left of the version when its lower bits have been sent.         *)
shifted[k \in 0..VersionBits] == IF k = 0 THEN Version ELSE shifted[k - 1] \div 2
power[k \in 0..VersionBits]   == IF k = 0 THEN 1 ELSE 2 * power[k - 1]

answer(k) == IF k < HandshakeBits THEN lfsr_bit(HandshakeBits + k) ELSE shifted[k - HandshakeBits] % 2

ASSUME BootAssumption ==
  /\ HandshakeBits \in Nat \ {0} /\ VersionBits \in Nat \ {0} /\ Version \in 1..power[VersionBits] - 1
  /\ {BitTries, AckTries, DrainMax, MaxFaults} \cup Strays \subseteq Nat /\ Chunk \in Nat \ {0}

(* A bit that is late is waited for longer than the line fails; the ring   *)
(* has room for what is said in both attempts, should it all come back,    *)
(* and for the strays.                                                     *)
ASSUME PatienceAssumption == MaxFaults <= BitTries
ASSUME RingAssumption == RingSize \in Nat /\ 2 * Said + MaxFaults <= RingSize

(* The bits that are compared are not those that an echo returns: not all  *)
(* of F9, nor the ones of the host behind an F9.                           *)
ASSUME LfsrAssumption ==
  /\ \E k \in 0..HandshakeBits - 2 : answer(k) # F9 % 2
  /\ \E k \in 0..HandshakeBits - 2 : answer(k) # magic[k + 1] % 2

Fault == faults < MaxFaults /\ faults' = faults + 1
-----------------------------------------------------------------------------
(* The chip, as far as the hosts rely on it. *)

LONG == 11       \* bytes of an encoded long
bit(data, k) == IF k > 31 THEN 0 ELSE (data[(k \div 8) + 1] \div 2^(k % 8)) % 2

(* A long is four bytes; three of its bits go into each byte on the line. *)
makelong(data) ==
  [i \in 1..LONG |-> (IF i < LONG THEN 146 ELSE 242)
     + bit(data, 3 * i - 3) + 8 * bit(data, 3 * i - 2) + 64 * bit(data, 3 * i - 1)]
decoded(bytes) ==
  LET b(k) == (bytes[(k \div 3) + 1] \div 8^(k % 3)) % 2
      up(k) == b(k) + 2 * b(k + 1)
  IN  [j \in 1..4 |-> LET k == 8 * (j - 1) IN up(k) + 4 * up(k + 2) + 16 * up(k + 4) + 64 * up(k + 6)]

number(l)  == l[1] + 256 * l[2]     \* programs are small
ram        == [i \in 1..4 * (Len(longs) - 2) |-> longs[(i - 1) \div 4 + 3][((i - 1) % 4) + 1]]
whole      == Len(longs) >= 2 /\ Len(longs) = 2 + number(longs[2])
sum(bytes) ==
  LET s[i \in 0..Len(bytes)] == IF i = 0 THEN 0 ELSE (s[i - 1] + bytes[i]) % 256 IN s[Len(bytes)]
TARGET_CHECKSUM == 20

ChipListen ==
  /\ chip = "listen" /\ Len(toChip) > HandshakeBits
  /\ toChip' = from(toChip, HandshakeBits + 2)
  /\ chip' = IF SubSeq(toChip, 1, HandshakeBits + 1) = magic THEN "answer" ELSE "off"
  /\ answered' = 0
  /\ UNCHANGED <<toHost, longs, garbled, eeprom, faults, disturbed>>

ChipAnswer ==
  /\ chip = "answer" /\ toChip # <<>>
  /\ toChip' = Tail(toChip)
  /\ answered' = answered + 1
  /\ chip' = IF answered' = HandshakeBits + VersionBits THEN "command" ELSE "answer"
  /\ \/ toHost' = Append(toHost, bitbyte(answer(answered))) /\ UNCHANGED <<faults, disturbed>>
     \/ Fault /\ disturbed' = TRUE /\ UNCHANGED toHost
  /\ UNCHANGED <<longs, garbled, eeprom>>

ChipLong ==
  /\ chip = "command" /\ ~whole /\ Len(toChip) >= LONG
  /\ toChip' = from(toChip, LONG + 1)
  /\ longs' = Append(longs, decoded(SubSeq(toChip, 1, LONG)))
  /\ \/ UNCHANGED <<garbled, faults, disturbed>>
     \/ Fault /\ disturbed' = TRUE /\ garbled' = TRUE
  /\ UNCHANGED <<toHost, chip, answered, eeprom>>

(* Command 1 runs the program from RAM, command 2 writes the EEPROM. *)
ChipCheck ==
  /\ chip = "command" /\ whole /\ toChip # <<>>
  /\ toChip' = Tail(toChip)
  /\ LET good == ~garbled /\ sum(ram) = TARGET_CHECKSUM IN
       /\ toHost' = Append(toHost, bitbyte(IF good THEN 0 ELSE 1))
       /\ chip' = IF good /\ number(longs[1]) = 1 THEN "run" ELSE "off"
       /\ eeprom' = IF good /\ number(longs[1]) = 2 THEN ram ELSE eeprom
  /\ UNCHANGED <<answered, longs, garbled, faults, disturbed>>

(* The helper answers when it has started. *)
ProgramStarts ==
  /\ chip = "run"
  /\ chip' = "program"
  /\ toHost' = Append(toHost, ACK)
  /\ UNCHANGED <<toChip, answered, longs, garbled, eeprom, faults, disturbed>>

(* Nobody listens; an echo returns what it gets. *)
Unheard ==
  /\ chip \in {"off", "program"}
  /\ toChip # <<>>
  /\ toChip' = <<>>
  /\ toHost' = IF device = "echo" THEN toHost \o toChip ELSE toHost
  /\ UNCHANGED <<chipVars, faults, disturbed>>

ChipStep ==
  /\ ChipListen \/ ChipAnswer \/ ChipLong \/ ChipCheck \/ ProgramStarts \/ Unheard
  /\ UNCHANGED <<job, bpc, retry, locals, ring>>

(* Bytes of something else: what ran before, or noise. *)
Stray ==
  /\ bpc \in {"drain", "bit", "version", "connect"}
  /\ Fault /\ disturbed' = (disturbed \/ bpc # "drain")
  /\ \E b \in Strays : toHost' = Append(toHost, b)
  /\ UNCHANGED <<job, toChip, chipVars, bpc, retry, locals, ring>>

(* A byte of the program does not arrive. *)
Lost ==
  /\ chip = "command" /\ toChip # <<>>
  /\ Fault /\ disturbed' = TRUE
  /\ toChip' = Tail(toChip) /\ garbled' = TRUE
  /\ UNCHANGED <<job, toHost, chip, answered, longs, eeprom, bpc, retry, locals, ring>>
-----------------------------------------------------------------------------
(* Reading the port, and the ring of the IDE. *)

RXSIZE == RingSize - 1

(* Runs when the IDE waits for a byte. *)
portHandler ==
  LET size == IF rxhead >= rxtail THEN RXSIZE - (rxhead - rxtail) ELSE rxtail - rxhead - 1
      k == IF Len(toHost) < size THEN Len(toHost) ELSE size
  IN  /\ host = "ide" /\ rxhead = rxtail
      /\ bpc \in {"drain", "first", "bit", "resync", "version"}
      /\ toHost # <<>>
      /\ rxqueue' = [i \in 0..RXSIZE |-> IF i \in rxhead..rxhead + k - 1 THEN toHost[i - rxhead + 1] ELSE rxqueue[i]]
      /\ rxhead' = (rxhead + k) % RingSize
      /\ toHost' = from(toHost, k + 1)
      /\ UNCHANGED <<job, toChip, chipVars, bpc, retry, locals, rxtail, faults, disturbed>>

(* The ring moves on by one more with every byte of a call: a call for one *)
(* byte takes it out, one for more loses its place. *)
place(k) == (rxtail + (k * (k + 1)) \div 2) % RingSize
taken_from_ring(size) ==
  CHOOSE k \in 1..size : (k = size \/ place(k) = rxhead) /\ \A j \in 1..k - 1 : place(j) # rxhead

(* rx_timeout: there is something, and up to size bytes are taken. *)
first == IF host = "ide" THEN rxqueue[rxtail] ELSE Head(toHost)
heard(size) ==
  /\ IF host = "ide"
       THEN rxhead # rxtail /\ rxtail' = place(taken_from_ring(size)) /\ UNCHANGED <<toHost, rxqueue, rxhead>>
       ELSE toHost # <<>> /\ toHost' = from(toHost, size + 1) /\ UNCHANGED ring
  /\ UNCHANGED <<faults, disturbed>>

(* It gives up: nothing comes, or what comes is late. *)
Arriving == toHost # <<>> \/ rxhead # rxtail
Responding ==
  \/ chip = "run" \/ (chip = "listen" /\ Len(toChip) > HandshakeBits)
  \/ chip \in {"answer", "off", "program"} /\ toChip # <<>>
  \/ chip = "command" /\ Len(toChip) >= (IF whole THEN 1 ELSE LONG)
rx_gives_up(harm) ==
  /\ UNCHANGED <<toHost, ring>>
  /\ IF Arriving \/ Responding THEN Fault /\ disturbed' = (disturbed \/ harm) ELSE UNCHANGED <<faults, disturbed>>
GotBit(b) == heard(1) /\ b = first % 2
-----------------------------------------------------------------------------
(* hwfind. *)

quiet_line == UNCHANGED <<toHost, ring, faults, disturbed>>

hwreset ==
  /\ bpc \in {"reset", "again"}
  /\ bpc' = IF retry < 0 THEN "failed" ELSE "magic"
  /\ chip' = IF device = "propeller" THEN "listen" ELSE "off"
  /\ answered' = 0 /\ longs' = <<>> /\ garbled' = FALSE
  /\ toChip' = <<>> /\ toHost' = <<>>
  /\ UNCHANGED <<job, eeprom, retry, locals, ring, faults, disturbed>>

(* A write to the port succeeds or fails as a whole; the IDE takes the -1  *)
(* of a failure for success. *)
tx(bytes, then) ==
  \/ toChip' = toChip \o bytes /\ bpc' = then /\ UNCHANGED <<faults, disturbed>>
  \/ Fault /\ disturbed' = TRUE /\ bpc' = (IF host = "ide" THEN then ELSE "failed") /\ UNCHANGED toChip

SendMagic ==
  /\ bpc = "magic"
  /\ LFSR' = lfsr[HandshakeBits]
  /\ tx(magic, "drain")
  /\ UNCHANGED <<job, toHost, chipVars, retry, n, ii, to, rc, version, ring>>

Drain ==
  /\ bpc = "drain"
  /\ \/ bpc' = "drain" /\ heard(Chunk)
     \/ bpc' = "timing" /\ rx_gives_up(Arriving)
  /\ UNCHANGED <<job, toChip, chipVars, retry, locals>>

SendTiming ==
  /\ bpc = "timing"
  /\ tx([k \in 1..HandshakeBits + VersionBits |-> F9], "first")
  /\ UNCHANGED <<job, toHost, chipVars, retry, locals, ring>>

FirstBit ==
  /\ bpc = "first"
  /\ \/ bpc' = "compare" /\ (\E b \in 0..1 : GotBit(b) /\ ii' = b) /\ n' = 1
     \/ bpc' = "failed" /\ rx_gives_up(TRUE) /\ UNCHANGED <<n, ii>>
  /\ UNCHANGED <<job, toChip, chipVars, retry, LFSR, to, rc, version>>

(* A slip: nobody compares what the device answers. *)
any_answer == ii \in 0..1
as_expected == ii = LFSR % 2
Compare ==
  /\ bpc = "compare"
  /\ quiet_line
  /\ \/ n = HandshakeBits /\ bpc' = "version" /\ n' = 0 /\ rc' = 0 /\ UNCHANGED <<LFSR, to>>
     \/ /\ n < HandshakeBits
        /\ LFSR' = iterate(LFSR)
        /\ \/ as_expected /\ bpc' = "bit" /\ to' = 0 /\ UNCHANGED <<n, rc>>
           \/ ~as_expected /\ bpc' = "resync" /\ n' = 0 /\ UNCHANGED <<to, rc>>
  /\ UNCHANGED <<job, toChip, chipVars, retry, ii, version>>

getBit ==
  /\ bpc = "bit"
  /\ \/ bpc' = "compare" /\ (\E b \in 0..1 : GotBit(b) /\ ii' = b) /\ n' = n + 1 /\ UNCHANGED to
     \/ /\ rx_gives_up(FALSE) /\ to' = to + 1 /\ UNCHANGED <<n, ii>>
        /\ bpc' = IF to < BitTries THEN "bit" ELSE "failed"
  /\ UNCHANGED <<job, toChip, chipVars, retry, LFSR, rc, version>>

(* A slip: hwfind(retry--). *)
retries_before == retry
retries_left == retry - 1
(* Stray bytes are read one by one, then all begins again, once. *)
Resync ==
  /\ bpc = "resync"
  /\ \/ n < DrainMax /\ n' = n + 1 /\ heard(1) /\ UNCHANGED <<bpc, retry>>
     \/ n < DrainMax /\ rx_gives_up(FALSE) /\ bpc' = "again" /\ retry' = retries_left /\ UNCHANGED n
     \/ n = DrainMax /\ quiet_line /\ bpc' = "again" /\ retry' = retries_left /\ UNCHANGED n
  /\ UNCHANGED <<job, toChip, chipVars, LFSR, ii, to, rc, version>>

(* Nobody looks whether a bit of the version has come: one that is late is *)
(* what the buffer held. *)
VersionBit ==
  /\ bpc = "version" /\ n < VersionBits
  /\ n' = n + 1
  /\ \E b \in 0..1 :
       /\ GotBit(b) \/ rx_gives_up(TRUE)
       /\ rc' = (rc \div 2) + b * power[VersionBits - 1]
  /\ UNCHANGED <<job, toChip, chipVars, bpc, retry, LFSR, ii, to, version>>

findprop ==
  /\ bpc = "version" /\ n = VersionBits
  /\ version' = rc
  /\ bpc' = IF rc # 0 THEN "found" ELSE "failed"
  /\ quiet_line
  /\ UNCHANGED <<job, toChip, chipVars, retry, LFSR, n, ii, to, rc>>
-----------------------------------------------------------------------------
(* upload. *)

(* The bytes of an int. *)
le(k) == <<k % 256, (k \div 256) % 256, (k \div 65536) % 256, (k \div 16777216) % 256>>
sendlong(data, then) == tx(makelong(data), then)

UploadHeader ==
  /\ host = "loader"
  /\ \/ bpc = "found" /\ sendlong(le(type), "count")
     \/ bpc = "count" /\ sendlong(le(Len(dlbuf) \div 4), "data")
  /\ n' = 0
  /\ UNCHANGED <<job, toHost, chipVars, retry, LFSR, ii, to, rc, version, ring>>

UploadData ==
  /\ bpc = "data"
  /\ \/ n < Len(dlbuf) /\ sendlong(SubSeq(dlbuf, n + 1, n + 4), "data") /\ n' = n + 4
     \/ n >= Len(dlbuf) /\ bpc' = "verify" /\ n' = 0 /\ UNCHANGED <<toChip, faults, disturbed>>
  /\ UNCHANGED <<job, toHost, chipVars, retry, LFSR, ii, to, rc, version, ring>>

(* The answer is asked for again and again; what it says, and whether one  *)
(* came at all, makes no difference to what upload returns. *)
AskForAck ==
  /\ bpc = "verify"
  /\ \/ toChip' = Append(toChip, F9) /\ UNCHANGED <<faults, disturbed>>
     \/ Fault /\ disturbed' = TRUE /\ UNCHANGED toChip
  /\ bpc' = "ack"
  /\ UNCHANGED <<job, toHost, chipVars, retry, locals, ring>>

getAck ==
  /\ bpc = "ack"
  /\ \/ bpc' = "loaded" /\ (\E b \in 0..1 : GotBit(b)) /\ UNCHANGED n
     \/ /\ rx_gives_up(TRUE) /\ n' = n + 1
        /\ bpc' = IF n' < AckTries THEN "verify" ELSE "loaded"
  /\ UNCHANGED <<job, toChip, chipVars, retry, LFSR, ii, to, rc, version>>

BootStep ==
  \/ hwreset \/ SendMagic \/ Drain \/ SendTiming \/ FirstBit \/ Compare \/ getBit \/ Resync
  \/ VersionBit \/ findprop
  \/ UploadHeader \/ UploadData \/ AskForAck \/ getAck \/ portHandler

BootInit ==
  /\ toChip = <<>> /\ toHost = <<>>
  /\ chip = "off" /\ answered = 0 /\ longs = <<>> /\ garbled = FALSE /\ eeprom = <<>>
  /\ bpc = "idle" /\ retry = 1 /\ LFSR = 80 /\ n = 0 /\ ii = 0 /\ to = 0 /\ rc = 0 /\ version = 0
  /\ rxqueue = [i \in 0..RXSIZE |-> 0] /\ rxhead = 0 /\ rxtail = 0
  /\ faults = 0 /\ disturbed = FALSE
=============================================================================
