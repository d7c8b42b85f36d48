---------------------------- MODULE PacketFormat ----------------------------
(***************************************************************************)
(* The frames of the serial load protocol (src/loader/db_packet.c on the   *)
(* host, spin/packet_driver.spin on the Propeller):                        *)
(*                                                                         *)
(*   SOH  pktn  type  len-hi  len-lo  chk   payload ...   crc-hi  crc-lo   *)
(*                                                                         *)
(* Bytes are numbers.  The header checksum is the code's.  The CRC-16 is   *)
(* replaced by another 16-bit register that, like it, tells apart any two  *)
(* payloads that differ in one byte; its table is not modelled.            *)
(***************************************************************************)
EXTENDS Integers, Sequences, SequencesExt

CONSTANT PKTMAXLEN      \* payload bytes a frame holds; 1024 in the code

ASSUME PKTMAXLENAssumption == PKTMAXLEN \in 1..65535

Byte == 0..255

SOH == 1
ACK == 6
NAK == 21

(* Packet types. *)
VM_INIT     == 1
CACHE_INIT  == 2
FLASH_WRITE == 3
RAM_WRITE   == 4
HUB_WRITE   == 5
DATA        == 6
EOF         == 7
RUN         == 8

Packet(t, d) == [type |-> t, data |-> d]

(* One step of the payload check register. *)
updcrc(crc, b) == (3 * crc + b) % 65536

(* The register after the first n bytes of data. *)
crc_after(data, n) ==
  LET register[i \in 0..Len(data)] ==
        IF i = 0 THEN 0 ELSE updcrc(register[i - 1], data[i])
  IN  register[n]

Crc(data) == crc_after(data, Len(data))

(* The frame SendPacket puts on the wire for packet p under number pktn. *)
Frame(pktn, p) ==
  LET hi == Len(p.data) \div 256
      lo == Len(p.data) % 256
  IN  <<SOH, pktn, p.type, hi, lo, (pktn + p.type + hi + lo) % 256>>
        \o p.data
        \o <<Crc(p.data) \div 256, Crc(p.data) % 256>>
=============================================================================
