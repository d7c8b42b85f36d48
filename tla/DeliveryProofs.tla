--------------------------- MODULE DeliveryProofs ---------------------------
(***************************************************************************)
(* A load over a line that delivers what the host sends, while replies may *)
(* be lost or damaged and every wait may time out at any moment: the       *)
(* target takes in the packets of the host, and a reported success is one. *)
(* For every image, packet size, erase block and board.                    *)
(***************************************************************************)
EXTENDS LoadProofs

(* The line fails on the way to the target. *)
OutwardFault == LoseByte \/ DamageByte \/ Burst

OutwardHolds == [][~ OutwardFault]_vars

-----------------------------------------------------------------------------
(* The inductive invariant. *)

(* The last packet sent, and its frame. *)
Sent      == Packets[sent]
SentFrame == Frame(snd_pktn, Sent)
Size      == Len(Sent.data)

(* How many bytes of it the receiver has taken. *)
Consumed ==
  CASE rcv_state = "SOH"    -> 0
    [] rcv_state = "PKTN"   -> 1
    [] rcv_state = "TYPE"   -> 2
    [] rcv_state = "LEN_HI" -> 3
    [] rcv_state = "LEN_LO" -> 4
    [] rcv_state = "CHK"    -> 5
    [] rcv_state = "DATA"   -> 6 + (Size - rcv_cnt)
    [] rcv_state = "CRC_HI" -> 6 + Size
    [] rcv_state = "CRC_LO" -> 7 + Size
    [] OTHER                -> 8 + Size

(* The line holds the frame but its first c bytes.                         *)
Remains(c) ==
  /\ Len(toTarget) = Size + 8 - c
  /\ \A i \in 1..Len(toTarget) : toTarget[i] = SentFrame[c + i]

(* The first n bytes of the payload are in the buffer.                     *)
Buffered(n) == \A i \in 0..n - 1 : buffers[rcv_buf1][i] = Sent.data[i + 1]

(* The sum of the first bytes of the header.                               *)
SumTo(n) ==
  CASE n = 1 -> snd_pktn
    [] n = 2 -> snd_pktn + Sent.type
    [] n = 3 -> snd_pktn + Sent.type + SizeHi(Sent)
    [] OTHER -> snd_pktn + Sent.type + SizeHi(Sent) + SizeLo(Sent)

(* What the registers of the receiver hold of the frame.                   *)
RegistersRight ==
  /\ rcv_state # "REPLY"
  /\ rcv_state = "TYPE"   => rcv_chk = SumTo(1) % 256
  /\ rcv_state = "LEN_HI" => rcv_chk = SumTo(2) % 256
  /\ rcv_state = "LEN_LO" => rcv_chk = SumTo(3) % 256 /\ rcv_length = 256 * SizeHi(Sent)
  /\ rcv_state = "CHK"    => rcv_chk = SumTo(4) % 256
  /\ rcv_state \in {"LEN_HI", "LEN_LO", "CHK", "DATA", "CRC_HI", "CRC_LO", "WAIT"} =>
       rcv_type = Sent.type
  /\ rcv_state \in {"CHK", "DATA", "CRC_HI", "CRC_LO", "WAIT"} => rcv_length = Size
  /\ rcv_state = "DATA" =>
       Buffered(Size - rcv_cnt) /\ crc = crc_after(Sent.data, Size - rcv_cnt)
  /\ rcv_state \in {"CRC_HI", "CRC_LO", "WAIT"} => Buffered(Size)
  /\ rcv_state = "CRC_HI" => crc = Crc(Sent.data)
  /\ rcv_state = "CRC_LO" => crc = CrcLo(Sent)

(* The frame of the last packet sent is being received.                    *)
UnderWay ==
  /\ sent > 0 /\ Len(accepted) = sent - 1
  /\ Remains(Consumed)
  /\ RegistersRight

(* Everything sent has been taken in.                                      *)
Arrived == Len(accepted) = sent /\ toTarget = <<>> /\ rcv_state \in {"SOH", "REPLY"}

(* The answers on their way are no more than what the host has not seen    *)
(* answered, the answer to the reset included.                             *)
Answers == Len(tx) + Len(toHost) + (IF rcv_state = "REPLY" THEN 1 ELSE 0)

Answered ==
  /\ acked <= Len(accepted) /\ sent <= acked + 1
  /\ hstate = "connect" => Answers <= Len(accepted) + 1
  /\ hstate \in {"send", "await"} => Answers <= Len(accepted) - acked
  /\ verdict = "running" => acked = N
  /\ hstate # "exit" => verdict = "none"

(* The helper has handled all but the packet in the mailbox.               *)
Mailed ==
  /\ status # "ERROR" /\ lpc # "reset"
  /\ lpc # "poll" => status = "OK"
  /\ Unhandled =>
       /\ Len(handled) = Len(accepted) - 1
       /\ accepted[Len(accepted)] = Packet(pkt_type, Payload(pkt_buffer, pkt_length))
  /\ ~ Unhandled => Len(handled) = Len(accepted)
  /\ \A i \in 1..Len(accepted) : accepted[i] = Packets[i]
  /\ \A i \in 1..Len(handled) : handled[i] = Packets[i]

DeliveryInv == (UnderWay \/ Arrived) /\ Answered /\ Mailed

-----------------------------------------------------------------------------
(* The frame. *)

LEMMA SentPacket ==
  ASSUME HostTypeOK, sent > 0
  PROVE  /\ Sent \in PacketType /\ Sent.type \in Byte /\ Sent.data \in Seq(Byte)
         /\ Size \in Nat /\ Size <= PKTMAXLEN /\ Size < 65536
         /\ snd_pktn \in Byte
  <1>1. Packets \in Seq(PacketType) /\ N = Len(Packets) /\ sent \in 0..N
    BY JobPackets DEF HostTypeOK, N
  <1>2. sent \in 1..Len(Packets)
    BY <1>1
  <1>3. Sent \in PacketType
    BY <1>1, <1>2 DEF Sent
  <1>4. Sent.type \in Byte /\ Sent.data \in Seq(Byte) /\ Size <= PKTMAXLEN
    BY <1>3 DEF PacketType, Size
  <1>5. Size \in Nat
    BY <1>4 DEF Size
  <1>6. Size < 65536
    BY <1>4, <1>5, PacketSize
  <1>7. snd_pktn \in Byte
    BY DEF HostTypeOK
  <1>8. QED
    BY <1>3, <1>4, <1>5, <1>6, <1>7

LEMMA SentBytes ==
  ASSUME HostTypeOK, sent > 0
  PROVE  /\ SentFrame \in Seq(Byte) /\ Len(SentFrame) = Size + 8
         /\ SentFrame[1] = SOH /\ SentFrame[2] = snd_pktn /\ SentFrame[3] = Sent.type
         /\ SentFrame[4] = SizeHi(Sent) /\ SentFrame[5] = SizeLo(Sent)
         /\ SentFrame[6] = SumTo(4) % 256
         /\ \A i \in 1..Size : SentFrame[6 + i] = Sent.data[i]
         /\ SentFrame[7 + Size] = CrcHi(Sent) /\ SentFrame[8 + Size] = CrcLo(Sent)
  <1>1. SumTo(4) % 256 = Check(snd_pktn, Sent)
    BY DEF SumTo, Check
  <1>2. Sent \in PacketType /\ snd_pktn \in Byte
    BY SentPacket
  <1>3. IsFrame(SentFrame, snd_pktn, Sent)
    BY <1>2, FrameBytes DEF SentFrame
  <1>4. QED
    BY <1>1, <1>3 DEF IsFrame, Size

(* While the host sends nothing, the packet under way stays the same.      *)
LEMMA SameSent ==
  ASSUME UNCHANGED <<job, sent, snd_pktn>>
  PROVE  Sent' = Sent /\ SentFrame' = SentFrame /\ Size' = Size
         /\ \A n : SumTo(n)' = SumTo(n)
  BY SameJob DEF Sent, SentFrame, Size, SumTo

(* The receiver takes the next byte. *)
LEMMA TakesByte ==
  ASSUME LineTypeOK, HostTypeOK, sent > 0, NEW CONSTANT c \in Nat, Remains(c), toTarget # <<>>,
         toTarget' = Tail(toTarget), UNCHANGED <<job, sent, snd_pktn>>
  PROVE  /\ Head(toTarget) = SentFrame[c + 1] /\ Head(toTarget) \in Byte
         /\ c < Size + 8 /\ Remains(c + 1)'
  <1>1. Size \in Nat /\ Size' = Size /\ SentFrame' = SentFrame
    BY SentPacket, SameSent
  <1> DEFINE s == toTarget
             t == Tail(s)
  <1>2. s \in Seq(Byte) /\ s # <<>>
    BY DEF LineTypeOK
  <1>3. Len(s) \in Nat /\ Len(s) > 0
    BY <1>2
  <1>4. t \in Seq(Byte) /\ Len(t) = Len(s) - 1 /\ \A i \in 1..Len(t) : t[i] = s[i + 1]
    BY <1>2
  <1>5. Head(s) = s[1] /\ Head(s) \in Byte
    BY <1>2
  <1> HIDE DEF t
  <1>6. Len(s) = Size + 8 - c /\ \A i \in 1..Len(s) : s[i] = SentFrame[c + i]
    BY DEF Remains
  <1>7. s[1] = SentFrame[c + 1]
    <2>1. 1 \in 1..Len(s)
      BY <1>3
    <2>2. QED
      BY <1>6, <2>1
  <1>8. Len(t) = Size + 8 - (c + 1) /\ c < Size + 8
    BY <1>1, <1>3, <1>4, <1>6
  <1>9. ASSUME NEW i \in 1..Len(t) PROVE t[i] = SentFrame[(c + 1) + i]
    <2>1. i + 1 \in 1..Len(s) /\ c + (i + 1) = (c + 1) + i
      BY <1>3, <1>4
    <2>2. QED
      BY <1>4, <1>6, <2>1
  <1>10. toTarget' = t
    BY DEF t
  <1>11. QED
    BY <1>1, <1>5, <1>7, <1>8, <1>9, <1>10 DEF Remains

LEMMA SumStep ==
  ASSUME NEW a \in Nat, NEW b \in Nat
  PROVE  ((a % 256) + b) % 256 = (a + b) % 256
  OBVIOUS

LEMMA SumsAre ==
  ASSUME HostTypeOK, sent > 0
  PROVE  /\ SumTo(1) = snd_pktn /\ SumTo(2) = SumTo(1) + Sent.type
         /\ SumTo(3) = SumTo(2) + SizeHi(Sent) /\ SumTo(4) = SumTo(3) + SizeLo(Sent)
         /\ SumTo(1) \in Nat /\ SumTo(2) \in Nat /\ SumTo(3) \in Nat
         /\ Sent.type \in Nat /\ SizeHi(Sent) \in Nat /\ SizeLo(Sent) \in Nat
         /\ SumTo(1) % 256 = SumTo(1)
         /\ 256 * SizeHi(Sent) + SizeLo(Sent) = Size
  <1>1. snd_pktn \in Byte /\ Sent.type \in Byte /\ Size \in Nat
    BY SentPacket
  <1>2. snd_pktn \in Nat /\ snd_pktn < 256 /\ Sent.type \in Nat
    BY <1>1 DEF Byte
  <1>3. snd_pktn % 256 = snd_pktn
    BY <1>2
  <1>4. SizeHi(Sent) \in Nat /\ SizeLo(Sent) \in Nat /\ 256 * SizeHi(Sent) + SizeLo(Sent) = Size
    <2>1. Size \div 256 \in Nat /\ Size % 256 \in Nat /\ 256 * (Size \div 256) + (Size % 256) = Size
      BY <1>1
    <2>2. SizeHi(Sent) = Size \div 256 /\ SizeLo(Sent) = Size % 256
      BY DEF SizeHi, SizeLo, Size
    <2>3. QED
      BY <2>1, <2>2
  <1>5. /\ SumTo(1) = snd_pktn /\ SumTo(2) = snd_pktn + Sent.type
        /\ SumTo(3) = (snd_pktn + Sent.type) + SizeHi(Sent)
        /\ SumTo(4) = ((snd_pktn + Sent.type) + SizeHi(Sent)) + SizeLo(Sent)
    BY DEF SumTo
  <1>6. QED
    BY <1>2, <1>3, <1>4, <1>5

-----------------------------------------------------------------------------
(* The receiver. *)

(* Where the receiver is, and how much of the frame it has taken. *)
LEMMA ConsumedIs ==
  /\ rcv_state = "SOH"    => Consumed = 0
  /\ rcv_state = "PKTN"   => Consumed = 1
  /\ rcv_state = "TYPE"   => Consumed = 2
  /\ rcv_state = "LEN_HI" => Consumed = 3
  /\ rcv_state = "LEN_LO" => Consumed = 4
  /\ rcv_state = "CHK"    => Consumed = 5
  /\ rcv_state = "DATA"   => Consumed = 6 + (Size - rcv_cnt)
  /\ rcv_state = "CRC_HI" => Consumed = 6 + Size
  /\ rcv_state = "CRC_LO" => Consumed = 7 + Size
  /\ rcv_state = "WAIT"   => Consumed = 8 + Size
  BY DEF Consumed

(* The header. *)
LEMMA ReceiveHeader ==
  ASSUME TypeOK, UnderWay, NEW CONSTANT b, b \in Byte, b = SentFrame[Consumed + 1],
         dispatch(b), rcv_state \in {"SOH", "PKTN", "TYPE", "LEN_HI", "LEN_LO", "CHK"},
         UNCHANGED <<job, sent, snd_pktn>>
  PROVE  RegistersRight' /\ Consumed' = Consumed + 1 /\ UNCHANGED <<sndbyte, status>>
  <1>1. HostTypeOK /\ sent > 0 /\ DriverTypeOK
    BY DEF TypeOK, UnderWay
  <1>2. /\ SentFrame[1] = SOH /\ SentFrame[2] = snd_pktn /\ SentFrame[3] = Sent.type
        /\ SentFrame[4] = SizeHi(Sent) /\ SentFrame[5] = SizeLo(Sent)
        /\ SentFrame[6] = SumTo(4) % 256
    BY <1>1, SentBytes
  <1>3. /\ Sent' = Sent /\ Size' = Size
        /\ SumTo(1)' = SumTo(1) /\ SumTo(2)' = SumTo(2) /\ SumTo(3)' = SumTo(3)
        /\ SumTo(4)' = SumTo(4)
    BY SameSent
  <1>4. /\ SumTo(1) = snd_pktn /\ SumTo(2) = SumTo(1) + Sent.type
        /\ SumTo(3) = SumTo(2) + SizeHi(Sent) /\ SumTo(4) = SumTo(3) + SizeLo(Sent)
        /\ SumTo(1) \in Nat /\ SumTo(2) \in Nat /\ SumTo(3) \in Nat
        /\ Sent.type \in Nat /\ SizeHi(Sent) \in Nat /\ SizeLo(Sent) \in Nat
        /\ SumTo(1) % 256 = SumTo(1)
        /\ 256 * SizeHi(Sent) + SizeLo(Sent) = Size
    BY <1>1, SumsAre
  <1>5. Size \in Nat /\ Size <= PKTMAXLEN /\ Sent.data \in Seq(Byte)
    BY <1>1, SentPacket
  <1>6. RegistersRight
    BY DEF UnderWay
  <1>7. CASE rcv_state = "SOH"
    <2>1. b = SOH
      BY <1>2, <1>7, ConsumedIs
    <2>2. do_soh(b)
      BY <1>7 DEF dispatch, do_soh, do_pktn, do_type, do_len_hi, do_len_lo, do_chk, do_data,
        do_crc_hi, do_crc_lo
    <2>3. rcv_state' = "PKTN" /\ UNCHANGED <<sndbyte, status>>
      BY <2>1, <2>2 DEF do_soh
    <2>4. Consumed = 0 /\ Consumed' = 1
      BY <1>7, <2>3 DEF Consumed
    <2>5. QED
      BY <2>3, <2>4 DEF RegistersRight
  <1>8. CASE rcv_state = "PKTN"
    <2>1. b = snd_pktn
      BY <1>2, <1>8, ConsumedIs
    <2>2. do_pktn(b)
      BY <1>8 DEF dispatch, do_soh, do_pktn, do_type, do_len_hi, do_len_lo, do_chk, do_data,
        do_crc_hi, do_crc_lo
    <2>3. rcv_state' = "TYPE" /\ rcv_chk' = b /\ UNCHANGED <<sndbyte, status>>
      BY <2>2 DEF do_pktn
    <2>4. Consumed = 1 /\ Consumed' = 2
      BY <1>8, <2>3 DEF Consumed
    <2>5. b = SumTo(1) % 256
      BY <1>4, <2>1, Zenon
    <2>6. QED
      BY <1>3, <2>3, <2>4, <2>5 DEF RegistersRight
  <1>9. CASE rcv_state = "TYPE"
    <2>1. b = Sent.type
      BY <1>2, <1>9, ConsumedIs
    <2>2. do_type(b)
      BY <1>9 DEF dispatch, do_soh, do_pktn, do_type, do_len_hi, do_len_lo, do_chk, do_data,
        do_crc_hi, do_crc_lo
    <2>3. /\ rcv_state' = "LEN_HI" /\ rcv_chk' = (rcv_chk + b) % 256 /\ rcv_type' = b
          /\ UNCHANGED <<sndbyte, status>>
      BY <2>2 DEF do_type
    <2>4. Consumed = 2 /\ Consumed' = 3
      BY <1>9, <2>3 DEF Consumed
    <2>5. rcv_chk = SumTo(1) % 256
      BY <1>6, <1>9 DEF RegistersRight
    <2>6. rcv_chk' = SumTo(2) % 256
      <3>1. rcv_chk' = ((SumTo(1) % 256) + Sent.type) % 256
        BY <2>1, <2>3, <2>5, Zenon
      <3>2. ((SumTo(1) % 256) + Sent.type) % 256 = (SumTo(1) + Sent.type) % 256
        BY <1>4, SumStep, Zenon
      <3>3. SumTo(2) = SumTo(1) + Sent.type
        BY <1>4, Zenon
      <3>4. QED
        BY <3>1, <3>2, <3>3, Zenon
    <2>7. QED
      BY <1>3, <2>1, <2>3, <2>4, <2>6 DEF RegistersRight
  <1>10. CASE rcv_state = "LEN_HI"
    <2>1. b = SizeHi(Sent)
      BY <1>2, <1>10, ConsumedIs
    <2>2. do_len_hi(b)
      BY <1>10 DEF dispatch, do_soh, do_pktn, do_type, do_len_hi, do_len_lo, do_chk, do_data,
        do_crc_hi, do_crc_lo
    <2>3. /\ rcv_state' = "LEN_LO" /\ rcv_chk' = (rcv_chk + b) % 256 /\ rcv_length' = 256 * b
          /\ rcv_type' = rcv_type /\ UNCHANGED <<sndbyte, status>>
      BY <2>2 DEF do_len_hi
    <2>4. Consumed = 3 /\ Consumed' = 4
      BY <1>10, <2>3 DEF Consumed
    <2>5. rcv_chk = SumTo(2) % 256 /\ rcv_type = Sent.type
      BY <1>6, <1>10 DEF RegistersRight
    <2>6. rcv_chk' = SumTo(3) % 256
      <3>1. rcv_chk' = ((SumTo(2) % 256) + SizeHi(Sent)) % 256
        BY <2>1, <2>3, <2>5, Zenon
      <3>2. ((SumTo(2) % 256) + SizeHi(Sent)) % 256 = (SumTo(2) + SizeHi(Sent)) % 256
        <4>1. SumTo(2) \in Nat /\ SizeHi(Sent) \in Nat
          BY <1>4, Zenon
        <4>2. QED
          BY <4>1, SumStep
      <3>3. SumTo(3) = SumTo(2) + SizeHi(Sent)
        BY <1>4, Zenon
      <3>4. QED
        BY <3>1, <3>2, <3>3, Zenon
    <2>7. QED
      BY <1>3, <2>1, <2>3, <2>4, <2>5, <2>6 DEF RegistersRight
  <1>11. CASE rcv_state = "LEN_LO"
    <2>1. b = SizeLo(Sent)
      BY <1>2, <1>11, ConsumedIs
    <2>2. do_len_lo(b)
      BY <1>11 DEF dispatch, do_soh, do_pktn, do_type, do_len_hi, do_len_lo, do_chk, do_data,
        do_crc_hi, do_crc_lo
    <2>3. /\ rcv_state' = "CHK" /\ rcv_chk' = (rcv_chk + b) % 256 /\ rcv_length' = rcv_length + b
          /\ rcv_type' = rcv_type /\ UNCHANGED <<sndbyte, status>>
      BY <2>2 DEF do_len_lo
    <2>4. Consumed = 4 /\ Consumed' = 5
      BY <1>11, <2>3 DEF Consumed
    <2>5. rcv_chk = SumTo(3) % 256 /\ rcv_type = Sent.type /\ rcv_length = 256 * SizeHi(Sent)
      BY <1>6, <1>11 DEF RegistersRight
    <2>6. rcv_chk' = SumTo(4) % 256
      <3>1. rcv_chk' = ((SumTo(3) % 256) + SizeLo(Sent)) % 256
        BY <2>1, <2>3, <2>5, Zenon
      <3>2. ((SumTo(3) % 256) + SizeLo(Sent)) % 256 = (SumTo(3) + SizeLo(Sent)) % 256
        <4>1. SumTo(3) \in Nat /\ SizeLo(Sent) \in Nat
          BY <1>4, Zenon
        <4>2. QED
          BY <4>1, SumStep
      <3>3. SumTo(4) = SumTo(3) + SizeLo(Sent)
        BY <1>4, Zenon
      <3>4. QED
        BY <3>1, <3>2, <3>3, Zenon
    <2>7. rcv_length' = Size
      BY <1>4, <2>1, <2>3, <2>5, Zenon
    <2>8. QED
      BY <1>3, <2>3, <2>4, <2>5, <2>6, <2>7 DEF RegistersRight
  <1>12. CASE rcv_state = "CHK"
    <2>1. b = SumTo(4) % 256
      BY <1>2, <1>12, ConsumedIs
    <2>2. do_chk(b)
      BY <1>12 DEF dispatch, do_soh, do_pktn, do_type, do_len_hi, do_len_lo, do_chk, do_data,
        do_crc_hi, do_crc_lo
    <2>3. rcv_chk = SumTo(4) % 256 /\ rcv_type = Sent.type /\ rcv_length = Size
      BY <1>6, <1>12 DEF RegistersRight
    <2>4. header_ok(b)
      BY <1>5, <2>1, <2>3 DEF header_ok
    <2>5. /\ crc' = 0 /\ rcv_cnt' = Size
          /\ rcv_state' = IF Size = 0 THEN "CRC_HI" ELSE "DATA"
          /\ rcv_type' = rcv_type /\ rcv_length' = rcv_length /\ UNCHANGED <<sndbyte, status>>
      BY <2>2, <2>3, <2>4 DEF do_chk, BeginPayload
    <2>6. crc_after(Sent.data, 0) = 0
      BY <1>5, CrcAfter
    <2>7. Size - rcv_cnt' = 0
      BY <1>5, <2>5
    <2>8. Buffered(0)'
      BY DEF Buffered
    <2>9. Consumed = 5 /\ Consumed' = 6
      <3>1. Consumed' = IF rcv_state' = "DATA" THEN 6 + (Size' - rcv_cnt') ELSE 6 + Size'
        BY <2>5 DEF Consumed
      <3>2. QED
        BY <1>3, <1>5, <1>12, <2>5, <2>7, <3>1, ConsumedIs
    <2>10. CASE Size = 0
      <3>1. rcv_state' = "CRC_HI" /\ crc' = Crc(Sent.data) /\ Buffered(Size)'
        <4>1. Crc(Sent.data) = crc_after(Sent.data, Size)
          BY DEF Crc, Size
        <4>2. QED
          BY <1>3, <2>5, <2>6, <2>8, <2>10, <4>1
      <3>2. QED
        BY <1>3, <2>3, <2>5, <2>9, <3>1 DEF RegistersRight
    <2>11. CASE Size # 0
      <3>1. rcv_state' = "DATA" /\ crc' = crc_after(Sent.data, Size - rcv_cnt')
            /\ Buffered(Size - rcv_cnt)'
        BY <1>3, <2>5, <2>6, <2>7, <2>8, <2>11
      <3>2. QED
        BY <1>3, <2>3, <2>5, <2>9, <3>1 DEF RegistersRight
    <2>12. QED
      BY <2>10, <2>11
  <1>13. QED
    BY <1>7, <1>8, <1>9, <1>10, <1>11, <1>12

(* The payload. *)
LEMMA ReceiveData ==
  ASSUME TypeOK, UnderWay, NEW CONSTANT b, b \in Byte, b = SentFrame[Consumed + 1],
         dispatch(b), rcv_state = "DATA", UNCHANGED <<job, sent, snd_pktn, rcv_buf1>>
  PROVE  RegistersRight' /\ Consumed' = Consumed + 1 /\ UNCHANGED <<sndbyte, status>>
  <1> DEFINE c == rcv_cnt
  <1> PICK m : m = Size - c
    OBVIOUS
  <1>1. HostTypeOK /\ sent > 0 /\ DriverTypeOK /\ RegistersRight
    BY DEF TypeOK, UnderWay
  <1>2. \A i \in 1..Size : SentFrame[6 + i] = Sent.data[i]
    BY <1>1, SentBytes
  <1>3. Sent' = Sent /\ Size' = Size
    BY SameSent
  <1>4. Size \in Nat /\ Size <= PKTMAXLEN /\ Sent.data \in Seq(Byte) /\ Size = Len(Sent.data)
    BY <1>1, SentPacket DEF Size
  <1>5. rcv_length = Size /\ rcv_type = Sent.type
        /\ Buffered(m) /\ crc = crc_after(Sent.data, m)
    BY <1>1 DEF RegistersRight
  <1>6. c \in 1..Size
    BY <1>1, <1>5 DEF DriverTypeOK, LengthFits
  <1>7. Consumed = 6 + m
    BY ConsumedIs
  <1>8. do_data(b)
    BY DEF dispatch, do_soh, do_pktn, do_type, do_len_hi, do_len_lo, do_chk, do_data,
      do_crc_hi, do_crc_lo
  <1>9. /\ crc' = updcrc(crc, b)
        /\ buffers' = [buffers EXCEPT ![rcv_buf1][rcv_length - rcv_cnt] = b]
        /\ rcv_cnt' = rcv_cnt - 1
        /\ rcv_state' = IF rcv_cnt = 1 THEN "CRC_HI" ELSE "DATA"
        /\ rcv_type' = rcv_type /\ rcv_length' = rcv_length /\ UNCHANGED <<sndbyte, status>>
    BY <1>8 DEF do_data
  <1>10. rcv_buf1' = rcv_buf1 /\ rcv_buf1 \in 0..1
         /\ buffers \in [0..1 -> [0..PKTMAXLEN - 1 -> Byte]]
    BY <1>1 DEF DriverTypeOK
  <1>11. m \in 0..Size - 1 /\ m + 1 \in 1..Size /\ m = Size - c
         /\ m \in 0..PKTMAXLEN - 1 /\ (6 + m) + 1 = 6 + (m + 1)
    BY <1>4, <1>6, PacketSize
  <1>12. b = Sent.data[m + 1]
    BY <1>2, <1>7, <1>11
  <1>13. crc' = crc_after(Sent.data, m + 1)
    <2>1. crc_after(Sent.data, m + 1) = updcrc(crc_after(Sent.data, m), Sent.data[m + 1])
      BY <1>4, <1>11, CrcAfter
    <2>2. QED
      BY <1>5, <1>9, <1>12, <2>1, Zenon
  <1>14. Buffered(m + 1)'
    <2>1. rcv_length - rcv_cnt = m
      BY <1>5, <1>11
    <2>2. buffers'[rcv_buf1] = [buffers[rcv_buf1] EXCEPT ![m] = b]
      BY <1>9, <1>10, <2>1
    <2>3. ASSUME NEW i \in 0..m
          PROVE  buffers'[rcv_buf1][i] = Sent.data[i + 1]
      <3>1. i \in 0..PKTMAXLEN - 1 /\ buffers[rcv_buf1] \in [0..PKTMAXLEN - 1 -> Byte]
        <4>1. m \in Nat /\ m <= PKTMAXLEN - 1 /\ PKTMAXLEN \in Nat
          BY <1>11, PacketSize
        <4>2. QED
          BY <1>10, <4>1
      <3>2. CASE i = m
        BY <1>12, <2>2, <3>1, <3>2
      <3>3. CASE i # m
        <4>1. i \in 0..m - 1
          BY <1>11, <3>3
        <4>2. buffers[rcv_buf1][i] = Sent.data[i + 1]
          BY <1>5, <4>1 DEF Buffered
        <4>3. QED
          BY <2>2, <3>1, <3>3, <4>2
      <3>4. QED
        BY <3>2, <3>3
    <2>4. (m + 1) - 1 = m
      BY <1>11
    <2>5. QED
      BY <1>3, <1>10, <2>3, <2>4, Zenon DEF Buffered
  <1>15. CASE c = 1
    <2>1. rcv_state' = "CRC_HI" /\ m + 1 = Size
      BY <1>4, <1>9, <1>11, <1>15
    <2>2. Consumed' = 6 + Size
      BY <1>3, <2>1 DEF Consumed
    <2>3. Consumed' = Consumed + 1
      BY <1>4, <1>7, <1>11, <2>1, <2>2
    <2>4. crc' = Crc(Sent.data) /\ Buffered(Size)'
      BY <1>4, <1>13, <1>14, <1>3, <2>1 DEF Crc
    <2>5. QED
      BY <1>3, <1>5, <1>9, <2>1, <2>3, <2>4 DEF RegistersRight
  <1>16. CASE c # 1
    <2>1. rcv_state' = "DATA" /\ Size - rcv_cnt' = m + 1
      BY <1>4, <1>6, <1>9, <1>11, <1>16
    <2>2. Consumed' = 6 + (m + 1)
      BY <1>3, <2>1 DEF Consumed
    <2>3. Consumed' = Consumed + 1
      BY <1>7, <1>11, <2>2
    <2>4. QED
      BY <1>3, <1>5, <1>9, <1>13, <1>14, <2>1, <2>3 DEF RegistersRight
  <1>17. QED
    BY <1>15, <1>16

(* The check bytes. *)
LEMMA ReceiveCrc ==
  ASSUME TypeOK, UnderWay, NEW CONSTANT b, b \in Byte, b = SentFrame[Consumed + 1],
         dispatch(b), rcv_state \in {"CRC_HI", "CRC_LO"},
         UNCHANGED <<job, sent, snd_pktn, rcv_buf1>>
  PROVE  RegistersRight' /\ Consumed' = Consumed + 1 /\ UNCHANGED <<sndbyte, status>>
  <1>1. HostTypeOK /\ sent > 0 /\ RegistersRight
    BY DEF TypeOK, UnderWay
  <1>2. SentFrame[7 + Size] = CrcHi(Sent) /\ SentFrame[8 + Size] = CrcLo(Sent)
    BY <1>1, SentBytes
  <1>3. Sent' = Sent /\ Size' = Size
    BY SameSent
  <1>4. Size \in Nat /\ Sent.data \in Seq(Byte)
    BY <1>1, SentPacket
  <1>5. rcv_length = Size /\ rcv_type = Sent.type /\ Buffered(Size)
    BY <1>1 DEF RegistersRight
  <1>6. CASE rcv_state = "CRC_HI"
    <2>1. b = CrcHi(Sent)
      <3>1. Consumed + 1 = 7 + Size
        BY <1>4, <1>6, ConsumedIs
      <3>2. QED
        BY <1>2, <3>1
    <2>2. do_crc_hi(b)
      BY <1>6 DEF dispatch, do_soh, do_pktn, do_type, do_len_hi, do_len_lo, do_chk, do_data,
        do_crc_hi, do_crc_lo
    <2>3. /\ crc' = crc - 256 * b /\ rcv_state' = "CRC_LO"
          /\ UNCHANGED <<rcv_type, rcv_length, buffers, sndbyte, status>>
      BY <2>2 DEF do_crc_hi
    <2>4. crc' = CrcLo(Sent)
      <3>1. crc = Crc(Sent.data)
        BY <1>1, <1>6 DEF RegistersRight
      <3>2. Crc(Sent.data) \in Nat
        <4>1. crc_after(Sent.data, Len(Sent.data)) \in Crc16
          BY <1>4, CrcRange DEF Size
        <4>2. QED
          BY <4>1 DEF Crc, Crc16
      <3>3. PICK x \in Nat : x = Crc(Sent.data)
        BY <3>2
      <3>4. x - 256 * (x \div 256) = x % 256
        OBVIOUS
      <3>5. CrcHi(Sent) = x \div 256 /\ CrcLo(Sent) = x % 256
        BY <3>3 DEF CrcHi, CrcLo
      <3>6. QED
        BY <2>1, <2>3, <3>1, <3>3, <3>4, <3>5
    <2>5. Buffered(Size)'
      BY <1>3, <1>5, <2>3 DEF Buffered
    <2>6. Consumed' = 7 + Size
      BY <1>3, <2>3 DEF Consumed
    <2>7. Consumed' = Consumed + 1
      BY <1>4, <1>6, <2>6, ConsumedIs
    <2>8. QED
      BY <1>3, <1>5, <2>3, <2>4, <2>5, <2>7 DEF RegistersRight
  <1>7. CASE rcv_state = "CRC_LO"
    <2>1. b = CrcLo(Sent)
      <3>1. Consumed + 1 = 8 + Size
        BY <1>4, <1>7, ConsumedIs
      <3>2. QED
        BY <1>2, <3>1
    <2>2. do_crc_lo(b)
      BY <1>7 DEF dispatch, do_soh, do_pktn, do_type, do_len_hi, do_len_lo, do_chk, do_data,
        do_crc_hi, do_crc_lo
    <2>3. payload_ok(b)
      BY <1>1, <1>7, <2>1 DEF payload_ok, RegistersRight
    <2>4. rcv_state' = "WAIT" /\ UNCHANGED <<rcv_type, rcv_length, buffers, sndbyte, status>>
      BY <2>2, <2>3 DEF do_crc_lo
    <2>5. Buffered(Size)'
      BY <1>3, <1>5, <2>4 DEF Buffered
    <2>6. Consumed' = 8 + Size
      BY <1>3, <2>4 DEF Consumed
    <2>7. Consumed' = Consumed + 1
      BY <1>4, <1>7, <2>6, ConsumedIs
    <2>8. QED
      BY <1>3, <1>5, <2>4, <2>5, <2>7 DEF RegistersRight
  <1>8. QED
    BY <1>6, <1>7

-----------------------------------------------------------------------------
(* Where the packet is. *)

(* A receiver that waits has nothing on the line in front of it.           *)
LEMMA WaitsAtTheEnd ==
  ASSUME TypeOK, UnderWay \/ Arrived, rcv_state \notin ListenStates
  PROVE  /\ toTarget = <<>>
         /\ UnderWay => rcv_state = "WAIT" /\ Packet(rcv_type, Payload(rcv_buf1, rcv_length)) = Sent
         /\ Arrived => rcv_state = "REPLY"
  <1>1. rcv_state \in {"WAIT", "REPLY"} /\ "SOH" \in ListenStates /\ "WAIT" # "SOH"
        /\ "WAIT" # "REPLY"
    BY DEF TypeOK, DriverTypeOK, RcvStates, ListenStates
  <1>2. Arrived => toTarget = <<>> /\ rcv_state = "REPLY"
    BY <1>1 DEF Arrived
  <1>3. ASSUME UnderWay
        PROVE  /\ rcv_state = "WAIT" /\ toTarget = <<>>
               /\ Packet(rcv_type, Payload(rcv_buf1, rcv_length)) = Sent
    <2>1. rcv_state = "WAIT"
      BY <1>1, <1>3 DEF UnderWay, RegistersRight
    <2>2. HostTypeOK /\ sent > 0 /\ toTarget \in Seq(Byte) /\ DriverTypeOK
      BY <1>3 DEF TypeOK, UnderWay, LineTypeOK
    <2>3. Sent \in PacketType /\ Size \in Nat /\ Size <= PKTMAXLEN /\ Sent.data \in Seq(Byte)
          /\ Size = Len(Sent.data)
      BY <2>2, SentPacket DEF Size
    <2>4. Len(toTarget) = Size + 8 - (8 + Size)
      BY <1>3, <2>1, ConsumedIs DEF UnderWay, Remains
    <2>5. toTarget = <<>>
      <3>1. Len(toTarget) = 0
        BY <2>3, <2>4
      <3>2. QED
        BY <2>2, <3>1
    <2>6. rcv_type = Sent.type /\ rcv_length = Size /\ Buffered(Size)
      BY <1>3, <2>1 DEF UnderWay, RegistersRight
    <2>7. Payload(rcv_buf1, rcv_length) = Sent.data
      <3> DEFINE d == Payload(rcv_buf1, Size)
                 g == Sent.data
      <3>1. Size \in Count /\ rcv_buf1 \in 0..1
        BY <2>2, <2>3, PacketSize DEF Count, DriverTypeOK
      <3>2. d \in Seq(Byte) /\ Len(d) = Size /\ \A i \in 1..Size : d[i] = buffers[rcv_buf1][i - 1]
        BY <2>2, <3>1, PayloadIs
      <3> HIDE DEF d
      <3>3. ASSUME NEW i \in 1..Size PROVE d[i] = g[i]
        <4>1. i - 1 \in 0..Size - 1 /\ (i - 1) + 1 = i
          BY <2>3
        <4>2. buffers[rcv_buf1][i - 1] = g[(i - 1) + 1]
          BY <2>6, <4>1 DEF Buffered
        <4>3. QED
          BY <3>2, <4>1, <4>2
      <3>4. g \in Seq(Byte) /\ Len(g) = Len(d)
        BY <2>3, <3>2
      <3> HIDE DEF g
      <3>5. d = g
        BY <2>3, <3>2, <3>3, <3>4
      <3>6. QED
        BY <2>6, <3>5 DEF d, g
    <2>8. Sent = Packet(Sent.type, Sent.data)
      BY <2>3 DEF PacketType, Packet
    <2>9. QED
      BY <2>1, <2>5, <2>6, <2>7, <2>8
  <1>4. QED
    BY <1>2, <1>3

LEMMA ReceiveUnderWay ==
  ASSUME TypeOK, UnderWay \/ Arrived, receive, UNCHANGED hostVars
  PROVE  UnderWay' /\ rcv_state # "REPLY" /\ rcv_state' # "REPLY" /\ UNCHANGED status
  <1>1. /\ toTarget # <<>> /\ toTarget' = Tail(toTarget) /\ dispatch(Head(toTarget))
        /\ rcv_buf1' = rcv_buf1 /\ accepted' = accepted /\ rcv_state \in ListenStates
    BY DEF receive, Receiving
  <1>2. UNCHANGED <<job, sent, snd_pktn>>
    BY DEF hostVars
  <1>3. UnderWay
    BY <1>1 DEF Arrived
  <1>4. LineTypeOK /\ HostTypeOK /\ sent > 0 /\ DriverTypeOK /\ Remains(Consumed)
    BY <1>3 DEF TypeOK, UnderWay
  <1>5. rcv_state \in {"SOH", "PKTN", "TYPE", "LEN_HI", "LEN_LO", "CHK"}
        \/ rcv_state = "DATA" \/ rcv_state \in {"CRC_HI", "CRC_LO"}
    BY <1>1 DEF ListenStates
  <1>6. Consumed \in Nat
    <2>1. Size \in Nat
      BY <1>4, SentPacket
    <2>2. ASSUME rcv_state = "DATA" PROVE Size - rcv_cnt \in Nat
      <3>1. rcv_cnt \in 1..rcv_length /\ rcv_length = Size
        BY <1>3, <1>4, <2>2 DEF DriverTypeOK, LengthFits, UnderWay, RegistersRight
      <3>2. QED
        BY <2>1, <3>1
    <2>3. CASE rcv_state = "DATA"
      BY <2>2, <2>3, ConsumedIs
    <2>4. CASE rcv_state # "DATA"
      BY <1>5, <2>1, <2>4, ConsumedIs
    <2>5. QED
      BY <2>3, <2>4
  <1>7. PICK c : c = Consumed
    OBVIOUS
  <1>8. Head(toTarget) = SentFrame[c + 1] /\ Head(toTarget) \in Byte /\ Remains(c + 1)'
    BY <1>1, <1>2, <1>4, <1>6, <1>7, TakesByte
  <1>9. PICK b : b = Head(toTarget)
    OBVIOUS
  <1>10. RegistersRight' /\ Consumed' = Consumed + 1 /\ UNCHANGED status
    BY <1>1, <1>2, <1>3, <1>5, <1>7, <1>8, <1>9, ReceiveHeader, ReceiveData, ReceiveCrc
  <1>11. Consumed' = c + 1
    BY <1>7, <1>10
  <1>12. Remains(Consumed)'
    BY <1>8, <1>11 DEF Remains
  <1>13. sent' > 0 /\ Len(accepted)' = sent' - 1
    BY <1>1, <1>2, <1>3 DEF UnderWay
  <1>14. rcv_state # "REPLY" /\ rcv_state' # "REPLY"
    BY <1>3, <1>10 DEF UnderWay, RegistersRight
  <1>15. QED
    BY <1>10, <1>12, <1>13, <1>14 DEF UnderWay

(* Steps that leave the line to the target and the receiver alone.         *)
LEMMA PositionStays ==
  ASSUME UnderWay \/ Arrived,
         UNCHANGED <<job, sent, snd_pktn, accepted, toTarget, rcv_state, headerVars, rcv_buf1, buffers>>
  PROVE  (UnderWay \/ Arrived)'
  <1>1. Sent' = Sent /\ SentFrame' = SentFrame /\ Size' = Size /\ \A n : SumTo(n)' = SumTo(n)
    BY SameSent
  <1>2. /\ rcv_chk' = rcv_chk /\ rcv_type' = rcv_type /\ rcv_length' = rcv_length
        /\ rcv_cnt' = rcv_cnt /\ crc' = crc
    BY DEF headerVars
  <1>3. CASE Arrived
    BY <1>3 DEF Arrived
  <1>4. CASE UnderWay
    <2>1. Consumed' = Consumed
      BY <1>1, <1>2 DEF Consumed
    <2>2. Remains(Consumed)'
      BY <1>1, <1>4, <2>1 DEF Remains, UnderWay
    <2>3. \A n : Buffered(n)' <=> Buffered(n)
      BY <1>1 DEF Buffered
    <2>4. RegistersRight'
      BY <1>1, <1>2, <1>4, <2>3 DEF RegistersRight, UnderWay, Buffered
    <2>5. QED
      BY <1>4, <2>2, <2>4 DEF UnderWay
  <1>5. QED
    BY <1>3, <1>4

(* The host sends a packet only when the target is looking for a frame.    *)
LEMMA SendFrom ==
  ASSUME TypeInv, HistoryInv, UnderWay \/ Arrived, Answered, hstate = "send"
  PROVE  Arrived /\ rcv_state = "SOH" /\ Len(accepted) = sent /\ sent = acked /\ acked < N
  <1>1. sent = acked /\ acked < N
    BY DEF TypeInv, HostInStep
  <1>2. sent \in Nat /\ acked \in Nat /\ Len(accepted) \in Nat
    BY JobPackets DEF TypeInv, TypeOK, HostTypeOK, HistoryInv
  <1>3. ~ UnderWay
    BY <1>1, <1>2 DEF UnderWay, Answered
  <1>4. Arrived
    BY <1>3
  <1>5. Answers <= Len(accepted) - acked
    BY DEF Answered
  <1>6. Len(tx) \in Nat /\ Len(toHost) \in Nat
    BY DEF TypeInv, TypeOK, LineTypeOK, DriverTypeOK, ReplyTypeOK
  <1>7. Len(accepted) - acked = 0
    BY <1>1, <1>2, <1>4 DEF Arrived
  <1>8. rcv_state # "REPLY"
    BY <1>5, <1>6, <1>7 DEF Answers
  <1>9. QED
    BY <1>1, <1>4, <1>8 DEF Arrived

LEMMA SendUnderWay ==
  ASSUME TypeInv, TypeOK', HistoryInv, UnderWay \/ Arrived, Answered, SendPacket
  PROVE  UnderWay'
  <1>1. Arrived /\ rcv_state = "SOH" /\ Len(accepted) = sent /\ acked < N /\ toTarget = <<>>
    BY SendFrom DEF SendPacket, Arrived
  <1>2. /\ sent' = sent + 1 /\ toTarget' = toTarget \o Frame(snd_pktn', Packets[sent'])
        /\ UNCHANGED <<job, driverVars>>
    BY DEF SendPacket
  <1>3. rcv_state' = "SOH" /\ accepted' = accepted
    BY <1>1, <1>2 DEF driverVars
  <1>4. Packets' = Packets
    BY <1>2, SameJob
  <1>5. sent \in Nat /\ sent + 1 \in 1..N /\ N = Len(Packets) /\ Packets \in Seq(PacketType)
    <2>1. sent \in Nat /\ N \in Nat
      BY JobPackets DEF TypeInv, TypeOK, HostTypeOK
    <2>2. sent = acked
      BY SendFrom DEF SendPacket
    <2>3. QED
      BY <1>1, <2>1, <2>2, JobPackets DEF N, TypeInv, TypeOK, HostTypeOK
  <1>6. PICK n : n = snd_pktn'
    OBVIOUS
  <1>7. PICK p : p = Packets[sent + 1]
    OBVIOUS
  <1>8. n \in Byte /\ p \in PacketType
    BY <1>5, <1>6, <1>7 DEF TypeOK, HostTypeOK
  <1>9. PICK F : F = Frame(n, p)
    OBVIOUS
  <1>10. F \in Seq(Byte) /\ Len(F) = Len(p.data) + 8
    BY <1>8, <1>9, FrameBytes DEF IsFrame
  <1>11. Sent' = p /\ SentFrame' = F /\ Size' = Len(p.data)
    BY <1>2, <1>4, <1>6, <1>7, <1>9 DEF Sent, SentFrame, Size
  <1>12. toTarget' = F
    <2>1. toTarget' = <<>> \o F
      BY <1>1, <1>2, <1>6, <1>7, <1>9
    <2>2. QED
      BY <1>10, <2>1
  <1>13. Remains(0)'
    <2>1. Len(F) = Len(p.data) + 8 - 0 /\ \A i \in 1..Len(F) : F[i] = F[0 + i]
      <3>1. Len(p.data) \in Nat
        BY <1>8 DEF PacketType
      <3>2. QED
        BY <1>10, <3>1
    <2>2. QED
      BY <1>11, <1>12, <2>1, Zenon DEF Remains
  <1>14. Consumed' = 0 /\ RegistersRight'
    BY <1>3 DEF Consumed, RegistersRight
  <1>15. Remains(Consumed)'
    BY <1>13, <1>14 DEF Remains
  <1>16. sent' > 0 /\ Len(accepted)' = sent' - 1
    BY <1>1, <1>2, <1>3, <1>5
  <1>17. QED
    BY <1>14, <1>15, <1>16 DEF UnderWay

LEMMA PublishArrives ==
  ASSUME TypeOK, HistoryInv, UnderWay \/ Arrived, publish, UNCHANGED hostVars
  PROVE  /\ UnderWay /\ Arrived' /\ accepted' = Append(accepted, Packets[sent])
         /\ rcv_state = "WAIT" /\ rcv_state' = "REPLY" /\ Len(accepted') = Len(accepted) + 1
  <1>1. /\ rcv_state = "WAIT" /\ rcv_state' = "REPLY"
        /\ accepted' = Append(accepted, Packet(rcv_type, Payload(rcv_buf1, rcv_length)))
        /\ UNCHANGED lineVars
    BY DEF publish
  <1>2. UnderWay
    BY <1>1 DEF Arrived
  <1>3. toTarget = <<>> /\ Packet(rcv_type, Payload(rcv_buf1, rcv_length)) = Sent
    BY <1>1, <1>2, WaitsAtTheEnd DEF ListenStates
  <1>4. toTarget' = <<>> /\ sent' = sent
    BY <1>1, <1>3 DEF lineVars, hostVars
  <1>5. accepted \in Seq(PacketType) /\ sent \in Nat /\ Len(accepted) = sent - 1
    BY <1>2, JobPackets DEF HistoryInv, TypeOK, HostTypeOK, UnderWay
  <1>6. Packet(rcv_type, Payload(rcv_buf1, rcv_length)) \in PacketType
    BY <1>1, PublishedPacket DEF TypeOK
  <1>7. Len(accepted') = Len(accepted) + 1
    BY <1>1, <1>5, <1>6, Grown
  <1>8. Len(accepted)' = sent'
    BY <1>4, <1>5, <1>7
  <1>9. QED
    BY <1>1, <1>2, <1>3, <1>4, <1>7, <1>8 DEF Arrived, Sent

LEMMA CannotMiss ==
  ASSUME TypeOK, UnderWay \/ Arrived, MissByte
  PROVE  FALSE
  BY WaitsAtTheEnd DEF MissByte, Receiving

(* The steps of a line that delivers what the host sends.                  *)
HoldingStep ==
  \/ /\ receive \/ MissByte \/ publish \/ send_byte \/ transmit \/ LoseReply \/ DamageReply
     /\ UNCHANGED <<helperVars, hostVars>>
  \/ WaitForInitialAck \/ SendPacket \/ WaitForAckNak \/ Timeout
  \/ HelperStepButStop /\ UNCHANGED hostVars
  \/ stop_driver
  \/ UNCHANGED vars

LEMMA HoldingSteps ==
  ASSUME [Next]_vars, [~ OutwardFault]_vars \/ calm
  PROVE  HoldingStep
  <1>1. CASE ~ calm /\ LineFault /\ UNCHANGED <<helperVars, hostVars>>
    BY <1>1 DEF LineFault, OutwardFault, HoldingStep
  <1>2. CASE DriverStep /\ UNCHANGED <<helperVars, hostVars>>
    BY <1>2 DEF DriverStep, HoldingStep
  <1>3. CASE HostStep
    BY <1>3 DEF HostStep, HoldingStep
  <1>4. CASE HelperStep
    BY <1>4 DEF HelperStep, HoldingStep
  <1>5. CASE stop_driver \/ UNCHANGED vars
    BY <1>5 DEF HoldingStep
  <1>6. QED
    BY <1>1, <1>2, <1>3, <1>4, <1>5 DEF Next, Finished

(* What the helper does leaves the receiver alone.                         *)
LEMMA HelperLeaves ==
  ASSUME HelperStepButStop
  PROVE  UNCHANGED <<lineVars, cog, rcv_state, headerVars, rcv_buf1, buffers, sndbyte, tx,
                     mailbox, accepted>>
  BY DEF HelperStepButStop, poll_status, check_status, reset_status, fetch_packet, handle,
    release_packet, run_program, SetPending, driverVars

LEMMA PositionNext ==
  ASSUME TypeInv, TypeOK', HistoryInv, UnderWay \/ Arrived, Answered, HoldingStep
  PROVE  (UnderWay \/ Arrived)'
  <1>1. TypeOK
    BY DEF TypeInv
  <1>2. CASE receive /\ UNCHANGED <<helperVars, hostVars>>
    BY <1>1, <1>2, ReceiveUnderWay
  <1>3. CASE MissByte
    BY <1>1, <1>3, CannotMiss
  <1>4. CASE publish /\ UNCHANGED <<helperVars, hostVars>>
    BY <1>1, <1>4, PublishArrives
  <1>5. CASE send_byte /\ UNCHANGED <<helperVars, hostVars>>
    <2>1. /\ rcv_state = "REPLY" /\ rcv_state' = "SOH" /\ accepted' = accepted
          /\ toTarget' = toTarget /\ sent' = sent
      BY <1>5 DEF send_byte, lineVars, hostVars
    <2>2. Arrived
      BY <2>1 DEF UnderWay, RegistersRight
    <2>3. QED
      BY <2>1, <2>2 DEF Arrived
  <1>6. CASE /\ transmit \/ LoseReply \/ DamageReply
             /\ UNCHANGED <<helperVars, hostVars>>
    BY <1>6, PositionStays DEF transmit, LoseReply, DamageReply, driverVars, hostVars
  <1>7. CASE SendPacket
    BY <1>7, SendUnderWay
  <1>8. CASE WaitForInitialAck \/ WaitForAckNak \/ Timeout
    <2>1. UNCHANGED <<toTarget, driverVars, job, sent, snd_pktn>>
      BY <1>8 DEF WaitForInitialAck, WaitForAckNak, Timeout, GiveUp, lineVars
    <2>2. QED
      BY <2>1, PositionStays DEF driverVars
  <1>9. CASE HelperStepButStop /\ UNCHANGED hostVars
    BY <1>9, HelperLeaves, PositionStays DEF lineVars, hostVars
  <1>10. CASE stop_driver
    BY <1>10, PositionStays DEF stop_driver, stop, lineVars, hostVars
  <1>11. CASE UNCHANGED vars
    BY <1>11, PositionStays DEF vars, lineVars, driverVars, hostVars
  <1>12. QED
    BY <1>2, <1>3, <1>4, <1>5, <1>6, <1>7, <1>8, <1>9, <1>10, <1>11 DEF HoldingStep

-----------------------------------------------------------------------------
(* The answers. *)

LEMMA Lengths ==
  ASSUME TypeInv, HistoryInv
  PROVE  /\ Len(tx) \in Nat /\ Len(toHost) \in Nat /\ Len(accepted) \in Nat
         /\ sent \in Nat /\ acked \in Nat /\ N \in Nat /\ Answers \in Nat
  <1>1. Len(tx) \in Nat /\ Len(toHost) \in Nat /\ Len(accepted) \in Nat
    BY DEF TypeInv, TypeOK, LineTypeOK, DriverTypeOK, ReplyTypeOK, HistoryInv
  <1>2. sent \in Nat /\ acked \in Nat /\ N \in Nat
    BY JobPackets DEF TypeInv, TypeOK, HostTypeOK
  <1>3. Answers \in Nat
    BY <1>1 DEF Answers
  <1>4. QED
    BY <1>1, <1>2, <1>3

(* Steps after which there are no more answers on their way.               *)
LEMMA AnswersFall ==
  ASSUME TypeInv, HistoryInv, Answered, Answers' \in Nat, Answers' <= Answers,
         UNCHANGED <<job, hstate, sent, acked, verdict, accepted>>
  PROVE  Answered'
  <1>1. Len(accepted) \in Nat /\ acked \in Nat /\ Answers \in Nat
    BY Lengths
  <1>2. N' = N
    BY SameJob
  <1>3. hstate = "connect" => Answers' <= Len(accepted) + 1
    BY <1>1 DEF Answered
  <1>4. hstate \in {"send", "await"} => Answers' <= Len(accepted) - acked
    BY <1>1 DEF Answered
  <1>5. QED
    BY <1>2, <1>3, <1>4 DEF Answered

LEMMA ReplyTaken ==
  ASSUME TypeInv, HistoryInv, TakeReply, UNCHANGED driverVars
  PROVE  Answers' = Answers - 1 /\ Answers' \in Nat
  <1>1. toHost \in Seq(Byte) /\ toHost # <<>> /\ toHost' = Tail(toHost)
        /\ tx' = tx /\ rcv_state' = rcv_state
    BY DEF TypeInv, TypeOK, LineTypeOK, TakeReply, driverVars
  <1>2. Len(toHost') = Len(toHost) - 1 /\ Len(toHost') \in Nat
    BY <1>1, HeadTail
  <1>3. Len(tx) \in Nat /\ Len(toHost) \in Nat
    BY Lengths
  <1>4. QED
    BY <1>1, <1>2, <1>3 DEF Answers

(* The host gives up. *)
LEMMA GivesUp ==
  ASSUME Answered, GiveUp, accepted' = accepted
  PROVE  Answered'
  <1>1. /\ hstate' = "exit" /\ verdict' # "running" /\ UNCHANGED <<job, sent, acked>>
    BY DEF GiveUp
  <1>2. N' = N
    BY <1>1, SameJob
  <1>3. QED
    BY <1>1, <1>2 DEF Answered

LEMMA HostAnswered ==
  ASSUME TypeInv, HistoryInv, UnderWay \/ Arrived, Answered, HostStep
  PROVE  Answered'
  <1>1. accepted' = accepted
    BY DEF HostStep, WaitForInitialAck, SendPacket, WaitForAckNak, Timeout, driverVars
  <1>2. /\ Len(accepted) \in Nat /\ sent \in Nat /\ acked \in Nat /\ N \in Nat
        /\ Answers \in Nat
    BY Lengths
  <1>3. acked <= Len(accepted) /\ sent <= acked + 1 /\ (hstate # "exit" => verdict = "none")
    BY DEF Answered
  <1>4. CASE GiveUp
    BY <1>1, <1>4, GivesUp
  <1>5. CASE WaitForInitialAck /\ ~ GiveUp
    <2>1. /\ hstate = "connect" /\ hstate' = "send" /\ UNCHANGED <<job, sent, acked, verdict>>
          /\ TakeReply /\ UNCHANGED driverVars
      BY <1>5 DEF WaitForInitialAck
    <2>2. acked = 0
      BY <2>1 DEF TypeInv, HostInStep
    <2>3. Answers <= Len(accepted) + 1
      BY <2>1 DEF Answered
    <2>4. Answers' = Answers - 1
      BY <2>1, ReplyTaken
    <2>5. Answers' <= Len(accepted) - acked
      BY <1>2, <2>2, <2>3, <2>4
    <2>6. QED
      BY <1>1, <1>3, <2>1, <2>5 DEF Answered
  <1>6. CASE SendPacket
    <2>1. /\ hstate = "send" /\ hstate' = "await" /\ sent' = sent + 1
          /\ UNCHANGED <<job, acked, verdict, toHost, driverVars>>
      BY <1>6 DEF SendPacket
    <2>2. sent = acked
      BY <1>6, SendFrom DEF SendPacket
    <2>3. Answers' = Answers
      BY <2>1 DEF Answers, driverVars
    <2>4. Answers <= Len(accepted) - acked
      BY <2>1 DEF Answered
    <2>5. sent' <= acked + 1
      BY <1>2, <2>1, <2>2
    <2>6. QED
      BY <1>1, <1>3, <2>1, <2>3, <2>4, <2>5 DEF Answered
  <1>7. CASE WaitForAckNak /\ ~ GiveUp
    <2>1. /\ hstate = "await" /\ acked' = acked + 1 /\ UNCHANGED <<job, sent>>
          /\ hstate' \in {"exit", "send"} /\ (hstate' = "exit" <=> acked' = N)
          /\ verdict' = IF acked' = N THEN "running" ELSE "none"
          /\ TakeReply /\ UNCHANGED driverVars
      BY <1>7 DEF WaitForAckNak
    <2>2. N' = N
      BY <2>1, SameJob
    <2>3. Answers <= Len(accepted) - acked
      BY <2>1 DEF Answered
    <2>4. Answers' = Answers - 1 /\ Answers' \in Nat
      BY <2>1, ReplyTaken
    <2>5. acked' <= Len(accepted) /\ sent <= acked' + 1 /\ Answers' <= Len(accepted) - acked'
      BY <1>2, <1>3, <2>1, <2>3, <2>4
    <2>6. QED
      BY <1>1, <2>1, <2>2, <2>5 DEF Answered
  <1>8. QED
    BY <1>4, <1>5, <1>6, <1>7 DEF HostStep, Timeout

LEMMA AnsweredNext ==
  ASSUME TypeInv, HistoryInv, UnderWay \/ Arrived, Answered, HoldingStep
  PROVE  Answered'
  <1>1. TypeOK
    BY DEF TypeInv
  <1>2. /\ Len(tx) \in Nat /\ Len(toHost) \in Nat /\ Len(accepted) \in Nat
        /\ sent \in Nat /\ acked \in Nat /\ Answers \in Nat
    BY Lengths
  <1>3. tx \in Seq({ACK, NAK}) /\ toHost \in Seq(Byte) /\ sndbyte \in {ACK, NAK}
    BY <1>1 DEF TypeOK, LineTypeOK, DriverTypeOK, ReplyTypeOK
  <1>4. CASE receive /\ UNCHANGED hostVars
    <2>1. rcv_state # "REPLY" /\ rcv_state' # "REPLY"
      BY <1>1, <1>4, ReceiveUnderWay
    <2>2. UNCHANGED <<tx, toHost, accepted>>
      BY <1>4 DEF receive
    <2>3. Answers' = Answers
      BY <2>1, <2>2 DEF Answers
    <2>4. QED
      BY <1>2, <1>4, <2>2, <2>3, AnswersFall DEF hostVars
  <1>5. CASE MissByte
    BY <1>1, <1>5, CannotMiss
  <1>6. CASE publish /\ UNCHANGED hostVars
    <2>1. rcv_state = "WAIT" /\ rcv_state' = "REPLY" /\ Len(accepted') = Len(accepted) + 1
      BY <1>1, <1>6, PublishArrives
    <2>2. UNCHANGED <<tx, toHost>>
      BY <1>6 DEF publish, lineVars
    <2>3. Answers' = Answers + 1
      BY <1>2, <2>1, <2>2 DEF Answers
    <2>4. UNCHANGED <<job, hstate, sent, acked, verdict>> /\ N' = N
      BY <1>6, SameJob DEF hostVars
    <2>5. acked <= Len(accepted')
      BY <1>2, <2>1 DEF Answered
    <2>6. hstate = "connect" => Answers' <= Len(accepted') + 1
      BY <1>2, <2>1, <2>3 DEF Answered
    <2>7. hstate \in {"send", "await"} => Answers' <= Len(accepted') - acked
      BY <1>2, <2>1, <2>3 DEF Answered
    <2>8. QED
      BY <2>4, <2>5, <2>6, <2>7 DEF Answered
  <1>7. CASE send_byte /\ UNCHANGED hostVars
    <2>1. /\ rcv_state = "REPLY" /\ rcv_state' = "SOH" /\ tx' = Append(tx, sndbyte)
          /\ toHost' = toHost /\ accepted' = accepted
      BY <1>7 DEF send_byte, lineVars
    <2>2. Len(tx') = Len(tx) + 1
      BY <1>3, <2>1, Grows
    <2>3. Answers' = Answers
      BY <1>2, <2>1, <2>2 DEF Answers
    <2>4. QED
      BY <1>2, <1>7, <2>1, <2>3, AnswersFall DEF hostVars
  <1>8. CASE transmit /\ UNCHANGED hostVars
    <2>1. /\ rcv_state' = rcv_state /\ tx # <<>> /\ tx' = Tail(tx)
          /\ toHost' = Append(toHost, Head(tx)) /\ accepted' = accepted
      BY <1>8 DEF transmit
    <2>2. Len(tx') = Len(tx) - 1 /\ Head(tx) \in {ACK, NAK}
      BY <1>3, <2>1, HeadTail
    <2>3. Head(tx) \in Byte
      BY <2>2 DEF ACK, NAK, Byte
    <2>4. Len(toHost') = Len(toHost) + 1
      BY <1>3, <2>1, <2>3, Grows
    <2>5. Answers' = Answers
      BY <1>2, <2>1, <2>2, <2>4 DEF Answers
    <2>6. QED
      BY <1>2, <1>8, <2>1, <2>5, AnswersFall DEF hostVars
  <1>9. CASE (LoseReply \/ DamageReply) /\ UNCHANGED hostVars
    <2>1. toHost # <<>> /\ UNCHANGED driverVars
      BY <1>9 DEF LoseReply, DamageReply
    <2>2. Tail(toHost) \in Seq(Byte) /\ Len(Tail(toHost)) = Len(toHost) - 1
      BY <1>3, <2>1, HeadTail
    <2>3. Len(toHost') \in Nat /\ Len(toHost') <= Len(toHost)
      <3>1. CASE LoseReply
        BY <1>2, <2>2, <3>1 DEF LoseReply
      <3>2. CASE DamageReply
        <4>1. PICK b \in NoiseBytes : toHost' = <<b>> \o Tail(toHost)
          BY <3>2 DEF DamageReply
        <4>2. b \in Byte
          BY PacketDriverAssumption
        <4>3. Len(<<b>> \o Tail(toHost)) = 1 + Len(Tail(toHost))
          BY <2>2, <4>2
        <4>4. QED
          BY <1>2, <2>2, <4>1, <4>3
      <3>3. QED
        BY <1>9, <3>1, <3>2
    <2>4. Answers' \in Nat /\ Answers' <= Answers
      BY <1>2, <2>1, <2>3 DEF Answers, driverVars
    <2>5. QED
      BY <1>9, <2>1, <2>4, AnswersFall DEF driverVars, hostVars
  <1>10. CASE WaitForInitialAck \/ SendPacket \/ WaitForAckNak \/ Timeout
    BY <1>10, HostAnswered DEF HostStep
  <1>11. CASE HelperStepButStop /\ UNCHANGED hostVars
    <2>1. UNCHANGED <<tx, toHost, rcv_state, accepted>>
      BY <1>11, HelperLeaves DEF lineVars
    <2>2. Answers' = Answers
      BY <2>1 DEF Answers
    <2>3. QED
      BY <1>2, <1>11, <2>1, <2>2, AnswersFall DEF hostVars
  <1>12. CASE stop_driver
    <2>1. UNCHANGED <<toHost, rcv_state, accepted, hostVars>> /\ tx' = <<>>
      BY <1>12 DEF stop_driver, stop, lineVars
    <2>2. Len(tx') = 0
      BY <2>1
    <2>3. Answers' \in Nat /\ Answers' <= Answers
      BY <1>2, <2>1, <2>2 DEF Answers
    <2>4. QED
      BY <2>1, <2>3, AnswersFall DEF hostVars
  <1>13. CASE UNCHANGED vars
    <2>1. UNCHANGED <<tx, toHost, rcv_state, accepted, hostVars>>
      BY <1>13 DEF vars, lineVars, driverVars
    <2>2. Answers' = Answers
      BY <2>1 DEF Answers
    <2>3. QED
      BY <1>2, <2>1, <2>2, AnswersFall DEF hostVars
  <1>14. QED
    BY <1>4, <1>5, <1>6, <1>7, <1>8, <1>9, <1>10, <1>11, <1>12, <1>13 DEF HoldingStep

-----------------------------------------------------------------------------
(* The mailbox and the helper. *)

LEMMA MailedStays ==
  ASSUME Mailed, UNCHANGED <<job, status, lpc, accepted, handled, mailbox>>,
         Unhandled => Payload(pkt_buffer, pkt_length)' = Payload(pkt_buffer, pkt_length)
  PROVE  Mailed'
  <1>1. Packets' = Packets
    BY SameJob
  <1>2. Unhandled' = Unhandled
    BY DEF Unhandled
  <1>3. pkt_type' = pkt_type
    BY DEF mailbox
  <1>4. QED
    BY <1>1, <1>2, <1>3 DEF Mailed

(* The next packet is the host's. *)
LEMMA OneMore ==
  ASSUME NEW CONSTANT s \in Seq(PacketType), NEW CONSTANT k \in Nat, k = Len(s) + 1,
         \A i \in 1..Len(s) : s[i] = Packets[i],
         NEW CONSTANT e \in PacketType, e = Packets[k]
  PROVE  /\ Append(s, e)[k] = e
         /\ \A i \in 1..Len(Append(s, e)) : Append(s, e)[i] = Packets[i]
  <1>1. /\ Len(s) \in Nat /\ Len(Append(s, e)) = Len(s) + 1
        /\ \A i \in 1..Len(s) : Append(s, e)[i] = s[i]
        /\ Append(s, e)[Len(s) + 1] = e
    BY Grown
  <1>2. ASSUME NEW i \in 1..Len(Append(s, e))
        PROVE  Append(s, e)[i] = Packets[i]
    <2>1. i = k \/ i \in 1..Len(s)
      BY <1>1
    <2>2. QED
      BY <1>1, <2>1
  <1>3. QED
    BY <1>1, <1>2

LEMMA PublishMails ==
  ASSUME TypeOK, HistoryInv, UnderWay \/ Arrived, Mailed, publish, UNCHANGED <<helperVars, hostVars>>
  PROVE  Mailed'
  <1>1. /\ UnderWay /\ accepted' = Append(accepted, Packets[sent])
        /\ Len(accepted') = Len(accepted) + 1
    BY PublishArrives
  <1>2. /\ status = "PENDING" /\ status' = "OK" /\ rcv_state = "WAIT"
        /\ pkt_type' = rcv_type /\ pkt_length' = rcv_length /\ pkt_buffer' = rcv_buf1
        /\ buffers' = buffers
        /\ accepted' = Append(accepted, Packet(rcv_type, Payload(rcv_buf1, rcv_length)))
    BY DEF publish, mailbox_free
  <1>3. lpc = "poll" /\ lpc' = lpc /\ handled' = handled /\ Packets' = Packets
    BY <1>2, SameJob DEF Mailed, helperVars, hostVars
  <1>4. ~ Unhandled /\ Unhandled'
    BY <1>2, <1>3 DEF Unhandled
  <1>5. PICK p : p = Packet(rcv_type, Payload(rcv_buf1, rcv_length))
    OBVIOUS
  <1>6. p \in PacketType
    BY <1>2, <1>5, PublishedPacket DEF TypeOK
  <1>7. p = Packet(pkt_type', Payload(pkt_buffer, pkt_length)')
    BY <1>2, <1>5 DEF Payload
  <1>8. accepted \in Seq(PacketType) /\ Len(accepted) \in Nat /\ Len(accepted) + 1 = sent
    BY <1>1, JobPackets DEF HistoryInv, UnderWay, TypeOK, HostTypeOK
  <1>9. p = Packets[sent]
    <2>1. p = Sent
      BY <1>1, <1>2, <1>5, WaitsAtTheEnd DEF ListenStates
    <2>2. QED
      BY <2>1 DEF Sent
  <1>10. PICK s : s = accepted
    OBVIOUS
  <1>11. PICK k : k = sent
    OBVIOUS
  <1>12. /\ accepted'[k] = p
         /\ \A i \in 1..Len(accepted') : accepted'[i] = Packets[i]
    <2>1. s \in Seq(PacketType) /\ k \in Nat /\ k = Len(s) + 1 /\ p = Packets[k]
      BY <1>8, <1>9, <1>10, <1>11
    <2>2. \A i \in 1..Len(s) : s[i] = Packets[i]
      BY <1>10 DEF Mailed
    <2>3. /\ Append(s, p)[k] = p
          /\ \A i \in 1..Len(Append(s, p)) : Append(s, p)[i] = Packets[i]
      BY <1>6, <2>1, <2>2, OneMore
    <2>4. accepted' = Append(s, p)
      BY <1>2, <1>5, <1>10
    <2>5. QED
      BY <2>3, <2>4
  <1>13. Len(accepted') = k
    BY <1>1, <1>8, <1>11
  <1>14. Len(handled) = Len(accepted)
    BY <1>4 DEF Mailed
  <1>15. Len(handled') = Len(accepted') - 1
    BY <1>1, <1>3, <1>8, <1>14
  <1>16. \A i \in 1..Len(handled') : handled'[i] = Packets'[i]
    BY <1>3 DEF Mailed
  <1>17. QED
    BY <1>2, <1>3, <1>4, <1>7, <1>12, <1>13, <1>15, <1>16 DEF Mailed

LEMMA HandleMails ==
  ASSUME TypeOK, HistoryInv, HeldPacketIsStable, Mailed, handle, UNCHANGED hostVars
  PROVE  Mailed'
  <1>1. /\ lpc = "handle" /\ lpc' \in {"release", "stop", "hung"}
        /\ handled' = Append(handled, Packet(ptype, Payload(packet, len)))
        /\ UNCHANGED accepted /\ UNCHANGED status
    BY HandleEnds DEF driverVars
  <1>2. Packets' = Packets
    BY SameJob DEF hostVars
  <1>3. Unhandled /\ ~ Unhandled'
    BY <1>1 DEF Unhandled
  <1>4. ptype = pkt_type /\ packet = pkt_buffer /\ len = pkt_length
    BY <1>1 DEF HeldPacketIsStable, Holding
  <1>5. PICK p : p = Packet(ptype, Payload(packet, len))
    OBVIOUS
  <1>6. p \in PacketType
    BY <1>5, HeldIsPacket DEF TypeOK
  <1>7. PICK k : k = Len(accepted)
    OBVIOUS
  <1>8. accepted[k] = p /\ Len(handled) = k - 1
    BY <1>3, <1>4, <1>5, <1>7 DEF Mailed
  <1>9. handled \in Seq(PacketType) /\ Len(handled) \in Nat /\ k \in Nat
    BY <1>7 DEF HistoryInv
  <1>10. k = Len(handled) + 1 /\ k \in 1..Len(accepted)
    BY <1>7, <1>8, <1>9
  <1>11. p = Packets[k]
    BY <1>8, <1>10 DEF Mailed
  <1>12. PICK s : s = handled
    OBVIOUS
  <1>13. \A i \in 1..Len(handled') : handled'[i] = Packets[i]
    <2>1. s \in Seq(PacketType) /\ k = Len(s) + 1
      BY <1>9, <1>10, <1>12
    <2>2. \A i \in 1..Len(s) : s[i] = Packets[i]
      BY <1>12 DEF Mailed
    <2>3. \A i \in 1..Len(Append(s, p)) : Append(s, p)[i] = Packets[i]
      BY <1>6, <1>9, <1>11, <2>1, <2>2, OneMore
    <2>4. handled' = Append(s, p)
      BY <1>1, <1>5, <1>12
    <2>5. QED
      BY <2>3, <2>4
  <1>14. Len(handled') = Len(accepted')
    BY <1>1, <1>5, <1>6, <1>7, <1>9, <1>10, Grown
  <1>15. status' = "OK" /\ lpc' # "poll" /\ lpc' # "reset"
    BY <1>1 DEF Mailed
  <1>16. QED
    BY <1>1, <1>2, <1>3, <1>13, <1>14, <1>15 DEF Mailed

LEMMA MailedNext ==
  ASSUME TypeOK, HistoryInv, HeldPacketIsStable, UnderWay \/ Arrived, Mailed, HoldingStep
  PROVE  Mailed'
  <1>1. CASE receive /\ UNCHANGED <<helperVars, hostVars>>
    <2>1. UNCHANGED <<job, status, lpc, accepted, handled, mailbox, rcv_buf1>>
      BY <1>1, ReceiveUnderWay DEF receive, helperVars, hostVars
    <2>2. ASSUME Unhandled
          PROVE  Payload(pkt_buffer, pkt_length)' = Payload(pkt_buffer, pkt_length)
      <3>1. rcv_buf1 # pkt_buffer
        BY <2>2 DEF HeldPacketIsStable, Unhandled, Holding
      <3>2. buffers'[pkt_buffer] = buffers[pkt_buffer]
        <4>1. buffers' = buffers \/ \E n, b : buffers' = [buffers EXCEPT ![rcv_buf1][n] = b]
          BY <1>1 DEF receive, dispatch, do_soh, do_pktn, do_type, do_len_hi, do_len_lo, do_chk,
            do_data, do_crc_hi, do_crc_lo
        <4>2. buffers \in [0..1 -> [0..PKTMAXLEN - 1 -> Byte]] /\ pkt_buffer \in 0..1
          BY DEF TypeOK, DriverTypeOK, MailboxTypeOK
        <4>3. QED
          BY <3>1, <4>1, <4>2
      <3>3. pkt_buffer' = pkt_buffer /\ pkt_length' = pkt_length
        BY <2>1 DEF mailbox
      <3>4. QED
        BY <3>2, <3>3 DEF Payload
    <2>3. QED
      BY <2>1, <2>2, MailedStays
  <1>2. CASE MissByte
    BY <1>2, CannotMiss
  <1>3. CASE publish /\ UNCHANGED <<helperVars, hostVars>>
    BY <1>3, PublishMails
  <1>4. ASSUME UNCHANGED <<job, status, lpc, accepted, handled, mailbox, buffers>>
        PROVE  Mailed'
    BY <1>4, MailedStays DEF Payload, mailbox
  <1>5. CASE /\ send_byte \/ transmit \/ LoseReply \/ DamageReply
             /\ UNCHANGED <<helperVars, hostVars>>
    BY <1>4, <1>5 DEF send_byte, transmit, LoseReply, DamageReply, driverVars, helperVars, hostVars
  <1>6. CASE WaitForInitialAck \/ SendPacket \/ WaitForAckNak \/ Timeout
    BY <1>4, <1>6 DEF WaitForInitialAck, SendPacket, WaitForAckNak, Timeout, GiveUp, driverVars,
      helperVars
  <1>7. CASE HelperStepButStop /\ UNCHANGED hostVars
    <2>1. CASE handle
      BY <1>7, <2>1, HandleMails
    <2>2. CASE ~ handle
      <3>1. UNCHANGED <<job, accepted, mailbox, buffers, handled>>
        BY <1>7, <2>2, HelperLeaves DEF hostVars, HelperStepButStop, poll_status, check_status,
          reset_status, fetch_packet, release_packet, run_program
      <3>2. /\ status = "OK" \/ (lpc = "poll" /\ status = "PENDING")
            /\ lpc # "reset"
        BY DEF Mailed, TypeOK, DriverTypeOK, MailboxTypeOK
      <3>3. /\ status' # "ERROR" /\ lpc' # "reset"
            /\ lpc' # "poll" => status' = "OK"
            /\ Unhandled' <=> Unhandled
        BY <1>7, <2>2, <3>2 DEF HelperStepButStop, poll_status, check_status, reset_status,
          fetch_packet, release_packet, run_program, SetPending, driverVars, Unhandled
      <3>4. Packets' = Packets /\ pkt_type' = pkt_type
            /\ Payload(pkt_buffer, pkt_length)' = Payload(pkt_buffer, pkt_length)
        BY <3>1, SameJob DEF mailbox, Payload
      <3>5. QED
        BY <3>1, <3>3, <3>4 DEF Mailed
    <2>3. QED
      BY <2>1, <2>2
  <1>8. CASE stop_driver
    <2>1. /\ UNCHANGED <<job, accepted, mailbox, buffers, handled, status>>
          /\ lpc = "stop" /\ lpc' = "run"
      BY <1>8 DEF stop_driver, stop, hostVars
    <2>2. Unhandled' <=> Unhandled
      BY <2>1 DEF Unhandled
    <2>3. Packets' = Packets /\ pkt_type' = pkt_type
          /\ Payload(pkt_buffer, pkt_length)' = Payload(pkt_buffer, pkt_length)
      BY <2>1, SameJob DEF mailbox, Payload
    <2>4. QED
      BY <2>1, <2>2, <2>3 DEF Mailed
  <1>9. CASE UNCHANGED vars
    BY <1>4, <1>9 DEF vars, driverVars, helperVars, hostVars
  <1>10. QED
    BY <1>1, <1>2, <1>3, <1>5, <1>6, <1>7, <1>8, <1>9 DEF HoldingStep

-----------------------------------------------------------------------------
(* The theorems. *)

LEMMA InitDelivery == Init => DeliveryInv
  <1> SUFFICES ASSUME Init PROVE DeliveryInv
    OBVIOUS
  <1>1. /\ toTarget = <<>> /\ toHost = <<>> /\ rcv_state = "SOH" /\ tx = <<ACK>>
        /\ status = "PENDING" /\ accepted = <<>> /\ lpc = "poll" /\ handled = <<>>
        /\ hstate = "connect" /\ sent = 0 /\ acked = 0 /\ verdict = "none"
    BY DEF Init, DriverInit, HelperInit, HostInit
  <1>2. Len(accepted) = 0 /\ Len(handled) = 0 /\ Len(tx) = 1 /\ Len(toHost) = 0
    BY <1>1
  <1>3. Arrived
    BY <1>1, <1>2 DEF Arrived
  <1>4. Answered
    BY <1>1, <1>2 DEF Answered, Answers
  <1>5. Mailed
    BY <1>1, <1>2 DEF Mailed, Unhandled
  <1>6. QED
    BY <1>3, <1>4, <1>5 DEF DeliveryInv

(* What is known of every state, whatever the line does. *)
BaseInv == TypeInv /\ HeldPacketIsStable /\ LoadInv

LEMMA BaseInvariant == Spec => []BaseInv
  BY TypeInvariant, HeldPacket, LoadInvariant, PTL DEF BaseInv

LEMMA NextDelivery ==
  ASSUME BaseInv, BaseInv', DeliveryInv, HoldingStep
  PROVE  DeliveryInv'
  <1>1. TypeInv /\ TypeOK /\ TypeOK' /\ HistoryInv /\ HeldPacketIsStable
    BY DEF BaseInv, TypeInv, LoadInv
  <1>2. QED
    BY <1>1, PositionNext, AnsweredNext, MailedNext DEF DeliveryInv

(* As long as every byte the host sends reaches the line at the target,    *)
(* whatever becomes of the answers and whenever the host gives up, the     *)
(* packet on the line is the only one under way, and the receiver, the     *)
(* mailbox and the helper each hold the part of it that they have come to. *)
THEOREM DeliveryInvariant == Spec /\ OutwardHolds => []DeliveryInv
  <1>1. Init => DeliveryInv
    BY InitDelivery
  <1>2. BaseInv /\ BaseInv' /\ DeliveryInv /\ [Next]_vars /\ [~ OutwardFault]_vars => DeliveryInv'
    BY NextDelivery, HoldingSteps
  <1>3. QED
    BY <1>1, <1>2, BaseInvariant, PTL DEF Spec, OutwardHolds

LEMMA InOrder ==
  ASSUME BaseInv, DeliveryInv
  PROVE  AcceptedInOrder /\ Len(accepted) <= N /\ Len(handled) >= Len(accepted) - 1
  <1>1. /\ accepted \in Seq(PacketType) /\ handled \in Seq(PacketType)
        /\ Len(handled) <= Len(accepted) /\ Packets \in Seq(PacketType) /\ N = Len(Packets)
        /\ Len(accepted) \in Nat /\ Len(handled) \in Nat /\ N \in Nat /\ sent \in 0..N
    BY JobPackets DEF BaseInv, LoadInv, HistoryInv, TypeInv, TypeOK, HostTypeOK, N
  <1>2. /\ \A i \in 1..Len(accepted) : accepted[i] = Packets[i]
        /\ \A i \in 1..Len(handled) : handled[i] = Packets[i]
        /\ Len(handled) = Len(accepted) \/ Len(handled) = Len(accepted) - 1
    BY DEF DeliveryInv, Mailed
  <1>3. Len(accepted) <= N
    <2>1. Len(accepted) = sent \/ Len(accepted) = sent - 1
      BY DEF DeliveryInv, UnderWay, Arrived
    <2>2. QED
      BY <1>1, <2>1
  <1>4. IsPrefix(accepted, Packets)
    BY <1>1, <1>2, <1>3, PrefixAt
  <1>5. \A i \in 1..Len(handled) : handled[i] = accepted[i]
    BY <1>1, <1>2
  <1>6. IsPrefix(handled, accepted)
    BY <1>1, <1>5, PrefixAt
  <1>7. Len(handled) >= Len(accepted) - 1
    BY <1>1, <1>2
  <1>8. QED
    BY <1>3, <1>4, <1>6, <1>7 DEF AcceptedInOrder, HandledInOrder

LEMMA TrueSuccess ==
  ASSUME BaseInv, DeliveryInv
  PROVE  SuccessIsTrue
  <1> SUFFICES ASSUME verdict = "running"
               PROVE  accepted = Packets /\ Len(handled) >= N - 1 /\ ImageInPlace
    BY DEF SuccessIsTrue
  <1>1. AcceptedInOrder /\ Len(accepted) <= N /\ Len(handled) >= Len(accepted) - 1
    BY InOrder
  <1>2. acked = N /\ acked <= Len(accepted)
    BY DEF DeliveryInv, Answered
  <1>3. /\ accepted \in Seq(PacketType) /\ Packets \in Seq(PacketType) /\ N = Len(Packets)
        /\ Len(accepted) \in Nat /\ Len(handled) \in Nat /\ N \in Nat
    BY JobPackets DEF BaseInv, LoadInv, HistoryInv, TypeInv, TypeOK, HostTypeOK, N
  <1>4. Len(accepted) = N
    BY <1>1, <1>2, <1>3
  <1>5. Len(handled) >= N - 1
    BY <1>1, <1>4
  <1>6. \A i \in 1..Len(accepted) : accepted[i] = Packets[i]
    BY DEF DeliveryInv, Mailed
  <1> DEFINE s == accepted
             t == Packets
  <1>7. s \in Seq(PacketType) /\ t \in Seq(PacketType) /\ Len(s) = Len(t)
        /\ \A i \in 1..Len(s) : s[i] = t[i]
    BY <1>3, <1>4, <1>6
  <1> HIDE DEF s, t
  <1>8. s = t
    BY <1>7
  <1>9. ImageInPlace
    BY <1>1, <1>5, WholeImage DEF BaseInv, TypeInv
  <1>10. QED
    BY <1>5, <1>8, <1>9 DEF s, t

(* The packets taken in are the host's, complete, unaltered, in order and  *)
(* once each, and acted on in that order, although a lost answer makes the *)
(* host give up between any two of them and nothing looks at the packet    *)
(* number (SendPacket, do_crc_lo, DATA_handler).                           *)
THEOREM TakenInOrder == Spec /\ OutwardHolds => []AcceptedInOrder
  <1>1. BaseInv /\ DeliveryInv => AcceptedInOrder
    BY InOrder
  <1>2. QED
    BY <1>1, BaseInvariant, DeliveryInvariant, PTL

(* When xload says the program runs, the target has taken in every packet, *)
(* acted on all but RUN, and holds the whole image in the memory asked for *)
(* (RunLoadedProgram, WaitForAckNak).                                      *)
THEOREM SuccessIsReal == Spec /\ OutwardHolds => []SuccessIsTrue
  <1>1. BaseInv /\ DeliveryInv => SuccessIsTrue
    BY TrueSuccess
  <1>2. QED
    BY <1>1, BaseInvariant, DeliveryInvariant, PTL

(* What a packet of a flash image has left in flash stays there, and the   *)
(* program is started on nothing but its whole image, if the host gives up *)
(* or not (DATA_handler, FLASH_WRITE_handler, RUN_handler).                *)
THEOREM WholeOnTheBoard == Spec /\ OutwardHolds => [](FlashHoldsPrefix /\ RunOnlyWholeImage)
  <1>1. BaseInv /\ AcceptedInOrder => FlashHoldsPrefix /\ RunOnlyWholeImage
    BY FlashPrefix, RunWhole DEF BaseInv, TypeInv
  <1>2. QED
    BY <1>1, BaseInvariant, TakenInOrder, PTL

(* A calm line never fails: on it all of that holds of every behaviour of  *)
(* the program.                                                            *)
THEOREM CalmIsSafe ==
  Spec => [](calm => AcceptedInOrder /\ SuccessIsTrue /\ FlashHoldsPrefix /\ RunOnlyWholeImage)
  <1> DEFINE CalmInv == calm => DeliveryInv
  <1>1. Init => CalmInv
    BY InitDelivery
  <1>2. BaseInv /\ BaseInv' /\ CalmInv /\ [Next]_vars => CalmInv'
    <2> SUFFICES ASSUME BaseInv, BaseInv', CalmInv, [Next]_vars, calm'
                 PROVE  DeliveryInv'
      OBVIOUS
    <2>1. job' = job
      BY StepKinds DEF Quiet, hostVars
    <2>2. calm
      BY <2>1 DEF calm
    <2>3. QED
      BY <2>2, NextDelivery, HoldingSteps
  <1>3. BaseInv /\ CalmInv =>
          (calm => AcceptedInOrder /\ SuccessIsTrue /\ FlashHoldsPrefix /\ RunOnlyWholeImage)
    BY InOrder, TrueSuccess, FlashPrefix, RunWhole DEF BaseInv, TypeInv
  <1>4. QED
    BY <1>1, <1>2, <1>3, BaseInvariant, PTL DEF Spec

-----------------------------------------------------------------------------
(* The abstract load. *)

LEMMA PromiseInit == Init => Promise!Init
  <1> SUFFICES ASSUME Init PROVE Promise!Init
    OBVIOUS
  <1>1. /\ job \in Jobs /\ accepted = <<>> /\ handled = <<>> /\ acked = 0 /\ verdict = "none"
    BY DEF Init, DriverInit, HelperInit, HostInit
  <1>2. N \in Nat \ {0}
    BY <1>1, JobPackets
  <1>3. Len(accepted) = 0 /\ Len(handled) = 0
    BY <1>1
  <1>4. QED
    BY <1>1, <1>2, <1>3 DEF Promise!Init

LEMMA PublishKeepsPromise ==
  ASSUME BaseInv, DeliveryInv, publish, UNCHANGED <<helperVars, hostVars>>
  PROVE  Promise!Accept
  <1>1. TypeInv /\ TypeOK /\ HistoryInv /\ (UnderWay \/ Arrived) /\ Answered /\ Mailed
    BY DEF BaseInv, TypeInv, LoadInv, DeliveryInv
  <1>2. UnderWay /\ Len(accepted') = Len(accepted) + 1
    BY <1>1, PublishArrives
  <1>3. /\ Len(accepted) \in Nat /\ sent \in Nat /\ acked \in Nat /\ N \in Nat
    BY <1>1, Lengths
  <1>4. /\ Len(accepted) = sent - 1 /\ sent <= acked + 1 /\ acked <= Len(accepted)
        /\ sent <= N
    BY <1>1, <1>2, <1>3 DEF UnderWay, Answered, TypeOK, HostTypeOK
  <1>5. Len(accepted) = acked /\ Len(accepted) < N
    BY <1>3, <1>4
  <1>6. Len(accepted) = Len(handled)
    BY <1>1 DEF publish, mailbox_free, Mailed, Unhandled
  <1>7. N' = N /\ handled' = handled /\ acked' = acked /\ verdict' = verdict
    BY SameJob DEF helperVars, hostVars
  <1>8. QED
    BY <1>2, <1>5, <1>6, <1>7 DEF Promise!Accept

LEMMA HandleKeepsPromise ==
  ASSUME BaseInv, handle, UNCHANGED hostVars
  PROVE  Promise!Handle
  <1>1. TypeOK /\ HistoryInv
    BY DEF BaseInv, TypeInv, LoadInv
  <1>2. handled' = Append(handled, Packet(ptype, Payload(packet, len))) /\ accepted' = accepted
        /\ lpc = "handle"
    BY HandleEnds
  <1>3. Len(handled) < Len(accepted)
    BY <1>1, <1>2 DEF HistoryInv, Unhandled
  <1>4. Len(handled') = Len(handled) + 1
    BY <1>1, <1>2, HeldIsPacket, Grown DEF HistoryInv, TypeOK
  <1>5. N' = N /\ acked' = acked /\ verdict' = verdict
    BY SameJob DEF hostVars
  <1>6. QED
    BY <1>2, <1>3, <1>4, <1>5 DEF Promise!Handle

LEMMA GiveUpKeepsPromise ==
  ASSUME DeliveryInv, GiveUp, hstate # "exit", UNCHANGED <<accepted, handled>>
  PROVE  Promise!GiveUp
  <1>1. verdict = "none"
    BY DEF DeliveryInv, Answered
  <1>2. N' = N /\ acked' = acked
    BY SameJob DEF GiveUp
  <1>3. verdict' = IF acked < N - 1 THEN "load failed" ELSE "run failed"
    BY DEF GiveUp
  <1>4. QED
    BY <1>1, <1>2, <1>3 DEF Promise!GiveUp

LEMMA AckKeepsPromise ==
  ASSUME BaseInv, DeliveryInv, WaitForAckNak, ~ GiveUp
  PROVE  Promise!Acknowledge
  <1>1. TypeInv /\ HistoryInv /\ Answered
    BY DEF BaseInv, LoadInv, DeliveryInv
  <1>2. /\ hstate = "await" /\ acked' = acked + 1 /\ job' = job
        /\ verdict' = IF acked' = N THEN "running" ELSE "none"
        /\ TakeReply /\ UNCHANGED <<driverVars, helperVars>>
    BY DEF WaitForAckNak
  <1>3. accepted' = accepted /\ handled' = handled /\ N' = N
    BY <1>2, SameJob DEF driverVars, helperVars
  <1>4. verdict = "none" /\ Answers <= Len(accepted) - acked
    BY <1>1, <1>2 DEF Answered
  <1>5. Answers' = Answers - 1 /\ Answers' \in Nat
    BY <1>1, <1>2, ReplyTaken
  <1>6. Len(accepted) \in Nat /\ acked \in Nat /\ Answers \in Nat
    BY <1>1, Lengths
  <1>7. acked < Len(accepted)
    BY <1>4, <1>5, <1>6
  <1>8. QED
    BY <1>2, <1>3, <1>4, <1>7 DEF Promise!Acknowledge

(* Everything else is invisible. *)
LEMMA PromiseStutters ==
  ASSUME UNCHANGED <<job, accepted, handled, acked, verdict>>
  PROVE  UNCHANGED Promise!vars
  BY SameJob DEF Promise!vars

LEMMA StepKeepsPromise ==
  ASSUME BaseInv, DeliveryInv, HoldingStep
  PROVE  [Promise!Next]_(Promise!vars)
  <1>1. TypeOK /\ (UnderWay \/ Arrived)
    BY DEF BaseInv, TypeInv, DeliveryInv
  <1>2. CASE publish /\ UNCHANGED <<helperVars, hostVars>>
    BY <1>2, PublishKeepsPromise DEF Promise!Next
  <1>3. CASE handle /\ UNCHANGED hostVars
    BY <1>3, HandleKeepsPromise DEF Promise!Next
  <1>4. CASE GiveUp /\ (WaitForInitialAck \/ WaitForAckNak \/ Timeout)
    <2>1. hstate # "exit" /\ UNCHANGED <<accepted, handled>>
      BY <1>4 DEF WaitForInitialAck, WaitForAckNak, Timeout, may_time_out, driverVars, helperVars
    <2>2. QED
      BY <1>4, <2>1, GiveUpKeepsPromise DEF Promise!Next
  <1>5. CASE WaitForAckNak /\ ~ GiveUp
    BY <1>5, AckKeepsPromise DEF Promise!Next
  <1>6. CASE WaitForInitialAck /\ ~ GiveUp
    BY <1>6, PromiseStutters DEF WaitForInitialAck, driverVars, helperVars
  <1>7. CASE SendPacket
    BY <1>7, PromiseStutters DEF SendPacket, driverVars, helperVars
  <1>8. CASE /\ receive \/ MissByte \/ send_byte \/ transmit \/ LoseReply \/ DamageReply
             /\ UNCHANGED <<helperVars, hostVars>>
    BY <1>8, PromiseStutters DEF receive, MissByte, send_byte, transmit, LoseReply, DamageReply,
      driverVars, helperVars, hostVars
  <1>9. CASE HelperStepButStop /\ ~ handle /\ UNCHANGED hostVars
    <2>1. accepted' = accepted /\ handled' = handled
      BY <1>9, HelperLeaves DEF HelperStepButStop, poll_status, check_status, reset_status,
        fetch_packet, release_packet, run_program
    <2>2. QED
      BY <1>9, <2>1, PromiseStutters DEF hostVars
  <1>10. CASE stop_driver
    BY <1>10, PromiseStutters DEF stop_driver, stop, hostVars
  <1>11. CASE UNCHANGED vars
    BY <1>11, PromiseStutters DEF vars, driverVars, helperVars, hostVars
  <1>12. QED
    BY <1>2, <1>3, <1>4, <1>5, <1>6, <1>7, <1>8, <1>9, <1>10, <1>11
    DEF HoldingStep, Timeout

(* As long as the line delivers what the host sends, the frames, buffers,  *)
(* mailbox and timeouts of the whole carry out the abstract load: a packet *)
(* is taken in only when the one before is acknowledged and handled, no    *)
(* answer is believed that was not given, and the verdict says how far the *)
(* host got (SendPacket, publish, rcv_packetx, WaitForAckNak, main).       *)
THEOREM LoadKeepsPromise == Spec /\ OutwardHolds => KeepsPromise
  <1>1. Init => Promise!Init
    BY PromiseInit
  <1>2. BaseInv /\ DeliveryInv /\ [Next]_vars /\ [~ OutwardFault]_vars
          => [Promise!Next]_(Promise!vars)
    BY StepKeepsPromise, HoldingSteps
  <1>3. QED
    BY <1>1, <1>2, BaseInvariant, DeliveryInvariant, PTL
    DEF Spec, OutwardHolds, KeepsPromise, Promise!Spec
=============================================================================
