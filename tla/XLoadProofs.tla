----------------------------- MODULE XLoadProofs -----------------------------
(***************************************************************************)
(* Proofs about XLoad for every script, buffer size, noise alphabet and    *)
(* number of faults.                                                       *)
(***************************************************************************)
EXTENDS XLoad, ScriptProofs

-----------------------------------------------------------------------------
(* Sequences. *)

LEMMA HeadTail ==
  ASSUME NEW S, NEW s \in Seq(S), s # <<>>
  PROVE  Head(s) \in S /\ Tail(s) \in Seq(S) /\ Len(Tail(s)) = Len(s) - 1
  BY SMT

LEMMA Grows ==
  ASSUME NEW S, NEW s \in Seq(S), NEW e \in S
  PROVE  /\ Append(s, e) \in Seq(S) /\ Len(Append(s, e)) = Len(s) + 1
         /\ <<e>> \o s \in Seq(S)
  BY SMT

(* Arithmetic on the receiver's length and count. *)

LEMMA PayloadIndex ==
  ASSUME NEW size \in Nat, NEW cnt \in 1..size, size <= PKTMAXLEN
  PROVE  size - cnt \in 0..PKTMAXLEN - 1
  <1>1. PKTMAXLEN \in Int
    BY SMT, PKTMAXLENAssumption
  <1>2. cnt \in Int /\ 1 <= cnt /\ cnt <= size
    BY SMT
  <1>3. size - cnt \in Int /\ 0 <= size - cnt /\ size - cnt <= PKTMAXLEN - 1
    BY SMT, <1>1, <1>2
  <1>4. PKTMAXLEN - 1 \in Int
    BY SMT, <1>1
  <1>5. QED
    BY SMT, <1>3, <1>4

LEMMA LengthSum ==
  ASSUME NEW hi \in Word, hi <= 65280, NEW lo \in Byte
  PROVE  hi + lo \in Word
  BY SMT DEF Word, Byte

-----------------------------------------------------------------------------
(* The initial state. *)

(* The host's counters go in step: at most one packet is not acknowledged  *)
(* (SendPacket waits for its answer before it returns).                    *)
HostInStep ==
  /\ hstate = "connect" => sent = 0 /\ acked = 0
  /\ hstate = "send" => sent = acked /\ acked < N
  /\ hstate = "await" => sent = acked + 1

TypeInv == TypeOK /\ HostInStep

LEMMA JobPackets ==
  ASSUME job \in Jobs
  PROVE  /\ IsJob(job) /\ N \in Nat \ {0} /\ N = Total(job)
         /\ Packets \in Seq(PacketType)
         /\ \A i \in 1..N : \A n \in Byte : Frame(n, Packets[i]) \in Seq(Byte)
  <1>1. IsJob(job) /\ job.file \in Seq(Byte)
    BY XLoadAssumption DEF IsJob
  <1>2. Packets \in Seq(PacketType) /\ N = Total(job)
    BY <1>1, ScriptShape DEF N, Packets
  <1>3. N \in Nat \ {0}
    <2>1. /\ Pieces(VmImage) \in Nat /\ Pieces(CacheImage) \in Nat
          /\ Pieces(job.file) \in Nat
      BY <1>1, PieceBounds, HostScriptAssumption
    <2>2. QED
      BY <1>2, <2>1 DEF Total, FileStart, VmStart
  <1>4. ASSUME NEW i \in 1..N, NEW n \in Byte PROVE Frame(n, Packets[i]) \in Seq(Byte)
    <2>1. Packets[i] \in PacketType
      BY <1>2 DEF N
    <2>2. QED
      BY <2>1, FrameBytes DEF IsFrame
  <1>5. QED
    BY <1>1, <1>2, <1>3, <1>4

LEMMA SameJob ==
  ASSUME job' = job
  PROVE  N' = N /\ Packets' = Packets
  BY DEF N, Packets

LEMMA InitLine == DriverInit => LineTypeOK
  <1> SUFFICES ASSUME DriverInit PROVE LineTypeOK
    OBVIOUS
  <1>1. toTarget = <<>> /\ toHost = <<>> /\ faults = 0 /\ hits = 0
    BY DEF DriverInit
  <1>2. QED
    BY SMT, <1>1, PacketDriverAssumption DEF LineTypeOK

LEMMA InitDriver == DriverInit => DriverTypeOK
  <1> SUFFICES ASSUME DriverInit PROVE DriverTypeOK
    OBVIOUS
  <1>1. buffers \in [0..1 -> [0..PKTMAXLEN - 1 -> Byte]]
    BY SMT, PKTMAXLENAssumption DEF DriverInit, Byte
  <1>2. RegisterRanges
    BY SMT, PKTMAXLENAssumption DEF DriverInit, RegisterRanges, Byte, Word, Count
  <1>3. LengthFits
    BY SMT DEF DriverInit, LengthFits
  <1>4. MailboxTypeOK
    <2>1. status = "PENDING" /\ pkt_type = 0 /\ pkt_buffer = 0 /\ pkt_length = 0
      BY DEF DriverInit
    <2>2. 0 \in Byte /\ 0 \in 0..1
      BY SMT DEF Byte
    <2>3. 0 \in Count
      BY SMT, PKTMAXLENAssumption DEF Count
    <2>4. QED
      BY <2>1, <2>2, <2>3 DEF MailboxTypeOK
  <1>5. ReplyTypeOK
    <2>1. sndbyte = ACK /\ tx = <<ACK>>
      BY DEF DriverInit
    <2>2. QED
      BY SMT, <2>1, PacketDriverAssumption DEF ReplyTypeOK
  <1>6. QED
    BY SMT, <1>1, <1>2, <1>3, <1>4, <1>5
    DEF DriverInit, DriverTypeOK, RcvStates, ListenStates

LEMMA InitHelper == HelperInit => HelperTypeOK
  BY SMT, PKTMAXLENAssumption
  DEF HelperInit, HelperTypeOK, LoopStates, Cell, Old, Byte, Count

LEMMA InitHost == HostInit => HostTypeOK /\ HostInStep
  <1> SUFFICES ASSUME HostInit PROVE HostTypeOK /\ HostInStep
    OBVIOUS
  <1>1. job \in Jobs /\ N \in Nat
    BY JobPackets DEF HostInit
  <1>2. QED
    BY SMT, <1>1 DEF HostInit, HostTypeOK, HostInStep, Verdicts, Byte

LEMMA InitTypeInv == Init => TypeInv
  BY InitLine, InitDriver, InitHelper, InitHost DEF Init, TypeInv, TypeOK

-----------------------------------------------------------------------------
(* The receiver takes a byte. *)

(* What every entry of the dispatch table does outside its registers. *)
LEMMA DispatchFrame ==
  ASSUME NEW b \in Byte, RegisterRanges, LengthFits, MailboxTypeOK, ReplyTypeOK,
         buffers \in [0..1 -> [0..PKTMAXLEN - 1 -> Byte]], rcv_buf1 \in 0..1,
         dispatch(b)
  PROVE  /\ status' \in {"PENDING", "OK", "ERROR"}
         /\ sndbyte' \in {ACK, NAK}
         /\ rcv_state' \in RcvStates
         /\ buffers' \in [0..1 -> [0..PKTMAXLEN - 1 -> Byte]]
  <1>1. CASE do_soh(b)
    BY SMT, <1>1 DEF do_soh, RcvStates, ListenStates,
      MailboxTypeOK, ReplyTypeOK
  <1>2. CASE do_pktn(b)
    BY SMT, <1>2 DEF do_pktn, RcvStates, ListenStates,
      MailboxTypeOK, ReplyTypeOK
  <1>3. CASE do_type(b)
    BY SMT, <1>3 DEF do_type, RcvStates, ListenStates,
      MailboxTypeOK, ReplyTypeOK
  <1>4. CASE do_len_hi(b)
    BY SMT, <1>4 DEF do_len_hi, RcvStates, ListenStates,
      MailboxTypeOK, ReplyTypeOK
  <1>5. CASE do_len_lo(b)
    BY SMT, <1>5 DEF do_len_lo, RcvStates, ListenStates,
      MailboxTypeOK, ReplyTypeOK
  <1>6. CASE do_chk(b)
    BY SMT, <1>6 DEF do_chk, BeginPayload, send_nak, RcvStates, ListenStates,
      MailboxTypeOK, ReplyTypeOK
  <1>7. CASE do_data(b)
    <2>1. rcv_length - rcv_cnt \in 0..PKTMAXLEN - 1
      <3>1. rcv_state = "DATA"
        BY <1>7 DEF do_data
      <3>2. rcv_cnt \in 1..rcv_length /\ rcv_length <= PKTMAXLEN
        BY <3>1 DEF LengthFits
      <3>3. rcv_length \in Nat
        BY SMT DEF RegisterRanges, Word
      <3>4. QED
        BY <3>2, <3>3, PayloadIndex
    <2>2. buffers' = [buffers EXCEPT ![rcv_buf1][rcv_length - rcv_cnt] = b]
      BY <1>7 DEF do_data
    <2>3. buffers' \in [0..1 -> [0..PKTMAXLEN - 1 -> Byte]]
      BY SMT, <2>1, <2>2
    <2>4. status' \in {"PENDING", "OK", "ERROR"} /\ sndbyte' \in {ACK, NAK}
      BY SMT, <1>7 DEF do_data, MailboxTypeOK, ReplyTypeOK
    <2>5. rcv_state' \in RcvStates
      BY SMT, <1>7 DEF do_data, RcvStates, ListenStates
    <2>6. QED
      BY <2>3, <2>4, <2>5
  <1>8. CASE do_crc_hi(b)
    BY SMT, <1>8 DEF do_crc_hi, RcvStates, ListenStates,
      MailboxTypeOK, ReplyTypeOK
  <1>9. CASE do_crc_lo(b)
    BY SMT, <1>9 DEF do_crc_lo, send_nak, RcvStates, ListenStates,
      MailboxTypeOK, ReplyTypeOK
  <1>10. QED
    BY <1>1, <1>2, <1>3, <1>4, <1>5, <1>6, <1>7, <1>8, <1>9 DEF dispatch

(* The registers keep their ranges: a length above 16 bits cannot arise,   *)
(* and a length above the buffer's never gets past the header check.       *)
LEMMA DispatchRegisters ==
  ASSUME NEW b \in Byte, RegisterRanges, LengthFits, dispatch(b)
  PROVE  RegisterRanges' /\ LengthFits'
  <1>1. CASE do_soh(b)
    <2>1. /\ rcv_chk' = rcv_chk /\ rcv_type' = rcv_type
          /\ rcv_length' = rcv_length /\ rcv_cnt' = rcv_cnt /\ crc' = crc
      BY SMT, <1>1 DEF do_soh, headerVars
    <2>2. RegisterRanges'
      BY SMT, <2>1 DEF RegisterRanges
    <2>3. LengthFits'
      BY SMT, <1>1 DEF do_soh, LengthFits
    <2>4. QED
      BY <2>2, <2>3
  <1>2. CASE do_pktn(b)
    <2>1. /\ rcv_chk' = b /\ rcv_type' = rcv_type
          /\ rcv_length' = rcv_length /\ rcv_cnt' = rcv_cnt /\ crc' = crc
      BY SMT, <1>2 DEF do_pktn
    <2>2. rcv_chk' \in Byte
      BY SMT, <2>1 DEF RegisterRanges, Byte, Word
    <2>3. RegisterRanges'
      BY SMT, <2>1, <2>2 DEF RegisterRanges
    <2>4. LengthFits'
      BY SMT, <1>2 DEF do_pktn, LengthFits
    <2>5. QED
      BY <2>3, <2>4
  <1>3. CASE do_type(b)
    <2>1. /\ rcv_chk' = (rcv_chk + b) % 256 /\ rcv_type' = b
          /\ rcv_length' = rcv_length /\ rcv_cnt' = rcv_cnt /\ crc' = crc
      BY SMT, <1>3 DEF do_type
    <2>2. rcv_chk' \in Byte /\ rcv_type' \in Byte
      BY SMT, <2>1 DEF RegisterRanges, Byte, Word
    <2>3. RegisterRanges'
      BY SMT, <2>1, <2>2 DEF RegisterRanges
    <2>4. LengthFits'
      BY SMT, <1>3 DEF do_type, LengthFits
    <2>5. QED
      BY <2>3, <2>4
  <1>4. CASE do_len_hi(b)
    <2>1. /\ rcv_chk' = (rcv_chk + b) % 256 /\ rcv_type' = rcv_type
          /\ rcv_length' = 256 * b /\ rcv_cnt' = rcv_cnt /\ crc' = crc
      BY SMT, <1>4 DEF do_len_hi
    <2>2. rcv_chk' \in Byte /\ rcv_length' \in Word
      <3>1. rcv_chk \in Byte
        BY DEF RegisterRanges
      <3>2. rcv_chk' \in Byte
        BY SMT, <2>1, <3>1 DEF Byte
      <3>3. rcv_length' \in Word
        BY SMT, <2>1 DEF Byte, Word
      <3>4. QED
        BY <3>2, <3>3
    <2>3. RegisterRanges'
      BY SMT, <2>1, <2>2 DEF RegisterRanges
    <2>4. rcv_state' = "LEN_LO" /\ rcv_length' <= 65280
      BY SMT, <1>4, <2>1 DEF do_len_hi, Byte
    <2>5. LengthFits'
      BY SMT, <2>4 DEF LengthFits
    <2>6. QED
      BY <2>3, <2>5
  <1>5. CASE do_len_lo(b)
    <2>1. /\ rcv_chk' = (rcv_chk + b) % 256 /\ rcv_type' = rcv_type
          /\ rcv_length' = rcv_length + b /\ rcv_cnt' = rcv_cnt /\ crc' = crc
      BY SMT, <1>5 DEF do_len_lo
    <2>2. rcv_length <= 65280 /\ rcv_state' = "CHK"
      BY <1>5 DEF do_len_lo, LengthFits
    <2>3. rcv_chk' \in Byte /\ rcv_length' \in Word
      <3>1. rcv_chk \in Byte /\ rcv_length \in Word
        BY DEF RegisterRanges
      <3>2. rcv_chk' \in Byte
        BY SMT, <2>1, <3>1 DEF Byte
      <3>3. rcv_length' \in Word
        BY <2>1, <2>2, <3>1, LengthSum
      <3>4. QED
        BY <3>2, <3>3
    <2>4. RegisterRanges'
      BY SMT, <2>1, <2>3 DEF RegisterRanges
    <2>5. LengthFits'
      BY SMT, <2>2 DEF LengthFits
    <2>6. QED
      BY <2>4, <2>5
  <1>6. CASE do_chk(b)
    <2>1. rcv_chk' = rcv_chk /\ rcv_type' = rcv_type /\ rcv_length' = rcv_length
      BY <1>6 DEF do_chk
    <2>2. CASE header_ok(b)
      <3>1. crc' = 0 /\ rcv_cnt' = rcv_length
        BY <1>6, <2>2 DEF do_chk, BeginPayload
      <3>2. rcv_state' = IF rcv_length = 0 THEN "CRC_HI" ELSE "DATA"
        BY <1>6, <2>2 DEF do_chk, BeginPayload
      <3>3. rcv_length \in 0..PKTMAXLEN
        BY SMT, <2>2, PKTMAXLENAssumption DEF header_ok, RegisterRanges, Word
      <3>4. RegisterRanges'
        BY SMT, <2>1, <3>1, <3>3 DEF RegisterRanges, Count
      <3>5. LengthFits'
        BY SMT, <2>1, <3>1, <3>2, <3>3, PKTMAXLENAssumption DEF LengthFits
      <3>6. QED
        BY <3>4, <3>5
    <2>3. CASE ~header_ok(b)
      <3>1. crc' = crc /\ rcv_cnt' = rcv_cnt /\ rcv_state' = "REPLY"
        BY <1>6, <2>3 DEF do_chk, send_nak
      <3>2. RegisterRanges'
        BY SMT, <2>1, <3>1 DEF RegisterRanges
      <3>3. LengthFits'
        BY SMT, <3>1 DEF LengthFits
      <3>4. QED
        BY <3>2, <3>3
    <2>4. QED
      BY <2>2, <2>3
  <1>7. CASE do_data(b)
    <2>1. /\ rcv_chk' = rcv_chk /\ rcv_type' = rcv_type
          /\ rcv_length' = rcv_length /\ rcv_cnt' = rcv_cnt - 1 /\ crc' = updcrc(crc, b)
      BY SMT, <1>7 DEF do_data
    <2>2. rcv_state = "DATA" /\ rcv_state' = IF rcv_cnt = 1 THEN "CRC_HI" ELSE "DATA"
      BY <1>7 DEF do_data
    <2>3. rcv_cnt \in 1..rcv_length /\ rcv_length <= PKTMAXLEN
      BY <2>2 DEF LengthFits
    <2>4. rcv_length \in Nat /\ crc \in Int
      BY SMT DEF RegisterRanges, Word
    <2>5. rcv_cnt' \in Count
      BY SMT, <2>1, <2>3, <2>4, PKTMAXLENAssumption DEF Count
    <2>6. crc' \in Int
      BY SMT, <2>1, <2>4 DEF updcrc, Byte
    <2>7. RegisterRanges'
      BY SMT, <2>1, <2>5, <2>6 DEF RegisterRanges
    <2>8. LengthFits'
      BY SMT, <2>1, <2>2, <2>3, <2>4 DEF LengthFits
    <2>9. QED
      BY <2>7, <2>8
  <1>8. CASE do_crc_hi(b)
    <2>1. /\ rcv_chk' = rcv_chk /\ rcv_type' = rcv_type
          /\ rcv_length' = rcv_length /\ rcv_cnt' = rcv_cnt /\ crc' = crc - 256 * b
      BY SMT, <1>8 DEF do_crc_hi
    <2>2. crc' \in Int
      BY SMT, <2>1 DEF RegisterRanges, Byte, Word
    <2>3. RegisterRanges'
      BY SMT, <2>1, <2>2 DEF RegisterRanges
    <2>4. LengthFits'
      BY SMT, <1>8 DEF do_crc_hi, LengthFits
    <2>5. QED
      BY <2>3, <2>4
  <1>9. CASE do_crc_lo(b)
    <2>1. /\ rcv_chk' = rcv_chk /\ rcv_type' = rcv_type
          /\ rcv_length' = rcv_length /\ rcv_cnt' = rcv_cnt /\ crc' = crc - b
      BY SMT, <1>9 DEF do_crc_lo
    <2>2. crc' \in Int
      BY SMT, <2>1 DEF RegisterRanges, Byte, Word
    <2>3. RegisterRanges'
      BY SMT, <2>1, <2>2 DEF RegisterRanges
    <2>4. LengthFits'
      BY SMT, <1>9 DEF do_crc_lo, send_nak, LengthFits
    <2>5. QED
      BY <2>3, <2>4
  <1>10. QED
    BY <1>1, <1>2, <1>3, <1>4, <1>5, <1>6, <1>7, <1>8, <1>9 DEF dispatch

LEMMA ReceiveType ==
  ASSUME LineTypeOK, DriverTypeOK, receive
  PROVE  LineTypeOK' /\ DriverTypeOK'
  <1> DEFINE b == Head(toTarget)
  <1>1. b \in Byte /\ toTarget' \in Seq(Byte)
    BY HeadTail DEF receive, LineTypeOK
  <1>2. toHost' = toHost /\ faults' = faults /\ hits' = hits
    BY DEF receive
  <1>3. LineTypeOK'
    BY <1>1, <1>2 DEF LineTypeOK
  <1>4. RegisterRanges /\ LengthFits /\ MailboxTypeOK /\ ReplyTypeOK /\ dispatch(b)
    BY DEF receive, DriverTypeOK
  <1>5. RegisterRanges' /\ LengthFits'
    BY <1>1, <1>4, DispatchRegisters
  <1>6. /\ status' \in {"PENDING", "OK", "ERROR"} /\ sndbyte' \in {ACK, NAK}
        /\ rcv_state' \in RcvStates
        /\ buffers' \in [0..1 -> [0..PKTMAXLEN - 1 -> Byte]]
    BY <1>1, <1>4, DispatchFrame DEF DriverTypeOK
  <1>7. cog' = cog /\ rcv_buf1' = rcv_buf1 /\ tx' = tx
    BY DEF receive
  <1>8. pkt_type' = pkt_type /\ pkt_buffer' = pkt_buffer /\ pkt_length' = pkt_length
    BY DEF receive, mailbox
  <1>9. MailboxTypeOK'
    BY <1>4, <1>6, <1>8 DEF MailboxTypeOK
  <1>10. ReplyTypeOK'
    BY <1>4, <1>6, <1>7 DEF ReplyTypeOK
  <1>11. QED
    BY <1>3, <1>5, <1>6, <1>7, <1>9, <1>10 DEF DriverTypeOK

-----------------------------------------------------------------------------
(* The other steps of the driver. *)

(* A step that leaves the driver alone keeps its type. *)
LEMMA DriverUnchanged ==
  ASSUME DriverTypeOK, UNCHANGED driverVars
  PROVE  DriverTypeOK'
  <1>1. UNCHANGED <<cog, rcv_state, rcv_buf1, buffers>>
    BY DEF driverVars
  <1>2. UNCHANGED headerVars /\ UNCHANGED mailbox /\ UNCHANGED <<sndbyte, tx, status>>
    BY DEF driverVars
  <1>3. RegisterRanges' /\ LengthFits'
    BY <1>1, <1>2 DEF DriverTypeOK, headerVars, RegisterRanges, LengthFits
  <1>4. MailboxTypeOK' /\ ReplyTypeOK'
    BY <1>2 DEF DriverTypeOK, mailbox, MailboxTypeOK, ReplyTypeOK
  <1>5. QED
    BY <1>1, <1>3, <1>4 DEF DriverTypeOK

LEMMA RegistersUnchanged ==
  ASSUME RegisterRanges, LengthFits, UNCHANGED headerVars,
         rcv_state' \in {rcv_state, "SOH", "REPLY"}
  PROVE  RegisterRanges' /\ LengthFits'
  <1>1. rcv_chk' = rcv_chk /\ rcv_type' = rcv_type /\ rcv_length' = rcv_length
        /\ rcv_cnt' = rcv_cnt /\ crc' = crc
    BY DEF headerVars
  <1>2. RegisterRanges'
    BY <1>1 DEF RegisterRanges
  <1>3. LengthFits'
    BY SMT, <1>1 DEF LengthFits
  <1>4. QED
    BY <1>2, <1>3

LEMMA MissByteType ==
  ASSUME LineTypeOK, DriverTypeOK, MissByte
  PROVE  LineTypeOK' /\ DriverTypeOK'
  <1>1. toTarget' \in Seq(Byte)
    BY HeadTail DEF MissByte, LineTypeOK
  <1>2. toHost' = toHost /\ faults' = faults /\ hits' = hits
    BY DEF MissByte
  <1>3. LineTypeOK'
    BY <1>1, <1>2 DEF LineTypeOK
  <1>4. QED
    BY <1>3, DriverUnchanged DEF MissByte

LEMMA PublishType ==
  ASSUME LineTypeOK, DriverTypeOK, publish
  PROVE  LineTypeOK' /\ DriverTypeOK'
  <1>1. LineTypeOK'
    BY DEF publish, lineVars, LineTypeOK
  <1>2. rcv_buf1 \in 0..1 /\ rcv_buf1' = 1 - rcv_buf1
    BY DEF publish, other_buffer, DriverTypeOK
  <1>3. rcv_buf1' \in 0..1
    BY SMT, <1>2
  <1>4. RegisterRanges' /\ LengthFits'
    BY RegistersUnchanged DEF publish, DriverTypeOK
  <1>5. rcv_length \in Count /\ rcv_type \in Byte
    <2>1. rcv_length <= PKTMAXLEN
      BY DEF publish, DriverTypeOK, LengthFits
    <2>2. rcv_length \in Word /\ rcv_type \in Byte
      BY DEF DriverTypeOK, RegisterRanges
    <2>3. QED
      BY SMT, <2>1, <2>2, PKTMAXLENAssumption DEF Word, Count
  <1>6. MailboxTypeOK'
    BY <1>2, <1>5 DEF publish, MailboxTypeOK
  <1>7. ReplyTypeOK'
    BY DEF publish, DriverTypeOK, ReplyTypeOK
  <1>8. cog' = cog /\ buffers' = buffers /\ rcv_state' = "REPLY"
    BY DEF publish
  <1>9. QED
    BY <1>1, <1>3, <1>4, <1>6, <1>7, <1>8 DEF DriverTypeOK, RcvStates

LEMMA SendByteType ==
  ASSUME LineTypeOK, DriverTypeOK, send_byte
  PROVE  LineTypeOK' /\ DriverTypeOK'
  <1>1. LineTypeOK'
    BY DEF send_byte, lineVars, LineTypeOK
  <1>2. RegisterRanges' /\ LengthFits'
    BY RegistersUnchanged DEF send_byte, DriverTypeOK
  <1>3. sndbyte \in {ACK, NAK} /\ tx \in Seq({ACK, NAK})
    BY DEF DriverTypeOK, ReplyTypeOK
  <1>4. tx' \in Seq({ACK, NAK}) /\ Len(tx') = Len(tx) + 1
    BY <1>3, Grows DEF send_byte
  <1>5. Len(tx') < TXSIZE
    BY SMT, <1>3, <1>4, PacketDriverAssumption DEF send_byte
  <1>6. ReplyTypeOK'
    BY <1>3, <1>4, <1>5 DEF send_byte, ReplyTypeOK
  <1>7. MailboxTypeOK'
    BY DEF send_byte, mailbox, DriverTypeOK, MailboxTypeOK
  <1>8. cog' = cog /\ buffers' = buffers /\ rcv_buf1' = rcv_buf1 /\ rcv_state' = "SOH"
    BY DEF send_byte
  <1>9. QED
    BY <1>1, <1>2, <1>6, <1>7, <1>8 DEF DriverTypeOK, RcvStates, ListenStates

LEMMA TransmitType ==
  ASSUME LineTypeOK, DriverTypeOK, transmit
  PROVE  LineTypeOK' /\ DriverTypeOK'
  <1>1. tx \in Seq({ACK, NAK}) /\ Len(tx) < TXSIZE
    BY DEF DriverTypeOK, ReplyTypeOK
  <1>2. /\ Head(tx) \in {ACK, NAK}
        /\ tx' \in Seq({ACK, NAK}) /\ Len(tx') = Len(tx) - 1
    BY <1>1, HeadTail DEF transmit
  <1>3. Len(tx') < TXSIZE
    BY SMT, <1>1, <1>2, PacketDriverAssumption
  <1>4. Head(tx) \in Byte
    BY SMT, <1>2 DEF Byte, ACK, NAK
  <1>5. toHost' \in Seq(Byte)
    BY <1>4, Grows DEF transmit, LineTypeOK
  <1>6. LineTypeOK'
    BY <1>5 DEF transmit, LineTypeOK
  <1>7. RegisterRanges' /\ LengthFits'
    BY RegistersUnchanged DEF transmit, DriverTypeOK
  <1>8. ReplyTypeOK'
    BY <1>2, <1>3 DEF transmit, DriverTypeOK, ReplyTypeOK
  <1>9. MailboxTypeOK'
    BY DEF transmit, mailbox, DriverTypeOK, MailboxTypeOK
  <1>10. UNCHANGED <<cog, rcv_state, rcv_buf1, buffers>>
    BY DEF transmit
  <1>11. QED
    BY <1>6, <1>7, <1>8, <1>9, <1>10 DEF DriverTypeOK

LEMMA DriverStepType ==
  ASSUME LineTypeOK, DriverTypeOK, DriverStep
  PROVE  LineTypeOK' /\ DriverTypeOK'
  BY ReceiveType, MissByteType, PublishType, SendByteType, TransmitType DEF DriverStep

LEMMA StopType ==
  ASSUME LineTypeOK, DriverTypeOK, stop
  PROVE  LineTypeOK' /\ DriverTypeOK'
  <1>1. LineTypeOK'
    BY DEF stop, lineVars, LineTypeOK
  <1>2. RegisterRanges' /\ LengthFits'
    BY RegistersUnchanged DEF stop, DriverTypeOK
  <1>3. ReplyTypeOK'
    <2>1. tx' = <<>> /\ sndbyte' = sndbyte /\ sndbyte \in {ACK, NAK}
      BY DEF stop, DriverTypeOK, ReplyTypeOK
    <2>2. QED
      BY SMT, <2>1, PacketDriverAssumption DEF ReplyTypeOK
  <1>4. MailboxTypeOK'
    BY DEF stop, mailbox, DriverTypeOK, MailboxTypeOK
  <1>5. cog' = "stopped" /\ UNCHANGED <<rcv_state, rcv_buf1, buffers>>
    BY DEF stop
  <1>6. QED
    BY <1>1, <1>2, <1>3, <1>4, <1>5 DEF DriverTypeOK

LEMMA FaultCount ==
  ASSUME faults \in 0..MaxFaults, Fault
  PROVE  faults' \in 0..MaxFaults
  BY SMT, PacketDriverAssumption DEF Fault

LEMMA LineFaultType ==
  ASSUME LineTypeOK, DriverTypeOK, LineFault
  PROVE  LineTypeOK' /\ DriverTypeOK'
  <1>1. faults' \in 0..MaxFaults
    BY FaultCount DEF LineFault, LoseByte, DamageByte, Burst, LoseReply, DamageReply, LineTypeOK
  <1>2. UNCHANGED driverVars
    BY DEF LineFault, LoseByte, DamageByte, Burst, LoseReply, DamageReply
  <1>3. LineTypeOK'
    <2>1. CASE LoseByte
      BY <1>1, <2>1, HeadTail DEF LoseByte, LineTypeOK
    <2>2. CASE DamageByte
      <3>1. PICK b \in NoiseBytes : toTarget' = <<b>> \o Tail(toTarget)
        BY <2>2 DEF DamageByte
      <3>2. b \in Byte /\ Tail(toTarget) \in Seq(Byte)
        BY <2>2, HeadTail, PacketDriverAssumption DEF DamageByte, LineTypeOK
      <3>3. toTarget' \in Seq(Byte)
        BY <3>1, <3>2, Grows
      <3>4. QED
        BY <1>1, <2>2, <3>3 DEF DamageByte, LineTypeOK
    <2>3. CASE Burst
      BY <1>1, <2>3, PacketDriverAssumption DEF Burst, LineTypeOK
    <2>4. CASE LoseReply
      BY <1>1, <2>4, HeadTail DEF LoseReply, LineTypeOK
    <2>5. CASE DamageReply
      <3>1. PICK b \in NoiseBytes : toHost' = <<b>> \o Tail(toHost)
        BY <2>5 DEF DamageReply
      <3>2. b \in Byte /\ Tail(toHost) \in Seq(Byte)
        BY <2>5, HeadTail, PacketDriverAssumption DEF DamageReply, LineTypeOK
      <3>3. toHost' \in Seq(Byte)
        BY <3>1, <3>2, Grows
      <3>4. QED
        BY <1>1, <2>5, <3>3 DEF DamageReply, LineTypeOK
    <2>6. QED
      BY <2>1, <2>2, <2>3, <2>4, <2>5 DEF LineFault
  <1>4. QED
    BY <1>2, <1>3, DriverUnchanged

-----------------------------------------------------------------------------
(* The helper. *)

Memory == [Memories -> [Address -> Cell]]

LEMMA BytesAreCells == Byte \subseteq Cell
  BY SMT DEF Byte, Cell

(* A cell that a handler copies comes from inside the packet buffer.       *)
LEMMA PacketByte ==
  ASSUME DriverTypeOK, packet \in 0..1, NEW at \in Nat, NEW n \in Count, NEW a \in at..at + n - 1
  PROVE  buffers[packet][a - at] \in Cell
  <1>1. n \in Nat /\ n <= PKTMAXLEN
    BY SMT, PKTMAXLENAssumption DEF Count
  <1>2. a - at \in 0..PKTMAXLEN - 1
    BY SMT, <1>1, PKTMAXLENAssumption
  <1>3. buffers[packet] \in [0..PKTMAXLEN - 1 -> Byte]
    BY DEF DriverTypeOK
  <1>4. buffers[packet][a - at] \in Byte
    BY <1>2, <1>3
  <1>5. QED
    BY <1>4, BytesAreCells

LEMMA EraseType ==
  ASSUME NEW m \in Memory, NEW at \in Nat
  PROVE  Erase(m, at) \in Memory
  <1>1. Erased \in Cell /\ "FLASH" \in Memories
    BY SMT DEF Erased, Cell, Memories
  <1>2. [a \in Address |-> IF a \div BlockSize = at \div BlockSize THEN Erased ELSE m["FLASH"][a]]
          \in [Address -> Cell]
    BY <1>1 DEF Memory
  <1>3. QED
    BY <1>1, <1>2 DEF Erase, Memory

LEMMA ProgramType ==
  ASSUME DriverTypeOK, packet \in 0..1,
         NEW m \in Memory, NEW at \in Nat, NEW n \in Count
  PROVE  Program(m, at, n) \in Memory
  <1>1. Garbage \in Cell /\ "FLASH" \in Memories
    BY SMT DEF Garbage, Cell, Memories
  <1>2. \A a \in at..at + n - 1 : buffers[packet][a - at] \in Cell
    BY PacketByte
  <1>3. [a \in Address |->
           IF a \in at..at + n - 1
             THEN IF m["FLASH"][a] = Erased THEN buffers[packet][a - at] ELSE Garbage
             ELSE m["FLASH"][a]] \in [Address -> Cell]
    BY <1>1, <1>2 DEF Memory
  <1>4. QED
    BY <1>1, <1>3 DEF Program, Memory

LEMMA LongsType ==
  ASSUME NEW n \in Count
  PROVE  Longs(n) \in Count
  <1>1. Longs(n) \in n..PKTMAXLEN
    BY SerialHelperAssumption DEF Count
  <1>2. QED
    BY SMT, <1>1, PKTMAXLENAssumption DEF Count

LEMMA StoreType ==
  ASSUME DriverTypeOK, packet \in 0..1,
         NEW m \in Memory, NEW space \in Memories, NEW at \in Nat, NEW n \in Count
  PROVE  Store(m, space, at, n) \in Memory
  <1>1. Longs(n) \in Count
    BY LongsType
  <1>2. \A a \in at..at + Longs(n) - 1 : buffers[packet][a - at] \in Cell
    BY <1>1, PacketByte
  <1>3. [a \in Address |->
           IF a \in at..at + Longs(n) - 1 THEN buffers[packet][a - at] ELSE m[space][a]]
          \in [Address -> Cell]
    BY <1>2 DEF Memory
  <1>4. QED
    BY <1>3 DEF Store, Memory

(* What a handler does to the target's memories and to the loop.           *)
LEMMA HandleTarget ==
  ASSUME DriverTypeOK, HelperTypeOK, handle
  PROVE  /\ lpc' \in LoopStates
         /\ write_mode' \in {"NONE", "FLASH", "RAM", "HUB"} /\ load_address' \in Nat
         /\ mem' \in Memory
  <1> DEFINE Goal == /\ lpc' \in LoopStates
                     /\ write_mode' \in {"NONE", "FLASH", "RAM", "HUB"} /\ load_address' \in Nat
                     /\ mem' \in Memory
  <1>1. /\ packet \in 0..1 /\ len \in Count /\ load_address \in Nat /\ mem \in Memory
        /\ write_mode \in {"NONE", "FLASH", "RAM", "HUB"}
    BY DEF HelperTypeOK, Memory
  <1>2. len \in Nat /\ Longs(len) \in Nat
    <2>1. len \in Count /\ Longs(len) \in Count
      BY <1>1, LongsType
    <2>2. QED
      BY SMT, <2>1, PKTMAXLENAssumption DEF Count
  <1>3. ASSUME UNCHANGED targetVars, lpc' \in {"release", "stop", "hung"} PROVE Goal
    BY <1>1, <1>3 DEF targetVars, LoopStates
  <1>4. CASE VM_INIT_handler
    BY <1>1, <1>4 DEF VM_INIT_handler, LoopStates
  <1>5. CASE CACHE_INIT_handler
    BY <1>1, <1>5 DEF CACHE_INIT_handler, LoopStates
  <1>6. CASE FLASH_WRITE_handler
    <2>1. CASE CacheAnswers
      <3>1. mem' = Erase(mem, 0) /\ load_address' = 0 /\ write_mode' = "FLASH" /\ lpc' = "release"
        BY <1>6, <2>1 DEF FLASH_WRITE_handler
      <3>2. QED
        BY <1>1, <3>1, EraseType DEF LoopStates
    <2>2. CASE ~CacheAnswers
      BY <1>3, <1>6, <2>2 DEF FLASH_WRITE_handler, Hang
    <2>3. QED
      BY <2>1, <2>2
  <1>7. CASE RAM_WRITE_handler
    BY <1>1, <1>7 DEF RAM_WRITE_handler, LoopStates
  <1>8. CASE HUB_WRITE_handler
    BY <1>1, <1>8 DEF HUB_WRITE_handler, LoopStates
  <1>9. CASE DATA_handler
    <2>1. CASE write_mode = "FLASH"
      <3> DEFINE next == load_address + len
                 programmed == Program(mem, load_address, len)
      <3>1. /\ load_address' = next /\ lpc' = "release" /\ write_mode' = write_mode
            /\ mem' = IF erase_next(next) THEN Erase(programmed, next) ELSE programmed
        BY <1>9, <2>1 DEF DATA_handler
      <3>2. next \in Nat
        BY SMT, <1>1, <1>2
      <3>3. programmed \in Memory
        BY <1>1, ProgramType
      <3>4. Erase(programmed, next) \in Memory
        BY <3>2, <3>3, EraseType
      <3>5. QED
        BY <1>1, <3>1, <3>2, <3>3, <3>4 DEF LoopStates
    <2>2. ASSUME NEW space \in Memories, lpc' = "release", UNCHANGED write_mode,
                 mem' = Store(mem, space, load_address, len),
                 load_address' = load_address + Longs(len)
          PROVE Goal
      <3>1. load_address' \in Nat
        BY SMT, <1>1, <1>2, <2>2
      <3>2. mem' \in Memory
        BY <1>1, <2>2, StoreType
      <3>3. QED
        BY <1>1, <2>2, <3>1, <3>2 DEF LoopStates
    <2>3. CASE write_mode = "RAM"
      BY <1>3, <1>9, <2>2, <2>3 DEF DATA_handler, Hang, Memories
    <2>4. CASE write_mode = "HUB"
      BY <1>9, <2>2, <2>4 DEF DATA_handler, Memories
    <2>5. QED
      BY <1>9, <2>1, <2>3, <2>4 DEF DATA_handler
  <1>10. CASE EOF_handler
    BY <1>3, <1>10 DEF EOF_handler
  <1>11. CASE RUN_handler
    BY <1>3, <1>11 DEF RUN_handler
  <1>12. QED
    BY <1>4, <1>5, <1>6, <1>7, <1>8, <1>9, <1>10, <1>11 DEF handle

LEMMA SetPendingType ==
  ASSUME LineTypeOK, DriverTypeOK, SetPending
  PROVE  LineTypeOK' /\ DriverTypeOK'
  <1>1. LineTypeOK'
    BY DEF SetPending, lineVars, LineTypeOK
  <1>2. RegisterRanges' /\ LengthFits'
    BY RegistersUnchanged DEF SetPending, DriverTypeOK
  <1>3. MailboxTypeOK'
    BY DEF SetPending, mailbox, DriverTypeOK, MailboxTypeOK
  <1>4. ReplyTypeOK'
    BY DEF SetPending, DriverTypeOK, ReplyTypeOK
  <1>5. UNCHANGED <<cog, rcv_state, rcv_buf1, buffers>>
    BY DEF SetPending
  <1>6. QED
    BY <1>1, <1>2, <1>3, <1>4, <1>5 DEF DriverTypeOK

LEMMA LineUnchanged ==
  ASSUME LineTypeOK, UNCHANGED lineVars
  PROVE  LineTypeOK'
  BY DEF lineVars, LineTypeOK

(* A step of the loop that only moves on.                                  *)
LEMMA HelperMoves ==
  ASSUME HelperTypeOK, lpc' \in LoopStates, UNCHANGED locals, UNCHANGED targetVars
  PROVE  HelperTypeOK'
  BY DEF HelperTypeOK, locals, targetVars

LEMMA HelperUnchanged ==
  ASSUME HelperTypeOK, UNCHANGED helperVars
  PROVE  HelperTypeOK'
  <1>1. lpc' = lpc /\ UNCHANGED locals /\ UNCHANGED targetVars
    BY DEF helperVars
  <1>2. QED
    BY <1>1, HelperMoves DEF HelperTypeOK

LEMMA HelperStepType ==
  ASSUME LineTypeOK, DriverTypeOK, HelperTypeOK, HelperStepButStop
  PROVE  LineTypeOK' /\ DriverTypeOK' /\ HelperTypeOK'
  <1>1. CASE poll_status
    BY <1>1, LineUnchanged, DriverUnchanged, HelperMoves DEF poll_status, LoopStates
  <1>2. CASE check_status
    BY <1>2, LineUnchanged, DriverUnchanged, HelperMoves DEF check_status, LoopStates
  <1>3. CASE reset_status
    BY <1>3, SetPendingType, HelperMoves DEF reset_status, LoopStates
  <1>4. CASE fetch_packet
    <2>1. LineTypeOK' /\ DriverTypeOK'
      BY <1>4, LineUnchanged, DriverUnchanged DEF fetch_packet
    <2>2. ptype' \in Byte /\ packet' \in 0..1 /\ len' \in Count
      BY <1>4 DEF fetch_packet, DriverTypeOK, MailboxTypeOK
    <2>3. UNCHANGED targetVars /\ lpc' = "handle"
      BY <1>4 DEF fetch_packet
    <2>4. QED
      BY <2>1, <2>2, <2>3 DEF HelperTypeOK, targetVars, LoopStates
  <1>5. CASE handle
    <2>1. LineTypeOK' /\ DriverTypeOK' /\ UNCHANGED locals
      BY <1>5, LineUnchanged, DriverUnchanged DEF handle
    <2>2. QED
      BY <1>5, <2>1, HandleTarget DEF HelperTypeOK, locals, Memory
  <1>6. CASE release_packet
    BY <1>6, SetPendingType, HelperMoves DEF release_packet, LoopStates
  <1>7. CASE run_program
    BY <1>7, LineUnchanged, DriverUnchanged, HelperMoves DEF run_program, LoopStates
  <1>8. QED
    BY <1>1, <1>2, <1>3, <1>4, <1>5, <1>6, <1>7 DEF HelperStepButStop

-----------------------------------------------------------------------------
(* The host, and the whole. *)

HostInv == HostTypeOK /\ HostInStep

LEMMA HostUnchanged ==
  ASSUME HostInv, UNCHANGED hostVars
  PROVE  HostInv'
  <1>1. N' = N
    BY SameJob DEF hostVars
  <1>2. QED
    BY <1>1 DEF hostVars, HostInv, HostTypeOK, HostInStep

LEMMA GiveUpType ==
  ASSUME HostInv, GiveUp
  PROVE  HostInv'
  <1>1. /\ hstate' = "exit" /\ sent' = sent /\ acked' = acked /\ snd_pktn' = snd_pktn
        /\ job' = job /\ N' = N
    BY SameJob DEF GiveUp
  <1>2. verdict' \in Verdicts
    BY DEF GiveUp, Verdicts
  <1>3. HostInStep'
    BY <1>1 DEF HostInStep
  <1>4. HostTypeOK'
    BY <1>1, <1>2 DEF HostInv, HostTypeOK
  <1>5. QED
    BY <1>3, <1>4 DEF HostInv

LEMMA ReplyType ==
  ASSUME LineTypeOK, TakeReply, UNCHANGED <<toTarget, faults, hits>>
  PROVE  LineTypeOK'
  BY HeadTail DEF TakeReply, LineTypeOK

LEMMA SendPacketType ==
  ASSUME LineTypeOK, HostInv, SendPacket
  PROVE  LineTypeOK' /\ HostInv'
  <1>1. sent \in Nat /\ sent = acked /\ acked < N /\ N \in Nat
    <2>1. sent \in 0..N /\ sent = acked /\ acked < N
      BY DEF SendPacket, HostInv, HostTypeOK, HostInStep
    <2>2. QED
      BY <2>1, JobPackets DEF HostInv, HostTypeOK
  <1>2. /\ sent' = sent + 1 /\ acked' = acked /\ hstate' = "await" /\ verdict' = verdict
        /\ job' = job /\ N' = N
    BY SameJob DEF SendPacket
  <1>3. sent' \in 1..N
    BY SMT, <1>1, <1>2
  <1>4. snd_pktn' \in Byte
    <2>1. snd_pktn' = (snd_pktn + 1) % 256 /\ snd_pktn \in Byte
      BY DEF SendPacket, HostInv, HostTypeOK
    <2>2. QED
      BY SMT, <2>1 DEF Byte
  <1>5. HostInv'
    <2>1. sent' \in 0..N
      BY SMT, <1>1, <1>3
    <2>2. HostInStep'
      BY SMT, <1>1, <1>2 DEF HostInStep
    <2>3. HostTypeOK'
      BY <1>2, <1>4, <2>1 DEF HostInv, HostTypeOK
    <2>4. QED
      BY <2>2, <2>3 DEF HostInv
  <1>6. Frame(snd_pktn', Packets[sent']) \in Seq(Byte)
    BY <1>3, <1>4, JobPackets DEF HostInv, HostTypeOK
  <1>7. toTarget' \in Seq(Byte)
    BY SMT, <1>6 DEF SendPacket, LineTypeOK
  <1>8. LineTypeOK'
    <2>1. hits' = 0 /\ toHost' = toHost /\ faults' = faults
      BY DEF SendPacket
    <2>2. hits' \in 0..1
      BY SMT, <2>1
    <2>3. QED
      BY <1>7, <2>1, <2>2 DEF LineTypeOK
  <1>9. QED
    BY <1>5, <1>8

LEMMA WaitForAckNakType ==
  ASSUME HostInv, WaitForAckNak
  PROVE  HostInv'
  <1>1. CASE acknowledged(Head(toHost))
    <2>1. sent \in 0..N /\ acked \in 0..N /\ sent = acked + 1
      BY DEF WaitForAckNak, HostInv, HostTypeOK, HostInStep
    <2>2. /\ acked' = acked + 1 /\ sent' = sent /\ snd_pktn' = snd_pktn
          /\ hstate' = IF acked' = N THEN "exit" ELSE "send"
          /\ verdict' = IF acked' = N THEN "running" ELSE "none"
          /\ job' = job
      BY <1>1 DEF WaitForAckNak
    <2>3. job \in Jobs /\ N \in Nat /\ N' = N
      BY <2>2, JobPackets, SameJob DEF HostInv, HostTypeOK
    <2>4. acked' \in 0..N /\ sent' = acked' /\ (acked' = N \/ acked' < N)
      BY SMT, <2>3, <2>1, <2>2
    <2>5. snd_pktn' \in Byte /\ sent' \in 0..N
      BY <2>2, <2>4 DEF HostInv, HostTypeOK
    <2>6. HostInStep'
      BY SMT, <2>3, <2>2, <2>4 DEF HostInStep
    <2>7. HostTypeOK'
      BY SMT, <2>3, <2>2, <2>4, <2>5 DEF HostTypeOK, Verdicts
    <2>8. QED
      BY <2>6, <2>7 DEF HostInv
  <1>2. CASE ~acknowledged(Head(toHost))
    BY <1>2, GiveUpType DEF WaitForAckNak
  <1>3. QED
    BY <1>1, <1>2

LEMMA HostStepType ==
  ASSUME TypeOK, HostInStep, HostStep
  PROVE  TypeOK' /\ HostInStep'
  <1>1. LineTypeOK /\ DriverTypeOK /\ HelperTypeOK /\ HostInv
    BY DEF TypeOK, HostInv
  <1>2. UNCHANGED driverVars /\ UNCHANGED helperVars
    BY DEF HostStep, WaitForInitialAck, SendPacket, WaitForAckNak, Timeout
  <1>3. DriverTypeOK' /\ HelperTypeOK'
    BY <1>1, <1>2, DriverUnchanged, HelperUnchanged
  <1>4. LineTypeOK' /\ HostInv'
    <2>1. CASE WaitForInitialAck
      <3>1. CASE Head(toHost) = ACK
        <4>1. /\ UNCHANGED <<job, sent, acked, snd_pktn, verdict>>
              /\ hstate' = "send" /\ hstate = "connect"
          BY <2>1, <3>1 DEF WaitForInitialAck
        <4>2. N \in Nat \ {0} /\ N' = N
          BY <1>1, <4>1, JobPackets, SameJob DEF HostInv, HostTypeOK
        <4>3. HostInv'
          BY SMT, <1>1, <4>1, <4>2 DEF HostInv, HostTypeOK, HostInStep
        <4>4. QED
          BY <1>1, <2>1, <4>3, ReplyType DEF WaitForInitialAck
      <3>2. CASE Head(toHost) # ACK
        BY <1>1, <2>1, <3>2, ReplyType, GiveUpType DEF WaitForInitialAck
      <3>3. QED
        BY <3>1, <3>2
    <2>2. CASE SendPacket
      BY <1>1, <2>2, SendPacketType
    <2>3. CASE WaitForAckNak
      BY <1>1, <2>3, ReplyType, WaitForAckNakType DEF WaitForAckNak
    <2>4. CASE Timeout
      BY <1>1, <2>4, LineUnchanged, GiveUpType DEF Timeout
    <2>5. QED
      BY <2>1, <2>2, <2>3, <2>4 DEF HostStep
  <1>5. QED
    BY <1>3, <1>4 DEF TypeOK, HostInv

LEMMA NextTypeInv ==
  ASSUME TypeInv, [Next]_vars
  PROVE  TypeInv'
  <1>1. LineTypeOK /\ DriverTypeOK /\ HelperTypeOK /\ HostInv
    BY DEF TypeInv, TypeOK, HostInv
  <1>2. CASE HostStep
    BY <1>2, HostStepType DEF TypeInv
  <1>3. CASE DriverStep /\ UNCHANGED <<helperVars, hostVars>>
    BY <1>1, <1>3, DriverStepType, HelperUnchanged, HostUnchanged DEF TypeInv, TypeOK, HostInv
  <1>4. CASE HelperStep
    BY <1>1, <1>4, HelperStepType, HostUnchanged DEF HelperStep, TypeInv, TypeOK, HostInv
  <1>5. CASE stop_driver
    <2>1. LineTypeOK' /\ DriverTypeOK'
      BY <1>1, <1>5, StopType DEF stop_driver
    <2>2. HelperTypeOK'
      BY <1>1, <1>5, HelperMoves DEF stop_driver, LoopStates
    <2>3. HostInv'
      BY <1>1, <1>5, HostUnchanged DEF stop_driver
    <2>4. QED
      BY <2>1, <2>2, <2>3 DEF TypeInv, TypeOK, HostInv
  <1>6. CASE ~calm /\ LineFault /\ UNCHANGED <<helperVars, hostVars>>
    BY <1>1, <1>6, LineFaultType, HelperUnchanged, HostUnchanged DEF TypeInv, TypeOK, HostInv
  <1>7. CASE UNCHANGED vars
    BY <1>1, <1>7, LineUnchanged, DriverUnchanged, HelperUnchanged, HostUnchanged
    DEF vars, TypeInv, TypeOK, HostInv
  <1>8. QED
    BY <1>2, <1>3, <1>4, <1>5, <1>6, <1>7 DEF Next, Finished

THEOREM TypeInvariant == Spec => []TypeInv
  <1>1. Init => TypeInv
    BY InitTypeInv
  <1>2. TypeInv /\ [Next]_vars => TypeInv'
    BY NextTypeInv
  <1>3. QED
    BY <1>1, <1>2, PTL DEF Spec

(* For every buffer size, script, line and timing the program stays inside *)
(* its types: the receiver never writes outside its packet buffers and no  *)
(* handler reads outside them.                                             *)
THEOREM TypeCorrect == Spec => []TypeOK
  <1>1. TypeInv => TypeOK
    BY DEF TypeInv
  <1>2. QED
    BY <1>1, TypeInvariant, PTL

-----------------------------------------------------------------------------
(* Double buffering. *)

(* A step after which the mailbox, the receiving buffer and the helper     *)
(* stand as before, and status has not become OK or PENDING, keeps a held  *)
(* packet.                                                                 *)
LEMMA HeldByOthers ==
  ASSUME HeldPacketIsStable, UNCHANGED mailbox, rcv_buf1' = rcv_buf1,
         UNCHANGED <<lpc, locals>>, status' \in {status, "ERROR"}
  PROVE  HeldPacketIsStable'
  BY DEF HeldPacketIsStable, Holding, mailbox, locals

LEMMA ReceiveKeepsHeld ==
  ASSUME HeldPacketIsStable, receive, UNCHANGED helperVars
  PROVE  HeldPacketIsStable'
  <1>1. status' \in {status, "ERROR"}
    BY DEF receive, dispatch, do_soh, do_pktn, do_type, do_len_hi, do_len_lo, do_chk,
      BeginPayload, send_nak, do_data, do_crc_hi, do_crc_lo
  <1>2. UNCHANGED mailbox /\ rcv_buf1' = rcv_buf1 /\ UNCHANGED <<lpc, locals>>
    BY DEF receive, helperVars
  <1>3. QED
    BY <1>1, <1>2, HeldByOthers

(* Nothing is held when a packet is published, and the buffers change      *)
(* places.                                                                 *)
LEMMA PublishKeepsHeld ==
  ASSUME DriverTypeOK, HeldPacketIsStable, publish, UNCHANGED helperVars
  PROVE  HeldPacketIsStable'
  <1>1. status = "PENDING" /\ lpc' = lpc
    BY DEF publish, mailbox_free, helperVars
  <1>2. ~Holding /\ ~Holding'
    BY <1>1 DEF HeldPacketIsStable, Holding
  <1>3. lpc' \notin {"handle", "release"}
    BY <1>2 DEF Holding
  <1>4. rcv_buf1 \in 0..1 /\ rcv_buf1' = 1 - rcv_buf1 /\ pkt_buffer' = rcv_buf1
    BY DEF publish, other_buffer, DriverTypeOK
  <1>5. rcv_buf1' # pkt_buffer'
    BY SMT, <1>4
  <1>6. QED
    BY <1>2, <1>3, <1>5 DEF HeldPacketIsStable

LEMMA HelperKeepsHeld ==
  ASSUME HeldPacketIsStable, HelperStepButStop
  PROVE  HeldPacketIsStable'
  <1>1. CASE poll_status
    BY <1>1 DEF poll_status, driverVars, mailbox, HeldPacketIsStable, Holding
  <1>2. CASE check_status
    BY <1>2 DEF check_status, driverVars, mailbox, HeldPacketIsStable, Holding
  <1>3. CASE reset_status
    BY <1>3 DEF reset_status, SetPending, HeldPacketIsStable, Holding
  <1>4. CASE fetch_packet
    BY <1>4 DEF fetch_packet, driverVars, mailbox, HeldPacketIsStable, Holding
  <1>5. CASE handle
    <2>1. lpc = "handle" /\ lpc' \in {"release", "stop", "hung"}
      BY <1>5 DEF handle, VM_INIT_handler, CACHE_INIT_handler, FLASH_WRITE_handler, Hang,
        RAM_WRITE_handler, HUB_WRITE_handler, DATA_handler, EOF_handler, RUN_handler
    <2>2. UNCHANGED driverVars /\ UNCHANGED locals
      BY <1>5 DEF handle
    <2>3. QED
      BY <2>1, <2>2 DEF driverVars, mailbox, locals, HeldPacketIsStable, Holding
  <1>6. CASE release_packet
    BY <1>6 DEF release_packet, SetPending, HeldPacketIsStable, Holding
  <1>7. CASE run_program
    BY <1>7 DEF run_program, driverVars, mailbox, HeldPacketIsStable, Holding
  <1>8. QED
    BY <1>1, <1>2, <1>3, <1>4, <1>5, <1>6, <1>7 DEF HelperStepButStop

LEMMA NextKeepsHeld ==
  ASSUME TypeOK, HeldPacketIsStable, [Next]_vars
  PROVE  HeldPacketIsStable'
  <1>1. ASSUME UNCHANGED <<driverVars, helperVars>> PROVE HeldPacketIsStable'
    BY <1>1, HeldByOthers DEF driverVars, helperVars
  <1>2. CASE HostStep
    <2>1. UNCHANGED <<driverVars, helperVars>>
      BY <1>2 DEF HostStep, WaitForInitialAck, SendPacket, WaitForAckNak, Timeout
    <2>2. QED
      BY <1>1, <2>1
  <1>3. CASE DriverStep /\ UNCHANGED <<helperVars, hostVars>>
    <2>1. CASE receive
      BY <1>3, <2>1, ReceiveKeepsHeld
    <2>2. CASE MissByte
      BY <1>1, <1>3, <2>2 DEF MissByte
    <2>3. CASE publish
      BY <1>3, <2>3, PublishKeepsHeld DEF TypeOK
    <2>4. CASE send_byte
      BY <1>3, <2>4, HeldByOthers DEF send_byte, helperVars
    <2>5. CASE transmit
      BY <1>3, <2>5, HeldByOthers DEF transmit, helperVars
    <2>6. QED
      BY <1>3, <2>1, <2>2, <2>3, <2>4, <2>5 DEF DriverStep
  <1>4. CASE HelperStep
    BY <1>4, HelperKeepsHeld DEF HelperStep
  <1>5. CASE stop_driver
    BY <1>5 DEF stop_driver, stop, mailbox, HeldPacketIsStable, Holding
  <1>6. CASE ~calm /\ LineFault /\ UNCHANGED <<helperVars, hostVars>>
    <2>1. UNCHANGED driverVars
      BY <1>6 DEF LineFault, LoseByte, DamageByte, Burst, LoseReply, DamageReply
    <2>2. QED
      BY <1>1, <1>6, <2>1
  <1>7. CASE UNCHANGED vars
    BY <1>1, <1>7 DEF vars
  <1>8. QED
    BY <1>2, <1>3, <1>4, <1>5, <1>6, <1>7 DEF Next, Finished

(* A packet that is published or being handled is never received over or   *)
(* replaced, whatever the line, the host and the timing do.                *)
THEOREM HeldPacket == Spec => []HeldPacketIsStable
  <1>1. Init => HeldPacketIsStable
    BY DEF Init, DriverInit, HelperInit, HeldPacketIsStable, Holding
  <1>2. TypeOK /\ HeldPacketIsStable /\ [Next]_vars => HeldPacketIsStable'
    BY NextKeepsHeld
  <1>3. QED
    BY <1>1, <1>2, TypeCorrect, PTL DEF Spec
=============================================================================
