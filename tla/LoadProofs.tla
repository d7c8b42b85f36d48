----------------------------- MODULE LoadProofs -----------------------------
(***************************************************************************)
(* What the target has made of the packets of a load, for every image,     *)
(* packet size, erase block and board: as long as the packets arrive in    *)
(* order, flash holds what was sent and only a whole image is run.         *)
(***************************************************************************)
EXTENDS XLoadProofs

-----------------------------------------------------------------------------
(* The inductive invariants. *)

(* A packet of the mailbox has not been acted upon yet.                    *)
Unhandled ==
  \/ lpc \in {"poll", "check"} /\ status = "OK"
  \/ lpc \in {"fetch", "handle"}

(* Nothing is handled that was not taken in.                               *)
HistoryInv ==
  /\ accepted \in Seq(PacketType) /\ handled \in Seq(PacketType)
  /\ Len(handled) <= Len(accepted)
  /\ Unhandled => Len(handled) < Len(accepted)

Smaller(a, b) == IF a < b THEN a ELSE b

Space(t) == CASE t = FLASH_WRITE -> "FLASH" [] t = RAM_WRITE -> "RAM" [] OTHER -> "HUB"

(* The load address after the first i pieces of b: whole longs are stored  *)
(* outside flash, so that it may be beyond the end.                        *)
Reached(space, b, i) ==
  /\ i < Pieces(b) => load_address = i * PKTMAXLEN
  /\ i = Pieces(b) => load_address >= Len(b) /\ (space = "FLASH" => load_address = Len(b))

Holds(space, b) ==
  \A a \in Address : a < load_address /\ a < Len(b) => mem[space][a] = b[a + 1]

(* The rest of the block that the next piece goes to is erased.            *)
Prepared ==
  \A a \in Address :
    a >= load_address /\ a \div BlockSize = load_address \div BlockSize =>
      mem["FLASH"][a] = Erased

(* What the helper has done when it has taken the first i pieces of b.     *)
Taken(space, b, i) ==
  /\ write_mode = space
  /\ Reached(space, b, i)
  /\ Holds(space, b)
  /\ space = "FLASH" /\ i < Pieces(b) => Prepared

(* The helper is in the part of the script that begins after packet s and  *)
(* writes b.                                                               *)
InPart(s, space, b) ==
  Len(handled) \in s + 1 .. s + Pieces(b) + 3 =>
    Taken(space, b, Smaller(Len(handled) - s - 1, Pieces(b)))

(* How far the load has come, as a function of the packets handled. *)
Progress ==
  /\ Len(handled) <= FileStart(job) => write_mode # "FLASH"
  /\ job.cache => InPart(0, "HUB", CacheImage)
  /\ InPart(VmStart(job), "HUB", VmImage)
  /\ \/ InPart(FileStart(job), Space(job.type), job.file)
     \/ lpc = "hung" /\ write_mode # "FLASH" /\ Len(handled) < N - 1
  /\ job.cache /\ Len(handled) >= VmStart(job) => IsPrefix(CacheImage, cachecog)
  /\ Len(handled) >= FileStart(job) => IsPrefix(VmImage, vmcog)
  /\ lpc \in {"stop", "run", "running"} => Len(handled) = N

ProgressInv == AcceptedInOrder => Progress

-----------------------------------------------------------------------------
(* Erase blocks hold whole packets. *)

LEMMA Euclid ==
  ASSUME NEW n \in Nat, NEW d \in Nat, d > 0
  PROVE  n = (n \div d) * d + (n % d) /\ n % d \in 0..d - 1
  OBVIOUS

LEMMA QuotientIs ==
  ASSUME NEW n \in Nat, NEW d \in Nat, d > 0, NEW q \in Nat,
         q * d <= n, n < q * d + d
  PROVE  n \div d = q
  OBVIOUS

LEMMA BlockPackets ==
  \E q \in Nat : q > 0 /\ BlockSize = q * PKTMAXLEN
  <1>1. BlockSize \in Nat /\ BlockSize > 0 /\ BlockSize % PKTMAXLEN = 0
    BY SerialHelperAssumption, XLoadAssumption
  <1> DEFINE q == BlockSize \div PKTMAXLEN
  <1>2. q \in Nat
    BY <1>1, PacketSize, Quotient
  <1>3. BlockSize = q * PKTMAXLEN + 0
    BY <1>1, PacketSize, Euclid
  <1> HIDE DEF q
  <1>4. BlockSize = q * PKTMAXLEN
    BY <1>2, <1>3, PacketSize
  <1>5. q # 0
    BY <1>1, <1>4, PacketSize
  <1>6. QED
    BY <1>2, <1>4, <1>5

(* A piece does not cross a block, and the next one begins in the same     *)
(* block or at the start of one.                                           *)
LEMMA PieceInBlock ==
  ASSUME NEW i \in Nat
  PROVE  LET at == i * PKTMAXLEN
         IN  /\ \A a \in Nat : at <= a /\ a < at + PKTMAXLEN =>
                  a \div BlockSize = at \div BlockSize
             /\ \/ (at + PKTMAXLEN) % BlockSize = 0
                \/ (at + PKTMAXLEN) \div BlockSize = at \div BlockSize
  <1> DEFINE M == PKTMAXLEN
             B == BlockSize
             at == i * M
             Q == at \div B
             r == at % B
  <1>1. M \in Nat /\ M > 0 /\ B \in Nat /\ B > 0 /\ at \in Nat
    BY PacketSize, SerialHelperAssumption
  <1>2. PICK q \in Nat : q > 0 /\ B = q * M
    BY BlockPackets
  <1>3. Q \in Nat /\ at = Q * B + r /\ r \in 0..B - 1
    BY <1>1, Euclid, Quotient
  <1>4. at = i * M
    OBVIOUS
  <1> HIDE DEF M, B, at, r
  <1> HIDE DEF Q
  <1>5. r = (i - Q * q) * M
    <2>1. Q * B = (Q * q) * M
      BY <1>1, <1>2, <1>3
    <2>2. (i - Q * q) * M = i * M - (Q * q) * M
      BY <1>1, <1>2, <1>3
    <2>3. Q * B \in Int /\ r \in Int /\ at \in Int
      BY <1>1, <1>3
    <2>4. QED
      BY <1>3, <1>4, <2>1, <2>2, <2>3
  <1> DEFINE e == i - Q * q
  <1>6. e \in Int
    BY <1>2, <1>3
  <1> HIDE DEF e
  <1>7. e < q
    <2>1. ~ (q <= e)
      <3> SUFFICES ASSUME q <= e PROVE FALSE
        OBVIOUS
      <3>1. q * M <= e * M
        BY <1>1, <1>2, <1>6, Times
      <3>2. r = e * M
        BY <1>5 DEF e
      <3>3. QED
        BY <1>1, <1>2, <1>3, <3>1, <3>2
    <2>2. QED
      BY <1>2, <1>6, <2>1
  <1>8. r + M <= B
    <2>1. e + 1 <= q /\ e + 1 \in Int
      BY <1>2, <1>6, <1>7
    <2>2. (e + 1) * M <= q * M
      BY <1>1, <1>2, <2>1, Times
    <2>3. (e + 1) * M = e * M + M
      BY <1>1, <1>6, TimesNext
    <2>4. r = e * M
      BY <1>5 DEF e
    <2>5. QED
      BY <1>2, <2>2, <2>3, <2>4
  <1> DEFINE QB == Q * B
  <1>9. QB \in Nat /\ at = QB + r
    BY <1>1, <1>3
  <1>10. QB = Q * B
    OBVIOUS
  <1> HIDE DEF QB
  <1>11. ASSUME NEW a \in Nat, at <= a, a < at + M PROVE a \div B = Q
    <2>1. QB <= a /\ a < QB + B
      BY <1>1, <1>3, <1>8, <1>9, <1>11
    <2>2. QED
      BY <1>1, <1>3, <1>10, <2>1, QuotientIs
  <1>12. (at + M) % B = 0 \/ (at + M) \div B = Q
    <2>1. CASE r + M = B
      <3>1. at + M = QB + B
        BY <1>1, <1>3, <1>9, <2>1
      <3>2. at + M = (Q + 1) * B
        BY <1>1, <1>3, <1>10, <3>1, TimesNext
      <3>3. at + M \in Nat /\ Q + 1 \in Nat
        BY <1>1, <1>3
      <3>4. (at + M) \div B = Q + 1
        BY <1>1, <3>1, <3>2, <3>3, QuotientIs
      <3>5. (at + M) % B = 0
        <4> DEFINE n == at + M
        <4>1. n \in Nat /\ n \div B = Q + 1 /\ n = (Q + 1) * B
          BY <3>2, <3>3, <3>4
        <4> HIDE DEF n
        <4>2. n = (n \div B) * B + (n % B) /\ n % B \in 0..B - 1
          BY <1>1, <4>1, Euclid
        <4>3. n = n + (n % B) /\ n % B \in Int
          BY <4>1, <4>2, <1>1
        <4>4. n % B = 0
          BY <4>1, <4>3
        <4>5. QED
          BY <4>4 DEF n
      <3>6. QED
        BY <3>5
    <2>2. CASE r + M # B
      <3>1. QB <= at + M /\ at + M < QB + B /\ at + M \in Nat
        BY <1>1, <1>3, <1>8, <1>9, <2>2
      <3>2. QED
        BY <1>1, <1>3, <1>10, <3>1, QuotientIs
    <2>3. QED
      BY <2>1, <2>2
  <1>13. QED
    BY <1>11, <1>12 DEF M, B, at, Q

(* Nothing before the start of a block is in it.                           *)
LEMMA BeforeBlock ==
  ASSUME NEW next \in Nat, next % BlockSize = 0, NEW a \in Nat, a < next
  PROVE  a \div BlockSize # next \div BlockSize
  <1> DEFINE B == BlockSize
             p == next \div B
             q == a \div B
  <1>1. B \in Nat /\ B > 0
    BY SerialHelperAssumption
  <1>2. p \in Nat /\ next = p * B + 0
    BY <1>1, Euclid, Quotient
  <1>3. q \in Nat /\ q * B <= a
    BY <1>1, Quotient
  <1> HIDE DEF p, q, B
  <1>4. p * B \in Int /\ q * B \in Int
    BY <1>1, <1>2, <1>3
  <1>5. p # q
    BY <1>2, <1>3, <1>4
  <1>6. QED
    BY <1>5 DEF p, q, B

-----------------------------------------------------------------------------
(* The helper takes a piece. *)

(* A packet that is being handled carries piece i + 1 of b.                *)
Carries(b, i) == Payload(packet, len) = Piece(b, i + 1).data

LEMMA PayloadIs ==
  ASSUME DriverTypeOK, NEW p \in 0..1, NEW n \in Count
  PROVE  /\ Payload(p, n) \in Seq(Byte) /\ Len(Payload(p, n)) = n
         /\ \A i \in 1..n : Payload(p, n)[i] = buffers[p][i - 1]
  <1>1. n \in Nat /\ n <= PKTMAXLEN /\ PKTMAXLEN \in Nat
    BY PacketSize DEF Count
  <1>2. \A i \in 1..n : i - 1 \in 0..PKTMAXLEN - 1
    BY <1>1
  <1>3. \A i \in 1..n : buffers[p][i - 1] \in Byte
    BY <1>2 DEF DriverTypeOK
  <1>4. QED
    BY <1>1, <1>3 DEF Payload

LEMMA CarriedPiece ==
  ASSUME DriverTypeOK, HelperTypeOK, NEW b \in Seq(Byte), NEW i \in 0..Pieces(b) - 1,
         Carries(b, i)
  PROVE  /\ len \in 1..PKTMAXLEN /\ i \in Nat /\ i * PKTMAXLEN \in Nat
         /\ i + 1 < Pieces(b) => len = PKTMAXLEN
         /\ i + 1 < Pieces(b) => i * PKTMAXLEN + len = (i + 1) * PKTMAXLEN
         /\ i + 1 = Pieces(b) => i * PKTMAXLEN + len = Len(b)
         /\ i * PKTMAXLEN + len <= Len(b)
         /\ \A k \in 0..len - 1 : buffers[packet][k] = b[i * PKTMAXLEN + k + 1]
  <1> DEFINE P == Pieces(b)
             M == PKTMAXLEN
             at == i * M
             d == Piece(b, i + 1).data
             L == Len(b)
  <1>1. P \in Nat /\ M \in Nat /\ M > 0 /\ L \in Nat
    BY PieceBounds, PacketSize
  <1>2. i \in Nat /\ i \in 0..P /\ i + 1 \in 1..P /\ i + 1 \in 0..P /\ (i + 1) - 1 = i
    BY <1>1
  <1>3. at \in Nat /\ (i + 1) * M \in Nat /\ (i + 1 < P <=> (i + 1) * M < L)
    BY <1>2, PieceBounds
  <1>4. packet \in 0..1 /\ len \in Count
    BY DEF HelperTypeOK
  <1>5. /\ Len(d) = len
        /\ \A k \in 1..len : d[k] = buffers[packet][k - 1]
    BY <1>4, PayloadIs DEF Carries
  <1>6. /\ End(b, i + 1) = IF i + 1 < P THEN (i + 1) * M ELSE L
        /\ Len(d) = End(b, i + 1) - ((i + 1) - 1) * M
        /\ Len(d) \in 1..M
        /\ i + 1 < P => Len(d) = M
        /\ \A k \in 1..Len(d) : d[k] = b[((i + 1) - 1) * M + k]
    BY <1>2, PieceData
  <1> HIDE DEF d
  <1>7. /\ len = End(b, i + 1) - at /\ len \in 1..M /\ (i + 1 < P => len = M)
        /\ \A k \in 1..len : d[k] = b[at + k]
    BY <1>2, <1>5, <1>6
  <1> HIDE DEF at, P, L, M
  <1>8. (i + 1) * M = at + M
    BY <1>1, <1>2, TimesNext DEF at
  <1>9. at + len = End(b, i + 1) /\ len \in Nat
    <2>1. End(b, i + 1) \in Nat
      BY <1>1, <1>3, <1>6
    <2>2. QED
      BY <1>1, <1>3, <1>7, <2>1
  <1>10. /\ i + 1 < P => at + len = (i + 1) * M
         /\ i + 1 = P => at + len = L
         /\ at + len <= L
    BY <1>1, <1>2, <1>3, <1>6, <1>9
  <1>11. ASSUME NEW k \in 0..len - 1 PROVE buffers[packet][k] = b[at + k + 1]
    <2>1. k + 1 \in 1..len /\ (k + 1) - 1 = k /\ at + (k + 1) = at + k + 1
      BY <1>3, <1>9
    <2>2. buffers[packet][(k + 1) - 1] = b[at + (k + 1)]
      BY <1>5, <1>7, <2>1
    <2>3. QED
      BY <2>1, <2>2
  <1>12. QED
    BY <1>2, <1>3, <1>7, <1>10, <1>11 DEF at, P, L, M

LEMMA StoredAt ==
  ASSUME NEW m \in Memory, NEW space \in Memories, NEW at, NEW n, NEW a \in Address
  PROVE  Store(m, space, at, n)[space][a] =
           IF a \in at..at + Longs(n) - 1 THEN buffers[packet][a - at] ELSE m[space][a]
  BY DEF Store, Memory

(* Outside flash. *)
LEMMA TakeStored ==
  ASSUME DriverTypeOK, HelperTypeOK, NEW CONSTANT b \in Seq(Byte),
         NEW CONSTANT i \in 0..Pieces(b) - 1, NEW CONSTANT space \in {"HUB", "RAM"},
         Taken(space, b, i), Carries(b, i),
         mem' = Store(mem, space, load_address, len),
         load_address' = load_address + Longs(len), write_mode' = write_mode
  PROVE  Taken(space, b, i + 1)'
  <1> DEFINE at == i * PKTMAXLEN
             M == PKTMAXLEN
             L == Len(b)
             P == Pieces(b)
             n == Longs(len)
  <1>1. /\ len \in 1..M /\ i \in Nat /\ at \in Nat
        /\ i + 1 < P => len = M
        /\ i + 1 < P => at + len = (i + 1) * M
        /\ i + 1 = P => at + len = L
        /\ at + len <= L
        /\ \A k \in 0..len - 1 : buffers[packet][k] = b[at + k + 1]
    BY CarriedPiece
  <1>2. P \in Nat /\ M \in Nat /\ L \in Nat /\ i < P
    BY PieceBounds, PacketSize
  <1>3. n \in len..M
    <2>1. len \in 0..PKTMAXLEN
      BY <1>1, <1>2
    <2>2. QED
      BY <2>1, SerialHelperAssumption
  <1>4. load_address = at
    BY <1>2 DEF Taken, Reached
  <1>5. mem \in Memory /\ space \in Memories
    BY DEF HelperTypeOK, Memory, Memories
  <1>6. write_mode' = space /\ space # "FLASH"
    BY DEF Taken
  <1>7. \A a \in Address : a \in Nat
    BY SerialHelperAssumption DEF Address
  <1> HIDE DEF at, M, L, P, n
  <1>8. load_address' = at + n
    BY <1>4 DEF n
  <1>9. Reached(space, b, i + 1)'
    <2>1. i + 1 < P => n = M
      BY <1>1, <1>2, <1>3
    <2>2. i + 1 < P => load_address' = (i + 1) * M
      BY <1>1, <1>8, <2>1
    <2>3. i + 1 = P => load_address' >= L
      BY <1>1, <1>2, <1>3, <1>8
    <2>4. QED
      BY <1>6, <2>2, <2>3 DEF Reached, L, P, M
  <1>10. Holds(space, b)'
    <2> SUFFICES ASSUME NEW a \in Address, a < load_address', a < L
                 PROVE  mem'[space][a] = b[a + 1]
      BY DEF Holds, L
    <2>1. a \in Nat /\ n \in Nat /\ len \in Nat
      BY <1>1, <1>2, <1>3, <1>7
    <2>2. mem'[space][a] = IF a \in at..at + n - 1 THEN buffers[packet][a - at] ELSE mem[space][a]
      BY <1>4, <1>5, StoredAt DEF n
    <2>3. CASE a < at
      <3>1. mem[space][a] = b[a + 1]
        BY <1>4, <2>3 DEF Taken, Holds, L
      <3>2. a \notin at..at + n - 1
        BY <1>1, <2>1, <2>3
      <3>3. QED
        BY <2>2, <3>1, <3>2
    <2>4. CASE a >= at
      <3>1. a \in at..at + n - 1
        BY <1>1, <1>8, <2>1, <2>4
      <3>2. a < at + len
        <4>1. i + 1 < P \/ i + 1 = P
          BY <1>1, <1>2
        <4>2. QED
          BY <1>1, <1>2, <1>3, <1>8, <2>1, <4>1
      <3>3. a - at \in 0..len - 1 /\ at + (a - at) + 1 = a + 1
        BY <1>1, <2>1, <2>4, <3>2
      <3>4. buffers[packet][a - at] = b[a + 1]
        BY <1>1, <3>3
      <3>5. QED
        BY <2>2, <3>1, <3>4
    <2>5. QED
      BY <1>1, <2>1, <2>3, <2>4
  <1>11. QED
    BY <1>6, <1>9, <1>10 DEF Taken

(* In flash: the piece goes to erased cells, and the erase that may follow *)
(* it spares what has been written.                                        *)
LEMMA ProgrammedAt ==
  ASSUME NEW m \in Memory, NEW at, NEW n, NEW a \in Address
  PROVE  Program(m, at, n)["FLASH"][a] =
           IF a \in at..at + n - 1
             THEN IF m["FLASH"][a] = Erased THEN buffers[packet][a - at] ELSE Garbage
             ELSE m["FLASH"][a]
  BY DEF Program, Memory, Memories

LEMMA ErasedAt ==
  ASSUME NEW m \in Memory, NEW at, NEW a \in Address
  PROVE  Erase(m, at)["FLASH"][a] =
           IF a \div BlockSize = at \div BlockSize THEN Erased ELSE m["FLASH"][a]
  BY DEF Erase, Memory, Memories

LEMMA TakeProgrammed ==
  ASSUME DriverTypeOK, HelperTypeOK, NEW CONSTANT b \in Seq(Byte),
         NEW CONSTANT i \in 0..Pieces(b) - 1,
         Taken("FLASH", b, i), Carries(b, i),
         LET next == load_address + len
             programmed == Program(mem, load_address, len)
         IN  /\ load_address' = next
             /\ mem' = IF erase_next(next) THEN Erase(programmed, next) ELSE programmed,
         write_mode' = write_mode
  PROVE  Taken("FLASH", b, i + 1)'
  <1> DEFINE at == i * PKTMAXLEN
             M == PKTMAXLEN
             L == Len(b)
             P == Pieces(b)
             next == at + len
             programmed == Program(mem, at, len)
             B == BlockSize
  <1>1. /\ len \in 1..M /\ i \in Nat /\ at \in Nat
        /\ i + 1 < P => len = M
        /\ i + 1 < P => at + len = (i + 1) * M
        /\ i + 1 = P => at + len = L
        /\ at + len <= L
        /\ \A k \in 0..len - 1 : buffers[packet][k] = b[at + k + 1]
    BY CarriedPiece
  <1>2. P \in Nat /\ M \in Nat /\ L \in Nat /\ i < P
    BY PieceBounds, PacketSize
  <1>3. load_address = at
    BY <1>2 DEF Taken, Reached
  <1>4. mem \in Memory /\ packet \in 0..1 /\ len \in Count
    BY DEF HelperTypeOK, Memory
  <1>5. programmed \in Memory
    BY <1>1, <1>4, ProgramType
  <1>6. /\ load_address' = next
        /\ mem' = IF next % B = 0 THEN Erase(programmed, next) ELSE programmed
    BY <1>3 DEF erase_next
  <1>7. write_mode' = "FLASH"
    BY DEF Taken
  <1>8. \A a \in Address : a \in Nat
    BY SerialHelperAssumption DEF Address
  <1>9. /\ \A a \in Nat : at <= a /\ a < at + M => a \div B = at \div B
        /\ (at + M) % B = 0 \/ (at + M) \div B = at \div B
    BY <1>1, PieceInBlock
  <1>10. \A a \in Address : a >= at /\ a \div B = at \div B => mem["FLASH"][a] = Erased
    BY <1>2, <1>3 DEF Taken, Prepared
  <1>11. next \in Nat
    BY <1>1, <1>2
  <1>12. \A a \in Nat : next % B = 0 /\ a < next => a \div B # next \div B
    BY <1>11, BeforeBlock
  <1>13. ASSUME NEW a \in Address
         PROVE  /\ programmed["FLASH"][a] =
                     IF a \in at..at + len - 1
                       THEN IF mem["FLASH"][a] = Erased THEN buffers[packet][a - at] ELSE Garbage
                       ELSE mem["FLASH"][a]
                /\ Erase(programmed, next)["FLASH"][a] =
                     IF a \div B = next \div B THEN Erased ELSE programmed["FLASH"][a]
    BY <1>4, <1>5, ProgrammedAt, ErasedAt
  <1> HIDE DEF M, L, P, programmed, B
  <1>14. next = at + len
    OBVIOUS
  <1> HIDE DEF next, at
  <1>15. Reached("FLASH", b, i + 1)'
    <2>1. i + 1 < P => load_address' = (i + 1) * M
      BY <1>1, <1>6, <1>14
    <2>2. i + 1 = P => load_address' = L
      BY <1>1, <1>6, <1>14
    <2>3. L >= L
      BY <1>2
    <2>4. QED
      BY <2>1, <2>2, <2>3 DEF Reached, L, P, M
  <1>16. Holds("FLASH", b)'
    <2> SUFFICES ASSUME NEW a \in Address, a < load_address', a < L
                 PROVE  mem'["FLASH"][a] = b[a + 1]
      BY DEF Holds, L
    <2>1. a \in Nat /\ len \in Nat /\ a < next
      BY <1>1, <1>2, <1>6, <1>8
    <2>2. programmed["FLASH"][a] = b[a + 1]
      <3>1. CASE a < at
        <4>1. mem["FLASH"][a] = b[a + 1]
          BY <1>3, <3>1 DEF Taken, Holds, L
        <4>2. a \notin at..at + len - 1
          BY <1>1, <2>1, <3>1
        <4>3. QED
          BY <1>13, <4>1, <4>2
      <3>2. CASE a >= at
        <4>1. a \in at..at + len - 1 /\ a < at + M
          BY <1>1, <1>2, <1>14, <2>1, <3>2
        <4>2. a \div B = at \div B
          BY <1>1, <1>9, <2>1, <3>2, <4>1
        <4>3. mem["FLASH"][a] = Erased
          BY <1>10, <3>2, <4>2
        <4>4. programmed["FLASH"][a] = buffers[packet][a - at]
          BY <1>13, <4>1, <4>3
        <4>5. a - at \in 0..len - 1 /\ at + (a - at) + 1 = a + 1
          BY <1>1, <1>14, <2>1, <3>2
        <4>6. QED
          BY <1>1, <4>4, <4>5
      <3>3. QED
        BY <1>1, <2>1, <3>1, <3>2
    <2>3. CASE next % B = 0
      <3>1. a \div B # next \div B
        BY <1>12, <2>1, <2>3
      <3>2. QED
        BY <1>6, <1>13, <2>2, <2>3, <3>1
    <2>4. CASE next % B # 0
      BY <1>6, <2>2, <2>4
    <2>5. QED
      BY <2>3, <2>4
  <1>17. ASSUME i + 1 < P PROVE Prepared'
    <2> SUFFICES ASSUME NEW a \in Address, a >= next, a \div B = next \div B
                 PROVE  mem'["FLASH"][a] = Erased
      BY <1>6 DEF Prepared, B
    <2>1. len = M
      BY <1>1, <1>17
    <2>2. CASE next % B = 0
      BY <1>6, <1>13, <2>2
    <2>3. CASE next % B # 0
      <3>1. next \div B = at \div B
        BY <1>9, <1>14, <2>1, <2>3
      <3>2. a \in Nat /\ a >= at /\ a \notin at..at + len - 1
        BY <1>1, <1>2, <1>8, <1>14
      <3>3. mem["FLASH"][a] = Erased
        BY <1>10, <3>1, <3>2
      <3>4. QED
        BY <1>6, <1>13, <2>3, <3>2, <3>3
    <2>4. QED
      BY <2>2, <2>3
  <1>18. QED
    BY <1>7, <1>15, <1>16, <1>17 DEF Taken, P

(* The memory is announced: nothing is taken yet.                          *)
LEMMA TakeNothing ==
  ASSUME HelperTypeOK, NEW CONSTANT b \in Seq(Byte), NEW CONSTANT space,
         write_mode' = space, load_address' = 0,
         space = "FLASH" => mem' = Erase(mem, 0)
  PROVE  Taken(space, b, 0)'
  <1>1. 0 * PKTMAXLEN = 0 /\ Len(b) \in Nat
    BY PacketSize
  <1>2. Pieces(b) = 0 => Len(b) = 0
    <2>1. Pieces(b) \in Nat /\ Len(b) <= Pieces(b) * PKTMAXLEN
      BY PieceBounds
    <2>2. QED
      BY <1>1, <2>1, PacketSize
  <1>3. Reached(space, b, 0)'
    BY <1>1, <1>2 DEF Reached
  <1>4. \A a \in Address : a \in Nat
    BY SerialHelperAssumption DEF Address
  <1>5. Holds(space, b)'
    BY <1>4 DEF Holds
  <1>6. ASSUME space = "FLASH" PROVE Prepared'
    <2>1. mem' = Erase(mem, 0) /\ mem \in Memory
      BY <1>6 DEF HelperTypeOK, Memory
    <2>2. \A a \in Address : a \div BlockSize = 0 \div BlockSize => mem'["FLASH"][a] = Erased
      BY <2>1, ErasedAt
    <2>3. QED
      BY <2>2 DEF Prepared
  <1>7. QED
    BY <1>3, <1>5, <1>6 DEF Taken

LEMMA TakenStays ==
  ASSUME NEW CONSTANT b, NEW CONSTANT space, NEW CONSTANT i,
         Taken(space, b, i), UNCHANGED <<write_mode, load_address, mem>>
  PROVE  Taken(space, b, i)'
  <1>1. Reached(space, b, i)'
    BY DEF Taken, Reached
  <1>2. Holds(space, b)'
    BY DEF Taken, Holds
  <1>3. Prepared => Prepared'
    BY DEF Prepared
  <1>4. QED
    BY <1>1, <1>2, <1>3 DEF Taken

-----------------------------------------------------------------------------
(* Prefixes. *)

LEMMA PrefixAt ==
  ASSUME NEW S, NEW T, NEW s \in Seq(S), NEW t \in Seq(T)
  PROVE  IsPrefix(s, t) <=> Len(s) <= Len(t) /\ \A i \in 1..Len(s) : s[i] = t[i]
  <1> DEFINE n == Len(s)
             u == SubSeq(s, 1, n)
             v == SubSeq(t, 1, n)
  <1>1. IsPrefix(s, t) <=> n <= Len(t) /\ u = v
    BY DEF IsPrefix
  <1>2. n \in Nat /\ Len(t) \in Nat
    OBVIOUS
  <1>3. CASE n <= Len(t)
    <2>1. u \in Seq(S) /\ Len(u) = n /\ \A i \in 1..n : u[i] = s[i]
      <3>1. \A i \in 1..n : i \in 1..Len(s)
        OBVIOUS
      <3>2. QED
        BY <1>2, <3>1
    <2>2. v \in Seq(T) /\ Len(v) = n /\ \A i \in 1..n : v[i] = t[i]
      <3>1. \A i \in 1..n : i \in 1..Len(t)
        BY <1>2, <1>3
      <3>2. QED
        BY <1>2, <1>3, <3>1
    <2> HIDE DEF u, v
    <2>3. (\A i \in 1..n : s[i] = t[i]) => \A i \in 1..n : u[i] = v[i]
      BY <2>1, <2>2
    <2>4. (\A i \in 1..n : u[i] = v[i]) => u = v
      <3>1. u = [i \in 1..n |-> u[i]] /\ v = [i \in 1..n |-> v[i]]
        BY <2>1, <2>2
      <3>2. QED
        BY <3>1
    <2>5. u = v => \A i \in 1..n : s[i] = t[i]
      BY <2>1, <2>2
    <2>6. QED
      BY <1>1, <1>3, <2>3, <2>4, <2>5
  <1>4. CASE ~ (n <= Len(t))
    BY <1>1, <1>4
  <1>5. QED
    BY <1>3, <1>4

LEMMA Grown ==
  ASSUME NEW S, NEW s \in Seq(S), NEW e \in S
  PROVE  /\ Append(s, e) \in Seq(S) /\ Len(Append(s, e)) = Len(s) + 1
         /\ \A i \in 1..Len(s) : Append(s, e)[i] = s[i]
         /\ Append(s, e)[Len(s) + 1] = e
  OBVIOUS

(* What is stored in hub memory for a cog is what the cog is started with. *)
LEMMA StartedWith ==
  ASSUME HelperTypeOK, NEW b \in Seq(Byte), Len(b) <= MemSize, Taken("HUB", b, Pieces(b))
  PROVE  IsPrefix(b, HubImage)
  <1> DEFINE f == HubImage
             S == {f[i] : i \in 1..load_address}
  <1>1. load_address \in Nat /\ Len(b) \in Nat /\ MemSize \in Nat
    BY SerialHelperAssumption DEF HelperTypeOK
  <1>2. f \in Seq(S) /\ Len(f) = load_address
    <2>1. f = [i \in 1..load_address |-> f[i]]
      BY DEF HubImage
    <2> HIDE DEF f
    <2>2. \A i \in 1..load_address : f[i] \in S
      OBVIOUS
    <2>3. QED
      BY <1>1, <2>1, <2>2
  <1>3. Len(b) <= load_address
    BY <1>1 DEF Taken, Reached
  <1>4. ASSUME NEW i \in 1..Len(b) PROVE b[i] = HubImage[i]
    <2>1. i - 1 \in Address /\ i - 1 < load_address /\ i - 1 < Len(b) /\ (i - 1) + 1 = i
      BY <1>1, <1>3 DEF Address
    <2>2. mem["HUB"][i - 1] = b[(i - 1) + 1]
      BY <2>1 DEF Taken, Holds
    <2>3. i \in 1..load_address
      BY <1>1, <1>3
    <2>4. QED
      BY <2>1, <2>2, <2>3 DEF HubImage
  <1> HIDE DEF S
  <1>5. QED
    BY <1>2, <1>3, <1>4, PrefixAt

-----------------------------------------------------------------------------
(* What is handled was taken in. *)

LEMMA PublishedPacket ==
  ASSUME DriverTypeOK, rcv_state = "WAIT"
  PROVE  Packet(rcv_type, Payload(rcv_buf1, rcv_length)) \in PacketType
  <1>1. rcv_type \in Byte /\ rcv_buf1 \in 0..1 /\ rcv_length \in Count
    BY SMT, PKTMAXLENAssumption
    DEF DriverTypeOK, RegisterRanges, LengthFits, Word, Count
  <1>2. /\ Payload(rcv_buf1, rcv_length) \in Seq(Byte)
        /\ Len(Payload(rcv_buf1, rcv_length)) = rcv_length
    BY <1>1, PayloadIs
  <1>3. rcv_length <= PKTMAXLEN
    BY <1>1, PacketSize DEF Count
  <1>4. QED
    BY <1>1, <1>2, <1>3 DEF Packet, PacketType

LEMMA HeldIsPacket ==
  ASSUME DriverTypeOK, HelperTypeOK
  PROVE  Packet(ptype, Payload(packet, len)) \in PacketType
  <1>1. ptype \in Byte /\ packet \in 0..1 /\ len \in Count
    BY DEF HelperTypeOK
  <1>2. Payload(packet, len) \in Seq(Byte) /\ Len(Payload(packet, len)) = len
    BY <1>1, PayloadIs
  <1>3. len <= PKTMAXLEN
    BY <1>1, PacketSize DEF Count
  <1>4. QED
    BY <1>1, <1>2, <1>3 DEF Packet, PacketType

(* Steps that take nothing in and handle nothing.                          *)
LEMMA HistoryStays ==
  ASSUME HistoryInv, UNCHANGED <<accepted, handled>>, Unhandled' => Unhandled
  PROVE  HistoryInv'
  BY DEF HistoryInv

LEMMA HandleEnds ==
  ASSUME handle
  PROVE  /\ lpc = "handle" /\ lpc' \in {"release", "stop", "hung"}
         /\ handled' = Append(handled, Packet(ptype, Payload(packet, len)))
         /\ UNCHANGED accepted /\ UNCHANGED <<driverVars, locals>>
  <1>1. lpc' \in {"release", "stop", "hung"}
    BY DEF handle, VM_INIT_handler, CACHE_INIT_handler, FLASH_WRITE_handler, Hang,
      RAM_WRITE_handler, HUB_WRITE_handler, DATA_handler, EOF_handler, RUN_handler
  <1>2. QED
    BY <1>1 DEF handle, driverVars

(* Every step either takes a packet in, or handles one, or leaves the      *)
(* packets, the target and the job alone.                                  *)
Quiet ==
  /\ UNCHANGED <<accepted, handled, job, targetVars>>
  /\ Unhandled' => Unhandled
  /\ lpc' = "hung" <=> lpc = "hung"
  /\ lpc' \in {"stop", "run", "running"} => lpc \in {"stop", "run", "running"}

LEMMA StepKinds ==
  ASSUME [Next]_vars
  PROVE  \/ publish /\ UNCHANGED <<helperVars, hostVars>>
         \/ handle /\ UNCHANGED hostVars
         \/ Quiet
  <1>1. CASE HostStep
    <2>1. UNCHANGED job /\ UNCHANGED driverVars /\ UNCHANGED helperVars
      BY <1>1 DEF HostStep, WaitForInitialAck, SendPacket, WaitForAckNak, Timeout, GiveUp
    <2>2. QED
      BY <2>1 DEF driverVars, helperVars, Quiet, Unhandled
  <1>2. CASE DriverStep /\ UNCHANGED <<helperVars, hostVars>>
    <2>1. UNCHANGED <<handled, job, targetVars, lpc>>
      BY <1>2 DEF helperVars, hostVars
    <2>2. ASSUME accepted' = accepted, status' \in {status, "ERROR"} PROVE Quiet
      BY <2>1, <2>2 DEF Quiet, Unhandled
    <2>3. CASE receive
      <3>1. status' \in {status, "ERROR"}
        BY <2>3 DEF receive, dispatch, do_soh, do_pktn, do_type, do_len_hi, do_len_lo, do_chk,
          BeginPayload, send_nak, do_data, do_crc_hi, do_crc_lo
      <3>2. QED
        BY <2>2, <2>3, <3>1 DEF receive
    <2>4. CASE MissByte
      BY <2>2, <2>4 DEF MissByte, driverVars
    <2>5. CASE publish
      BY <1>2, <2>5
    <2>6. CASE send_byte
      BY <2>2, <2>6 DEF send_byte
    <2>7. CASE transmit
      BY <2>2, <2>7 DEF transmit
    <2>8. QED
      BY <1>2, <2>3, <2>4, <2>5, <2>6, <2>7 DEF DriverStep
  <1>3. CASE HelperStep
    <2>1. UNCHANGED job
      BY <1>3 DEF HelperStep, hostVars
    <2>2. CASE poll_status
      BY <2>1, <2>2 DEF poll_status, driverVars, Quiet, Unhandled
    <2>3. CASE check_status
      BY <2>1, <2>3 DEF check_status, driverVars, Quiet, Unhandled
    <2>4. CASE reset_status
      BY <2>1, <2>4 DEF reset_status, SetPending, Quiet, Unhandled
    <2>5. CASE fetch_packet
      BY <2>1, <2>5 DEF fetch_packet, driverVars, Quiet, Unhandled
    <2>6. CASE handle
      BY <1>3, <2>6 DEF HelperStep
    <2>7. CASE release_packet
      BY <2>1, <2>7 DEF release_packet, SetPending, Quiet, Unhandled
    <2>8. CASE run_program
      BY <2>1, <2>8 DEF run_program, driverVars, Quiet, Unhandled
    <2>9. QED
      BY <1>3, <2>2, <2>3, <2>4, <2>5, <2>6, <2>7, <2>8 DEF HelperStep, HelperStepButStop
  <1>4. CASE stop_driver
    BY <1>4 DEF stop_driver, stop, hostVars, Quiet, Unhandled
  <1>5. CASE ~calm /\ LineFault /\ UNCHANGED <<helperVars, hostVars>>
    <2>1. UNCHANGED driverVars
      BY <1>5 DEF LineFault, LoseByte, DamageByte, Burst, LoseReply, DamageReply
    <2>2. QED
      BY <1>5, <2>1 DEF driverVars, helperVars, hostVars, Quiet, Unhandled
  <1>6. CASE UNCHANGED vars
    BY <1>6 DEF vars, driverVars, helperVars, hostVars, Quiet, Unhandled
  <1>7. QED
    BY <1>1, <1>2, <1>3, <1>4, <1>5, <1>6 DEF Next, Finished

LEMMA NextHistory ==
  ASSUME TypeOK, HeldPacketIsStable, HistoryInv, [Next]_vars
  PROVE  HistoryInv'
  <1>1. DriverTypeOK /\ HelperTypeOK
    BY DEF TypeOK
  <1>2. /\ accepted \in Seq(PacketType) /\ handled \in Seq(PacketType)
        /\ Len(handled) <= Len(accepted)
    BY DEF HistoryInv
  <1>3. CASE publish /\ UNCHANGED <<helperVars, hostVars>>
    <2> DEFINE p == Packet(rcv_type, Payload(rcv_buf1, rcv_length))
    <2>1. p \in PacketType
      BY <1>1, <1>3, PublishedPacket DEF publish
    <2>2. accepted' = Append(accepted, p) /\ handled' = handled
      BY <1>3 DEF publish, helperVars
    <2> HIDE DEF p
    <2>3. accepted' \in Seq(PacketType) /\ Len(accepted') = Len(accepted) + 1
      BY <1>2, <2>1, <2>2, Grown
    <2>4. Len(handled') < Len(accepted')
      BY <1>2, <2>2, <2>3
    <2>5. QED
      BY <1>2, <2>2, <2>3, <2>4 DEF HistoryInv
  <1>4. CASE handle /\ UNCHANGED hostVars
    <2> DEFINE p == Packet(ptype, Payload(packet, len))
    <2>1. p \in PacketType
      BY <1>1, HeldIsPacket
    <2>2. /\ accepted' = accepted /\ handled' = Append(handled, p)
          /\ lpc = "handle" /\ lpc' \in {"release", "stop", "hung"}
      BY <1>4, HandleEnds
    <2> HIDE DEF p
    <2>3. handled' \in Seq(PacketType) /\ Len(handled') = Len(handled) + 1
      BY <1>2, <2>1, <2>2, Grown
    <2>4. Len(handled) < Len(accepted)
      BY <2>2 DEF HistoryInv, Unhandled
    <2>5. ~ Unhandled'
      BY <2>2 DEF Unhandled
    <2>6. Len(handled') <= Len(accepted')
      BY <1>2, <2>2, <2>3, <2>4
    <2>7. QED
      BY <1>2, <2>2, <2>3, <2>5, <2>6 DEF HistoryInv
  <1>5. CASE Quiet
    BY <1>5, HistoryStays DEF Quiet
  <1>6. QED
    BY <1>3, <1>4, <1>5, StepKinds

(* Packets in order now were in order before.                              *)
LEMMA OrderWas ==
  ASSUME TypeOK, HistoryInv, HistoryInv', [Next]_vars, AcceptedInOrder'
  PROVE  AcceptedInOrder /\ job' = job
  <1>1. job' = job
    BY StepKinds DEF hostVars, Quiet
  <1>2. Packets' = Packets /\ Packets \in Seq(PacketType)
    BY <1>1, SameJob, JobPackets DEF TypeOK, HostTypeOK
  <1>3. /\ accepted \in Seq(PacketType) /\ handled \in Seq(PacketType)
        /\ accepted' \in Seq(PacketType) /\ handled' \in Seq(PacketType)
        /\ Len(handled) <= Len(accepted)
    BY DEF HistoryInv
  <1>4. IsPrefix(accepted', Packets) /\ IsPrefix(handled', accepted')
    BY <1>2 DEF AcceptedInOrder, HandledInOrder
  <1>5. /\ Len(accepted') <= Len(Packets)
        /\ \A i \in 1..Len(accepted') : accepted'[i] = Packets[i]
    BY <1>2, <1>3, <1>4, PrefixAt
  <1>6. \A i \in 1..Len(handled') : handled'[i] = accepted'[i]
    BY <1>3, <1>4, PrefixAt
  <1>7. /\ Len(accepted) <= Len(accepted')
        /\ \A i \in 1..Len(accepted) : accepted'[i] = accepted[i]
    <2>1. CASE publish
      <3> DEFINE p == Packet(rcv_type, Payload(rcv_buf1, rcv_length))
      <3>1. p \in PacketType /\ accepted' = Append(accepted, p)
        BY <2>1, PublishedPacket DEF publish, TypeOK
      <3> HIDE DEF p
      <3>2. /\ Len(accepted') = Len(accepted) + 1
            /\ \A i \in 1..Len(accepted) : accepted'[i] = accepted[i]
        BY <1>3, <3>1, Grown
      <3>3. Len(accepted) \in Nat
        BY <1>3
      <3>4. QED
        BY <3>2, <3>3
    <2>2. CASE handle \/ Quiet
      <3>1. accepted' = accepted
        BY <2>2, HandleEnds DEF Quiet
      <3>2. QED
        BY <1>3, <3>1
    <2>3. QED
      BY <2>1, <2>2, StepKinds
  <1>8. /\ Len(handled) <= Len(handled')
        /\ \A i \in 1..Len(handled) : handled'[i] = handled[i]
    <2>1. CASE handle
      <3> DEFINE p == Packet(ptype, Payload(packet, len))
      <3>1. p \in PacketType /\ handled' = Append(handled, p)
        BY <2>1, HeldIsPacket, HandleEnds DEF TypeOK
      <3> HIDE DEF p
      <3>2. /\ Len(handled') = Len(handled) + 1
            /\ \A i \in 1..Len(handled) : handled'[i] = handled[i]
        BY <1>3, <3>1, Grown
      <3>3. Len(handled) \in Nat
        BY <1>3
      <3>4. QED
        BY <3>2, <3>3
    <2>2. CASE (publish /\ UNCHANGED <<helperVars, hostVars>>) \/ Quiet
      <3>1. handled' = handled
        BY <2>2 DEF helperVars, Quiet
      <3>2. QED
        BY <1>3, <3>1
    <2>3. QED
      BY <2>1, <2>2, StepKinds
  <1>9. /\ Len(accepted) \in Nat /\ Len(accepted') \in Nat
        /\ Len(handled) \in Nat /\ Len(handled') \in Nat /\ Len(Packets) \in Nat
    BY <1>2, <1>3
  <1>10. IsPrefix(accepted, Packets)
    <2>1. Len(accepted) <= Len(Packets)
      BY <1>5, <1>7, <1>9
    <2>2. \A i \in 1..Len(accepted) : i \in 1..Len(accepted')
      BY <1>7, <1>9
    <2>3. \A i \in 1..Len(accepted) : accepted[i] = Packets[i]
      BY <1>5, <1>7, <2>2
    <2>4. QED
      BY <1>2, <1>3, <2>1, <2>3, PrefixAt
  <1>11. IsPrefix(handled, accepted)
    <2>1. \A i \in 1..Len(handled) : i \in 1..Len(handled') /\ i \in 1..Len(accepted)
      BY <1>3, <1>8, <1>9
    <2>2. \A i \in 1..Len(handled) : handled[i] = accepted[i]
      BY <1>6, <1>7, <1>8, <2>1
    <2>3. QED
      BY <1>3, <2>2, PrefixAt
  <1>12. QED
    BY <1>1, <1>10, <1>11 DEF AcceptedInOrder, HandledInOrder

(* The packet being handled is the next one of the script.                 *)
LEMMA NextOfScript ==
  ASSUME TypeOK, HistoryInv, HistoryInv', handle, job' = job, AcceptedInOrder'
  PROVE  /\ Len(handled) \in 0..N - 1 /\ Len(handled') = Len(handled) + 1
         /\ Packets[Len(handled) + 1] = Packet(ptype, Payload(packet, len))
  <1> DEFINE p == Packet(ptype, Payload(packet, len))
  <1>1. Packets' = Packets /\ Packets \in Seq(PacketType) /\ N = Len(Packets)
    BY SameJob, JobPackets DEF TypeOK, HostTypeOK, N
  <1>2. p \in PacketType /\ handled' = Append(handled, p) /\ accepted' = accepted
    BY HeldIsPacket, HandleEnds DEF TypeOK
  <1> HIDE DEF p
  <1>3. /\ accepted \in Seq(PacketType) /\ handled \in Seq(PacketType)
        /\ handled' \in Seq(PacketType)
    BY DEF HistoryInv
  <1>4. IsPrefix(accepted, Packets) /\ IsPrefix(handled', accepted)
    BY <1>1, <1>2 DEF AcceptedInOrder, HandledInOrder
  <1>5. Len(handled') = Len(handled) + 1 /\ handled'[Len(handled) + 1] = p
    BY <1>2, <1>3, Grown
  <1>6. /\ Len(accepted) <= Len(Packets)
        /\ \A i \in 1..Len(accepted) : accepted[i] = Packets[i]
    BY <1>1, <1>3, <1>4, PrefixAt
  <1>7. /\ Len(handled') <= Len(accepted)
        /\ \A i \in 1..Len(handled') : handled'[i] = accepted[i]
    BY <1>3, <1>4, PrefixAt
  <1>8. Len(handled) \in Nat /\ Len(accepted) \in Nat /\ Len(Packets) \in Nat
    BY <1>1, <1>3
  <1>9. Len(handled) + 1 \in 1..Len(handled') /\ Len(handled) + 1 \in 1..Len(accepted)
    BY <1>5, <1>7, <1>8
  <1>10. Len(handled) \in 0..N - 1
    BY <1>1, <1>6, <1>8, <1>9
  <1>11. QED
    BY <1>5, <1>6, <1>7, <1>9, <1>10 DEF p

-----------------------------------------------------------------------------
(* One packet of a part of the script. *)

LEMMA WhichHandler ==
  ASSUME handle
  PROVE  /\ ptype = VM_INIT => VM_INIT_handler
         /\ ptype = CACHE_INIT => CACHE_INIT_handler
         /\ ptype = FLASH_WRITE => FLASH_WRITE_handler
         /\ ptype = RAM_WRITE => RAM_WRITE_handler
         /\ ptype = HUB_WRITE => HUB_WRITE_handler
         /\ ptype = DATA => DATA_handler
         /\ ptype = EOF => EOF_handler
         /\ ptype = RUN => RUN_handler
  <1>1. /\ VM_INIT_handler => ptype = 1
        /\ CACHE_INIT_handler => ptype = 2
        /\ FLASH_WRITE_handler => ptype = 3
        /\ RAM_WRITE_handler => ptype = 4
        /\ HUB_WRITE_handler => ptype = 5
        /\ DATA_handler => ptype = 6
        /\ EOF_handler => ptype = 7
        /\ RUN_handler => ptype = 8
    BY DEF VM_INIT_handler, CACHE_INIT_handler, FLASH_WRITE_handler, RAM_WRITE_handler,
      HUB_WRITE_handler, DATA_handler, EOF_handler, RUN_handler, VM_INIT, CACHE_INIT,
      FLASH_WRITE, RAM_WRITE, HUB_WRITE, DATA, EOF, RUN
  <1>2. VM_INIT = 1 /\ CACHE_INIT = 2 /\ FLASH_WRITE = 3 /\ RAM_WRITE = 4 /\ HUB_WRITE = 5
        /\ DATA = 6 /\ EOF = 7 /\ RUN = 8
    BY DEF VM_INIT, CACHE_INIT, FLASH_WRITE, RAM_WRITE, HUB_WRITE, DATA, EOF, RUN
  <1>3. \/ VM_INIT_handler \/ CACHE_INIT_handler \/ FLASH_WRITE_handler
        \/ RAM_WRITE_handler \/ HUB_WRITE_handler \/ DATA_handler \/ EOF_handler
        \/ RUN_handler
    BY DEF handle
  <1>4. QED
    BY <1>1, <1>2, <1>3

(* A handler that does not touch the memories.                             *)
Elsewhere == UNCHANGED <<write_mode, load_address, mem>>

(* Packet i of the part that writes b to space moves the target on by a    *)
(* piece, or hangs because there is no cache driver.                       *)
LEMMA PartStep ==
  ASSUME TypeOK, handle,
         NEW CONSTANT h \in {FLASH_WRITE, RAM_WRITE, HUB_WRITE},
         NEW CONSTANT b \in Seq(Byte), NEW CONSTANT c \in PacketType,
         c.type \in {VM_INIT, CACHE_INIT, RUN},
         NEW CONSTANT i \in 1..Pieces(b) + 3,
         Packet(ptype, Payload(packet, len)) = PartAt(h, b, c, i),
         i = 1 => write_mode # "FLASH",
         i > 1 => Taken(Space(h), b, Smaller(i - 2, Pieces(b)))
  PROVE  \/ Taken(Space(h), b, Smaller(i - 1, Pieces(b)))'
         \/ /\ lpc' = "hung" /\ write_mode' # "FLASH"
            /\ Space(h) # "HUB" /\ i <= Pieces(b) + 1
  <1> DEFINE P == Pieces(b)
             p == Packet(ptype, Payload(packet, len))
  <1>1. P \in Nat
    BY PieceBounds
  <1>2. DriverTypeOK /\ HelperTypeOK
    BY DEF TypeOK
  <1>3. p.type = ptype /\ p.data = Payload(packet, len)
    BY DEF Packet
  <1>4. FLASH_WRITE # RAM_WRITE /\ FLASH_WRITE # HUB_WRITE /\ RAM_WRITE # HUB_WRITE
    BY DEF FLASH_WRITE, RAM_WRITE, HUB_WRITE
  <1>5. CASE i = 1
    <2>1. p = Packet(h, <<>>)
      BY <1>5 DEF PartAt
    <2>2. ptype = h
      BY <1>3, <2>1 DEF Packet
    <2>3. Smaller(i - 1, P) = 0
      BY <1>1, <1>5 DEF Smaller
    <2>4. CASE h = FLASH_WRITE
      <3>1. FLASH_WRITE_handler /\ Space(h) = "FLASH"
        BY <1>4, <2>2, <2>4, WhichHandler DEF Space
      <3>2. CASE CacheAnswers
        <4>1. write_mode' = "FLASH" /\ load_address' = 0 /\ mem' = Erase(mem, 0)
          BY <3>1, <3>2 DEF FLASH_WRITE_handler
        <4>2. Taken("FLASH", b, 0)'
          BY <1>2, <4>1, TakeNothing
        <4>3. QED
          BY <2>3, <3>1, <4>2
      <3>3. CASE ~ CacheAnswers
        <4>1. lpc' = "hung" /\ write_mode' = write_mode
          BY <3>1, <3>3 DEF FLASH_WRITE_handler, Hang, targetVars
        <4>2. i <= P + 1
          BY <1>1, <1>5
        <4>3. QED
          BY <1>5, <3>1, <4>1, <4>2
      <3>4. QED
        BY <3>2, <3>3
    <2>5. CASE h = RAM_WRITE
      <3>1. RAM_WRITE_handler /\ Space(h) = "RAM"
        BY <1>4, <2>2, <2>5, WhichHandler DEF Space
      <3>2. write_mode' = "RAM" /\ load_address' = 0
        BY <3>1 DEF RAM_WRITE_handler
      <3>3. Taken("RAM", b, 0)'
        BY <1>2, <3>2, TakeNothing
      <3>4. QED
        BY <2>3, <3>1, <3>3
    <2>6. CASE h = HUB_WRITE
      <3>1. HUB_WRITE_handler /\ Space(h) = "HUB"
        BY <1>4, <2>2, <2>6, WhichHandler DEF Space
      <3>2. write_mode' = "HUB" /\ load_address' = 0
        BY <3>1 DEF HUB_WRITE_handler
      <3>3. Taken("HUB", b, 0)'
        BY <1>2, <3>2, TakeNothing
      <3>4. QED
        BY <2>3, <3>1, <3>3
    <2>7. QED
      BY <2>4, <2>5, <2>6
  <1>6. CASE i \in 2..P + 1
    <2> DEFINE k == i - 2
    <2>1. k \in 0..P - 1 /\ k + 1 = i - 1 /\ i > 1
      BY <1>1, <1>6
    <2>2. Smaller(i - 2, P) = k /\ Smaller(i - 1, P) = k + 1
      BY <1>1, <2>1 DEF Smaller
    <2>3. p = Piece(b, k + 1)
      <3>1. i # 1 /\ i # P + 2 /\ i # P + 3
        BY <1>1, <1>6
      <3>2. QED
        BY <2>1, <3>1 DEF PartAt
    <2>4. ptype = DATA /\ Carries(b, k)
      BY <1>3, <2>3 DEF Piece, Packet, Carries
    <2>5. DATA_handler
      BY <2>4, WhichHandler
    <2>6. Taken(Space(h), b, k)
      BY <2>1, <2>2
    <2> HIDE DEF k
    <2>7. CASE h = FLASH_WRITE
      <3>1. Space(h) = "FLASH" /\ write_mode = "FLASH"
        BY <1>4, <2>6, <2>7 DEF Space, Taken
      <3>2. /\ LET next == load_address + len
                   programmed == Program(mem, load_address, len)
               IN  /\ load_address' = next
                   /\ mem' = IF erase_next(next) THEN Erase(programmed, next) ELSE programmed
            /\ write_mode' = write_mode
        BY <2>5, <3>1 DEF DATA_handler
      <3>3. Taken("FLASH", b, k)
        BY <2>6, <3>1
      <3>4. Taken("FLASH", b, k + 1)'
        BY <1>2, <2>1, <2>4, <3>2, <3>3, TakeProgrammed
      <3>5. QED
        BY <2>2, <3>1, <3>4
    <2>8. CASE h = RAM_WRITE
      <3>1. Space(h) = "RAM" /\ write_mode = "RAM"
        BY <1>4, <2>6, <2>8 DEF Space, Taken
      <3>2. CASE CacheAnswers
        <4>1. /\ mem' = Store(mem, "RAM", load_address, len)
              /\ load_address' = load_address + Longs(len) /\ write_mode' = write_mode
          BY <2>5, <3>1, <3>2 DEF DATA_handler
        <4>2. Taken("RAM", b, k)
          BY <2>6, <3>1
        <4>3. Taken("RAM", b, k + 1)'
          BY <1>2, <2>1, <2>4, <4>1, <4>2, TakeStored
        <4>4. QED
          BY <2>2, <3>1, <4>3
      <3>3. CASE ~ CacheAnswers
        <4>1. lpc' = "hung" /\ write_mode' = write_mode
          BY <2>5, <3>1, <3>3 DEF DATA_handler, Hang, targetVars
        <4>2. i <= P + 1
          BY <1>1, <1>6
        <4>3. QED
          BY <3>1, <4>1, <4>2
      <3>4. QED
        BY <3>2, <3>3
    <2>9. CASE h = HUB_WRITE
      <3>1. Space(h) = "HUB" /\ write_mode = "HUB"
        BY <1>4, <2>6, <2>9 DEF Space, Taken
      <3>2. /\ mem' = Store(mem, "HUB", load_address, len)
            /\ load_address' = load_address + Longs(len) /\ write_mode' = write_mode
        BY <2>5, <3>1 DEF DATA_handler
      <3>3. Taken("HUB", b, k)
        BY <2>6, <3>1
      <3>4. Taken("HUB", b, k + 1)'
        BY <1>2, <2>1, <2>4, <3>2, <3>3, TakeStored
      <3>5. QED
        BY <2>2, <3>1, <3>4
    <2>10. QED
      BY <2>7, <2>8, <2>9
  <1>7. CASE i \in P + 2..P + 3
    <2>1. Smaller(i - 2, P) = P /\ Smaller(i - 1, P) = P /\ i > 1
      BY <1>1, <1>7 DEF Smaller
    <2>2. Taken(Space(h), b, P)
      BY <2>1
    <2>3. Elsewhere
      <3>1. CASE i = P + 2
        <4>1. p = Packet(EOF, <<>>)
          BY <1>1, <3>1 DEF PartAt
        <4>2. ptype = EOF
          BY <1>3, <4>1 DEF Packet
        <4>3. EOF_handler
          BY <4>2, WhichHandler
        <4>4. QED
          BY <4>3 DEF EOF_handler, targetVars, Elsewhere
      <3>2. CASE i = P + 3
        <4>1. i # 1 /\ i # P + 2
          BY <1>1, <3>2
        <4>2. p = c
          BY <3>2, <4>1 DEF PartAt
        <4>3. ptype \in {VM_INIT, CACHE_INIT, RUN}
          BY <1>3, <4>2
        <4>4. VM_INIT_handler \/ CACHE_INIT_handler \/ RUN_handler
          BY <4>3, WhichHandler
        <4>5. QED
          BY <4>4 DEF VM_INIT_handler, CACHE_INIT_handler, RUN_handler, targetVars, Elsewhere
      <3>3. QED
        BY <1>1, <1>7, <3>1, <3>2
    <2>4. QED
      BY <2>1, <2>2, <2>3, TakenStays DEF Elsewhere
  <1>8. QED
    BY <1>1, <1>5, <1>6, <1>7

LEMMA PartSoFar ==
  ASSUME NEW CONSTANT s \in Nat, NEW CONSTANT space, NEW CONSTANT b \in Seq(Byte),
         NEW CONSTANT k \in Nat, k = Len(handled), k \in s + 1..s + Pieces(b) + 3,
         InPart(s, space, b)
  PROVE  Taken(space, b, Smaller(k - s - 1, Pieces(b)))
  BY DEF InPart

LEMMA PartFrom ==
  ASSUME NEW CONSTANT s \in Nat, NEW CONSTANT space, NEW CONSTANT b \in Seq(Byte),
         NEW CONSTANT k \in Nat, k = Len(handled)',
         k \in s + 1..s + Pieces(b) + 3 => Taken(space, b, Smaller(k - s - 1, Pieces(b)))'
  PROVE  InPart(s, space, b)'
  BY DEF InPart

LEMMA PartType ==
  ASSUME handle, NEW h, NEW b \in Seq(Byte), NEW c, NEW i \in 1..Pieces(b) + 3,
         Packet(ptype, Payload(packet, len)) = PartAt(h, b, c, i)
  PROVE  ptype = IF i = Pieces(b) + 3 THEN c.type
                 ELSE IF i = 1 THEN h ELSE IF i = Pieces(b) + 2 THEN EOF ELSE DATA
  <1>1. Pieces(b) \in Nat
    BY PieceBounds
  <1>2. i = Pieces(b) + 3 => i # 1 /\ i # Pieces(b) + 2
    BY <1>1
  <1>3. /\ Packet(ptype, Payload(packet, len)).type = ptype /\ Packet(h, <<>>).type = h
        /\ Packet(EOF, <<>>).type = EOF /\ Piece(b, i - 1).type = DATA
    BY DEF Packet, Piece
  <1>4. QED
    BY <1>2, <1>3 DEF PartAt

LEMMA HandlerEffects ==
  ASSUME handle
  PROVE  /\ lpc' \in {"release", "stop", "hung"}
         /\ lpc' = "stop" => ptype = RUN
         /\ ptype = CACHE_INIT => cachecog' = HubImage
         /\ ptype # CACHE_INIT => cachecog' = cachecog
         /\ ptype = VM_INIT => vmcog' = HubImage
         /\ ptype # VM_INIT => vmcog' = vmcog
  <1>1. CASE VM_INIT_handler
    BY <1>1 DEF VM_INIT_handler, CACHE_INIT, VM_INIT
  <1>2. CASE CACHE_INIT_handler
    BY <1>2 DEF CACHE_INIT_handler, CACHE_INIT, VM_INIT
  <1>3. CASE FLASH_WRITE_handler
    BY <1>3 DEF FLASH_WRITE_handler, Hang, targetVars, FLASH_WRITE, CACHE_INIT, VM_INIT
  <1>4. CASE RAM_WRITE_handler
    BY <1>4 DEF RAM_WRITE_handler, RAM_WRITE, CACHE_INIT, VM_INIT
  <1>5. CASE HUB_WRITE_handler
    BY <1>5 DEF HUB_WRITE_handler, HUB_WRITE, CACHE_INIT, VM_INIT
  <1>6. CASE DATA_handler
    BY <1>6 DEF DATA_handler, Hang, targetVars, DATA, CACHE_INIT, VM_INIT
  <1>7. CASE EOF_handler
    BY <1>7 DEF EOF_handler, targetVars, EOF, CACHE_INIT, VM_INIT
  <1>8. CASE RUN_handler
    BY <1>8 DEF RUN_handler, targetVars, RUN, CACHE_INIT, VM_INIT
  <1>9. QED
    BY <1>1, <1>2, <1>3, <1>4, <1>5, <1>6, <1>7, <1>8 DEF handle

LEMMA HandleProgress ==
  ASSUME TypeOK, HistoryInv, HistoryInv', handle, UNCHANGED hostVars,
         AcceptedInOrder', Progress
  PROVE  Progress'
  <1>1. PICK j : j = job
    OBVIOUS
  <1>2. PICK k : k = Len(handled)
    OBVIOUS
  <1>3. job' = j
    BY <1>1 DEF hostVars
  <1>4. IsJob(j) /\ N = Total(j) /\ N' = N /\ Packets = Script(j)
    BY <1>1, <1>3, JobPackets, SameJob DEF TypeOK, HostTypeOK, Packets
  <1>5. j.file \in Seq(Byte) /\ j.cache \in BOOLEAN /\ j.type \in {FLASH_WRITE, RAM_WRITE, HUB_WRITE}
    BY <1>4 DEF IsJob
  <1>6. /\ CacheImage \in Seq(Byte) /\ VmImage \in Seq(Byte)
        /\ Len(CacheImage) <= MemSize /\ Len(VmImage) <= MemSize
    BY HostScriptAssumption, XLoadAssumption
  <1> DEFINE C == VmStart(j)
             F == FileStart(j)
             Pc == Pieces(CacheImage)
             Pv == Pieces(VmImage)
             Pf == Pieces(j.file)
             p == Packet(ptype, Payload(packet, len))
             T == Total(j)
  <1>7. Pc \in Nat /\ Pv \in Nat /\ Pf \in Nat
    BY <1>5, <1>6, PieceBounds
  <1>8. /\ C = IF j.cache THEN Pc + 3 ELSE 0
        /\ F = C + Pv + 3 /\ T = F + Pf + 3
    BY DEF VmStart, FileStart, Total
  <1>9. /\ Script(j)[k + 1] = p
        /\ k \in 0..T - 1 /\ k + 1 = Len(handled') /\ k + 1 = Len(handled)'
    BY <1>2, <1>3, <1>4, NextOfScript DEF hostVars
  <1>10. /\ j.cache => \A i \in 1..Pc + 3 :
              Script(j)[i] = PartAt(HUB_WRITE, CacheImage, Packet(CACHE_INIT, CacheParams), i)
         /\ \A i \in 1..Pv + 3 :
              Script(j)[C + i] = PartAt(HUB_WRITE, VmImage, Packet(VM_INIT, <<>>), i)
         /\ \A i \in 1..Pf + 3 :
              Script(j)[F + i] = PartAt(j.type, j.file, Packet(RUN, RunFlags), i)
    BY <1>4, ScriptShape
  <1>11. /\ Packet(CACHE_INIT, CacheParams) \in PacketType
         /\ Packet(VM_INIT, <<>>) \in PacketType
         /\ Packet(RUN, RunFlags) \in PacketType
         /\ Packet(CACHE_INIT, CacheParams).type = CACHE_INIT
         /\ Packet(VM_INIT, <<>>).type = VM_INIT
         /\ Packet(RUN, RunFlags).type = RUN
    <2>1. VM_INIT \in Byte /\ CACHE_INIT \in Byte /\ RUN \in Byte
      BY DEF Byte, VM_INIT, CACHE_INIT, RUN
    <2>2. QED
      BY <2>1, EmptyPacket, HostScriptAssumption DEF PacketType, Packet
  <1>12. Space(HUB_WRITE) = "HUB"
    BY DEF Space, FLASH_WRITE, RAM_WRITE, HUB_WRITE
  <1>13. HelperTypeOK
    BY DEF TypeOK
  <1>14. /\ RUN \notin {HUB_WRITE, EOF, DATA, VM_INIT, CACHE_INIT}
         /\ VM_INIT \notin {HUB_WRITE, EOF, DATA, CACHE_INIT}
         /\ CACHE_INIT \notin {HUB_WRITE, EOF, DATA}
         /\ {FLASH_WRITE, RAM_WRITE, HUB_WRITE, EOF, DATA, RUN} \cap {VM_INIT, CACHE_INIT} = {}
         /\ RUN \notin {FLASH_WRITE, RAM_WRITE}
    BY DEF RUN, HUB_WRITE, EOF, DATA, VM_INIT, CACHE_INIT, FLASH_WRITE, RAM_WRITE
  <1>15. /\ lpc = "handle" /\ lpc' \in {"release", "stop", "hung"}
         /\ lpc' = "stop" => ptype = RUN
         /\ ptype = CACHE_INIT => cachecog' = HubImage
         /\ ptype # CACHE_INIT => cachecog' = cachecog
         /\ ptype = VM_INIT => vmcog' = HubImage
         /\ ptype # VM_INIT => vmcog' = vmcog
    BY HandleEnds, HandlerEffects
  (* What the invariant says of the state before, of j and k. *)
  <1>16. /\ k <= F => write_mode # "FLASH"
         /\ j.cache => InPart(0, "HUB", CacheImage)
         /\ InPart(C, "HUB", VmImage)
         /\ InPart(F, Space(j.type), j.file)
         /\ j.cache /\ k >= C => IsPrefix(CacheImage, cachecog)
         /\ k >= F => IsPrefix(VmImage, vmcog)
    BY <1>1, <1>2, <1>15 DEF Progress
  (* What it has to say of the state after. *)
  <1>17. SUFFICES /\ k + 1 <= F => write_mode' # "FLASH"
                  /\ j.cache => InPart(0, "HUB", CacheImage)'
                  /\ InPart(C, "HUB", VmImage)'
                  /\ \/ InPart(F, Space(j.type), j.file)'
                     \/ lpc' = "hung" /\ write_mode' # "FLASH" /\ k + 1 < T - 1
                  /\ j.cache /\ k + 1 >= C => IsPrefix(CacheImage, cachecog')
                  /\ k + 1 >= F => IsPrefix(VmImage, vmcog')
                  /\ lpc' = "stop" => k + 1 = T
    BY <1>3, <1>4, <1>9, <1>15 DEF Progress
  <1> HIDE DEF C, F, p, T
  <1>18. C \in Nat /\ F \in Nat /\ T \in Nat /\ k \in Nat /\ k + 1 \in Nat /\ 0 \in Nat
    <2>1. C \in Nat
      BY <1>7, <1>8
    <2>2. F \in Nat
      BY <1>7, <1>8, <2>1
    <2>3. T \in Nat
      BY <1>7, <1>8, <2>2
    <2>4. QED
      BY <1>9, <2>1, <2>2, <2>3
  <1> HIDE DEF Pc, Pv, Pf
  (* The cache driver. *)
  <1>19. CASE j.cache /\ k < C
    <2> DEFINE i == k + 1
               c == Packet(CACHE_INIT, CacheParams)
    <2>1. i \in 1..Pc + 3 /\ C = Pc + 3
      BY <1>7, <1>8, <1>18, <1>19
    <2>2. p = PartAt(HUB_WRITE, CacheImage, c, i)
      BY <1>9, <1>10, <1>19, <2>1
    <2>3. ptype = IF i = Pc + 3 THEN CACHE_INIT
                  ELSE IF i = 1 THEN HUB_WRITE ELSE IF i = Pc + 2 THEN EOF ELSE DATA
      BY <1>6, <1>11, <2>1, <2>2, PartType DEF Pc, p
    <2>4. i > 1 => Taken("HUB", CacheImage, Smaller(i - 2, Pc))
      <3> SUFFICES ASSUME i > 1 PROVE Taken("HUB", CacheImage, Smaller(i - 2, Pc))
        OBVIOUS
      <3>1. k \in 0 + 1..0 + Pc + 3 /\ k - 0 - 1 = i - 2
        BY <1>7, <1>18, <2>1
      <3>2. Taken("HUB", CacheImage, Smaller(k - 0 - 1, Pc))
        BY <1>2, <1>6, <1>16, <1>18, <1>19, <3>1, PartSoFar DEF Pc
      <3>3. QED
        BY <3>1, <3>2
    <2>5. i = 1 => write_mode # "FLASH"
      BY <1>7, <1>8, <1>16, <1>18
    <2>6. Taken("HUB", CacheImage, Smaller(i - 1, Pc))'
      BY <1>6, <1>11, <1>12, <2>1, <2>2, <2>4, <2>5, PartStep DEF Pc, p
    <2>7. k + 1 \in 0 + 1..0 + Pc + 3 /\ (k + 1) - 0 - 1 = i - 1
      BY <1>7, <1>18, <2>1
    <2>8. InPart(0, "HUB", CacheImage)'
      BY <1>6, <1>9, <1>18, <2>6, <2>7, PartFrom DEF Pc
    <2>9. InPart(C, "HUB", VmImage)'
      <3>1. k + 1 \notin C + 1..C + Pv + 3
        BY <1>7, <1>18, <1>19
      <3>2. QED
        BY <1>6, <1>9, <1>18, <3>1, PartFrom DEF Pv
    <2>10. InPart(F, Space(j.type), j.file)'
      <3>1. k + 1 \notin F + 1..F + Pf + 3
        BY <1>7, <1>8, <1>18, <1>19
      <3>2. QED
        BY <1>5, <1>9, <1>18, <3>1, PartFrom DEF Pf
    <2>11. write_mode' = "HUB"
      BY <2>6 DEF Taken
    <2>12. k + 1 >= C => IsPrefix(CacheImage, cachecog')
      <3> SUFFICES ASSUME k + 1 >= C PROVE IsPrefix(CacheImage, cachecog')
        OBVIOUS
      <3>1. i = Pc + 3 /\ i > 1 /\ Smaller(i - 2, Pc) = Pc
        BY <1>7, <1>18, <1>19, <2>1 DEF Smaller
      <3>2. cachecog' = HubImage
        BY <1>15, <2>3, <3>1
      <3>3. Taken("HUB", CacheImage, Pc)
        BY <2>4, <3>1
      <3>4. QED
        BY <1>6, <1>13, <3>2, <3>3, StartedWith DEF Pc
    <2>13. ~ (k + 1 >= F)
      BY <1>7, <1>8, <1>18, <1>19
    <2>14. lpc' # "stop"
      BY <1>14, <1>15, <2>3
    <2>15. QED
      BY <2>8, <2>9, <2>10, <2>11, <2>12, <2>13, <2>14
  (* The virtual machine. *)
  <1>20. CASE C <= k /\ k < F
    <2> DEFINE i == k - C + 1
               c == Packet(VM_INIT, <<>>)
    <2>1. i \in 1..Pv + 3 /\ C + i = k + 1
      BY <1>7, <1>8, <1>18, <1>20
    <2>2. p = PartAt(HUB_WRITE, VmImage, c, i)
      BY <1>9, <1>10, <2>1
    <2>3. ptype = IF i = Pv + 3 THEN VM_INIT
                  ELSE IF i = 1 THEN HUB_WRITE ELSE IF i = Pv + 2 THEN EOF ELSE DATA
      BY <1>6, <1>11, <2>1, <2>2, PartType DEF Pv, p
    <2>4. i > 1 => Taken("HUB", VmImage, Smaller(i - 2, Pv))
      <3> SUFFICES ASSUME i > 1 PROVE Taken("HUB", VmImage, Smaller(i - 2, Pv))
        OBVIOUS
      <3>1. k \in C + 1..C + Pv + 3 /\ k - C - 1 = i - 2
        BY <1>7, <1>18, <2>1
      <3>2. Taken("HUB", VmImage, Smaller(k - C - 1, Pv))
        BY <1>2, <1>6, <1>16, <1>18, <3>1, PartSoFar DEF Pv
      <3>3. QED
        BY <3>1, <3>2
    <2>5. i = 1 => write_mode # "FLASH"
      BY <1>16, <1>18, <1>20
    <2>6. Taken("HUB", VmImage, Smaller(i - 1, Pv))'
      BY <1>6, <1>11, <1>12, <2>1, <2>2, <2>4, <2>5, PartStep DEF Pv, p
    <2>7. (k + 1) - C - 1 = i - 1
      BY <1>18, <2>1
    <2>8. ASSUME j.cache PROVE InPart(0, "HUB", CacheImage)'
      <3>1. k + 1 \notin 0 + 1..0 + Pc + 3
        BY <1>7, <1>8, <1>18, <1>20, <2>8
      <3>2. QED
        BY <1>6, <1>9, <1>18, <3>1, PartFrom DEF Pc
    <2>9. InPart(C, "HUB", VmImage)'
      BY <1>6, <1>9, <1>18, <2>6, <2>7, PartFrom DEF Pv
    <2>10. InPart(F, Space(j.type), j.file)'
      <3>1. k + 1 \notin F + 1..F + Pf + 3
        BY <1>7, <1>18, <1>20
      <3>2. QED
        BY <1>5, <1>9, <1>18, <3>1, PartFrom DEF Pf
    <2>11. write_mode' = "HUB"
      BY <2>6 DEF Taken
    <2>12. j.cache => IsPrefix(CacheImage, cachecog')
      <3>1. ptype # CACHE_INIT
        BY <1>14, <2>3
      <3>2. QED
        BY <1>15, <1>16, <1>18, <1>20, <3>1
    <2>13. k + 1 >= F => IsPrefix(VmImage, vmcog')
      <3> SUFFICES ASSUME k + 1 >= F PROVE IsPrefix(VmImage, vmcog')
        OBVIOUS
      <3>1. i = Pv + 3 /\ i > 1 /\ Smaller(i - 2, Pv) = Pv
        BY <1>7, <1>8, <1>18, <1>20, <2>1 DEF Smaller
      <3>2. vmcog' = HubImage
        BY <1>15, <2>3, <3>1
      <3>3. Taken("HUB", VmImage, Pv)
        BY <2>4, <3>1
      <3>4. QED
        BY <1>6, <1>13, <3>2, <3>3, StartedWith DEF Pv
    <2>14. lpc' # "stop"
      BY <1>14, <1>15, <2>3
    <2>15. QED
      BY <2>8, <2>9, <2>10, <2>11, <2>12, <2>13, <2>14
  (* The program, and RUN. *)
  <1>21. CASE F <= k
    <2> DEFINE i == k - F + 1
               c == Packet(RUN, RunFlags)
    <2>1. i \in 1..Pf + 3 /\ F + i = k + 1
      BY <1>7, <1>8, <1>9, <1>18, <1>21
    <2>2. p = PartAt(j.type, j.file, c, i)
      BY <1>9, <1>10, <2>1
    <2>3. ptype = IF i = Pf + 3 THEN RUN
                  ELSE IF i = 1 THEN j.type ELSE IF i = Pf + 2 THEN EOF ELSE DATA
      BY <1>5, <1>11, <2>1, <2>2, PartType DEF Pf, p
    <2>4. i > 1 => Taken(Space(j.type), j.file, Smaller(i - 2, Pf))
      <3> SUFFICES ASSUME i > 1 PROVE Taken(Space(j.type), j.file, Smaller(i - 2, Pf))
        OBVIOUS
      <3>1. k \in F + 1..F + Pf + 3 /\ k - F - 1 = i - 2
        BY <1>7, <1>18, <2>1
      <3>2. Taken(Space(j.type), j.file, Smaller(k - F - 1, Pf))
        BY <1>2, <1>5, <1>16, <1>18, <3>1, PartSoFar DEF Pf
      <3>3. QED
        BY <3>1, <3>2
    <2>5. i = 1 => write_mode # "FLASH"
      BY <1>16, <1>18, <1>21
    <2>6. \/ Taken(Space(j.type), j.file, Smaller(i - 1, Pf))'
          \/ lpc' = "hung" /\ write_mode' # "FLASH" /\ i <= Pf + 1
      BY <1>5, <1>11, <2>1, <2>2, <2>4, <2>5, PartStep DEF Pf, p
    <2>7. (k + 1) - F - 1 = i - 1
      BY <1>18, <2>1
    <2>8. ASSUME j.cache PROVE InPart(0, "HUB", CacheImage)'
      <3>1. k + 1 \notin 0 + 1..0 + Pc + 3
        BY <1>7, <1>8, <1>18, <1>21, <2>8
      <3>2. QED
        BY <1>6, <1>9, <1>18, <3>1, PartFrom DEF Pc
    <2>9. InPart(C, "HUB", VmImage)'
      <3>1. k + 1 \notin C + 1..C + Pv + 3
        BY <1>7, <1>8, <1>18, <1>21
      <3>2. QED
        BY <1>6, <1>9, <1>18, <3>1, PartFrom DEF Pv
    <2>10. \/ InPart(F, Space(j.type), j.file)'
           \/ lpc' = "hung" /\ write_mode' # "FLASH" /\ k + 1 < T - 1
      <3>1. Taken(Space(j.type), j.file, Smaller(i - 1, Pf))'
              => InPart(F, Space(j.type), j.file)'
        BY <1>5, <1>9, <1>18, <2>7, PartFrom DEF Pf
      <3>2. i <= Pf + 1 => k + 1 < T - 1
        BY <1>7, <1>8, <1>18, <2>1
      <3>3. QED
        BY <2>6, <3>1, <3>2
    <2>11. ~ (k + 1 <= F)
      BY <1>18, <1>21
    <2>12. ptype # CACHE_INIT /\ ptype # VM_INIT
      BY <1>5, <1>14, <2>3
    <2>13. j.cache => IsPrefix(CacheImage, cachecog')
      <3>1. k >= C
        BY <1>7, <1>8, <1>18, <1>21
      <3>2. QED
        BY <1>15, <1>16, <2>12, <3>1
    <2>14. IsPrefix(VmImage, vmcog')
      BY <1>15, <1>16, <1>18, <1>21, <2>12
    <2>15. lpc' = "stop" => k + 1 = T
      <3> SUFFICES ASSUME lpc' = "stop" PROVE k + 1 = T
        OBVIOUS
      <3>1. ptype = RUN
        BY <1>15
      <3>2. i = Pf + 3
        BY <1>5, <1>14, <2>3, <3>1
      <3>3. QED
        BY <1>7, <1>8, <1>18, <2>1, <3>2
    <2>16. QED
      BY <2>8, <2>9, <2>10, <2>11, <2>13, <2>14, <2>15
  <1>22. QED
    BY <1>7, <1>8, <1>18, <1>19, <1>20, <1>21

LEMMA NextProgress ==
  ASSUME TypeOK, HistoryInv, HistoryInv', ProgressInv, [Next]_vars
  PROVE  ProgressInv'
  <1> SUFFICES ASSUME AcceptedInOrder' PROVE Progress'
    BY DEF ProgressInv
  <1>1. Progress /\ job' = job
    BY OrderWas DEF ProgressInv
  <1>2. N' = N
    BY <1>1, SameJob
  <1>3. CASE handle /\ UNCHANGED hostVars
    BY <1>1, <1>3, HandleProgress
  <1>4. ASSUME UNCHANGED <<handled, targetVars>>, lpc' = "hung" <=> lpc = "hung",
               lpc' \in {"stop", "run", "running"} => lpc \in {"stop", "run", "running"}
        PROVE  Progress'
    <2>1. UNCHANGED <<write_mode, load_address, mem, cachecog, vmcog, handled>>
      BY <1>4 DEF targetVars
    <2>2. PICK j : j = job
      OBVIOUS
    <2>3. job' = j
      BY <1>1, <2>2
    <2>4. ASSUME NEW CONSTANT s, NEW CONSTANT space, NEW CONSTANT b, InPart(s, space, b)
          PROVE  InPart(s, space, b)'
      <3>1. PICK k : k = Len(handled)
        OBVIOUS
      <3>2. Len(handled)' = k
        BY <2>1, <3>1
      <3>3. CASE k \in s + 1..s + Pieces(b) + 3
        <4>1. Taken(space, b, Smaller(k - s - 1, Pieces(b)))
          BY <2>4, <3>1, <3>3 DEF InPart
        <4>2. Taken(space, b, Smaller(k - s - 1, Pieces(b)))'
          BY <2>1, <4>1, TakenStays
        <4>3. QED
          BY <3>2, <4>2 DEF InPart
      <3>4. CASE k \notin s + 1..s + Pieces(b) + 3
        BY <3>2, <3>4 DEF InPart
      <3>5. QED
        BY <3>3, <3>4
    <2>5. /\ Len(handled) <= FileStart(j) => write_mode # "FLASH"
          /\ j.cache => InPart(0, "HUB", CacheImage)
          /\ InPart(VmStart(j), "HUB", VmImage)
          /\ \/ InPart(FileStart(j), Space(j.type), j.file)
             \/ lpc = "hung" /\ write_mode # "FLASH" /\ Len(handled) < N - 1
          /\ j.cache /\ Len(handled) >= VmStart(j) => IsPrefix(CacheImage, cachecog)
          /\ Len(handled) >= FileStart(j) => IsPrefix(VmImage, vmcog)
          /\ lpc \in {"stop", "run", "running"} => Len(handled) = N
      BY <1>1, <2>2 DEF Progress
    <2>6. /\ j.cache => InPart(0, "HUB", CacheImage)'
          /\ InPart(VmStart(j), "HUB", VmImage)'
          /\ InPart(FileStart(j), Space(j.type), j.file)
               => InPart(FileStart(j), Space(j.type), j.file)'
      BY <2>4, <2>5
    <2>7. QED
      BY <1>2, <1>4, <2>1, <2>3, <2>5, <2>6 DEF Progress
  <1>5. CASE publish /\ UNCHANGED <<helperVars, hostVars>>
    BY <1>4, <1>5 DEF helperVars
  <1>6. CASE Quiet
    BY <1>4, <1>6 DEF Quiet
  <1>7. QED
    BY <1>3, <1>5, <1>6, StepKinds

-----------------------------------------------------------------------------
(* The theorems. *)

LoadInv == HistoryInv /\ ProgressInv

LEMMA InitLoadInv == Init => LoadInv
  <1> SUFFICES ASSUME Init PROVE LoadInv
    OBVIOUS
  <1>1. /\ accepted = <<>> /\ handled = <<>> /\ status = "PENDING" /\ lpc = "poll"
        /\ write_mode = "NONE" /\ job \in Jobs
    BY DEF Init, DriverInit, HelperInit, HostInit
  <1>2. Len(<<>>) = 0 /\ <<>> \in Seq(PacketType)
    OBVIOUS
  <1>3. HistoryInv
    BY <1>1, <1>2 DEF HistoryInv, Unhandled
  <1>4. IsJob(job)
    BY <1>1, JobPackets
  <1>5. /\ Pieces(VmImage) \in Nat /\ Pieces(CacheImage) \in Nat /\ Pieces(job.file) \in Nat
    BY <1>4, PieceBounds, HostScriptAssumption DEF IsJob
  <1>6. VmStart(job) \in Nat /\ FileStart(job) \in Nat
    BY <1>5 DEF VmStart, FileStart
  <1>7. ASSUME NEW s \in Nat, NEW space, NEW b, Pieces(b) \in Nat PROVE InPart(s, space, b)
    BY <1>1, <1>2, <1>7 DEF InPart
  <1>8. InPart(FileStart(job), Space(job.type), job.file)
    BY <1>5, <1>6, <1>7
  <1>9. InPart(0, "HUB", CacheImage) /\ InPart(VmStart(job), "HUB", VmImage)
    BY <1>5, <1>6, <1>7
  <1>10. job.cache => ~ (Len(handled) >= VmStart(job))
    BY <1>1, <1>2, <1>5 DEF VmStart
  <1>11. ~ (Len(handled) >= FileStart(job))
    <2>1. FileStart(job) > 0
      BY <1>5, <1>6 DEF FileStart
    <2>2. QED
      BY <1>1, <1>2, <1>6, <2>1
  <1>12. Progress
    BY <1>1, <1>8, <1>9, <1>10, <1>11 DEF Progress
  <1>13. QED
    BY <1>3, <1>12 DEF LoadInv, ProgressInv

THEOREM LoadInvariant == Spec => []LoadInv
  <1>1. TypeOK /\ HeldPacketIsStable /\ TypeOK' /\ LoadInv /\ [Next]_vars => LoadInv'
    BY NextHistory, NextProgress DEF LoadInv
  <1>2. QED
    BY <1>1, InitLoadInv, TypeCorrect, HeldPacket, PTL DEF Spec

(* How many of the packets in order the target has handled. *)
LEMMA HandledCount ==
  ASSUME TypeOK, HistoryInv, AcceptedInOrder
  PROVE  Len(handled) \in 0..N /\ N = Total(job) /\ IsJob(job)
  <1>1. Packets \in Seq(PacketType)
    BY JobPackets DEF TypeOK, HostTypeOK
  <1>1a. N = Len(Packets) /\ N = Total(job) /\ IsJob(job)
    BY JobPackets DEF TypeOK, HostTypeOK, N
  <1>2. accepted \in Seq(PacketType) /\ handled \in Seq(PacketType) /\ Len(handled) <= Len(accepted)
    BY DEF HistoryInv
  <1>3. Len(accepted) <= Len(Packets)
    BY <1>1, <1>2, PrefixAt DEF AcceptedInOrder
  <1>4. Len(accepted) \in Nat /\ Len(handled) \in Nat /\ Len(Packets) \in Nat
    BY <1>1, <1>2
  <1>5. QED
    BY <1>1a, <1>2, <1>3, <1>4

LEMMA FlashPrefix ==
  ASSUME TypeOK, LoadInv, AcceptedInOrder
  PROVE  FlashHoldsPrefix
  <1> SUFFICES ASSUME write_mode = "FLASH", NEW a \in 0..load_address - 1
               PROVE  mem["FLASH"][a] = job.file[a + 1]
    BY DEF FlashHoldsPrefix
  <1> DEFINE F == FileStart(job)
             b == job.file
             P == Pieces(b)
             k == Len(handled)
  <1>1. Progress /\ k \in 0..N /\ N = Total(job) /\ IsJob(job)
    BY HandledCount DEF LoadInv, ProgressInv
  <1>2. b \in Seq(Byte) /\ Len(b) <= MemSize /\ load_address \in Nat
    BY XLoadAssumption DEF TypeOK, HostTypeOK, HelperTypeOK
  <1>3. P \in Nat /\ Pieces(VmImage) \in Nat /\ Pieces(CacheImage) \in Nat
    BY <1>2, PieceBounds, HostScriptAssumption
  <1>4. F \in Nat /\ N = F + P + 3
    BY <1>1, <1>3 DEF FileStart, VmStart, Total
  <1>5. ~ (k <= F) /\ InPart(F, Space(job.type), b)
    BY <1>1 DEF Progress
  <1> HIDE DEF F, P, k
  <1>6. k \in F + 1..F + P + 3
    BY <1>1, <1>3, <1>4, <1>5
  <1> DEFINE i == Smaller(k - F - 1, P)
  <1>7. Taken("FLASH", b, i)
    BY <1>5, <1>6 DEF InPart, P, k, Taken
  <1>8. i \in 0..P
    BY <1>3, <1>4, <1>6 DEF Smaller
  <1> HIDE DEF i
  <1>9. load_address <= Len(b)
    <2>1. i < P => i * PKTMAXLEN < Len(b) /\ i * PKTMAXLEN \in Nat
      BY <1>2, <1>8, PieceBounds DEF P
    <2>2. CASE i < P
      BY <1>2, <1>7, <2>1, <2>2 DEF Taken, Reached, P
    <2>3. CASE i = P
      BY <1>2, <1>7, <2>3 DEF Taken, Reached, P
    <2>4. QED
      BY <1>3, <1>8, <2>2, <2>3
  <1>10. a \in Address /\ a < load_address /\ a < Len(b)
    BY <1>2, <1>9, SerialHelperAssumption DEF Address
  <1>11. QED
    BY <1>7, <1>10 DEF Taken, Holds

LEMMA WholeImage ==
  ASSUME TypeOK, LoadInv, AcceptedInOrder, Len(handled) >= N - 1
  PROVE  ImageInPlace
  <1> DEFINE F == FileStart(job)
             b == job.file
             P == Pieces(b)
             k == Len(handled)
             space == Space(job.type)
  <1>1. Progress /\ k \in 0..N /\ N = Total(job) /\ IsJob(job)
    BY HandledCount DEF LoadInv, ProgressInv
  <1>2. b \in Seq(Byte) /\ Len(b) <= MemSize /\ load_address \in Nat
    BY XLoadAssumption DEF TypeOK, HostTypeOK, HelperTypeOK
  <1>3. P \in Nat /\ Pieces(VmImage) \in Nat /\ Pieces(CacheImage) \in Nat
    BY <1>2, PieceBounds, HostScriptAssumption
  <1>4. F \in Nat /\ N = F + P + 3 /\ F >= VmStart(job) /\ VmStart(job) \in Nat
    <2>1. VmStart(job) \in Nat
      BY <1>3 DEF VmStart
    <2>2. F = VmStart(job) + Pieces(VmImage) + 3 /\ N = F + P + 3
      BY <1>1 DEF FileStart, Total
    <2> HIDE DEF F
    <2>3. QED
      BY <1>3, <2>1, <2>2
  <1>5. /\ InPart(F, space, b) \/ Len(handled) < N - 1
        /\ job.cache /\ k >= VmStart(job) => IsPrefix(CacheImage, cachecog)
        /\ k >= F => IsPrefix(VmImage, vmcog)
    BY <1>1 DEF Progress
  <1>6. k >= N - 1 /\ ~ (k < N - 1)
    BY <1>1, <1>4
  <1>6a. InPart(F, space, b)
    BY <1>5, <1>6
  <1> HIDE DEF F, P, k, space
  <1>7. k \in F + 1..F + P + 3 /\ k >= F /\ k >= VmStart(job) /\ k - F - 1 >= P
    BY <1>1, <1>3, <1>4, <1>6
  <1>8. Smaller(k - F - 1, P) = P
    BY <1>1, <1>3, <1>4, <1>7 DEF Smaller
  <1>9. Taken(space, b, P)
    BY <1>6a, <1>7, <1>8 DEF InPart, P, k
  <1>10. ASSUME NEW a \in 0..Len(b) - 1 PROVE mem[space][a] = b[a + 1]
    <2>1. load_address >= Len(b)
      BY <1>9 DEF Taken, Reached, P
    <2>2. a \in Address /\ a < load_address /\ a < Len(b)
      BY <1>2, <2>1, SerialHelperAssumption DEF Address
    <2>3. QED
      BY <1>9, <2>2 DEF Taken, Holds
  <1>11. write_mode = space
    BY <1>9 DEF Taken
  <1>12. space = CASE job.type = FLASH_WRITE -> "FLASH"
                   [] job.type = RAM_WRITE -> "RAM"
                   [] OTHER -> "HUB"
    BY DEF space, Space
  <1>13. QED
    BY <1>5, <1>7, <1>10, <1>11, <1>12 DEF ImageInPlace

LEMMA RunWhole ==
  ASSUME TypeOK, LoadInv, AcceptedInOrder
  PROVE  RunOnlyWholeImage
  <1> SUFFICES ASSUME lpc \in {"stop", "run", "running"} PROVE ImageInPlace
    BY DEF RunOnlyWholeImage
  <1>1. Progress /\ N \in Nat
    BY JobPackets DEF LoadInv, ProgressInv, TypeOK, HostTypeOK
  <1>2. Len(handled) = N
    BY <1>1 DEF Progress
  <1>3. Len(handled) >= N - 1
    BY <1>1, <1>2
  <1>4. QED
    BY <1>3, WholeImage

(* Whatever the line does, as long as the packets taken in are the host's  *)
(* in order: every chunk was programmed on erased cells, and no erase hit  *)
(* one that already held data of this load (DATA_handler erases ahead).    *)
THEOREM FlashIsKept == Spec => [](AcceptedInOrder => FlashHoldsPrefix)
  <1>1. TypeOK /\ LoadInv => (AcceptedInOrder => FlashHoldsPrefix)
    BY FlashPrefix
  <1>2. QED
    BY <1>1, TypeCorrect, LoadInvariant, PTL

(* And the program is started on nothing but its whole image, by cogs that *)
(* were loaded whole: nothing in RUN_handler sees to it.                   *)
THEOREM OnlyWholeIsRun == Spec => [](AcceptedInOrder => RunOnlyWholeImage)
  <1>1. TypeOK /\ LoadInv => (AcceptedInOrder => RunOnlyWholeImage)
    BY RunWhole
  <1>2. QED
    BY <1>1, TypeCorrect, LoadInvariant, PTL
=============================================================================
