---------------------------- MODULE ScriptProofs ----------------------------
(***************************************************************************)
(* Facts about the packets of a load and their frames, for every image and *)
(* packet size: which packet stands where in the script of the host, and   *)
(* which byte stands where in its frame.                                   *)
(***************************************************************************)
EXTENDS HostScript, SequenceTheorems, WellFoundedInduction, TLAPS

(* How many pieces a buffer is sent in, and how many bytes the first i of  *)
(* them hold.                                                              *)
Pieces(b) == (Len(b) + PKTMAXLEN - 1) \div PKTMAXLEN
End(b, i) == IF i * PKTMAXLEN < Len(b) THEN i * PKTMAXLEN ELSE Len(b)
Piece(b, i) == Packet(DATA, SubSeq(b, (i - 1) * PKTMAXLEN + 1, End(b, i)))

(* Packet i of a part of the script: what announces the memory, the pieces *)
(* of b, the end of file, and the packet c that does something with b.     *)
PartAt(h, b, c, i) ==
  IF i = 1 THEN Packet(h, <<>>)
  ELSE IF i = Pieces(b) + 2 THEN Packet(EOF, <<>>)
  ELSE IF i = Pieces(b) + 3 THEN c
  ELSE Piece(b, i - 1)

(* The packets before the one that announces the virtual machine, and      *)
(* before the one that announces the file.                                 *)
VmStart(j)   == IF j.cache THEN Pieces(CacheImage) + 3 ELSE 0
FileStart(j) == VmStart(j) + Pieces(VmImage) + 3
Total(j)     == FileStart(j) + Pieces(j.file) + 3

IsJob(j) ==
  /\ j.cache \in BOOLEAN
  /\ j.type \in {FLASH_WRITE, RAM_WRITE, HUB_WRITE}
  /\ j.file \in Seq(Byte)

(* What a frame can carry.                                                 *)
PacketType == {p \in [type : Byte, data : Seq(Byte)] : Len(p.data) <= PKTMAXLEN}

-----------------------------------------------------------------------------
(* Induction over the numbers, for a set: the library's theorem is about   *)
(* an operator.                                                            *)

LEMMA LeastNumber ==
  ASSUME NEW S, S \subseteq Nat, S # {}
  PROVE  \E x \in S : \A y \in S : ~ (y < x)
  <1>1. PICK x \in S : \A y \in S : <<y, x>> \notin OpToRel(<, Nat)
    BY NatLessThanWellFounded, WFMin
  <1>2. \A y \in S : ~ (y < x)
    BY <1>1 DEF OpToRel
  <1>3. QED
    BY <1>2

LEMMA Induction ==
  ASSUME NEW S, 0 \in S, \A n \in Nat : n \in S => n + 1 \in S
  PROVE  Nat \subseteq S
  <1> SUFFICES ASSUME Nat \ S # {} PROVE FALSE
    OBVIOUS
  <1>1. PICK x \in Nat \ S : \A y \in Nat \ S : ~ (y < x)
    BY LeastNumber
  <1>2. x # 0 /\ x - 1 \in Nat
    BY <1>1
  <1>3. x - 1 \in S
    BY <1>1, <1>2
  <1>4. QED
    BY <1>1, <1>2, <1>3

LEMMA BoundedInduction ==
  ASSUME NEW S, NEW L \in Nat, 0 \in S, \A n \in 0..L - 1 : n \in S => n + 1 \in S
  PROVE  0..L \subseteq S
  <1> DEFINE R == S \cup {n \in Nat : n > L}
  <1>1. 0 \in R
    OBVIOUS
  <1>2. ASSUME NEW n \in Nat, n \in R PROVE n + 1 \in R
    <2>1. CASE n >= L
      BY <2>1
    <2>2. CASE n < L
      <3>1. n \in S /\ n \in 0..L - 1
        BY <1>2, <2>2
      <3>2. QED
        BY <3>1
    <2>3. QED
      BY <2>1, <2>2
  <1> HIDE DEF R
  <1>3. Nat \subseteq R
    BY <1>1, <1>2, Induction
  <1>4. QED
    BY <1>3 DEF R

-----------------------------------------------------------------------------
(* The check register. *)

Registers(data, n, f) ==
  f = [i \in 0..n |-> IF i = 0 THEN 0 ELSE updcrc(f[i - 1], data[i])]

(* Its recursive definition defines it. *)
LEMMA RegisterExists ==
  ASSUME NEW data, NEW n \in Nat
  PROVE  \E f : Registers(data, n, f)
  <1> DEFINE S == {m \in Nat : \E f : Registers(data, m, f)}
  <1>1. 0 \in S
    <2> DEFINE f == [i \in 0..0 |-> 0]
    <2>1. Registers(data, 0, f)
      BY DEF Registers
    <2>2. QED
      BY <2>1
  <1>2. ASSUME NEW m \in Nat, m \in S PROVE m + 1 \in S
    <2>1. PICK f : Registers(data, m, f)
      BY <1>2
    <2> DEFINE g == [i \in 0..m + 1 |-> IF i = m + 1 THEN updcrc(f[m], data[m + 1]) ELSE f[i]]
    <2>2. \A i \in 0..m : f[i] = IF i = 0 THEN 0 ELSE updcrc(f[i - 1], data[i])
      BY <2>1 DEF Registers
    <2>3. \A i \in 0..m + 1 : g[i] = IF i = 0 THEN 0 ELSE updcrc(g[i - 1], data[i])
      <3> SUFFICES ASSUME NEW i \in 0..m + 1
                   PROVE  g[i] = IF i = 0 THEN 0 ELSE updcrc(g[i - 1], data[i])
        OBVIOUS
      <3>1. CASE i = 0
        BY <2>2, <3>1
      <3>2. CASE i # 0 /\ i # m + 1
        <4>1. i \in 0..m /\ i - 1 \in 0..m /\ i - 1 # m + 1
          BY <3>2
        <4>2. g[i] = f[i] /\ g[i - 1] = f[i - 1]
          BY <4>1, <3>2
        <4>3. QED
          BY <2>2, <3>2, <4>1, <4>2
      <3>3. CASE i = m + 1
        <4>1. g[i] = updcrc(f[m], data[i]) /\ g[i - 1] = f[m] /\ i # 0
          BY <3>3
        <4>2. QED
          BY <4>1
      <3>4. QED
        BY <3>1, <3>2, <3>3
    <2> HIDE DEF g
    <2>4. g = [i \in 0..m + 1 |-> g[i]]
      BY DEF g
    <2>5. Registers(data, m + 1, g)
      BY <2>3, <2>4 DEF Registers
    <2>6. QED
      BY <2>5
  <1> HIDE DEF S
  <1>3. Nat \subseteq S
    BY <1>1, <1>2, Induction
  <1>4. QED
    BY <1>3 DEF S

LEMMA CrcAfter ==
  ASSUME NEW data \in Seq(Byte)
  PROVE  /\ crc_after(data, 0) = 0
         /\ \A n \in 0..Len(data) - 1 :
              crc_after(data, n + 1) = updcrc(crc_after(data, n), data[n + 1])
  <1> DEFINE f == CHOOSE g : Registers(data, Len(data), g)
  <1>1. Registers(data, Len(data), f)
    BY RegisterExists
  <1>2. \A n : crc_after(data, n) = f[n]
    BY DEF crc_after, Registers
  <1> HIDE DEF f
  <1>3. \A i \in 0..Len(data) : f[i] = IF i = 0 THEN 0 ELSE updcrc(f[i - 1], data[i])
    BY <1>1 DEF Registers
  <1>4. f[0] = 0
    BY <1>3
  <1>5. ASSUME NEW n \in 0..Len(data) - 1 PROVE f[n + 1] = updcrc(f[n], data[n + 1])
    <2>1. n + 1 \in 0..Len(data) /\ n + 1 # 0 /\ (n + 1) - 1 = n
      OBVIOUS
    <2>2. QED
      BY <1>3, <2>1
  <1>6. QED
    BY <1>2, <1>4, <1>5

Crc16 == {n \in Nat : n < 65536}

LEMMA UpdcrcRange ==
  ASSUME NEW c \in Crc16, NEW b \in Byte
  PROVE  updcrc(c, b) \in Crc16
  <1>1. 3 * c + b \in Nat
    BY DEF Byte, Crc16
  <1>2. \A n \in Nat : n % 65536 \in Crc16
    BY DEF Crc16
  <1>3. QED
    BY <1>1, <1>2 DEF updcrc

LEMMA CrcRange ==
  ASSUME NEW data \in Seq(Byte)
  PROVE  \A n \in 0..Len(data) : crc_after(data, n) \in Crc16
  <1> DEFINE S == {n \in 0..Len(data) : crc_after(data, n) \in Crc16}
  <1>1. 0 \in S
    BY CrcAfter DEF Crc16
  <1>2. ASSUME NEW m \in 0..Len(data) - 1, m \in S PROVE m + 1 \in S
    <2>1. m + 1 \in 0..Len(data) /\ data[m + 1] \in Byte
      OBVIOUS
    <2>2. crc_after(data, m) \in Crc16
      BY <1>2
    <2>3. crc_after(data, m + 1) = updcrc(crc_after(data, m), data[m + 1])
      BY CrcAfter
    <2>4. QED
      BY <2>1, <2>2, <2>3, UpdcrcRange
  <1> HIDE DEF S
  <1>3. 0..Len(data) \subseteq S
    BY <1>1, <1>2, BoundedInduction
  <1>4. QED
    BY <1>3 DEF S

-----------------------------------------------------------------------------
(* Frames. *)

LEMMA Joined ==
  ASSUME NEW S, NEW a \in Seq(S), NEW b \in Seq(S)
  PROVE  /\ a \o b \in Seq(S) /\ Len(a \o b) = Len(a) + Len(b)
         /\ \A i \in 1..Len(a) : (a \o b)[i] = a[i]
         /\ \A i \in 1..Len(b) : (a \o b)[Len(a) + i] = b[i]
  <1> DEFINE m == Len(a)
             n == Len(b)
             c == a \o b
  <1>1. /\ a \o b \in Seq(S) /\ Len(a \o b) = Len(a) + Len(b)
        /\ \A i \in 1..Len(a) + Len(b) :
             (a \o b)[i] = IF i <= Len(a) THEN a[i] ELSE b[i - Len(a)]
    BY ConcatProperties
  <1>2. m \in Nat /\ n \in Nat
    OBVIOUS
  <1>3. \A i \in 1..m + n : c[i] = IF i <= m THEN a[i] ELSE b[i - m]
    BY <1>1
  <1> HIDE DEF m, n, c
  <1>4. \A i \in 1..m : i \in 1..m + n /\ i <= m
    BY <1>2
  <1>5. \A i \in 1..n : m + i \in 1..m + n /\ ~ (m + i <= m) /\ (m + i) - m = i
    BY <1>2
  <1>6. (\A i \in 1..m : c[i] = a[i]) /\ \A i \in 1..n : c[m + i] = b[i]
    BY <1>3, <1>4, <1>5
  <1>7. QED
    BY <1>1, <1>6 DEF m, n, c

(* The same for a sequence c that stands for the whole, with the lengths   *)
(* named. *)
IsJoin(S, c, a, m, b, n) ==
  /\ c \in Seq(S) /\ Len(c) = m + n
  /\ \A i \in 1..m : c[i] = a[i]
  /\ \A i \in 1..n : c[m + i] = b[i]

LEMMA JoinedAt ==
  ASSUME NEW S, NEW a \in Seq(S), NEW b \in Seq(S)
  PROVE  IsJoin(S, a \o b, a, Len(a), b, Len(b))
  BY Joined DEF IsJoin

LEMMA Halves ==
  ASSUME NEW n \in Crc16
  PROVE  /\ n \div 256 \in Byte /\ n % 256 \in Byte
         /\ n = 256 * (n \div 256) + (n % 256)
  <1>1. n \in Nat /\ n < 65536
    BY DEF Crc16
  <1>2. \A m \in Nat : m = 256 * (m \div 256) + (m % 256) /\ m \div 256 \in Nat /\ m % 256 \in 0..255
    OBVIOUS
  <1>3. \A m \in Nat : m < 65536 => m \div 256 < 256
    OBVIOUS
  <1>4. n \div 256 \in Nat /\ n \div 256 < 256
    BY <1>1, <1>2, <1>3
  <1>5. QED
    BY <1>1, <1>2, <1>4 DEF Byte

LEMMA HeaderSum ==
  ASSUME NEW a \in Byte, NEW b \in Byte, NEW c \in Byte, NEW d \in Byte
  PROVE  (a + b + c + d) % 256 \in Byte
  BY DEF Byte

FrameHeader(n, t, len) ==
  <<SOH, n, t, len \div 256, len % 256, (n + t + (len \div 256) + (len % 256)) % 256>>
FrameTrailer(crc) == <<crc \div 256, crc % 256>>

LEMMA FrameParts ==
  ASSUME NEW n, NEW p
  PROVE  Frame(n, p) =
           FrameHeader(n, p.type, Len(p.data)) \o p.data \o FrameTrailer(Crc(p.data))
  BY Zenon DEF Frame, FrameHeader, FrameTrailer

LEMMA FrameHeaderBytes ==
  ASSUME NEW n \in Byte, NEW t \in Byte, NEW len \in Crc16,
         NEW h, h = FrameHeader(n, t, len)
  PROVE  /\ h \in Seq(Byte) /\ Len(h) = 6
         /\ h[1] = SOH /\ h[2] = n /\ h[3] = t
         /\ h[4] = len \div 256 /\ h[5] = len % 256
         /\ h[6] = (n + t + (len \div 256) + (len % 256)) % 256
  <1>1. len \div 256 \in Byte /\ len % 256 \in Byte
    BY Halves
  <1>2. (n + t + (len \div 256) + (len % 256)) % 256 \in Byte
    BY <1>1, HeaderSum
  <1>3. SOH \in Byte
    BY DEF SOH, Byte
  <1> DEFINE d == len \div 256
             m == len % 256
             s == (n + t + d + m) % 256
  <1> HIDE DEF d, m, s
  <1>4. FrameHeader(n, t, len) = <<SOH, n, t, d, m, s>>
    BY DEF FrameHeader, d, m, s
  <1>5. d \in Byte /\ m \in Byte /\ s \in Byte
    BY <1>1, <1>2 DEF d, m, s
  <1>6. /\ <<SOH, n, t, d, m, s>> \in Seq(Byte)
        /\ Len(<<SOH, n, t, d, m, s>>) = 6
    BY <1>3, <1>5
  <1>7. QED
    BY <1>4, <1>6 DEF d, m, s

SizeHi(p)   == Len(p.data) \div 256
SizeLo(p)   == Len(p.data) % 256
CrcHi(p)    == Crc(p.data) \div 256
CrcLo(p)    == Crc(p.data) % 256
Check(n, p) == (n + p.type + SizeHi(p) + SizeLo(p)) % 256

(* F is the frame of packet p under number n.                              *)
IsFrame(F, n, p) ==
  /\ F \in Seq(Byte) /\ Len(F) = Len(p.data) + 8
  /\ F[1] = SOH /\ F[2] = n /\ F[3] = p.type
  /\ F[4] = SizeHi(p) /\ F[5] = SizeLo(p) /\ F[6] = Check(n, p)
  /\ \A i \in 1..Len(p.data) : F[6 + i] = p.data[i]
  /\ F[7 + Len(p.data)] = CrcHi(p) /\ F[8 + Len(p.data)] = CrcLo(p)

LEMMA FrameBytes ==
  ASSUME NEW n \in Byte, NEW p \in PacketType
  PROVE  IsFrame(Frame(n, p), n, p)
  <1> DEFINE L == Len(p.data)
             h == FrameHeader(n, p.type, L)
             c == FrameTrailer(Crc(p.data))
             d == p.data
             hd == h \o d
             F == hd \o c
  <1>1. d \in Seq(Byte) /\ p.type \in Byte /\ L \in Nat
    BY DEF PacketType
  <1>2. L \in Crc16
    <2>1. PKTMAXLEN \in Nat /\ PKTMAXLEN < 65536
      BY PKTMAXLENAssumption
    <2> HIDE DEF L
    <2>2. L <= PKTMAXLEN
      BY DEF L, PacketType
    <2>3. QED
      BY <1>1, <2>1, <2>2 DEF Crc16
  <1>3. Crc(p.data) \in Crc16
    BY <1>1, CrcRange DEF Crc
  <1>4. /\ h \in Seq(Byte) /\ Len(h) = 6
        /\ h[1] = SOH /\ h[2] = n /\ h[3] = p.type /\ h[4] = L \div 256 /\ h[5] = L % 256
        /\ h[6] = (n + p.type + (L \div 256) + (L % 256)) % 256
    <2>1. p.type \in Byte /\ L \in Crc16 /\ h = FrameHeader(n, p.type, L)
      BY <1>1, <1>2
    <2> HIDE DEF h, L
    <2>2. QED
      BY <2>1, FrameHeaderBytes
  <1>5. /\ c \in Seq(Byte) /\ Len(c) = 2
        /\ c[1] = Crc(p.data) \div 256 /\ c[2] = Crc(p.data) % 256
    <2>1. Crc(p.data) \div 256 \in Byte /\ Crc(p.data) % 256 \in Byte
      BY <1>3, Halves
    <2>2. QED
      BY <2>1 DEF FrameTrailer
  <1>6. Len(d) = L
    OBVIOUS
  <1>7. Frame(n, p) = F
    BY FrameParts
  <1> HIDE DEF h, c, L, d
  <1>8. /\ hd \in Seq(Byte) /\ Len(hd) = 6 + L
        /\ \A i \in 1..6 : hd[i] = h[i]
        /\ \A i \in 1..L : hd[6 + i] = d[i]
    <2>1. IsJoin(Byte, hd, h, Len(h), d, Len(d))
      BY <1>1, <1>4, JoinedAt
    <2>2. IsJoin(Byte, hd, h, 6, d, L)
      BY <1>4, <1>6, <2>1, Zenon
    <2> HIDE DEF hd
    <2>3. QED
      BY <2>2 DEF IsJoin
  <1> HIDE DEF hd
  <1>9. /\ F \in Seq(Byte) /\ Len(F) = (6 + L) + 2
        /\ \A i \in 1..6 + L : F[i] = hd[i]
        /\ \A i \in 1..2 : F[(6 + L) + i] = c[i]
    <2>1. IsJoin(Byte, F, hd, Len(hd), c, Len(c))
      BY <1>5, <1>8, JoinedAt
    <2>2. IsJoin(Byte, F, hd, 6 + L, c, 2)
      BY <1>5, <1>8, <2>1, Zenon
    <2> HIDE DEF F
    <2>3. QED
      BY <2>2 DEF IsJoin
  <1> HIDE DEF F
  <1>10. \A i \in 1..6 : i \in 1..6 + L
    BY <1>1
  <1>11. \A i \in 1..6 : F[i] = h[i]
    BY <1>8, <1>9, <1>10
  <1>12. \A i \in 1..L : 6 + i \in 1..6 + L
    BY <1>1
  <1>13. \A i \in 1..L : F[6 + i] = d[i]
    BY <1>8, <1>9, <1>12
  <1>14. F[7 + L] = c[1] /\ F[8 + L] = c[2]
    <2>1. (6 + L) + 1 = 7 + L /\ (6 + L) + 2 = 8 + L
      BY <1>1
    <2>2. QED
      BY <1>9, <2>1
  <1>15. /\ F[1] = SOH /\ F[2] = n /\ F[3] = p.type /\ F[4] = L \div 256 /\ F[5] = L % 256
         /\ F[6] = (n + p.type + (L \div 256) + (L % 256)) % 256
    BY <1>4, <1>11
  <1>16. Len(F) = L + 8
    BY <1>1, <1>9
  <1>17. /\ F[4] = SizeHi(p) /\ F[5] = SizeLo(p) /\ F[6] = Check(n, p)
         /\ F[7 + L] = CrcHi(p) /\ F[8 + L] = CrcLo(p)
    BY <1>5, <1>14, <1>15 DEF SizeHi, SizeLo, Check, CrcHi, CrcLo, L
  <1>18. IsFrame(F, n, p)
    BY <1>9, <1>13, <1>15, <1>16, <1>17 DEF IsFrame, L, d
  <1>19. QED
    BY <1>7, <1>18

-----------------------------------------------------------------------------
(* Pieces of a buffer. *)

LEMMA Quotient ==
  ASSUME NEW n \in Nat, NEW d \in Nat, d > 0
  PROVE  /\ n \div d \in Nat
         /\ (n \div d) * d <= n
         /\ n < (n \div d) * d + d
  OBVIOUS

LEMMA Times ==
  ASSUME NEW i \in Int, NEW j \in Int, NEW d \in Nat, i <= j
  PROVE  i * d \in Int /\ i * d <= j * d
  OBVIOUS

LEMMA TimesNext ==
  ASSUME NEW i \in Int, NEW d \in Int
  PROVE  (i + 1) * d = i * d + d /\ (i - 1) * d = i * d - d
  OBVIOUS

LEMMA PacketSize == PKTMAXLEN \in Nat /\ PKTMAXLEN > 0 /\ PKTMAXLEN < 65536
  BY PKTMAXLENAssumption

(* The pieces but the last are full.                                       *)
LEMMA PieceBounds ==
  ASSUME NEW b \in Seq(Byte)
  PROVE  /\ Pieces(b) \in Nat
         /\ \A i \in 0..Pieces(b) :
              i * PKTMAXLEN \in Nat /\ (i < Pieces(b) <=> i * PKTMAXLEN < Len(b))
         /\ Len(b) <= Pieces(b) * PKTMAXLEN
  <1> DEFINE L == Len(b)
             M == PKTMAXLEN
             P == Pieces(b)
  <1>1. L \in Nat /\ M \in Nat /\ M > 0
    BY PacketSize
  <1>2. P = (L + M - 1) \div M
    BY DEF Pieces
  <1> HIDE DEF L, M, P
  <1>3. L + M - 1 \in Nat
    BY <1>1
  <1>4. P \in Nat /\ P * M <= L + M - 1 /\ L + M - 1 < P * M + M
    BY <1>1, <1>2, <1>3, Quotient
  <1>5. P * M \in Int
    BY <1>1, <1>4
  <1>6. L <= P * M
    BY <1>1, <1>4, <1>5
  <1>7. ASSUME NEW i \in 0..P PROVE i * M \in Nat /\ (i < P <=> i * M < L)
    <2>1. i \in Nat /\ i * M \in Nat
      BY <1>1, <1>4
    <2>2. CASE i = P
      BY <1>6, <2>2, <1>1, <1>5
    <2>3. CASE i < P
      <3>1. i + 1 <= P /\ i + 1 \in Int /\ P \in Int
        BY <1>4, <2>1, <2>3
      <3>2. (i + 1) * M <= P * M
        BY <1>1, <3>1, Times
      <3>3. (i + 1) * M = i * M + M
        BY <1>1, <2>1, TimesNext
      <3>4. i * M < L
        BY <1>1, <1>4, <1>5, <2>1, <3>2, <3>3
      <3>5. QED
        BY <2>1, <2>3, <3>4
    <2>4. QED
      BY <1>4, <2>1, <2>2, <2>3
  <1>8. QED
    BY <1>4, <1>6, <1>7 DEF L, M, P

LEMMA PieceData ==
  ASSUME NEW b \in Seq(Byte), NEW i \in 1..Pieces(b)
  PROVE  /\ Piece(b, i) \in PacketType /\ Piece(b, i).type = DATA
         /\ End(b, i) = IF i < Pieces(b) THEN i * PKTMAXLEN ELSE Len(b)
         /\ Len(Piece(b, i).data) = End(b, i) - (i - 1) * PKTMAXLEN
         /\ Len(Piece(b, i).data) \in 1..PKTMAXLEN
         /\ i < Pieces(b) => Len(Piece(b, i).data) = PKTMAXLEN
         /\ \A k \in 1..Len(Piece(b, i).data) :
              Piece(b, i).data[k] = b[(i - 1) * PKTMAXLEN + k]
  <1> DEFINE M == PKTMAXLEN
             m == (i - 1) * M
             e == End(b, i)
             L == Len(b)
             d == SubSeq(b, m + 1, e)
  <1>1. Piece(b, i) = [type |-> DATA, data |-> d]
    BY DEF Piece, Packet
  <1>2. e = IF i * M < L THEN i * M ELSE L
    BY DEF End
  <1>3. M \in Nat /\ M > 0 /\ L \in Nat /\ i \in Nat /\ i >= 1 /\ Pieces(b) \in Nat
    BY PacketSize, PieceBounds
  <1>4. i \in 0..Pieces(b) /\ i - 1 \in 0..Pieces(b) /\ i - 1 < Pieces(b)
    BY <1>3
  <1>5. i * M \in Nat /\ (i < Pieces(b) <=> i * M < L) /\ m \in Nat /\ m < L
    BY <1>4, PieceBounds
  <1>6. i * M = m + M
    BY <1>3, TimesNext
  <1> HIDE DEF m, M, e
  <1>7. e = IF i < Pieces(b) THEN i * M ELSE L
    BY <1>2, <1>5
  <1>8. e \in Nat /\ m < e /\ e <= L /\ e - m \in 1..M /\ (i < Pieces(b) => e - m = M)
    <2> HIDE DEF L
    <2>1. L <= Pieces(b) * M
      BY PieceBounds DEF L, M
    <2>2. i < Pieces(b) \/ i = Pieces(b)
      BY <1>3
    <2>3. QED
      BY <1>2, <1>3, <1>5, <1>6, <2>1, <2>2
  <1>9. \A k \in m + 1..e : b[k] \in Byte
    <2>1. \A k \in m + 1..e : k \in 1..L
      BY <1>5, <1>8, <1>3
    <2>2. QED
      BY <2>1
  <1>10. m + 1 \in Int /\ e \in Int /\ m + 1 <= e /\ e - (m + 1) + 1 = e - m
    BY <1>5, <1>8
  <1>11. /\ d \in Seq(Byte)
         /\ Len(d) = IF m + 1 <= e THEN e - (m + 1) + 1 ELSE 0
         /\ \A k \in 1..e - (m + 1) + 1 : d[k] = b[(m + 1) + k - 1]
    BY <1>9, <1>10, SubSeqProperties
  <1> HIDE DEF d, L
  <1>12. Len(d) = e - m
    BY <1>10, <1>11
  <1>13. \A k \in 1..Len(d) : d[k] = b[m + k]
    <2>1. \A k \in 1..e - m : (m + 1) + k - 1 = m + k
      BY <1>5, <1>8
    <2>2. QED
      BY <1>10, <1>11, <1>12, <2>1
  <1>14. DATA \in Byte
    BY DEF DATA, Byte
  <1>15. Piece(b, i) \in PacketType
    <2>1. [type |-> DATA, data |-> d] \in [type : Byte, data : Seq(Byte)]
      BY <1>11, <1>14
    <2>2. Len(d) <= PKTMAXLEN
      BY <1>3, <1>8, <1>12 DEF M
    <2>3. QED
      BY <1>1, <2>1, <2>2 DEF PacketType
  <1>16. Piece(b, i).type = DATA /\ Piece(b, i).data = d
    BY <1>1
  <1>17. QED
    BY <1>7, <1>8, <1>12, <1>13, <1>15, <1>16 DEF e, m, M, L

(* Parts of the script. *)

Write(h, b) == <<Packet(h, <<>>)>> \o DataPackets(b) \o <<Packet(EOF, <<>>)>>

LEMMA EmptyPacket ==
  ASSUME NEW t \in Byte
  PROVE  Packet(t, <<>>) \in PacketType
  <1>1. Len(<<>>) = 0 /\ <<>> \in Seq(Byte)
    OBVIOUS
  <1>2. [type |-> t, data |-> <<>>] \in [type : Byte, data : Seq(Byte)]
    BY <1>1
  <1>3. Len([type |-> t, data |-> <<>>].data) <= PKTMAXLEN
    BY <1>1, PacketSize
  <1>4. QED
    BY <1>2, <1>3 DEF PacketType, Packet

LEMMA DataPacketsAre ==
  ASSUME NEW b \in Seq(Byte)
  PROVE  /\ DataPackets(b) \in Seq(PacketType)
         /\ Len(DataPackets(b)) = Pieces(b)
         /\ \A i \in 1..Pieces(b) : DataPackets(b)[i] = Piece(b, i)
  <1>1. DataPackets(b) = [i \in 1..Pieces(b) |-> Piece(b, i)]
    BY DEF DataPackets, Piece, End, Pieces
  <1>2. Pieces(b) \in Nat
    BY PieceBounds
  <1>3. \A i \in 1..Pieces(b) : Piece(b, i) \in PacketType
    BY PieceData
  <1>4. QED
    BY <1>1, <1>2, <1>3

IsPart(w, h, b, c) ==
  /\ w \in Seq(PacketType) /\ Len(w) = Pieces(b) + 3
  /\ \A i \in 1..Pieces(b) + 3 : w[i] = PartAt(h, b, c, i)

LEMMA PartShape ==
  ASSUME NEW h \in Byte, NEW b \in Seq(Byte), NEW c \in PacketType
  PROVE  IsPart(Write(h, b) \o <<c>>, h, b, c)
  <1> DEFINE x == <<Packet(h, <<>>)>>
             d == DataPackets(b)
             y == <<Packet(EOF, <<>>)>>
             z == <<c>>
             P == Pieces(b)
             xd == x \o d
             xdy == xd \o y
             w == xdy \o z
  <1>1. x \in Seq(PacketType) /\ Len(x) = 1 /\ x[1] = Packet(h, <<>>)
    BY EmptyPacket
  <1>2. y \in Seq(PacketType) /\ Len(y) = 1 /\ y[1] = Packet(EOF, <<>>)
    <2>1. EOF \in Byte
      BY DEF EOF, Byte
    <2>2. QED
      BY <2>1, EmptyPacket
  <1>3. z \in Seq(PacketType) /\ Len(z) = 1 /\ z[1] = c
    OBVIOUS
  <1>4. d \in Seq(PacketType) /\ Len(d) = P /\ \A i \in 1..P : d[i] = Piece(b, i)
    BY DataPacketsAre
  <1>5. P \in Nat
    BY PieceBounds
  <1>6. Write(h, b) \o <<c>> = w
    BY DEF Write
  <1> HIDE DEF x, d, y, z, P
  <1>7. IsJoin(PacketType, xd, x, 1, d, P)
    <2>1. IsJoin(PacketType, xd, x, Len(x), d, Len(d))
      BY <1>1, <1>4, JoinedAt
    <2>2. QED
      BY <1>1, <1>4, <2>1, Zenon
  <1> HIDE DEF xd
  <1>8. IsJoin(PacketType, xdy, xd, 1 + P, y, 1)
    <2>1. xd \in Seq(PacketType) /\ Len(xd) = 1 + P
      BY <1>7 DEF IsJoin
    <2>2. IsJoin(PacketType, xdy, xd, Len(xd), y, Len(y))
      BY <1>2, <2>1, JoinedAt
    <2>3. QED
      BY <1>2, <2>1, <2>2, Zenon
  <1> HIDE DEF xdy
  <1>9. IsJoin(PacketType, w, xdy, (1 + P) + 1, z, 1)
    <2>1. xdy \in Seq(PacketType) /\ Len(xdy) = (1 + P) + 1
      BY <1>8 DEF IsJoin
    <2>2. IsJoin(PacketType, w, xdy, Len(xdy), z, Len(z))
      BY <1>3, <2>1, JoinedAt
    <2>3. QED
      BY <1>3, <2>1, <2>2, Zenon
  <1> HIDE DEF w
  <1>10. w \in Seq(PacketType) /\ Len(w) = P + 3
    BY <1>5, <1>9 DEF IsJoin
  <1>11. ASSUME NEW i \in 1..P + 3 PROVE w[i] = PartAt(h, b, c, i)
    <2>1. CASE i = 1
      <3>1. i \in 1..(1 + P) + 1 /\ i \in 1..1 + P /\ i \in 1..1
        BY <1>5, <2>1
      <3>2. w[i] = x[1]
        BY <1>7, <1>8, <1>9, <2>1, <3>1 DEF IsJoin
      <3>3. QED
        BY <1>1, <2>1, <3>2 DEF PartAt
    <2>2. CASE i \in 2..P + 1
      <3>1. i \in 1..(1 + P) + 1 /\ i \in 1..1 + P /\ i - 1 \in 1..P /\ 1 + (i - 1) = i
        BY <1>5, <2>2
      <3>2. w[i] = xd[i] /\ xd[1 + (i - 1)] = d[i - 1]
        BY <1>7, <1>8, <1>9, <3>1 DEF IsJoin
      <3>3. w[i] = Piece(b, i - 1)
        BY <1>4, <3>1, <3>2
      <3>4. i # 1 /\ i # P + 2 /\ i # P + 3
        BY <1>5, <2>2
      <3>5. QED
        BY <3>3, <3>4 DEF PartAt, P
    <2>3. CASE i = P + 2
      <3>1. i \in 1..(1 + P) + 1 /\ i = (1 + P) + 1 /\ 1 \in 1..1
        BY <1>5, <2>3
      <3>2. w[i] = xdy[i] /\ xdy[(1 + P) + 1] = y[1]
        BY <1>8, <1>9, <3>1 DEF IsJoin
      <3>3. i # 1
        BY <1>5, <2>3
      <3>4. QED
        BY <1>2, <2>3, <3>1, <3>2, <3>3 DEF PartAt, P
    <2>4. CASE i = P + 3
      <3>1. i = ((1 + P) + 1) + 1 /\ 1 \in 1..1
        BY <1>5, <2>4
      <3>2. w[((1 + P) + 1) + 1] = z[1]
        BY <1>9, <3>1 DEF IsJoin
      <3>3. i # 1 /\ i # P + 2
        BY <1>5, <2>4
      <3>4. QED
        BY <1>3, <2>4, <3>1, <3>2, <3>3 DEF PartAt, P
    <2>5. QED
      BY <1>5, <2>1, <2>2, <2>3, <2>4
  <1>12. IsPart(w, h, b, c)
    BY <1>10, <1>11 DEF IsPart, P
  <1>13. QED
    BY <1>6, <1>12

-----------------------------------------------------------------------------
(* The script. *)

LEMMA ScriptParts ==
  ASSUME NEW j, IsJob(j)
  PROVE  LET C == IF j.cache
                    THEN Write(HUB_WRITE, CacheImage) \o <<Packet(CACHE_INIT, CacheParams)>>
                    ELSE <<>>
             V == Write(HUB_WRITE, VmImage) \o <<Packet(VM_INIT, <<>>)>>
         IN  Script(j) = ((C \o V) \o Write(j.type, j.file)) \o <<Packet(RUN, RunFlags)>>
  <1> DEFINE h == <<Packet(HUB_WRITE, <<>>)>>
             y == <<Packet(EOF, <<>>)>>
             v == DataPackets(VmImage)
             c == DataPackets(CacheImage)
  <1>1. HUB_WRITE \in Byte /\ EOF \in Byte
    BY DEF HUB_WRITE, EOF, Byte
  <1>2. h \in Seq(PacketType) /\ y \in Seq(PacketType)
    BY <1>1, EmptyPacket
  <1>3. v \in Seq(PacketType) /\ c \in Seq(PacketType)
    BY DataPacketsAre, HostScriptAssumption
  <1> HIDE DEF h, y, v, c
  <1>4. (h \o v) \o y = h \o (v \o y)
    BY <1>2, <1>3, ConcatAssociative
  <1>4a. (h \o c) \o y = h \o (c \o y)
    BY <1>2, <1>3, ConcatAssociative
  <1>5. /\ Write(HUB_WRITE, VmImage) = (h \o v) \o y
        /\ Write(HUB_WRITE, CacheImage) = (h \o c) \o y
    BY DEF Write, h, v, c, y
  <1>6. LoadVM = (h \o (v \o y)) \o <<Packet(VM_INIT, <<>>)>>
    BY DEF LoadVM, WriteBuffer, h, v, y
  <1>7. LoadCacheDriver(j) = IF j.cache THEN (h \o (c \o y)) \o <<Packet(CACHE_INIT, CacheParams)>>
                                        ELSE <<>>
    BY DEF LoadCacheDriver, WriteBuffer, h, c, y
  <1>8. WriteFileToMemory(j) = Write(j.type, j.file)
    BY DEF WriteFileToMemory, Write
  <1>9. QED
    BY <1>4, <1>4a, <1>5, <1>6, <1>7, <1>8 DEF Script, LoadImage

LEMMA ScriptShape ==
  ASSUME NEW j, IsJob(j)
  PROVE  /\ Script(j) \in Seq(PacketType) /\ Len(Script(j)) = Total(j)
         /\ j.cache => \A i \in 1..Pieces(CacheImage) + 3 :
              Script(j)[i] = PartAt(HUB_WRITE, CacheImage, Packet(CACHE_INIT, CacheParams), i)
         /\ \A i \in 1..Pieces(VmImage) + 3 :
              Script(j)[VmStart(j) + i] = PartAt(HUB_WRITE, VmImage, Packet(VM_INIT, <<>>), i)
         /\ \A i \in 1..Pieces(j.file) + 3 :
              Script(j)[FileStart(j) + i] = PartAt(j.type, j.file, Packet(RUN, RunFlags), i)
  <1> DEFINE C == IF j.cache
                    THEN Write(HUB_WRITE, CacheImage) \o <<Packet(CACHE_INIT, CacheParams)>>
                    ELSE <<>>
             V == Write(HUB_WRITE, VmImage) \o <<Packet(VM_INIT, <<>>)>>
             W == Write(j.type, j.file)
             R == <<Packet(RUN, RunFlags)>>
             F == W \o R
             CV == C \o V
             s == CV \o F
             c == VmStart(j)
             v == Pieces(VmImage) + 3
             f == Pieces(j.file) + 3
  <1>1. /\ j.type \in Byte /\ j.file \in Seq(Byte)
        /\ HUB_WRITE \in Byte /\ VM_INIT \in Byte /\ CACHE_INIT \in Byte /\ RUN \in Byte
    BY DEF IsJob, Byte, FLASH_WRITE, RAM_WRITE, HUB_WRITE, VM_INIT, CACHE_INIT, RUN
  <1>2. /\ Packet(VM_INIT, <<>>) \in PacketType
        /\ Packet(CACHE_INIT, CacheParams) \in PacketType
        /\ Packet(RUN, RunFlags) \in PacketType
    BY <1>1, EmptyPacket, HostScriptAssumption DEF PacketType, Packet
  <1>3. /\ Pieces(VmImage) \in Nat /\ Pieces(j.file) \in Nat /\ Pieces(CacheImage) \in Nat
        /\ c \in Nat /\ v \in Nat /\ f \in Nat
    BY <1>1, PieceBounds, HostScriptAssumption DEF VmStart
  <1>4. IsPart(V, HUB_WRITE, VmImage, Packet(VM_INIT, <<>>))
    BY <1>1, <1>2, PartShape, HostScriptAssumption
  <1>5. IsPart(F, j.type, j.file, Packet(RUN, RunFlags))
    BY <1>1, <1>2, PartShape
  <1>6. /\ C \in Seq(PacketType) /\ Len(C) = c
        /\ j.cache => \A i \in 1..Pieces(CacheImage) + 3 :
             C[i] = PartAt(HUB_WRITE, CacheImage, Packet(CACHE_INIT, CacheParams), i)
    <2>1. CASE j.cache
      <3>1. IsPart(C, HUB_WRITE, CacheImage, Packet(CACHE_INIT, CacheParams))
        BY <1>1, <1>2, <2>1, PartShape, HostScriptAssumption
      <3> HIDE DEF C
      <3>2. QED
        BY <2>1, <3>1 DEF IsPart, VmStart
    <2>2. CASE ~ j.cache
      <3>1. C = <<>>
        BY <2>2
      <3> HIDE DEF C
      <3>2. C \in Seq(PacketType) /\ Len(C) = 0
        BY <3>1
      <3>3. QED
        BY <2>2, <3>2 DEF VmStart
    <2>3. QED
      BY <2>1, <2>2
  <1>7. W \in Seq(PacketType) /\ R \in Seq(PacketType)
    <2>1. EOF \in Byte
      BY DEF EOF, Byte
    <2>2. /\ <<Packet(j.type, <<>>)>> \in Seq(PacketType) /\ <<Packet(EOF, <<>>)>> \in Seq(PacketType)
          /\ R \in Seq(PacketType)
      BY <1>1, <1>2, <2>1, EmptyPacket
    <2>3. DataPackets(j.file) \in Seq(PacketType)
      BY <1>1, DataPacketsAre
    <2>4. <<Packet(j.type, <<>>)>> \o DataPackets(j.file) \in Seq(PacketType)
      BY <2>2, <2>3, ConcatProperties
    <2>5. QED
      BY <2>2, <2>4, ConcatProperties DEF Write
  <1>8. Script(j) = (CV \o W) \o R
    BY ScriptParts
  <1> HIDE DEF C, V, W, R
  <1>9. V \in Seq(PacketType) /\ Len(V) = v
    BY <1>4 DEF IsPart
  <1>10. IsJoin(PacketType, CV, C, c, V, v)
    <2>1. IsJoin(PacketType, CV, C, Len(C), V, Len(V))
      BY <1>6, <1>9, JoinedAt
    <2>2. QED
      BY <1>6, <1>9, <2>1, Zenon
  <1> HIDE DEF CV
  <1>11. CV \in Seq(PacketType) /\ Len(CV) = c + v
    BY <1>10 DEF IsJoin
  <1>12. Script(j) = s
    BY <1>7, <1>8, <1>11, ConcatAssociative
  <1> HIDE DEF F
  <1>13. F \in Seq(PacketType) /\ Len(F) = f
    BY <1>5 DEF IsPart
  <1>14. IsJoin(PacketType, s, CV, c + v, F, f)
    <2>1. IsJoin(PacketType, s, CV, Len(CV), F, Len(F))
      BY <1>11, <1>13, JoinedAt
    <2>2. QED
      BY <1>11, <1>13, <2>1, Zenon
  <1> HIDE DEF s
  <1>15. s \in Seq(PacketType) /\ Len(s) = Total(j) /\ FileStart(j) = c + v
    <2>1. FileStart(j) = c + v
      BY <1>3 DEF FileStart
    <2>2. Total(j) = (c + v) + f
      BY <1>3, <2>1 DEF Total
    <2>3. QED
      BY <1>14, <2>1, <2>2 DEF IsJoin
  <1> HIDE DEF c, v, f
  <1>16. ASSUME j.cache, NEW i \in 1..Pieces(CacheImage) + 3
         PROVE  s[i] = PartAt(HUB_WRITE, CacheImage, Packet(CACHE_INIT, CacheParams), i)
    <2>1. c = Pieces(CacheImage) + 3
      BY <1>16 DEF c, VmStart
    <2>2. i \in 1..c /\ i \in 1..c + v
      BY <1>3, <2>1
    <2>3. s[i] = CV[i] /\ CV[i] = C[i]
      BY <1>10, <1>14, <2>2 DEF IsJoin
    <2>4. QED
      BY <1>6, <1>16, <2>3
  <1>17. ASSUME NEW i \in 1..Pieces(VmImage) + 3
         PROVE  s[c + i] = PartAt(HUB_WRITE, VmImage, Packet(VM_INIT, <<>>), i)
    <2>1. i \in 1..v /\ c + i \in 1..c + v
      BY <1>3 DEF v
    <2>2. s[c + i] = CV[c + i] /\ CV[c + i] = V[i]
      BY <1>10, <1>14, <2>1 DEF IsJoin
    <2>3. QED
      BY <1>4, <2>2 DEF IsPart
  <1>18. ASSUME NEW i \in 1..Pieces(j.file) + 3
         PROVE  s[(c + v) + i] = PartAt(j.type, j.file, Packet(RUN, RunFlags), i)
    <2>1. i \in 1..f
      BY DEF f
    <2>2. s[(c + v) + i] = F[i]
      BY <1>14, <2>1 DEF IsJoin
    <2>3. QED
      BY <1>5, <2>2 DEF IsPart
  <1>19. VmStart(j) = c
    BY DEF c
  <1>20. QED
    BY <1>12, <1>15, <1>16, <1>17, <1>18, <1>19
=============================================================================
