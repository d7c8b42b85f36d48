----------------------------- MODULE BoardProofs -----------------------------
(***************************************************************************)
(* Proofs about the way of a program to the board: the image file holds    *)
(* the program, the hosts find the Propeller, and what the chip gets was   *)
(* made for the board.                                                     *)
(***************************************************************************)
EXTENDS BoardPromise, SequenceTheorems, WellFoundedInduction, TLAPS

(* Induction over the numbers, for a set: the library's theorem is about   *)
(* an operator.                                                            *)
LEMMA LeastNumber ==
  ASSUME NEW S, S \subseteq Nat, S # {}
  PROVE  \E x \in S : \A y \in S : ~ (y < x)
  <1>1. PICK x \in S : \A y \in S : <<y, x>> \notin OpToRel(<, Nat)
    BY NatLessThanWellFounded, WFMin
  <1>2. \A y \in S : ~ (y < x)
    BY <1>1 DEF OpToRel
  <1>3. QED
    BY <1>2

LEMMA Induction ==
  ASSUME NEW S, 0 \in S, \A k \in Nat : k \in S => k + 1 \in S
  PROVE  Nat \subseteq S
  <1> SUFFICES ASSUME Nat \ S # {} PROVE FALSE
    OBVIOUS
  <1>1. PICK x \in Nat \ S : \A y \in Nat \ S : ~ (y < x)
    BY LeastNumber
  <1>2. x # 0 /\ x - 1 \in Nat
    BY <1>1
  <1>3. x - 1 \in S
    BY <1>1, <1>2
  <1>4. QED
    BY <1>1, <1>2, <1>3

LEMMA BoundedInduction ==
  ASSUME NEW S, NEW L \in Nat, 0 \in S, \A k \in 0..L - 1 : k \in S => k + 1 \in S
  PROVE  0..L \subseteq S
  <1> DEFINE R == S \cup {k \in Nat : k > L}
  <1>1. 0 \in R
    OBVIOUS
  <1>2. ASSUME NEW k \in Nat, k \in R PROVE k + 1 \in R
    <2>1. CASE k >= L
      BY <2>1
    <2>2. CASE k < L
      <3>1. k \in S /\ k \in 0..L - 1
        BY <1>2, <2>2
      <3>2. QED
        BY <3>1
    <2>3. QED
      BY <2>1, <2>2
  <1> HIDE DEF R
  <1>3. Nat \subseteq R
    BY <1>1, <1>2, Induction
  <1>4. QED
    BY <1>3 DEF R

(* A function that is defined by recursion exists, and stays in a set that *)
(* every step stays in.                                                    *)
Recursive(f, m, a, step) == f = [i \in 0..m |-> IF i = 0 THEN a ELSE step[<<i, f[i - 1]>>]]

LEMMA Recursion ==
  ASSUME NEW T, NEW a \in T, NEW m \in Nat, NEW step \in [(1..m) \X T -> T]
  PROVE  \E f \in [0..m -> T] : Recursive(f, m, a, step)
  <1> DEFINE S == {k \in 0..m : \E f \in [0..k -> T] : Recursive(f, k, a, step)}
  <1>1. 0 \in S
    <2> DEFINE f == [i \in 0..0 |-> a]
    <2>1. f \in [0..0 -> T] /\ Recursive(f, 0, a, step)
      BY DEF Recursive
    <2>2. QED
      BY <2>1
  <1>2. ASSUME NEW k \in 0..m - 1, k \in S PROVE k + 1 \in S
    <2>1. PICK f \in [0..k -> T] : Recursive(f, k, a, step)
      BY <1>2
    <2>2. k \in Nat /\ k + 1 \in 1..m /\ f[k] \in T /\ step[<<k + 1, f[k]>>] \in T
      BY <2>1
    <2> DEFINE g == [i \in 0..k + 1 |-> IF i = k + 1 THEN step[<<k + 1, f[k]>>] ELSE f[i]]
    <2>3. \A i \in 0..k : f[i] = IF i = 0 THEN a ELSE step[<<i, f[i - 1]>>]
      BY <2>1 DEF Recursive
    <2>4. ASSUME NEW i \in 0..k + 1 PROVE g[i] = (IF i = 0 THEN a ELSE step[<<i, g[i - 1]>>]) /\ g[i] \in T
      <3>1. CASE i = k + 1
        <4>1. i - 1 = k /\ k \in 0..k + 1 /\ k # k + 1 /\ i # 0
          BY <2>2, <3>1
        <4>2. g[i] = step[<<k + 1, f[k]>>] /\ g[i - 1] = f[k]
          BY <4>1, <3>1
        <4>3. QED
          BY <2>2, <3>1, <4>1, <4>2
      <3>2. CASE i # k + 1
        <4>1. i \in 0..k /\ (i # 0 => i - 1 \in 0..k /\ i - 1 # k + 1)
          BY <2>2, <3>2
        <4>2. g[i] = f[i] /\ (i # 0 => g[i - 1] = f[i - 1])
          BY <4>1, <3>2
        <4>3. QED
          BY <2>1, <2>3, <4>1, <4>2
      <3>3. QED
        BY <3>1, <3>2
    <2>5. g = [i \in 0..k + 1 |-> g[i]]
      OBVIOUS
    <2> HIDE DEF g
    <2>6. g \in [0..k + 1 -> T] /\ Recursive(g, k + 1, a, step)
      BY <2>4, <2>5 DEF Recursive
    <2>7. k + 1 \in 0..m
      BY <2>2
    <2>8. QED
      BY <2>6, <2>7
  <1> HIDE DEF S
  <1>3. 0..m \subseteq S
    BY <1>1, <1>2, BoundedInduction
  <1>4. m \in S
    BY <1>3
  <1>5. QED
    BY <1>4 DEF S

LEMMA Stays ==
  ASSUME NEW T, NEW f, NEW m \in Nat, f[0] \in T, \A k \in 0..m - 1 : f[k] \in T => f[k + 1] \in T
  PROVE  \A k \in 0..m : f[k] \in T
  <1> DEFINE S == {k \in Nat : f[k] \in T}
  <1>1. 0 \in S /\ \A k \in 0..m - 1 : k \in S => k + 1 \in S
    OBVIOUS
  <1> HIDE DEF S
  <1>2. 0..m \subseteq S
    BY <1>1, BoundedInduction
  <1>3. QED
    BY <1>2 DEF S

LEMMA Least ==
  ASSUME NEW S, S \subseteq Nat, S # {}
  PROVE  Min(S) \in S /\ \A y \in S : Min(S) <= y
  <1>1. PICK x \in S : \A y \in S : ~ (y < x)
    BY LeastNumber
  <1>2. \A y \in S : x <= y
    BY <1>1
  <1>3. QED
    BY <1>2 DEF Min

LEMMA First ==
  ASSUME NEW S, NEW L \in Nat, S \subseteq 1..L
  PROVE  (IF S # {} THEN Min(S) ELSE 0) \in 0..L
  <1>1. CASE S # {}
    <2>1. S \subseteq Nat
      OBVIOUS
    <2>2. Min(S) \in 1..L
      BY <1>1, <2>1, Least
    <2>3. QED
      BY <1>1, <2>2
  <1>2. QED
    BY <1>1
-----------------------------------------------------------------------------
(* Numbers of the configuration. *)

LEMMA Powers == \A i \in 0..30 : 2^i \in Nat
  <1> TAKE i \in 0..30
  <1>1. 2^0 \in Nat /\ 2^1 \in Nat /\ 2^2 \in Nat /\ 2^3 \in Nat
        /\ 2^4 \in Nat /\ 2^5 \in Nat /\ 2^6 \in Nat /\ 2^7 \in Nat
    OBVIOUS
  <1>2. 2^8 \in Nat /\ 2^9 \in Nat /\ 2^10 \in Nat /\ 2^11 \in Nat
        /\ 2^12 \in Nat /\ 2^13 \in Nat /\ 2^14 \in Nat /\ 2^15 \in Nat
    OBVIOUS
  <1>3. 2^16 \in Nat /\ 2^17 \in Nat /\ 2^18 \in Nat /\ 2^19 \in Nat
        /\ 2^20 \in Nat /\ 2^21 \in Nat /\ 2^22 \in Nat /\ 2^23 \in Nat
    OBVIOUS
  <1>4. 2^24 \in Nat /\ 2^25 \in Nat /\ 2^26 \in Nat /\ 2^27 \in Nat
        /\ 2^28 \in Nat /\ 2^29 \in Nat /\ 2^30 \in Nat
    OBVIOUS
  <1>5. CASE i \in 0..7
    <2>1. i = 0 \/ i = 1 \/ i = 2 \/ i = 3 \/ i = 4 \/ i = 5 \/ i = 6 \/ i = 7
      BY <1>5
    <2>2. QED
      BY <1>1, <2>1
  <1>6. CASE i \in 8..15
    <2>1. i = 8 \/ i = 9 \/ i = 10 \/ i = 11 \/ i = 12 \/ i = 13 \/ i = 14 \/ i = 15
      BY <1>6
    <2>2. QED
      BY <1>2, <2>1
  <1>7. CASE i \in 16..23
    <2>1. i = 16 \/ i = 17 \/ i = 18 \/ i = 19 \/ i = 20 \/ i = 21 \/ i = 22 \/ i = 23
      BY <1>7
    <2>2. QED
      BY <1>3, <2>1
  <1>8. CASE i \in 24..30
    <2>1. i = 24 \/ i = 25 \/ i = 26 \/ i = 27 \/ i = 28 \/ i = 29 \/ i = 30
      BY <1>8
    <2>2. QED
      BY <1>4, <2>1
  <1>9. QED
    BY <1>5, <1>6, <1>7, <1>8

LEMMA IntIsInt == \A S : int(S) \in Int
  <1> TAKE S
  <1> DEFINE a == IF 31 \in S THEN (-2) * 2^30 ELSE 0
             add(i) == IF i \in S THEN 2^i ELSE 0
             step == [p \in (1..31) \X Int |-> p[2] + add(p[1] - 1)]
             Sum(f) == f = [i \in 0..31 |-> IF i = 0 THEN a ELSE f[i - 1] + add(i - 1)]
             total == CHOOSE f : Sum(f)
  <1>1. a \in Int
    OBVIOUS
  <1>2. \A i \in 0..30 : add(i) \in Int
    BY Powers
  <1> HIDE DEF a, add
  <1>3. step \in [(1..31) \X Int -> Int]
    <2>1. \A p \in (1..31) \X Int : p[1] - 1 \in 0..30 /\ p[2] \in Int
      OBVIOUS
    <2>2. QED
      BY <1>2, <2>1
  <1>4. \A i \in 1..31, v \in Int : step[<<i, v>>] = v + add(i - 1)
    OBVIOUS
  <1> HIDE DEF step
  <1>5. PICK f \in [0..31 -> Int] : Recursive(f, 31, a, step)
    BY <1>1, <1>3, Recursion
  <1>6. Sum(f)
    <2>1. ASSUME NEW i \in 0..31 PROVE f[i] = IF i = 0 THEN a ELSE f[i - 1] + add(i - 1)
      <3>1. CASE i = 0
        BY <1>5, <3>1 DEF Recursive
      <3>2. CASE i # 0
        <4>1. i \in 1..31 /\ i - 1 \in 0..31
          BY <3>2
        <4>2. f[i] = step[<<i, f[i - 1]>>] /\ f[i - 1] \in Int
          BY <1>5, <3>2, <4>1 DEF Recursive
        <4>3. QED
          BY <1>4, <3>2, <4>1, <4>2
      <3>3. QED
        BY <3>1, <3>2
    <2>2. QED
      BY <1>5, <2>1
  <1>7. Sum(total)
    BY <1>6
  <1> HIDE DEF total
  <1>8. total[0] = a /\ \A i \in 1..31 : total[i] = total[i - 1] + add(i - 1)
    BY <1>7
  <1>9. ASSUME NEW k \in 0..31 - 1, total[k] \in Int PROVE total[k + 1] \in Int
    <2>1. k + 1 \in 1..31 /\ k + 1 - 1 = k /\ k \in 0..30
      OBVIOUS
    <2>2. total[k + 1] = total[k] + add(k)
      BY <1>8, <2>1
    <2>3. add(k) \in Int
      BY <1>2, <2>1
    <2> HIDE DEF add
    <2>4. QED
      BY <1>9, <2>2, <2>3
  <1>10. \A k \in 0..31 : total[k] \in Int
    BY <1>1, <1>8, <1>9, Stays
  <1>11. total[31] \in Int
    BY <1>10
  <1>12. int(S) = total[31]
    BY DEF int, total, Sum, a, add
  <1>13. QED
    BY <1>11, <1>12

LEMMA FromIs ==
  ASSUME NEW T, NEW l \in Seq(T), NEW i \in Nat \ {0}
  PROVE  /\ from(l, i) \in Seq(T)
         /\ Len(from(l, i)) = IF i <= Len(l) THEN Len(l) - i + 1 ELSE 0
         /\ \A k \in 1..Len(l) - i + 1 : from(l, i)[k] = l[i + k - 1]
  <1>1. Len(l) \in Nat /\ \A k \in i..Len(l) : l[k] \in T
    BY LenProperties
  <1>2. QED
    BY <1>1, SubSeqProperties DEF from

LEMMA SkipSpacesIs ==
  ASSUME NEW T, NEW l \in Seq(T)
  PROVE  SkipSpaces(l) \in Seq(T)
  <1> DEFINE u == until(l, LAMBDA p : p # "sp")
             s == from(l, u)
             v == until(s, LAMBDA p : p = "nl")
  <1>1. u \in Nat \ {0}
    <2>1. (IF {i \in 1..Len(l) : l[i] # "sp"} # {} THEN Min({i \in 1..Len(l) : l[i] # "sp"}) ELSE 0) \in 0..Len(l)
      BY First, LenProperties
    <2>2. QED
      BY <2>1, LenProperties DEF until, SelectInSeq
  <1>2. s \in Seq(T) /\ Len(s) \in Nat
    BY <1>1, FromIs, LenProperties
  <1> HIDE DEF u, s
  <1>3. v \in Nat \ {0}
    <2>1. (IF {i \in 1..Len(s) : s[i] = "nl"} # {} THEN Min({i \in 1..Len(s) : s[i] = "nl"}) ELSE 0) \in 0..Len(s)
      BY <1>2, First, LenProperties
    <2>2. QED
      BY <1>2, <2>1 DEF until, SelectInSeq
  <1>4. from(s, v) \in Seq(T)
    BY <1>2, <1>3, FromIs
  <1>5. QED
    BY <1>2, <1>4 DEF SkipSpaces, s, u

LEMMA NextTokenIs ==
  ASSUME NEW T, NEW l \in Seq(T), NEW termSet
  PROVE  /\ NextToken(l, termSet).token \in Seq(T)
         /\ NextToken(l, termSet).rest \in Seq(T)
  <1> DEFINE s == SkipSpaces(l)
             u == until(s, LAMBDA p : p \in termSet \cup {"sp", "nl"})
  <1>1. s \in Seq(T)
    BY SkipSpacesIs
  <1> HIDE DEF s
  <1>2. u \in 1..Len(s) + 1
    <2> DEFINE S == {i \in 1..Len(s) : s[i] \in termSet \cup {"sp", "nl"}}
    <2>1. (IF S # {} THEN Min(S) ELSE 0) \in 0..Len(s)
      BY <1>1, First, LenProperties
    <2>2. QED
      BY <1>1, <2>1, LenProperties DEF until, SelectInSeq
  <1> HIDE DEF u
  <1>3. u - 1 \in Int /\ u + 1 \in Nat \ {0} /\ \A i \in 1..u - 1 : s[i] \in T
    BY <1>1, <1>2, LenProperties
  <1>4. SubSeq(s, 1, u - 1) \in Seq(T)
    BY <1>3, SubSeqProperties
  <1>5. from(s, u + 1) \in Seq(T)
    BY <1>1, <1>3, FromIs
  <1>6. QED
    BY <1>4, <1>5 DEF NextToken, s, u

LEMMA BehindIs ==
  ASSUME NEW T, NEW t, t.rest \in Seq(T), NEW p
  PROVE  behind(t, p) \in Seq(T)
  BY SkipSpacesIs, FromIs DEF behind

(* Expressions. *)
Expression == [value : Int, op : Operators \cup {"none"}, ok : BOOLEAN]

LEMMA QuotientIs == \A a \in Int, b \in Int \ {0} : quotient(a, b) \in Int
  <1> TAKE a \in Int, b \in Int \ {0}
  <1>1. abs(a) \in Nat /\ abs(b) \in Nat \ {0}
    BY DEF abs
  <1>2. abs(a) \div abs(b) \in Int
    BY <1>1
  <1>3. QED
    BY <1>2 DEF quotient

LEMMA DoOpIs ==
  ASSUME NEW op \in Operators \cup {"none"}, NEW a \in Int, NEW b \in Int, op \in {"/", "%"} => b # 0
  PROVE  DoOp(op, a, b) \in Int
  <1>1. CASE op \in {"/", "%"}
    <2>1. quotient(a, b) \in Int
      BY <1>1, QuotientIs
    <2>2. b * quotient(a, b) \in Int
      BY <2>1
    <2>3. QED
      BY <1>1, <2>1, <2>2 DEF DoOp
  <1>2. CASE op \in {"&", "|"}
    BY <1>2, IntIsInt DEF DoOp
  <1>3. CASE op \in {"none", "+", "-", "*"}
    BY <1>3 DEF DoOp
  <1>4. QED
    BY <1>1, <1>2, <1>3 DEF Operators

LEMMA OperandIs ==
  ASSUME NEW e \in Expression, NEW v \in Int
  PROVE  operand(e, v) \in Expression
  <1>1. e.op \in Operators \cup {"none"} /\ e.value \in Int
    BY DEF Expression
  <1>2. CASE e.op \in {"/", "%"} /\ v = 0
    BY <1>2 DEF operand, Expression
  <1>3. CASE ~ (e.op \in {"/", "%"} /\ v = 0)
    <2>1. DoOp(e.op, e.value, v) \in Int
      BY <1>1, <1>3, DoOpIs
    <2>2. operand(e, v) = [e EXCEPT !.value = DoOp(e.op, e.value, v), !.op = "none"]
      BY <1>3 DEF operand, Expression
    <2>3. QED
      BY <2>1, <2>2 DEF Expression
  <1>4. QED
    BY <1>2, <1>3

LEMMA ItemIs ==
  ASSUME NEW e \in Expression, NEW p
  PROVE  item(e, p) \in Expression
  <1>1. CASE p \in DOMAIN Number
    BY <1>1, OperandIs, NumbersAssumption DEF item
  <1>2. CASE p \notin DOMAIN Number /\ p \in DOMAIN configSymbols
    <2>1. configSymbols[p] \in Int
      BY <1>2 DEF configSymbols
    <2>2. QED
      BY <1>2, <2>1, OperandIs DEF item
  <1>3. CASE p \notin DOMAIN Number /\ p \notin DOMAIN configSymbols /\ p \in Operators
    <2>1. item(e, p) = [e EXCEPT !.op = p]
      BY <1>3 DEF item
    <2>2. QED
      BY <1>3, <2>1 DEF Expression
  <1>4. CASE p \notin DOMAIN Number /\ p \notin DOMAIN configSymbols /\ p \notin Operators
    <2>1. item(e, p) = [e EXCEPT !.ok = p \notin Punctuation /\ e.ok]
      BY <1>4 DEF item, Expression
    <2>2. (p \notin Punctuation /\ e.ok) \in BOOLEAN
      OBVIOUS
    <2>3. QED
      BY <2>1, <2>2 DEF Expression
  <1>5. QED
    BY <1>1, <1>2, <1>3, <1>4

LEMMA ExpressionIs ==
  ASSUME NEW T, NEW token \in Seq(T), iValue \in Int
  PROVE  ParseNumericExpr(token) \in Expression
  <1> DEFINE L == Len(token)
             a == [value |-> iValue, op |-> "none", ok |-> TRUE]
             step == [p \in (1..L) \X Expression |-> item(p[2], token[p[1]])]
             Parsed(f) == f = [k \in 0..L |-> IF k = 0 THEN a ELSE item(f[k - 1], token[k])]
             e == CHOOSE f : Parsed(f)
  <1>1. a \in Expression /\ L \in Nat
    BY LenProperties DEF Expression
  <1>2. step \in [(1..L) \X Expression -> Expression]
    BY ItemIs
  <1>3. \A k \in 1..L, v \in Expression : step[<<k, v>>] = item(v, token[k])
    OBVIOUS
  <1> HIDE DEF a, L, step
  <1>4. PICK f \in [0..L -> Expression] : Recursive(f, L, a, step)
    BY <1>1, <1>2, Recursion
  <1>5. Parsed(f)
    <2>1. ASSUME NEW k \in 0..L PROVE f[k] = IF k = 0 THEN a ELSE item(f[k - 1], token[k])
      <3>1. CASE k = 0
        BY <1>4, <3>1 DEF Recursive
      <3>2. CASE k # 0
        <4>1. k \in 1..L /\ k - 1 \in 0..L
          BY <1>1, <3>2
        <4>2. f[k] = step[<<k, f[k - 1]>>] /\ f[k - 1] \in Expression
          BY <1>4, <3>2, <4>1 DEF Recursive
        <4>3. QED
          BY <1>3, <3>2, <4>1, <4>2
      <3>3. QED
        BY <3>1, <3>2
    <2>2. QED
      BY <1>4, <2>1
  <1>6. Parsed(e)
    BY <1>5
  <1> HIDE DEF e
  <1>7. e[0] = a /\ \A k \in 1..L : e[k] = item(e[k - 1], token[k])
    BY <1>1, <1>6
  <1>8. ASSUME NEW k \in 0..L - 1, e[k] \in Expression PROVE e[k + 1] \in Expression
    <2>1. k + 1 \in 1..L /\ k + 1 - 1 = k
      BY <1>1
    <2>2. QED
      BY <1>7, <1>8, <2>1, ItemIs
  <1>9. \A k \in 0..L : e[k] \in Expression
    BY <1>1, <1>7, <1>8, Stays
  <1>10. e[L] \in Expression
    BY <1>1, <1>9
  <1>11. QED
    BY <1>10 DEF ParseNumericExpr, e, Parsed, a, L

-----------------------------------------------------------------------------
(* Boards. *)

IsSeq(s) == \E T : s \in Seq(T)

LEMMA AppendIs ==
  ASSUME NEW s, IsSeq(s), NEW x
  PROVE  /\ IsSeq(Append(s, x)) /\ Len(s) \in Nat /\ Len(Append(s, x)) = Len(s) + 1
         /\ \A i \in 1..Len(s) : Append(s, x)[i] = s[i]
         /\ Append(s, x)[Len(s) + 1] = x
  <1>1. PICK T : s \in Seq(T)
    BY DEF IsSeq
  <1>2. s \in Seq(T \cup {x}) /\ x \in T \cup {x}
    BY <1>1, SeqMonotonic
  <1>3. QED
    BY <1>2, AppendProperties, LenProperties DEF IsSeq

replaced(s, i, x) == [s EXCEPT ![i] = x]

LEMMA ReplacedIs ==
  ASSUME NEW s, IsSeq(s), NEW i \in 1..Len(s), NEW x
  PROVE  /\ IsSeq(replaced(s, i, x)) /\ Len(replaced(s, i, x)) = Len(s)
         /\ \A j \in 1..Len(s) : replaced(s, i, x)[j] = IF j = i THEN x ELSE s[j]
  <1>1. PICK T : s \in Seq(T)
    BY DEF IsSeq
  <1>2. s \in Seq(T \cup {x}) /\ x \in T \cup {x}
    BY <1>1, SeqMonotonic
  <1>3. QED
    BY <1>2, ExceptSeq DEF IsSeq, replaced

Bases == {HUB_BASE, RAM_BASE, FLASH_BASE}
IsBoard(c) ==
  /\ c = [name |-> c.name, num |-> c.num, str |-> c.str, sections |-> c.sections]
  /\ c.num \in [NumericTags -> Int] /\ \A tag \in ByteTags : c.num[tag] \in 0..255
  /\ c.str = [tag \in StringTags |-> c.str[tag]]
  /\ IsSeq(c.sections) /\ \A i \in 1..Len(c.sections) : c.sections[i].base \in Bases
AreBoards(s) == IsSeq(s) /\ \A i \in 1..Len(s) : IsBoard(s[i])

LEMMA NewBoardIs == \A name : IsBoard(NewBoardConfig(name))
  <1> TAKE name
  <1> DEFINE c == NewBoardConfig(name)
  <1>1. c.name = name /\ c.num = [t \in NumericTags |-> 0] /\ c.str = [t \in StringTags |-> NULL] /\ c.sections = <<>>
    BY DEF NewBoardConfig
  <1>2. c = [name |-> c.name, num |-> c.num, str |-> c.str, sections |-> c.sections]
    BY <1>1 DEF NewBoardConfig
  <1> HIDE DEF c
  <1>3. c.num \in [NumericTags -> Int] /\ \A tag \in ByteTags : c.num[tag] \in 0..255
    BY <1>1 DEF NumericTags
  <1>4. c.str = [tag \in StringTags |-> c.str[tag]]
    BY <1>1
  <1>5. IsSeq(c.sections) /\ Len(c.sections) = 0
    BY <1>1, EmptySeq DEF IsSeq
  <1>6. QED
    BY <1>2, <1>3, <1>4, <1>5 DEF IsBoard, c

LEMMA BoardParts ==
  ASSUME NEW c, IsBoard(c), NEW x
  PROVE  /\ [c EXCEPT !.num = x] = [name |-> c.name, num |-> x, str |-> c.str, sections |-> c.sections]
         /\ [c EXCEPT !.str = x] = [name |-> c.name, num |-> c.num, str |-> x, sections |-> c.sections]
         /\ [c EXCEPT !.sections = x] = [name |-> c.name, num |-> c.num, str |-> c.str, sections |-> x]
  <1> DEFINE d == [name |-> c.name, num |-> c.num, str |-> c.str, sections |-> c.sections]
  <1>1. c = d
    BY DEF IsBoard
  <1>2. /\ [d EXCEPT !.num = x] = [name |-> c.name, num |-> x, str |-> c.str, sections |-> c.sections]
        /\ [d EXCEPT !.str = x] = [name |-> c.name, num |-> c.num, str |-> x, sections |-> c.sections]
        /\ [d EXCEPT !.sections = x] = [name |-> c.name, num |-> c.num, str |-> c.str, sections |-> x]
    OBVIOUS
  <1> HIDE DEF d
  <1>3. QED
    BY <1>1, <1>2

LEMMA SectionAdded ==
  ASSUME NEW c, IsBoard(c), NEW name, NEW base \in Bases, NEW size
  PROVE  IsBoard([c EXCEPT !.sections = Append(@, NewSection(name, base, size))])
  <1> DEFINE s == NewSection(name, base, size)
             d == [c EXCEPT !.sections = Append(@, s)]
  <1>1. s.base \in Bases
    BY DEF NewSection
  <1> HIDE DEF s
  <1>2. d = [name |-> c.name, num |-> c.num, str |-> c.str, sections |-> Append(c.sections, s)]
    BY BoardParts
  <1>3. /\ IsSeq(Append(c.sections, s)) /\ Len(c.sections) \in Nat
        /\ \A i \in 1..Len(Append(c.sections, s)) : Append(c.sections, s)[i] \in {c.sections[i], s} /\ (i > Len(c.sections) => Append(c.sections, s)[i] = s)
    BY AppendIs DEF IsBoard
  <1>4. \A i \in 1..Len(Append(c.sections, s)) : Append(c.sections, s)[i].base \in Bases
    <2> TAKE i \in 1..Len(Append(c.sections, s))
    <2>1. CASE Append(c.sections, s)[i] = s
      BY <1>1, <2>1
    <2>2. CASE Append(c.sections, s)[i] # s
      <3>1. i \in 1..Len(c.sections) /\ Append(c.sections, s)[i] = c.sections[i]
        BY <1>3, <2>2, AppendIs DEF IsBoard
      <3>2. QED
        BY <3>1 DEF IsBoard
    <2>3. QED
      BY <2>1, <2>2
  <1> HIDE DEF d
  <1>5. d.name = c.name /\ d.num = c.num /\ d.str = c.str /\ d.sections = Append(c.sections, s)
    BY <1>2
  <1>6. IsBoard(d)
    BY <1>2, <1>3, <1>4, <1>5 DEF IsBoard
  <1>7. QED
    BY <1>6 DEF d, s

LEMMA ClosedAre ==
  ASSUME NEW s, AreBoards(s)
  PROVE  AreBoards(closed(s))
  <1>1. CASE s = <<>>
    BY <1>1 DEF closed
  <1>2. CASE s # <<>>
    <2> DEFINE L == Len(s)
               c == s[L]
               d == [c EXCEPT !.sections = Append(@, NewSection("hub", HUB_BASE, HUB_SIZE))]
    <2>1. L \in 1..L
      <3>1. PICK T : s \in Seq(T)
        BY DEF AreBoards, IsSeq
      <3>2. QED
        BY <1>2, <3>1, EmptySeq
    <2>2. IsBoard(d)
      BY <2>1, SectionAdded DEF AreBoards, Bases
    <2>3. closed(s) = replaced(s, L, d)
      BY <1>2 DEF closed, replaced
    <2> HIDE DEF L, d
    <2>4. IsSeq(s) /\ L \in 1..Len(s) /\ \A i \in 1..Len(s) : IsBoard(s[i])
      BY <2>1 DEF AreBoards, L
    <2>5. /\ IsSeq(replaced(s, L, d)) /\ Len(replaced(s, L, d)) = Len(s)
          /\ \A j \in 1..Len(s) : replaced(s, L, d)[j] = IF j = L THEN d ELSE s[j]
      BY <2>4, ReplacedIs
    <2>6. \A j \in 1..Len(s) : IsBoard(replaced(s, L, d)[j])
      BY <2>2, <2>4, <2>5
    <2>7. QED
      BY <2>3, <2>5, <2>6 DEF AreBoards
  <1>3. QED
    BY <1>1, <1>2

LEMMA SettingIs ==
  ASSUME NEW c, IsBoard(c), NEW tag \in NumericTags \cup StringTags \cup SectionTags, NEW value, NEW v \in Int
  PROVE  IsBoard(setting(c, tag, value, v))
  <1> DEFINE d == setting(c, tag, value, v)
  <1>1. CASE tag \in NumericTags
    <2> DEFINE w == IF tag \in ByteTags THEN v % 256 ELSE v
    <2>1. w \in Int /\ (tag \in ByteTags => w \in 0..255)
      OBVIOUS
    <2>2. d = [c EXCEPT !.num = [c.num EXCEPT ![tag] = w]]
      <3>0. tag \notin StringTags /\ tag # "flash-size" /\ tag # "ram-size"
        BY <1>1 DEF NumericTags, ByteTags, StringTags
      <3>1. CASE tag \in ByteTags
        <4>1. setting(c, tag, value, v) = [c EXCEPT !.num[tag] = v % 256]
          BY <3>0, <3>1 DEF setting
        <4>2. w = v % 256
          BY <3>1
        <4> HIDE DEF w
        <4>3. QED
          BY <4>1, <4>2
      <3>2. CASE tag \notin ByteTags
        <4>1. setting(c, tag, value, v) = [c EXCEPT !.num[tag] = v]
          BY <1>1, <3>0, <3>2 DEF setting
        <4>2. w = v
          BY <3>2
        <4> HIDE DEF w
        <4>3. QED
          BY <4>1, <4>2
      <3>3. QED
        BY <3>1, <3>2
    <2> HIDE DEF w
    <2>3. d = [name |-> c.name, num |-> [c.num EXCEPT ![tag] = w], str |-> c.str, sections |-> c.sections]
      BY <2>2, BoardParts
    <2> HIDE DEF d
    <2>4. d.name = c.name /\ d.num = [c.num EXCEPT ![tag] = w] /\ d.str = c.str /\ d.sections = c.sections
      BY <2>3
    <2>5. [c.num EXCEPT ![tag] = w] \in [NumericTags -> Int]
          /\ \A t \in ByteTags : [c.num EXCEPT ![tag] = w][t] \in 0..255
      BY <1>1, <2>1 DEF IsBoard, NumericTags
    <2>6. IsBoard(d)
      BY <2>3, <2>4, <2>5 DEF IsBoard
    <2>7. QED
      BY <2>6 DEF d
  <1>2. CASE tag \in StringTags
    <2>1. d = [c EXCEPT !.str[tag] = value]
      BY <1>2 DEF setting, NumericTags, ByteTags, StringTags
    <2>2. d = [name |-> c.name, num |-> c.num, str |-> [c.str EXCEPT ![tag] = value], sections |-> c.sections]
      BY <2>1, BoardParts
    <2> HIDE DEF d
    <2>3. d.name = c.name /\ d.num = c.num /\ d.str = [c.str EXCEPT ![tag] = value] /\ d.sections = c.sections
      BY <2>2
    <2>4. [c.str EXCEPT ![tag] = value] = [t \in StringTags |-> [c.str EXCEPT ![tag] = value][t]]
      BY DEF IsBoard
    <2>5. IsBoard(d)
      BY <2>2, <2>3, <2>4 DEF IsBoard
    <2>6. QED
      BY <2>5 DEF d
  <1>3. CASE tag = "flash-size"
    <2>1. d = [c EXCEPT !.sections = Append(@, NewSection("flash", FLASH_BASE, v))]
      BY <1>3 DEF setting, NumericTags, ByteTags, StringTags
    <2>2. FLASH_BASE \in Bases
      BY DEF Bases
    <2>3. IsBoard([c EXCEPT !.sections = Append(@, NewSection("flash", FLASH_BASE, v))])
      BY <2>2, SectionAdded
    <2> HIDE DEF d
    <2>4. IsBoard(d)
      BY <2>1, <2>3
    <2>5. QED
      BY <2>4 DEF d
  <1>4. CASE tag = "ram-size"
    <2>1. d = [c EXCEPT !.sections = Append(@, NewSection("ram", RAM_BASE, v))]
      BY <1>4 DEF setting, NumericTags, ByteTags, StringTags
    <2>2. RAM_BASE \in Bases
      BY DEF Bases
    <2>3. IsBoard([c EXCEPT !.sections = Append(@, NewSection("ram", RAM_BASE, v))])
      BY <2>2, SectionAdded
    <2> HIDE DEF d
    <2>4. IsBoard(d)
      BY <2>1, <2>3
    <2>5. QED
      BY <2>4 DEF d
  <1>5. QED
    BY <1>1, <1>2, <1>3, <1>4 DEF SectionTags

-----------------------------------------------------------------------------
(* What the steps of the parts leave alone. *)

LEMMA BoardSteps ==
  ASSUME [Next]_vars
  PROVE  task' = task /\ (EditConfiguration \/ ReadConfiguration \/ UNCHANGED boardVars)
  <1>1. CASE Host
    <2>1. CASE ConfigurationError
      BY <2>1 DEF ConfigurationError
    <2>2. CASE SelectBoard
      BY <2>2 DEF SelectBoard
    <2>3. CASE StartCompile
      BY <2>3 DEF StartCompile
    <2>4. CASE CompileBlock
      BY <2>4 DEF CompileBlock
    <2>5. CASE FinishImage
      BY <2>5 DEF FinishImage
    <2>6. CASE EditConfiguration
      BY <2>6 DEF EditConfiguration
    <2>7. CASE ReadConfiguration
      BY <2>7 DEF ReadConfiguration
    <2>8. QED
      BY <1>1, <2>1, <2>2, <2>3, <2>4, <2>5, <2>6, <2>7 DEF Host
  <1>2. CASE HostAtPort
    <2>1. CASE InitPort
      BY <2>1 DEF InitPort
    <2>2. CASE LoadImage \/ WriteFlashLoaderToEEPROM \/ WriteHubLoaderToEEPROM
      BY <2>2 DEF LoadImage, WriteFlashLoaderToEEPROM, WriteHubLoaderToEEPROM
    <2>3. CASE Booted \/ isDevice \/ WaitForInitialAck \/ LoadRest
      BY <2>3 DEF Booted, isDevice, WaitForInitialAck, LoadRest
    <2>4. CASE BootHost
      BY <2>4 DEF BootHost
    <2>5. QED
      BY <1>2, <2>1, <2>2, <2>3, <2>4 DEF HostAtPort
  <1>3. CASE Line(ChipStep) \/ Line(Stray) \/ Line(Lost)
    BY <1>3 DEF Line
  <1>4. CASE Exited \/ UNCHANGED vars
    BY <1>4 DEF Exited, vars
  <1>5. QED
    BY <1>1, <1>2, <1>3, <1>4 DEF Next

LEMMA BoardKept ==
  ASSUME boardConfigs' = boardConfigs, task' = task
  PROVE  GetBoardConfig(task.board)' = GetBoardConfig(task.board) /\ config' = config
  BY DEF config, GetBoardConfig, SelectInSeq

LEMMA FoundIs ==
  ASSUME IsSeq(boardConfigs), NEW name
  PROVE  GetBoardConfig(name) \in 0..Len(boardConfigs)
  <1> DEFINE S == {i \in 1..Len(boardConfigs) : boardConfigs[i].name = name}
  <1>1. Len(boardConfigs) \in Nat
    BY LenProperties DEF IsSeq
  <1>2. (IF S # {} THEN Min(S) ELSE 0) \in 0..Len(boardConfigs)
    BY <1>1, First
  <1>3. QED
    BY <1>2 DEF GetBoardConfig, SelectInSeq

LEMMA SectionIs ==
  ASSUME NEW c, IsSeq(c.sections), NEW name
  PROVE  GetSection(c, name) \in 0..Len(c.sections)
  <1> DEFINE S == {i \in 1..Len(c.sections) : c.sections[i].name = name}
  <1>1. Len(c.sections) \in Nat
    BY LenProperties DEF IsSeq
  <1>2. (IF S # {} THEN Min(S) ELSE 0) \in 0..Len(c.sections)
    BY <1>1, First
  <1>3. QED
    BY <1>2 DEF GetSection, SelectInSeq

Programs == LoadImage \/ WriteFlashLoaderToEEPROM \/ WriteHubLoaderToEEPROM

LEMMA BootStepKeeps ==
  ASSUME BootStep
  PROVE  job' = job /\ (bpc' = "connect" => bpc = "connect")
  <1>1. CASE hwreset \/ SendMagic \/ Drain \/ SendTiming \/ FirstBit
    BY <1>1 DEF hwreset, SendMagic, tx, Drain, SendTiming, FirstBit
  <1>2. CASE Compare \/ getBit \/ Resync \/ VersionBit \/ findprop
    BY <1>2 DEF Compare, getBit, Resync, VersionBit, findprop
  <1>3. CASE UploadHeader
    BY <1>3 DEF UploadHeader, sendlong, tx
  <1>4. CASE UploadData
    BY <1>4 DEF UploadData, sendlong, tx
  <1>5. CASE AskForAck \/ getAck \/ portHandler
    BY <1>5 DEF AskForAck, getAck, portHandler
  <1>6. QED
    BY <1>1, <1>2, <1>3, <1>4, <1>5 DEF BootStep

LEMMA JobSteps ==
  ASSUME [Next]_vars
  PROVE  /\ host' = host /\ device' = device
         /\ Programs \/ UNCHANGED <<dlbuf, type>>
         /\ bpc' = "connect" => bpc = "connect" \/ (bpc = "loaded" /\ type = 1)
  <1>1. CASE Host
    BY <1>1 DEF Host, EditConfiguration, ReadConfiguration, ConfigurationError, SelectBoard, StartCompile, CompileBlock,
                FinishImage, bootVars, job
  <1>2. CASE Programs
    <2>1. CASE UNCHANGED bootVars
      BY <2>1 DEF bootVars, job
    <2>2. CASE bpc' = "reset" /\ host' = host /\ device' = device
      BY <1>2, <2>2
    <2>3. QED
      BY <1>2, <2>1, <2>2 DEF Programs, LoadImage, WriteFlashLoaderToEEPROM, WriteHubLoaderToEEPROM, ploadbuf
  <1>3. CASE InitPort
    BY <1>3 DEF InitPort, bootVars, job
  <1>4. CASE Booted \/ isDevice \/ WaitForInitialAck \/ LoadRest
    BY <1>4 DEF Booted, isDevice, WaitForInitialAck, LoadRest, job
  <1>5. CASE BootHost
    BY <1>5, BootStepKeeps DEF BootHost, job
  <1>6. CASE Line(ChipStep) \/ Line(Stray) \/ Line(Lost)
    BY <1>6 DEF Line, ChipStep, Stray, Lost, job
  <1>7. CASE Exited \/ UNCHANGED vars
    BY <1>7 DEF Exited, vars, bootVars, job
  <1>8. QED
    BY <1>1, <1>2, <1>3, <1>4, <1>5, <1>6, <1>7 DEF Next, HostAtPort, Programs

(* Where the program can be, and what it has done before. *)
Stages ==
  /\ task \in Tasks
  /\ xpc \in {"config", "start", "compile", "port", "load", "write", "boot", "connected", "exit"}
  /\ task.command = "ide" => xpc \in {"boot", "exit"}
  /\ xpc \in {"start", "compile"} => task.command # "xload"
  /\ xpc \in {"load", "write", "connected"} \/ (xpc = "boot" /\ task.command # "ide") => task.option # "none"
  /\ xpc \notin {"config", "exit"} /\ task.command # "ide" => parsing = "done" /\ GetBoardConfig(task.board) # 0
  /\ task.command # "edit" => dialog = "done" /\ saved = FALSE
  /\ host = (IF task.command = "ide" THEN "ide" ELSE "loader") /\ device = task.device
  /\ task.command = "ide" => type = 0 /\ bpc # "connect"

LEMMA ConfigSteps ==
  ASSUME [Next]_vars, dialog = "done"
  PROVE  task' = task /\ (ReadConfiguration \/ UNCHANGED boardVars)
  <1>1. ~ EditConfiguration
    <2>1. ~ EditorStep
      BY DEF EditorStep, OpenDialog, ChooseBoard, TypeName, EnterName, Edit, deleteBoard, accept, reject, event
    <2>2. QED
      BY <2>1 DEF EditConfiguration
  <1>2. QED
    BY <1>1, BoardSteps

LEMMA StagesHold == Spec => []Stages
  <1>1. Init => Stages
    BY DEF Init, EditorInit, BootInit, Stages
  <1>2. Stages /\ [Next]_vars => Stages'
    <2> SUFFICES ASSUME Stages, [Next]_vars PROVE Stages'
      OBVIOUS
    <2>1. task' = task /\ task' \in Tasks
      BY BoardSteps DEF Stages
    <2>2. task.command # "edit" => dialog' = "done" /\ saved' = FALSE
      BY ConfigSteps DEF Stages, ReadConfiguration, boardVars, editorVars
    <2>0. /\ host' = host /\ device' = device
          /\ task.command = "ide" => type' = 0 /\ bpc' # "connect"
      <3>1. Programs => xpc \in {"load", "write"}
        BY DEF Programs, LoadImage, WriteFlashLoaderToEEPROM, WriteHubLoaderToEEPROM
      <3>2. QED
        BY <3>1, JobSteps DEF Stages
    <2>3. ASSUME UNCHANGED boardVars
          PROVE  parsing' = parsing /\ GetBoardConfig(task.board)' = GetBoardConfig(task.board)
      <3>1. boardConfigs' = boardConfigs /\ parsing' = parsing
        BY <2>3 DEF boardVars, configVars
      <3>2. QED
        BY <2>1, <3>1, BoardKept
    <2>4. CASE EditConfiguration \/ ReadConfiguration
      <3>1. xpc = "config" /\ xpc' \in {"config", "exit"}
        BY <2>4 DEF EditConfiguration, ReadConfiguration, exit
      <3>2. QED
        BY <2>0, <2>1, <2>2, <3>1 DEF Stages
    <2>5. CASE ConfigurationError
      <3>1. xpc = "config" /\ xpc' = "exit"
        BY <2>5 DEF ConfigurationError, exit
      <3>2. QED
        BY <2>0, <2>1, <2>2, <3>1 DEF Stages
    <2>6. CASE SelectBoard
      <3>1. /\ xpc = "config" /\ xpc' \in {"exit", "port", "start"} /\ UNCHANGED boardVars
            /\ xpc' \in {"port", "start"} => parsing = "done" /\ GetBoardConfig(task.board) # 0
            /\ xpc' = "start" => task.command # "xload"
        BY <2>6 DEF SelectBoard, exit
      <3>2. QED
        BY <2>0, <2>1, <2>2, <2>3, <3>1 DEF Stages
    <2>7. CASE StartCompile \/ CompileBlock \/ FinishImage
      <3>1. /\ xpc \in {"start", "compile"} /\ xpc' \in {"compile", "port", "exit"} /\ UNCHANGED boardVars
        BY <2>7 DEF StartCompile, CompileBlock, FinishImage, exit
      <3>2. QED
        BY <2>0, <2>1, <2>2, <2>3, <3>1 DEF Stages
    <2>8. CASE InitPort
      <3>1. /\ xpc = "port" /\ xpc' \in {"exit", "load", "write"} /\ UNCHANGED boardVars
            /\ task.option = "none" => xpc' = "exit"
        BY <2>8 DEF InitPort, exit
      <3>2. QED
        BY <2>0, <2>1, <2>2, <2>3, <3>1 DEF Stages
    <2>9. CASE LoadImage \/ WriteFlashLoaderToEEPROM \/ WriteHubLoaderToEEPROM
      <3>1. xpc \in {"load", "write"} /\ xpc' \in {"boot", "exit"} /\ UNCHANGED boardVars
        BY <2>9 DEF LoadImage, WriteFlashLoaderToEEPROM, WriteHubLoaderToEEPROM, ploadbuf, exit
      <3>2. QED
        BY <2>0, <2>1, <2>2, <2>3, <3>1 DEF Stages
    <2>10. CASE Booted \/ isDevice \/ BootHost
      <3>1. xpc = "boot" /\ xpc' \in {"boot", "exit"} /\ UNCHANGED boardVars
        BY <2>10 DEF Booted, isDevice, BootHost, exit
      <3>2. QED
        BY <2>0, <2>1, <2>2, <2>3, <3>1 DEF Stages
    <2>11. CASE WaitForInitialAck
      <3>1. xpc = "boot" /\ bpc = "connect" /\ xpc' \in {"connected", "exit"} /\ UNCHANGED boardVars
        BY <2>11 DEF WaitForInitialAck, exit
      <3>2. QED
        BY <2>0, <2>1, <2>2, <2>3, <3>1 DEF Stages
    <2>12. CASE LoadRest
      <3>1. xpc = "connected" /\ xpc' \in {"write", "exit"} /\ UNCHANGED boardVars
        BY <2>12 DEF LoadRest, exit
      <3>2. QED
        BY <2>0, <2>1, <2>2, <2>3, <3>1 DEF Stages
    <2>13. CASE Line(ChipStep) \/ Line(Stray) \/ Line(Lost) \/ Exited \/ UNCHANGED vars
      <3>1. xpc' = xpc /\ UNCHANGED boardVars
        BY <2>13 DEF Line, Exited, vars
      <3>2. QED
        BY <2>0, <2>1, <2>2, <2>3, <3>1 DEF Stages
    <2>14. QED
      BY <2>4, <2>5, <2>6, <2>7, <2>8, <2>9, <2>10, <2>11, <2>12, <2>13 DEF Next, Host, HostAtPort
  <1>3. QED
    BY <1>1, <1>2, PTL DEF Spec

-----------------------------------------------------------------------------
(* The boards that are read. *)

Pieces == Range(task.file)
BoardsAreRead == task.command # "edit" => text \in Seq(Pieces) /\ iValue \in Int /\ AreBoards(boardConfigs)

LEMMA TagKeeps ==
  ASSUME AreBoards(boardConfigs), iValue \in Int, NEW l \in Seq(Pieces), BoardTag(l)
  PROVE  AreBoards(boardConfigs)' /\ iValue' \in Int
  <1>1. CASE UNCHANGED <<boardConfigs, iValue>>
    BY <1>1 DEF AreBoards
  <1>2. CASE \E name : boardConfigs' = Append(closed(boardConfigs), NewBoardConfig(name)) /\ iValue' = iValue
    <2>1. PICK name : boardConfigs' = Append(closed(boardConfigs), NewBoardConfig(name)) /\ iValue' = iValue
      BY <1>2
    <2> DEFINE s == closed(boardConfigs)
               b == NewBoardConfig(name)
    <2>2. AreBoards(s) /\ IsBoard(b)
      BY ClosedAre, NewBoardIs
    <2> HIDE DEF s, b
    <2>3. /\ IsSeq(Append(s, b)) /\ Len(s) \in Nat /\ Len(Append(s, b)) = Len(s) + 1
          /\ \A i \in 1..Len(s) : Append(s, b)[i] = s[i]
          /\ Append(s, b)[Len(s) + 1] = b
      BY <2>2, AppendIs DEF AreBoards
    <2>4. \A i \in 1..Len(s) + 1 : i \in 1..Len(s) \/ i = Len(s) + 1
      BY <2>3
    <2>5. AreBoards(Append(s, b))
      BY <2>2, <2>3, <2>4 DEF AreBoards
    <2>6. QED
      BY <2>1, <2>5 DEF AreBoards, s, b
  <1>3. QED
    BY <1>1, <1>2 DEF BoardTag

LEMMA PairKeeps ==
  ASSUME AreBoards(boardConfigs), iValue \in Int, NEW l \in Seq(Pieces), Pair(l)
  PROVE  AreBoards(boardConfigs)' /\ iValue' \in Int
  <1> DEFINE L == Len(boardConfigs)
             t == NextToken(l, {":"})
             v == NextToken(behind(t, ":"), {})
             e == ParseNumericExpr(v.token)
             tag == at(t.token)
             b == setting(boardConfigs[L], tag, v.token, e.value)
  <1>1. e.value \in Int
    <2>1. behind(t, ":") \in Seq(Pieces)
      BY NextTokenIs, BehindIs
    <2>2. v.token \in Seq(Pieces)
      BY <2>1, NextTokenIs
    <2> HIDE DEF v
    <2>3. e \in Expression
      BY <2>2, ExpressionIs
    <2>4. QED
      BY <2>3 DEF Expression
  <1> HIDE DEF t, v, e, tag
  <1>2. \/ UNCHANGED <<boardConfigs, iValue>>
        \/ /\ boardConfigs # <<>> /\ tag \in NumericTags \cup StringTags \cup SectionTags
           /\ boardConfigs' = replaced(boardConfigs, L, b)
           /\ iValue' \in {iValue, e.value}
    BY DEF Pair, t, v, e, tag, replaced
  <1>3. CASE UNCHANGED <<boardConfigs, iValue>>
    BY <1>3 DEF AreBoards
  <1>4. CASE /\ boardConfigs # <<>> /\ tag \in NumericTags \cup StringTags \cup SectionTags
             /\ boardConfigs' = replaced(boardConfigs, L, b)
             /\ iValue' \in {iValue, e.value}
    <2>1. L \in 1..L
      <3>1. PICK T : boardConfigs \in Seq(T)
        BY DEF AreBoards, IsSeq
      <3>2. QED
        BY <1>4, <3>1, EmptySeq
    <2>2. IsBoard(b)
      BY <1>1, <1>4, <2>1, SettingIs DEF AreBoards
    <2> HIDE DEF b
    <2>3. /\ IsSeq(replaced(boardConfigs, L, b)) /\ Len(replaced(boardConfigs, L, b)) = L
          /\ \A j \in 1..L : replaced(boardConfigs, L, b)[j] = IF j = L THEN b ELSE boardConfigs[j]
      BY <2>1, ReplacedIs DEF AreBoards
    <2>4. AreBoards(replaced(boardConfigs, L, b))
      BY <2>2, <2>3 DEF AreBoards
    <2>5. AreBoards(boardConfigs)' <=> AreBoards(boardConfigs')
      BY DEF AreBoards
    <2>6. QED
      BY <1>1, <1>4, <2>4, <2>5
  <1>5. QED
    BY <1>2, <1>3, <1>4

LEMMA LineIs ==
  ASSUME text \in Seq(Pieces)
  PROVE  fgets \in Seq(Pieces) /\ from(text, Len(fgets) + 1) \in Seq(Pieces)
  <1> DEFINE u == until(text, LAMBDA p : p = "nl")
             S == {u, Len(text), MaxLine - 1}
  <1>1. u \in Nat
    <2>1. (IF {i \in 1..Len(text) : text[i] = "nl"} # {} THEN Min({i \in 1..Len(text) : text[i] = "nl"}) ELSE 0) \in 0..Len(text)
      BY First, LenProperties
    <2>2. QED
      BY <2>1, LenProperties DEF until, SelectInSeq
  <1> HIDE DEF u
  <1>2. S \subseteq Nat /\ S # {} /\ Len(text) \in Nat
    BY <1>1, LenProperties, NumbersAssumption
  <1>3. Len(text) \in S
    OBVIOUS
  <1> HIDE DEF S
  <1>4. Min(S) \in Nat /\ Min(S) <= Len(text)
    BY <1>2, <1>3, Least
  <1>5. \A i \in 1..Min(S) : text[i] \in Pieces
    BY <1>2, <1>4, LenProperties
  <1>6. SubSeq(text, 1, Min(S)) \in Seq(Pieces)
    BY <1>4, <1>5, SubSeqProperties
  <1>7. fgets \in Seq(Pieces)
    BY <1>6 DEF fgets, S, u
  <1>8. Len(fgets) + 1 \in Nat \ {0}
    BY <1>7, LenProperties
  <1>9. QED
    BY <1>7, <1>8, FromIs

LEMMA BoardsReadHold == Spec => []BoardsAreRead
  <1>1. Init => BoardsAreRead
    <2> SUFFICES ASSUME Init PROVE BoardsAreRead
      OBVIOUS
    <2>1. text \in Seq(Pieces)
      BY TasksAssumption DEF Init, ConfigInit, Pieces
    <2>2. iValue \in Int
      BY NumbersAssumption DEF Init, ConfigInit
    <2>3. boardConfigs = <<>>
      BY DEF Init, ConfigInit
    <2>4. QED
      BY <2>1, <2>2, <2>3, EmptySeq DEF BoardsAreRead, AreBoards, IsSeq
  <1>2. Stages /\ BoardsAreRead /\ [Next]_vars => BoardsAreRead'
    <2> SUFFICES ASSUME Stages, BoardsAreRead, [Next]_vars, task.command # "edit" PROVE BoardsAreRead'
      BY BoardSteps DEF BoardsAreRead
    <2>1. task' = task /\ Pieces' = Pieces /\ (ReadConfiguration \/ UNCHANGED boardVars)
      BY ConfigSteps DEF Stages, Pieces
    <2>2. CASE UNCHANGED boardVars
      <3>1. text' = text /\ iValue' = iValue /\ boardConfigs' = boardConfigs
        BY <2>2 DEF boardVars, configVars
      <3>2. QED
        BY <2>1, <3>1 DEF BoardsAreRead, AreBoards
    <2>3. CASE ReadConfiguration
      <3>1. CASE ParseLine
        <4> DEFINE l == SkipSpaces(fgets)
        <4>1. text' \in Seq(Pieces) /\ l \in Seq(Pieces)
          BY <3>1, LineIs, SkipSpacesIs DEF ParseLine, BoardsAreRead
        <4>2. (UNCHANGED <<boardConfigs, iValue>>) \/ BoardTag(l) \/ Pair(l)
          BY <3>1 DEF ParseLine
        <4> HIDE DEF l
        <4>3. AreBoards(boardConfigs)' /\ iValue' \in Int
          <5>1. CASE UNCHANGED <<boardConfigs, iValue>>
            BY <5>1 DEF BoardsAreRead, AreBoards
          <5>2. QED
            BY <4>1, <4>2, <5>1, TagKeeps, PairKeeps DEF BoardsAreRead
        <4>4. QED
          BY <2>1, <4>1, <4>3 DEF BoardsAreRead
      <3>2. CASE EndOfConfiguration
        <4>1. boardConfigs' = closed(boardConfigs) /\ text' = text /\ iValue' = iValue
          BY <3>2 DEF EndOfConfiguration
        <4>2. AreBoards(boardConfigs)' <=> AreBoards(boardConfigs')
          BY DEF AreBoards
        <4>3. QED
          BY <2>1, <4>1, <4>2, ClosedAre DEF BoardsAreRead
      <3>3. QED
        BY <2>3, <3>1, <3>2 DEF ReadConfiguration, ParseConfigurationFile
    <2>4. QED
      BY <2>1, <2>2, <2>3
  <1>3. QED
    BY <1>1, <1>2, StagesHold, PTL DEF Spec

-----------------------------------------------------------------------------
(* The words that a program stores. *)

Length(block) == IF block.to = "fixup" THEN 0 ELSE Len(block.words)

LEMMA StoredIs ==
  ASSUME NEW program, IsProgram(program)
  PROVE  /\ Len(program) \in Nat /\ stored(program, 0) = 0
         /\ \A b \in 0..Len(program) : stored(program, b) \in Nat
         /\ \A b \in 0..Len(program) - 1 : stored(program, b + 1) = stored(program, b) + Length(program[b + 1])
  <1> DEFINE L == Len(program)
             step == [p \in (1..L) \X Nat |-> p[2] + Length(program[p[1]])]
  <1>1. L \in Nat
    BY LenProperties DEF IsProgram
  <1>2. \A k \in 1..L : Length(program[k]) \in Nat
    BY LenProperties DEF IsProgram, Length
  <1> HIDE DEF L
  <1>3. step \in [(1..L) \X Nat -> Nat]
    BY <1>2
  <1>4. \A k \in 1..L, v \in Nat : step[<<k, v>>] = v + Length(program[k])
    OBVIOUS
  <1> HIDE DEF step
  <1>5. PICK g \in [0..L -> Nat] : Recursive(g, L, 0, step)
    BY <1>1, <1>3, Recursion
  <1>6. g[0] = 0 /\ \A k \in 1..L : g[k] = g[k - 1] + Length(program[k])
    <2>1. g[0] = 0
      BY <1>1, <1>5 DEF Recursive
    <2>2. ASSUME NEW k \in 1..L PROVE g[k] = g[k - 1] + Length(program[k])
      <3>1. k \in 0..L /\ k # 0 /\ k - 1 \in 0..L
        BY <1>1
      <3>2. g[k] = step[<<k, g[k - 1]>>] /\ g[k - 1] \in Nat
        BY <1>5, <3>1 DEF Recursive
      <3>3. QED
        BY <1>4, <3>2
    <2>3. QED
      BY <2>1, <2>2
  <1>7. ASSUME NEW b \in 0..L PROVE stored(program, b) = g[b]
    <2> DEFINE Total(f) == f = [k \in 0..b |-> IF k = 0 THEN 0 ELSE f[k - 1] + Length(program[k])]
               h == [k \in 0..b |-> g[k]]
               total == CHOOSE f : Total(f)
    <2>1. Total(h)
      <3>1. \A k \in 0..b : k \in 0..L /\ (k # 0 => k - 1 \in 0..b /\ k \in 1..L)
        BY <1>1
      <3>2. \A k \in 0..b : h[k] = IF k = 0 THEN 0 ELSE h[k - 1] + Length(program[k])
        BY <1>6, <3>1
      <3> HIDE DEF h
      <3>3. h = [k \in 0..b |-> h[k]]
        BY DEF h
      <3>4. QED
        BY <3>2, <3>3
    <2>2. Total(total)
      BY <2>1
    <2>3. stored(program, b) = total[b]
      BY DEF stored, Length
    <2> HIDE DEF total
    <2>4. b \in Nat /\ total[0] = 0 /\ \A k \in 1..b : total[k] = total[k - 1] + Length(program[k])
      BY <1>1, <2>2
    <2> DEFINE S == {k \in Nat : total[k] = g[k]}
    <2>5. 0 \in S /\ \A k \in 0..b - 1 : k \in S => k + 1 \in S
      <3>1. 0 \in S
        BY <1>6, <2>4
      <3>2. ASSUME NEW k \in 0..b - 1, k \in S PROVE k + 1 \in S
        <4>1. k + 1 \in 1..b /\ k + 1 \in 1..L /\ k + 1 - 1 = k
          BY <1>1
        <4>2. total[k + 1] = total[k] + Length(program[k + 1]) /\ g[k + 1] = g[k] + Length(program[k + 1])
          BY <1>6, <2>4, <4>1
        <4>3. QED
          BY <3>2, <4>2
      <3>3. QED
        BY <3>1, <3>2
    <2> HIDE DEF S
    <2>6. b \in Nat /\ b \in 0..b
      BY <2>4
    <2>7. 0..b \subseteq S
      BY <2>5, <2>6, BoundedInduction
    <2>8. QED
      BY <2>3, <2>6, <2>7 DEF S
  <1>8. stored(program, 0) = 0 /\ \A b \in 0..L : stored(program, b) \in Nat
    BY <1>1, <1>5, <1>6, <1>7
  <1>9. ASSUME NEW b \in 0..L - 1 PROVE stored(program, b + 1) = stored(program, b) + Length(program[b + 1])
    <2>1. b \in 0..L /\ b + 1 \in 0..L /\ b + 1 \in 1..L /\ b + 1 - 1 = b
      BY <1>1
    <2>2. QED
      BY <1>6, <1>7, <2>1
  <1>10. QED
    BY <1>1, <1>8, <1>9 DEF L

-----------------------------------------------------------------------------
(* What the compiler writes into its sections. *)

Placement == (1..Len(sections)) \X Nat \X Words
Holds(p) ==
  /\ p[2] < offset[p[1]] /\ fp[p[1]][p[2] + 1] = p[3]
  /\ p[1] = textTarget => p[2] >= dataOffset
Placing ==
  /\ Len(sections) \in Nat /\ textTarget \in 1..Len(sections)
  /\ offset \in [1..Len(sections) -> Nat] /\ fp \in [1..Len(sections) -> Seq(Words)]
  /\ \A s \in 1..Len(sections) : Len(fp[s]) = offset[s]
  /\ offset[textTarget] >= dataOffset
  /\ placed \in Seq(Placement) /\ \A i \in 1..Len(placed) : Holds(placed[i])

LEMMA StartPlaces ==
  ASSUME StartImage, placed = <<>>, Len(sections) \in Nat, textTarget \in 1..Len(sections)
  PROVE  Placing'
  <1> DEFINE L == Len(sections)
             zeros == [i \in 1..dataOffset |-> 0]
  <1>1. dataOffset \in Nat
    BY DEF dataOffset, HEADER, SECTION
  <1>2. 0 \in Words
    BY DEF Words, IsWord
  <1>3. zeros \in Seq(Words) /\ Len(zeros) = dataOffset
    BY <1>1, <1>2
  <1>4. <<>> \in Seq(Words) /\ Len(<<>>) = 0
    BY EmptySeq
  <1>5. /\ sections' = sections /\ textTarget' = textTarget /\ placed' = placed /\ dataOffset' = dataOffset
        /\ offset' = [s \in 1..L |-> IF s = textTarget THEN dataOffset ELSE 0]
        /\ fp' = [s \in 1..L |-> IF s = textTarget THEN zeros ELSE <<>>]
    BY DEF StartImage, dataOffset
  <1> HIDE DEF zeros
  <1>6. offset' \in [1..L -> Nat] /\ fp' \in [1..L -> Seq(Words)]
    BY <1>1, <1>3, <1>4, <1>5
  <1>7. \A s \in 1..L : Len(fp'[s]) = offset'[s]
    BY <1>3, <1>4, <1>5
  <1>8. offset'[textTarget] >= dataOffset
    BY <1>1, <1>5
  <1>9. placed' \in Seq(Placement) /\ Len(placed') = 0
    BY <1>5, EmptySeq
  <1>10. Placement' = Placement
    BY <1>5 DEF Placement
  <1>11. QED
    BY <1>5, <1>6, <1>7, <1>8, <1>9, <1>10 DEF Placing

LEMMA WritePlaces ==
  ASSUME Placing, NEW s \in 1..Len(sections), NEW words \in Seq(Words), WriteSection(s, words)
  PROVE  Placing' /\ Len(placed') = Len(placed) + Len(words) /\ Len(placed) \in Nat
  <1> DEFINE L == Len(sections)
             M == Len(words)
             more == [i \in 1..M |-> <<s, offset[s] + i - 1, words[i]>>]
  <1>1. /\ sections' = sections /\ textTarget' = textTarget /\ dataOffset' = dataOffset /\ Placement' = Placement
        /\ fp' = [fp EXCEPT ![s] = fp[s] \o words] /\ offset' = [offset EXCEPT ![s] = offset[s] + M]
        /\ placed' = placed \o more
    BY DEF WriteSection, dataOffset, Placement
  <1>2. /\ M \in Nat /\ offset[s] \in Nat /\ fp[s] \in Seq(Words) /\ Len(fp[s]) = offset[s] /\ L \in Nat
        /\ \A i \in 1..M : words[i] \in Words
    BY LenProperties DEF Placing
  <1>3. /\ fp[s] \o words \in Seq(Words) /\ Len(fp[s] \o words) = offset[s] + M
        /\ \A i \in 1..offset[s] + M : (fp[s] \o words)[i] = IF i <= offset[s] THEN fp[s][i] ELSE words[i - offset[s]]
    <2> DEFINE old == fp[s]
    <2>1. old \in Seq(Words) /\ Len(old) = offset[s]
      BY <1>2
    <2> HIDE DEF old, M
    <2>2. /\ old \o words \in Seq(Words) /\ Len(old \o words) = Len(old) + Len(words)
          /\ \A i \in 1..Len(old) + Len(words) : (old \o words)[i] = IF i <= Len(old) THEN old[i] ELSE words[i - Len(old)]
      BY <2>1, ConcatProperties
    <2>3. QED
      BY <2>1, <2>2 DEF old, M
  <1>4. more \in Seq(Placement) /\ Len(more) = M
    <2>1. \A i \in 1..M : <<s, offset[s] + i - 1, words[i]>> \in Placement
      BY <1>2 DEF Placement
    <2> HIDE DEF M
    <2>2. QED
      BY <1>2, <2>1
  <1>5. /\ placed' \in Seq(Placement) /\ Len(placed') = Len(placed) + M /\ Len(placed) \in Nat
        /\ \A i \in 1..Len(placed) + M : placed'[i] = IF i <= Len(placed) THEN placed[i] ELSE more[i - Len(placed)]
    BY <1>1, <1>4, ConcatProperties, LenProperties DEF Placing
  <1> HIDE DEF M
  <1>6. offset' \in [1..L -> Nat] /\ fp' \in [1..L -> Seq(Words)]
    BY <1>1, <1>2, <1>3 DEF Placing
  <1>7. \A r \in 1..L : /\ fp'[r] = IF r = s THEN fp[s] \o words ELSE fp[r]
                        /\ offset'[r] = IF r = s THEN offset[s] + M ELSE offset[r]
    BY <1>1 DEF Placing
  <1>8. \A r \in 1..L : Len(fp'[r]) = offset'[r]
    BY <1>3, <1>7 DEF Placing
  <1>9. offset'[textTarget] >= dataOffset
    <2>1. dataOffset \in Int /\ textTarget \in 1..L /\ offset[textTarget] \in Nat
      BY DEF Placing, dataOffset, HEADER, SECTION
    <2>2. QED
      BY <1>2, <1>7, <2>1 DEF Placing
  <1>10. ASSUME NEW i \in 1..Len(placed) PROVE Holds(placed[i])'
    <2> DEFINE p == placed[i]
    <2>1. p \in Placement /\ Holds(p) /\ placed'[i] = p
      <3>1. placed \in Seq(Placement) /\ Holds(placed[i])
        BY DEF Placing
      <3>2. placed[i] \in Placement
        BY <3>1, ElementOfSeq
      <3>3. i \in 1..Len(placed) + M /\ i <= Len(placed)
        BY <1>2, <1>5
      <3>4. placed'[i] = placed[i]
        BY <1>5, <3>3
      <3>5. QED
        BY <3>1, <3>2, <3>4
    <2> HIDE DEF p
    <2>2. p[1] \in 1..L /\ p[2] \in Nat
      BY <2>1 DEF Placement
    <2>3. CASE p[1] = s
      <3>1. p[2] < offset[s] /\ fp[s][p[2] + 1] = p[3] /\ p[2] + 1 \in 1..offset[s] + M /\ p[2] + 1 <= offset[s]
        <4>1. p[2] < offset[s] /\ fp[s][p[2] + 1] = p[3] /\ p[2] \in Nat
          BY <2>1, <2>2, <2>3 DEF Holds
        <4>2. p[2] + 1 \in 1..offset[s] + M /\ p[2] + 1 <= offset[s]
          <5> DEFINE o == offset[s]
          <5>1. o \in Nat /\ M \in Nat /\ p[2] < o /\ p[2] \in Nat
            BY <1>2, <4>1
          <5> HIDE DEF o, M
          <5>2. QED
            BY <5>1 DEF o
        <4>3. QED
          BY <4>1, <4>2
      <3>2. offset'[p[1]] = offset[s] + M /\ fp'[p[1]] = fp[s] \o words
        BY <1>7, <2>2, <2>3
      <3>3. p[2] < offset'[p[1]] /\ fp'[p[1]][p[2] + 1] = p[3]
        BY <1>2, <1>3, <2>2, <3>1, <3>2
      <3>4. QED
        BY <1>1, <2>1, <3>3 DEF Holds, p
    <2>4. CASE p[1] # s
      <3>1. offset'[p[1]] = offset[p[1]] /\ fp'[p[1]] = fp[p[1]]
        BY <1>7, <2>2, <2>4
      <3>2. QED
        BY <1>1, <2>1, <3>1 DEF Holds, p
    <2>5. QED
      BY <2>3, <2>4
  <1>11. ASSUME NEW i \in 1..M
         PROVE  /\ more[i][1] = s /\ more[i][2] = offset[s] + i - 1 /\ more[i][3] = words[i]
                /\ more[i][2] < offset'[s] /\ fp'[s][more[i][2] + 1] = more[i][3]
                /\ s = textTarget => more[i][2] >= dataOffset
    <2>1. more[i][1] = s /\ more[i][2] = offset[s] + i - 1 /\ more[i][3] = words[i]
      OBVIOUS
    <2> HIDE DEF more
    <2>2. more[i][2] < offset'[s]
      BY <1>2, <1>7, <2>1
    <2>3. (fp[s] \o words)[offset[s] + i] = words[i]
      <3>1. offset[s] + i \in 1..offset[s] + M /\ ~ (offset[s] + i <= offset[s]) /\ offset[s] + i - offset[s] = i
        BY <1>2
      <3> DEFINE j == offset[s] + i
      <3>2. j \in 1..offset[s] + M /\ ~ (j <= offset[s]) /\ j - offset[s] = i
        BY <1>2
      <3> HIDE DEF j
      <3>3. (fp[s] \o words)[j] = words[j - offset[s]]
        BY <1>3, <3>2
      <3>4. QED
        BY <3>2, <3>3 DEF j
    <2>4. fp'[s][more[i][2] + 1] = more[i][3]
      <3>1. more[i][2] + 1 = offset[s] + i /\ fp'[s] = fp[s] \o words
        <4>1. offset[s] + i - 1 + 1 = offset[s] + i
          BY <1>2
        <4>2. fp'[s] = fp[s] \o words
          BY <1>7
        <4>3. QED
          BY <2>1, <4>1, <4>2
      <3>2. QED
        BY <2>1, <2>3, <3>1
    <2>5. s = textTarget => more[i][2] >= dataOffset
      <3>1. dataOffset \in Int
        BY <1>2 DEF dataOffset, HEADER, SECTION
      <3>2. s = textTarget => offset[s] >= dataOffset
        BY DEF Placing
      <3>3. QED
        BY <1>2, <2>1, <3>1, <3>2
    <2>6. QED
      BY <2>1, <2>2, <2>4, <2>5
  <1> HIDE DEF more
  <1>12. \A i \in 1..Len(placed') : Holds(placed[i])'
    <2> TAKE i \in 1..Len(placed')
    <2>1. CASE i <= Len(placed)
      <3>1. i \in 1..Len(placed)
        BY <1>5, <2>1
      <3>2. QED
        BY <1>10, <3>1
    <2>2. CASE i > Len(placed)
      <3>1. i - Len(placed) \in 1..M /\ placed'[i] = more[i - Len(placed)]
        BY <1>2, <1>5, <2>2
      <3> DEFINE q == more[i - Len(placed)]
      <3>2. /\ q[1] = s /\ q[2] < offset'[s] /\ fp'[s][q[2] + 1] = q[3]
            /\ s = textTarget => q[2] >= dataOffset
        BY <1>11, <3>1
      <3>3. placed'[i] = q
        BY <3>1
      <3> HIDE DEF q
      <3>4. QED
        BY <1>1, <3>2, <3>3 DEF Holds
    <2>3. QED
      BY <1>5, <2>1, <2>2
  <1>13. Len(sections)' \in Nat /\ textTarget' \in 1..Len(sections)'
    BY <1>1 DEF Placing
  <1>14. Placing'
    BY <1>1, <1>5, <1>6, <1>8, <1>9, <1>12, <1>13 DEF Placing
  <1>15. QED
    BY <1>5, <1>14 DEF M

LEMMA FixupPlaces ==
  ASSUME Placing, NEW j \in 1..Len(placed), NEW v \in Words, WriteSectionOffset(placed[j][1], placed[j][2], v)
  PROVE  Placing' /\ Len(placed') = Len(placed)
  <1> DEFINE L == Len(sections)
             s == placed[j][1]
             o == placed[j][2]
             f == fp[s]
  <1>1. placed \in Seq(Placement) /\ Len(placed) \in Nat /\ placed[j] \in Placement /\ Holds(placed[j])
    <2>1. placed \in Seq(Placement)
      BY DEF Placing
    <2>2. QED
      BY <2>1, LenProperties, ElementOfSeq DEF Placing
  <1>2. s \in 1..L /\ o \in Nat /\ o < offset[s] /\ (s = textTarget => o >= dataOffset)
    BY <1>1 DEF Placement, Holds
  <1>3. offset[s] \in Nat /\ f \in Seq(Words) /\ Len(f) = offset[s]
    BY <1>2 DEF Placing
  <1>4. /\ sections' = sections /\ textTarget' = textTarget /\ dataOffset' = dataOffset /\ Placement' = Placement
        /\ offset' = offset
        /\ fp' = [fp EXCEPT ![s] = [f EXCEPT ![o + 1] = v]]
        /\ placed' = [i \in DOMAIN placed |-> IF placed[i][1] = s /\ placed[i][2] = o THEN <<s, o, v>> ELSE placed[i]]
    BY DEF WriteSectionOffset, dataOffset, Placement
  <1> HIDE DEF s, o, f
  <1>5. o + 1 \in 1..Len(f)
    BY <1>2, <1>3
  <1> DEFINE g == replaced(f, o + 1, v)
  <1>6. /\ g \in Seq(Words) /\ Len(g) = Len(f)
        /\ \A i \in 1..Len(f) : g[i] = IF i = o + 1 THEN v ELSE f[i]
    BY <1>3, <1>5, ExceptSeq DEF replaced
  <1>7. fp' = [fp EXCEPT ![s] = g]
    BY <1>4 DEF replaced
  <1> HIDE DEF g
  <1>8. fp' \in [1..L -> Seq(Words)] /\ \A r \in 1..L : fp'[r] = IF r = s THEN g ELSE fp[r]
    BY <1>2, <1>6, <1>7 DEF Placing
  <1>9. \A r \in 1..L : Len(fp'[r]) = offset'[r]
    BY <1>3, <1>4, <1>6, <1>8 DEF Placing
  <1> DEFINE new(p) == IF p[1] = s /\ p[2] = o THEN <<s, o, v>> ELSE p
  <1>10. ASSUME NEW p \in Placement PROVE new(p) \in Placement
    BY <1>2 DEF Placement
  <1>11. DOMAIN placed = 1..Len(placed) /\ \A i \in 1..Len(placed) : placed[i] \in Placement
    BY <1>1, LenProperties, ElementOfSeq
  <1>12. placed' = [i \in 1..Len(placed) |-> new(placed[i])]
    BY <1>4, <1>11
  <1>13. ASSUME NEW i \in 1..Len(placed) PROVE Holds(placed[i])'
    <2> DEFINE p == placed[i]
               q == placed'[i]
    <2>1. p \in Placement /\ Holds(p) /\ q = new(p)
      BY <1>11, <1>12 DEF Placing
    <2> HIDE DEF p, q
    <2>2. p[1] \in 1..L /\ p[2] \in Nat /\ offset[p[1]] \in Nat
      BY <2>1 DEF Placement, Placing
    <2>3. CASE p[1] = s /\ p[2] = o
      <3>1. q = <<s, o, v>>
        BY <2>1, <2>3
      <3>2. q[1] = s /\ q[2] = o /\ q[3] = v
        BY <3>1
      <3>3. fp'[s] = g /\ g[o + 1] = v
        BY <1>2, <1>5, <1>6, <1>8
      <3>4. QED
        BY <1>2, <1>4, <3>2, <3>3 DEF Holds, q
    <2>4. CASE p[1] = s /\ p[2] # o
      <3>1. q = p
        BY <2>1, <2>4
      <3>2. fp'[s] = g /\ p[2] < offset[s] /\ f[p[2] + 1] = p[3]
        BY <1>2, <1>8, <2>1, <2>4 DEF Holds, f
      <3>3. p[2] + 1 \in 1..Len(f) /\ p[2] + 1 # o + 1
        <4>1. Len(f) = offset[s] /\ offset[s] \in Nat /\ o \in Nat /\ p[2] \in Nat /\ p[2] # o /\ p[2] < offset[s]
          BY <1>2, <1>3, <2>2, <2>4, <3>2
        <4>2. QED
          BY <4>1
      <3>4. g[p[2] + 1] = p[3]
        BY <1>6, <3>2, <3>3
      <3>5. QED
        BY <1>4, <2>1, <2>4, <3>1, <3>2, <3>4 DEF Holds, q
    <2>5. CASE p[1] # s
      <3>1. q = p
        BY <2>1, <2>5
      <3>2. fp'[p[1]] = fp[p[1]]
        BY <1>8, <2>2, <2>5
      <3>3. QED
        BY <1>4, <2>1, <3>1, <3>2 DEF Holds, q
    <2>6. QED
      BY <2>3, <2>4, <2>5
  <1> HIDE DEF new
  <1>14. placed' \in Seq(Placement) /\ Len(placed') = Len(placed)
    BY <1>1, <1>10, <1>11, <1>12
  <1>15. QED
    BY <1>4, <1>8, <1>9, <1>13, <1>14 DEF Placing

-----------------------------------------------------------------------------
(* The image file. *)

LEMMA OrderIs ==
  ASSUME Len(sections) \in Nat, textTarget \in 1..Len(sections)
  PROVE  /\ order \in [1..Len(sections) -> 1..Len(sections)] /\ order[1] = textTarget
         /\ \A r \in 1..Len(sections) : \E s \in 1..Len(sections) : order[s] = r
         /\ Len(others) = Len(sections) - 1 /\ Len(sections) - 1 \in Nat
         /\ \A m \in 1..Len(sections) - 1 : others[m] = order[m + 1]
  <1> DEFINE L == Len(sections)
  <1>1. L \in Nat /\ L - 1 \in Nat /\ textTarget \in 1..L
    OBVIOUS
  <1> HIDE DEF L
  <1>2. order = [s \in 1..L |-> IF s = 1 THEN textTarget ELSE IF s > textTarget THEN s ELSE s - 1]
    BY DEF order, L
  <1>3. order \in [1..L -> 1..L] /\ order[1] = textTarget
    BY <1>1, <1>2
  <1>4. ASSUME NEW r \in 1..L PROVE \E s \in 1..L : order[s] = r
    <2>1. CASE r = textTarget
      <3>1. 1 \in 1..L
        BY <1>1
      <3>2. QED
        BY <1>3, <2>1, <3>1
    <2>2. CASE r > textTarget
      <3>1. order[r] = r
        BY <1>1, <1>2, <2>2
      <3>2. QED
        BY <3>1
    <2>3. CASE r < textTarget
      <3>1. r + 1 \in 1..L /\ order[r + 1] = r
        BY <1>1, <1>2, <2>3
      <3>2. QED
        BY <3>1
    <2>4. QED
      BY <1>1, <2>1, <2>2, <2>3
  <1>5. others = [m \in 1..L - 1 |-> IF m < textTarget THEN m ELSE m + 1]
    BY DEF others, L
  <1>6. Len(others) = L - 1
    BY <1>1, <1>5
  <1>7. \A m \in 1..L - 1 : others[m] = order[m + 1]
    BY <1>1, <1>2, <1>5
  <1>8. QED
    BY <1>1, <1>3, <1>4, <1>6, <1>7 DEF L

(* Where the sections end when they lie one behind the other.             *)
IsTotal(T) ==
  /\ T \in [0..Len(sections) -> Nat] /\ T[0] = 0
  /\ \A s \in 1..Len(sections) : T[s] = T[s - 1] + offset[order[s]]

LEMMA TotalExists ==
  ASSUME Placing
  PROVE  \E T : IsTotal(T)
  <1> DEFINE L == Len(sections)
             step == [p \in (1..L) \X Nat |-> p[2] + offset[order[p[1]]]]
  <1>1. L \in Nat /\ \A s \in 1..L : offset[order[s]] \in Nat
    BY OrderIs DEF Placing
  <1> HIDE DEF L
  <1>2. step \in [(1..L) \X Nat -> Nat] /\ \A s \in 1..L, v \in Nat : step[<<s, v>>] = v + offset[order[s]]
    BY <1>1
  <1> HIDE DEF step
  <1>3. PICK g \in [0..L -> Nat] : Recursive(g, L, 0, step)
    BY <1>1, <1>2, Recursion
  <1>4. g[0] = 0
    BY <1>1, <1>3 DEF Recursive
  <1>5. ASSUME NEW s \in 1..L PROVE g[s] = g[s - 1] + offset[order[s]]
    <2>1. s \in 0..L /\ s # 0 /\ s - 1 \in 0..L
      BY <1>1
    <2>2. g[s] = step[<<s, g[s - 1]>>] /\ g[s - 1] \in Nat
      BY <1>3, <2>1 DEF Recursive
    <2>3. QED
      BY <1>2, <2>2
  <1>6. IsTotal(g)
    BY <1>3, <1>4, <1>5 DEF IsTotal, L
  <1>7. QED
    BY <1>6

LEMMA TotalGrows ==
  ASSUME Placing, NEW T, IsTotal(T)
  PROVE  /\ \A s \in 0..Len(sections) : \A r \in 0..s : T[r] <= T[s]
         /\ \A s \in 1..Len(sections) : offset[order[s]] \in Nat /\ T[s - 1] \in Nat /\ T[s] \in Nat /\ T[s - 1] + offset[order[s]] <= T[Len(sections)]
         /\ \A s \in 1..Len(sections) : offset[s] <= T[Len(sections)]
  <1> DEFINE L == Len(sections)
  <1>1. L \in Nat /\ order \in [1..L -> 1..L] /\ \A s \in 1..L : offset[order[s]] \in Nat
    BY OrderIs DEF Placing
  <1> HIDE DEF L
  <1>2. T \in [0..L -> Nat] /\ \A s \in 1..L : T[s] = T[s - 1] + offset[order[s]]
    BY DEF IsTotal, L
  <1> DEFINE S == {s \in Nat : \A r \in 0..s : T[r] <= T[s]}
  <1>3. 0 \in S /\ \A s \in 0..L - 1 : s \in S => s + 1 \in S
    <2>1. 0 \in S
      <3>1. 0 \in 0..L /\ \A r \in 0..0 : r = 0
        BY <1>1
      <3>2. T[0] \in Nat
        BY <1>2, <3>1
      <3>3. QED
        BY <3>1, <3>2
    <2>2. ASSUME NEW s \in 0..L - 1, s \in S PROVE s + 1 \in S
      <3>1. s + 1 \in 1..L /\ s \in 0..L /\ s + 1 - 1 = s /\ s + 1 \in 0..L
        BY <1>1
      <3>2. T[s + 1] = T[s] + offset[order[s + 1]] /\ T[s] \in Nat /\ offset[order[s + 1]] \in Nat /\ T[s + 1] \in Nat
        <4>1. T[s] \in Nat /\ T[s + 1] \in Nat
          BY <1>2, <3>1
        <4>2. offset[order[s + 1]] \in Nat
          BY <1>1, <3>1
        <4>3. T[s + 1] = T[s + 1 - 1] + offset[order[s + 1]]
          BY <1>2, <3>1
        <4>4. QED
          BY <3>1, <4>1, <4>2, <4>3
      <3>3. ASSUME NEW r \in 0..s + 1 PROVE T[r] <= T[s + 1]
        <4>1. CASE r = s + 1
          BY <3>2, <4>1
        <4>2. CASE r # s + 1
          <5>1. r \in 0..s /\ r \in 0..L
            BY <1>1, <4>2
          <5>2. T[r] <= T[s] /\ T[r] \in Nat
            BY <1>2, <2>2, <5>1
          <5>3. QED
            BY <3>2, <5>2
        <4>3. QED
          BY <4>1, <4>2
      <3>4. QED
        BY <3>1, <3>3
    <2>3. QED
      BY <2>1, <2>2
  <1> HIDE DEF S
  <1>4. 0..L \subseteq S
    BY <1>1, <1>3, BoundedInduction
  <1>5. \A s \in 0..L : \A r \in 0..s : T[r] <= T[s]
    BY <1>4 DEF S
  <1>6. ASSUME NEW s \in 1..L
        PROVE  offset[order[s]] \in Nat /\ T[s - 1] \in Nat /\ T[s] \in Nat /\ T[s - 1] + offset[order[s]] <= T[L]
    <2>1. s \in 0..L /\ s - 1 \in 0..L /\ L \in 0..L
      BY <1>1
    <2>2. T[s] = T[s - 1] + offset[order[s]] /\ T[s] <= T[L]
      BY <1>2, <1>5, <2>1
    <2>3. QED
      BY <1>1, <1>2, <2>1, <2>2
  <1>7. ASSUME NEW r \in 1..L PROVE offset[r] <= T[L]
    <2>1. PICK s \in 1..L : order[s] = r
      BY OrderIs DEF Placing, L
    <2>2. L \in 0..L
      BY <1>1
    <2>3. QED
      BY <1>2, <1>6, <2>1, <2>2
  <1>8. QED
    BY <1>5, <1>6, <1>7 DEF L

LEMMA SizesAre ==
  ASSUME Placing, NEW T, IsTotal(T), NEW m \in 0..Len(sections) - 1
  PROVE  sizes(m) = T[m + 1]
  <1> DEFINE L == Len(sections)
             Sum(f) == f = [i \in 0..m |-> IF i = 0 THEN offset[textTarget] ELSE f[i - 1] + offset[others[i]]]
             g == [i \in 0..m |-> T[i + 1]]
             sum1 == CHOOSE f : Sum(f)
  <1>1. L \in Nat /\ order[1] = textTarget /\ \A i \in 1..L - 1 : others[i] = order[i + 1]
    BY OrderIs DEF Placing
  <1> HIDE DEF L
  <1>2. m \in Nat /\ m <= L - 1
    BY <1>1 DEF L
  <1>3. T[1] = offset[textTarget] /\ \A i \in 1..m : T[i + 1] = T[i] + offset[others[i]]
    <2>1. T[0] = 0 /\ \A s \in 1..L : T[s] = T[s - 1] + offset[order[s]]
      BY DEF IsTotal, L
    <2>2. T[1] = offset[textTarget]
      <3>1. 1 \in 1..L /\ 1 - 1 = 0
        BY <1>2, <1>1
      <3>2. T[1] = T[0] + offset[textTarget] /\ offset[textTarget] \in Nat
        BY <1>1, <2>1, <3>1 DEF Placing, L
      <3>3. QED
        BY <2>1, <3>2
    <2>3. ASSUME NEW i \in 1..m PROVE T[i + 1] = T[i] + offset[others[i]]
      <3>1. i + 1 \in 1..L /\ i \in 1..L - 1 /\ i + 1 - 1 = i
        BY <1>1, <1>2
      <3>2. QED
        BY <1>1, <2>1, <3>1
    <2>4. QED
      BY <2>2, <2>3
  <1>4. Sum(g)
    <2>1. \A i \in 0..m : g[i] = IF i = 0 THEN offset[textTarget] ELSE g[i - 1] + offset[others[i]]
      <3> TAKE i \in 0..m
      <3>1. CASE i = 0
        BY <1>3, <3>1
      <3>2. CASE i # 0
        <4>1. i \in 1..m /\ i - 1 \in 0..m /\ i - 1 + 1 = i
          BY <1>2, <3>2
        <4>2. QED
          BY <1>3, <3>2, <4>1
      <3>3. QED
        BY <3>1, <3>2
    <2> HIDE DEF g
    <2>2. g = [i \in 0..m |-> g[i]]
      BY DEF g
    <2>3. QED
      BY <2>1, <2>2
  <1>5. Sum(sum1)
    BY <1>4
  <1>6. sizes(m) = sum1[m]
    BY DEF sizes
  <1> HIDE DEF sum1
  <1>7. sum1[0] = offset[textTarget] /\ \A i \in 1..m : sum1[i] = sum1[i - 1] + offset[others[i]]
    BY <1>2, <1>5
  <1> DEFINE S == {i \in Nat : sum1[i] = T[i + 1]}
  <1>8. 0 \in S
    BY <1>3, <1>7
  <1>9. ASSUME NEW i \in 0..m - 1, i \in S PROVE i + 1 \in S
    <2>1. i + 1 \in 1..m /\ i + 1 - 1 = i
      BY <1>2
    <2>2. QED
      BY <1>3, <1>7, <1>9, <2>1
  <1> HIDE DEF S
  <1>10. 0..m \subseteq S
    BY <1>2, <1>8, <1>9, BoundedInduction
  <1>11. m \in 0..m
    BY <1>2
  <1>12. m \in S
    BY <1>10, <1>11
  <1>13. QED
    BY <1>6, <1>12 DEF S

(* A number that fits into a word, in a file of t words. *)
Fits(w, t) == w \in Words \/ w <= t
KnownBases == \A s \in 1..Len(sections) : sections[s].base \in Bases

LEMMA HeaderIs ==
  ASSUME Placing, KnownBases, NEW T, IsTotal(T), NEW mainCode \in Nat, mainCode <= T[Len(sections)]
  PROVE  /\ header(mainCode) \in Seq(Nat) /\ Len(header(mainCode)) = dataOffset /\ dataOffset \in Nat
         /\ header(mainCode)[1] = IMAGE_TAG /\ header(mainCode)[2] = IMAGE_VERSION
         /\ \A s \in 1..Len(sections) :
              /\ header(mainCode)[3 * s + 3] = sections[order[s]].base
              /\ header(mainCode)[3 * s + 4] = T[s - 1]
              /\ header(mainCode)[3 * s + 5] = offset[order[s]]
              /\ 3 * s + 5 <= dataOffset
         /\ \A i \in 1..dataOffset : Fits(header(mainCode)[i], T[Len(sections)])
  <1> DEFINE L == Len(sections)
             t == T[L]
             front == <<IMAGE_TAG, IMAGE_VERSION, mainCode, StackSize, L, sections[textTarget].base, 0, offset[textTarget]>>
             back == [k \in 1..3 * (L - 1) |-> entry((k - 1) \div 3 + 1)[((k - 1) % 3) + 1]]
             h == front \o back
  <1>1. L \in Nat /\ L - 1 \in Nat /\ textTarget \in 1..L /\ offset[textTarget] \in Nat
    BY OrderIs DEF Placing
  <1>2. h = header(mainCode)
    <2>1. Len(others) = L - 1
      BY OrderIs DEF Placing
    <2>2. QED
      BY <2>1 DEF header, SECTION
  <1>3. dataOffset = 8 + 3 * (L - 1) /\ dataOffset \in Nat
    BY <1>1 DEF dataOffset, HEADER, SECTION
  <1>4. \A s \in 1..L : /\ sections[order[s]].base \in Bases /\ offset[order[s]] \in Nat /\ T[s - 1] \in Nat
                        /\ offset[order[s]] <= t /\ T[s - 1] <= t
    <2>1. order \in [1..L -> 1..L]
      BY OrderIs DEF Placing
    <2>2. \A s \in 1..Len(sections) : offset[order[s]] \in Nat /\ T[s - 1] \in Nat /\ T[s] \in Nat /\ T[s - 1] + offset[order[s]] <= T[Len(sections)]
      BY TotalGrows
    <2>3. \A s \in 1..L : sections[order[s]].base \in Bases
      BY <2>1 DEF KnownBases
    <2>4. T[Len(sections)] \in Nat
      BY <1>1, <2>2
    <2> HIDE DEF t, L
    <2>5. \A s \in 1..L : offset[order[s]] \in Nat /\ T[s - 1] \in Nat /\ T[s - 1] + offset[order[s]] <= t /\ t \in Nat
      BY <2>2, <2>4 DEF t, L
    <2>6. QED
      BY <2>3, <2>5
  <1>5. Bases \subseteq Words /\ 0 \in Words /\ {IMAGE_TAG, IMAGE_VERSION, StackSize} \subseteq Words /\ Words \subseteq Nat
    BY SpinAssumption DEF Bases, HUB_BASE, RAM_BASE, FLASH_BASE, Words, IsWord
  <1>6. L <= t /\ t \in Nat /\ order[1] = textTarget
    <2>1. \A s \in 1..Len(sections) : offset[s] <= T[Len(sections)]
      BY TotalGrows
    <2>2. Len(sections) \in 0..Len(sections)
      BY <1>1
    <2>3. T[Len(sections)] \in Nat
      BY <2>2 DEF IsTotal
    <2>4. order[1] = textTarget
      BY <1>1, OrderIs
    <2>5. offset[textTarget] >= dataOffset
      BY DEF Placing
    <2> HIDE DEF t, L
    <2>6. offset[textTarget] <= t /\ t \in Nat
      BY <1>1, <2>1, <2>3 DEF t, L
    <2>7. QED
      BY <1>1, <1>3, <2>4, <2>5, <2>6
  <1> DEFINE base == sections[textTarget].base
             o == offset[textTarget]
  <1>7. base \in Bases /\ o \in Nat /\ o <= t
    <2>1. 1 \in 1..L
      BY <1>1
    <2>2. QED
      BY <1>4, <1>6, <2>1
  <1> HIDE DEF L, t, base, o
  <1>8. /\ front \in Seq(Nat) /\ Len(front) = 8
        /\ front[1] = IMAGE_TAG /\ front[2] = IMAGE_VERSION /\ front[3] = mainCode /\ front[4] = StackSize /\ front[5] = L
        /\ front[6] = base /\ front[7] = 0 /\ front[8] = o
    <2>1. front = <<IMAGE_TAG, IMAGE_VERSION, mainCode, StackSize, L, base, 0, o>>
      BY DEF base, o
    <2> HIDE DEF front
    <2>2. IMAGE_TAG \in Nat /\ IMAGE_VERSION \in Nat /\ StackSize \in Nat /\ base \in Nat
      BY <1>5, <1>7
    <2>3. QED
      BY <1>1, <1>7, <2>1, <2>2
  <1> HIDE DEF front
  <1>9. ASSUME NEW s \in 2..L
        PROVE  /\ s - 1 \in 1..L - 1 /\ entry(s - 1)[1] = sections[order[s]].base
               /\ entry(s - 1)[2] = T[s - 1] /\ entry(s - 1)[3] = offset[order[s]]
    <2>1. s - 1 \in 1..L - 1 /\ s - 1 + 1 = s /\ s - 1 - 1 \in 0..L - 1 /\ s - 1 - 1 + 1 = s - 1
      BY <1>1
    <2>2. others[s - 1] = order[s]
      BY <2>1, OrderIs DEF Placing, L
    <2>3. sizes(s - 1 - 1) = T[s - 1]
      BY <2>1, SizesAre DEF L
    <2>4. entry(s - 1) = <<sections[order[s]].base, T[s - 1], offset[order[s]]>>
      BY <2>2, <2>3 DEF entry
    <2>5. QED
      BY <2>1, <2>4
  <1>10. \A k \in 1..3 * (L - 1) : (k - 1) \div 3 + 1 \in 1..L - 1 /\ ((k - 1) % 3) + 1 \in 1..3
    BY <1>1
  <1>11. ASSUME NEW k \in 1..3 * (L - 1) PROVE back[k] \in Nat /\ Fits(back[k], t)
    <2> DEFINE s == (k - 1) \div 3 + 2
               j == ((k - 1) % 3) + 1
    <2>1. s \in 2..L /\ s \in 1..L /\ j \in 1..3 /\ (k - 1) \div 3 + 1 = s - 1
      BY <1>1, <1>10
    <2>2. back[k] = entry(s - 1)[j]
      BY <2>1
    <2> HIDE DEF s, j, back
    <2>3. back[k] \in {sections[order[s]].base, T[s - 1], offset[order[s]]}
      <3>1. j = 1 \/ j = 2 \/ j = 3
        BY <2>1
      <3>2. QED
        BY <1>9, <2>1, <2>2, <3>1
    <2>4. QED
      BY <1>4, <1>5, <2>1, <2>3 DEF Fits
  <1>12. back \in Seq(Nat) /\ Len(back) = 3 * (L - 1)
    <2>1. 3 * (L - 1) \in Nat
      BY <1>1
    <2>2. \A k \in 1..3 * (L - 1) : entry((k - 1) \div 3 + 1)[((k - 1) % 3) + 1] \in Nat
      BY <1>11
    <2>3. QED
      BY <2>1, <2>2
  <1>13. \A s \in 2..L, j \in 1..3 : 3 * (s - 2) + j \in 1..3 * (L - 1) /\ back[3 * (s - 2) + j] = entry(s - 1)[j]
    <2> TAKE s \in 2..L, j \in 1..3
    <2> DEFINE k == 3 * (s - 2) + j
    <2>1. k \in 1..3 * (L - 1) /\ (k - 1) \div 3 + 1 = s - 1 /\ ((k - 1) % 3) + 1 = j
      BY <1>1
    <2> HIDE DEF k
    <2>2. back[k] = entry(s - 1)[j]
      BY <2>1
    <2>3. QED
      BY <2>1, <2>2 DEF k
  <1> HIDE DEF back
  <1>14. /\ h \in Seq(Nat) /\ Len(h) = dataOffset
         /\ \A i \in 1..8 + 3 * (L - 1) : h[i] = IF i <= 8 THEN front[i] ELSE back[i - 8]
    <2>1. /\ h \in Seq(Nat) /\ Len(h) = Len(front) + Len(back)
          /\ \A i \in 1..Len(front) + Len(back) : h[i] = IF i <= Len(front) THEN front[i] ELSE back[i - Len(front)]
      BY <1>8, <1>12, ConcatProperties
    <2> HIDE DEF h
    <2>2. QED
      BY <1>3, <1>8, <1>12, <2>1
  <1> HIDE DEF h
  <1>15. h[1] = IMAGE_TAG /\ h[2] = IMAGE_VERSION /\ h[6] = base /\ h[7] = 0 /\ h[8] = o
    <2>1. \A i \in 1..8 : i \in 1..8 + 3 * (L - 1) /\ i <= 8
      BY <1>1
    <2>2. \A i \in 1..8 : h[i] = front[i]
      BY <1>14, <2>1
    <2>3. QED
      BY <1>8, <2>2
  <1>16. ASSUME NEW s \in 1..L
         PROVE  /\ h[3 * s + 3] = sections[order[s]].base /\ h[3 * s + 4] = T[s - 1] /\ h[3 * s + 5] = offset[order[s]]
                /\ 3 * s + 5 <= dataOffset
    <2>1. 3 * s + 5 <= dataOffset
      BY <1>1, <1>3
    <2>2. CASE s = 1
      <3>1. 3 * s + 3 = 6 /\ 3 * s + 4 = 7 /\ 3 * s + 5 = 8 /\ s - 1 = 0
        BY <2>2
      <3>2. T[0] = 0
        BY DEF IsTotal
      <3>3. QED
        BY <1>6, <1>15, <2>1, <2>2, <3>1, <3>2 DEF base, o
    <2>3. CASE s # 1
      <3>1. s \in 2..L
        BY <2>3
      <3>2. ASSUME NEW j \in 1..3 PROVE h[3 * s + 2 + j] = entry(s - 1)[j]
        <4> DEFINE i == 3 * s + 2 + j
        <4>1. i \in 1..8 + 3 * (L - 1) /\ ~ (i <= 8) /\ i - 8 = 3 * (s - 2) + j
          BY <1>1, <3>1
        <4> HIDE DEF i
        <4>2. h[i] = back[i - 8]
          BY <1>14, <4>1
        <4>3. QED
          BY <1>13, <3>1, <4>1, <4>2 DEF i
      <3>3. 3 * s + 2 + 1 = 3 * s + 3 /\ 3 * s + 2 + 2 = 3 * s + 4 /\ 3 * s + 2 + 3 = 3 * s + 5
        OBVIOUS
      <3>4. 1 \in 1..3 /\ 2 \in 1..3 /\ 3 \in 1..3
        OBVIOUS
      <3>5. h[3 * s + 3] = entry(s - 1)[1] /\ h[3 * s + 4] = entry(s - 1)[2] /\ h[3 * s + 5] = entry(s - 1)[3]
        BY <3>2, <3>3, <3>4
      <3>6. QED
        BY <1>9, <2>1, <3>1, <3>5
    <2>4. QED
      BY <2>2, <2>3
  <1>17. ASSUME NEW i \in 1..dataOffset PROVE Fits(h[i], t)
    <2>1. i \in 1..8 + 3 * (L - 1)
      BY <1>3
    <2>2. CASE i <= 8
      <3>1. h[i] = front[i]
        BY <1>14, <2>1, <2>2
      <3>2. i = 1 \/ i = 2 \/ i = 3 \/ i = 4 \/ i = 5 \/ i = 6 \/ i = 7 \/ i = 8
        BY <2>1, <2>2
      <3>3. mainCode <= t
        BY DEF L, t
      <3>4. h[i] \in Words \/ h[i] = mainCode \/ h[i] = L \/ h[i] = o
        BY <1>5, <1>7, <1>8, <3>1, <3>2
      <3>5. QED
        BY <1>6, <1>7, <3>3, <3>4 DEF Fits
    <2>3. CASE i > 8
      <3>1. i - 8 \in 1..3 * (L - 1) /\ ~ (i <= 8)
        BY <1>1, <2>1, <2>3
      <3>2. h[i] = back[i - 8]
        BY <1>14, <2>1, <3>1
      <3>3. QED
        BY <1>11, <3>1, <3>2 DEF back
    <2>4. QED
      BY <2>1, <2>2, <2>3
  <1>18. QED
    BY <1>2, <1>3, <1>14, <1>15, <1>16, <1>17 DEF L, t

(* The file, up to the section that comes m-th in it.                      *)
Contents(q, head, T, m) ==
  /\ \A i \in 1..dataOffset : q[i] = head[i]
  /\ \A s \in 1..m : \A i \in 1..offset[order[s]] :
       (s = 1 => i > dataOffset) => q[T[s - 1] + i] = fp[order[s]][i]
Fitting(t) == {w \in Nat : Fits(w, t)}

LEMMA BehindHeader ==
  ASSUME Placing, KnownBases, NEW T, IsTotal(T), NEW mainCode \in Nat, mainCode <= T[Len(sections)]
  PROVE  LET q == header(mainCode) \o from(fp[textTarget], Len(header(mainCode)) + 1)
         IN  q \in Seq(Fitting(T[Len(sections)])) /\ Len(q) = T[1] /\ Contents(q, header(mainCode), T, 1)
  <1> DEFINE L == Len(sections)
             h == header(mainCode)
             d == dataOffset
             words == fp[textTarget]
             rest == from(words, Len(h) + 1)
             q == h \o rest
             F == Fitting(T[L])
             o == offset[textTarget]
  <1>1. h \in Seq(Nat) /\ Len(h) = d /\ d \in Nat /\ \A i \in 1..d : Fits(h[i], T[L])
    BY HeaderIs
  <1>2. L \in Nat /\ textTarget \in 1..L /\ o \in Nat /\ words \in Seq(Words) /\ Len(words) = o /\ o >= d
    BY DEF Placing
  <1>3. T[0] = 0 /\ T[1] = o /\ order[1] = textTarget
    <2>1. order[1] = textTarget
      BY <1>2, OrderIs
    <2>2. 1 \in 1..L /\ 1 - 1 = 0
      BY <1>2
    <2>3. T[0] = 0 /\ T[1] = T[0] + offset[order[1]]
      BY <2>2 DEF IsTotal
    <2>4. QED
      BY <1>2, <2>1, <2>3
  <1>4. Words \subseteq F
    BY DEF Fitting, Fits, Words
  <1> HIDE DEF F, L, h, words, d, o
  <1>5. h \in Seq(F)
    <2>1. \A i \in 1..Len(h) : h[i] \in Nat
      BY <1>1, ElementOfSeq
    <2>2. \A i \in 1..Len(h) : h[i] \in F
      BY <1>1, <2>1 DEF F, Fitting
    <2>3. h = [i \in 1..Len(h) |-> h[i]]
      BY <1>1
    <2> QED
      BY <1>1, <2>2, <2>3
  <1>6. rest \in Seq(F) /\ Len(rest) = o - d /\ \A i \in 1..o - d : rest[i] = words[d + i]
    <2>1. words \in Seq(F)
      BY <1>2, <1>4, SeqMonotonic
    <2>2. d + 1 \in Nat \ {0}
      BY <1>1
    <2>3. /\ from(words, d + 1) \in Seq(F)
          /\ Len(from(words, d + 1)) = IF d + 1 <= Len(words) THEN Len(words) - (d + 1) + 1 ELSE 0
          /\ \A k \in 1..Len(words) - (d + 1) + 1 : from(words, d + 1)[k] = words[d + 1 + k - 1]
      BY <2>1, <2>2, FromIs
    <2>4. rest = from(words, d + 1)
      BY <1>1
    <2> HIDE DEF rest
    <2>5. o - (d + 1) + 1 = o - d /\ \A i \in 1..o - d : d + 1 + i - 1 = d + i
      BY <1>1, <1>2
    <2> DEFINE g == from(words, d + 1)
    <2>6. Len(words) - (d + 1) + 1 = o - d
      BY <1>2, <2>5
    <2>7. g \in Seq(F) /\ (\A i \in 1..o - d : g[i] = words[d + 1 + i - 1]) /\ Len(g) = IF d + 1 <= o THEN o - d ELSE 0
      BY <1>2, <2>3, <2>6
    <2>8. (IF d + 1 <= o THEN o - d ELSE 0) = o - d
      BY <1>1, <1>2
    <2> HIDE DEF g
    <2>9. QED
      BY <2>4, <2>5, <2>7, <2>8 DEF g
  <1> HIDE DEF rest
  <1>7. q \in Seq(F) /\ Len(q) = o /\ \A i \in 1..o : q[i] = IF i <= d THEN h[i] ELSE rest[i - d]
    <2>1. /\ q \in Seq(F) /\ Len(q) = Len(h) + Len(rest)
          /\ \A i \in 1..Len(h) + Len(rest) : q[i] = IF i <= Len(h) THEN h[i] ELSE rest[i - Len(h)]
      BY <1>5, <1>6, ConcatProperties
    <2>2. Len(h) + Len(rest) = o
      BY <1>1, <1>2, <1>6
    <2> HIDE DEF q
    <2>3. QED
      BY <1>1, <2>1, <2>2
  <1> HIDE DEF q
  <1>8. \A i \in 1..d : q[i] = h[i]
    <2>1. \A i \in 1..d : i \in 1..o /\ i <= d
      BY <1>1, <1>2
    <2>2. QED
      BY <1>7, <2>1
  <1>9. ASSUME NEW s \in 1..1, NEW i \in 1..offset[order[s]], s = 1 => i > d
        PROVE  q[T[s - 1] + i] = fp[order[s]][i]
    <2>1. s = 1 /\ s - 1 = 0
      OBVIOUS
    <2>2. i \in 1..o /\ i > d /\ T[s - 1] + i = i /\ fp[order[s]] = words
      BY <1>2, <1>3, <1>9, <2>1 DEF o, words
    <2>3. ~ (i <= d) /\ i - d \in 1..o - d /\ d + (i - d) = i
      BY <1>1, <1>2, <2>2
    <2>4. QED
      BY <1>6, <1>7, <2>2, <2>3
  <1>10. Contents(q, h, T, 1)
    BY <1>8, <1>9 DEF Contents, d
  <1>11. QED
    BY <1>3, <1>7, <1>10 DEF F, L, h, q, rest, words

LEMMA SectionJoined ==
  ASSUME Placing, NEW T, IsTotal(T), NEW head, NEW m \in 1..Len(sections) - 1, NEW F, Words \subseteq F,
         NEW q \in Seq(F), Len(q) = T[m], Contents(q, head, T, m)
  PROVE  LET r == q \o fp[order[m + 1]]
         IN  r \in Seq(F) /\ Len(r) = T[m + 1] /\ Contents(r, head, T, m + 1)
  <1> DEFINE L == Len(sections)
             more == fp[order[m + 1]]
             r == q \o more
             o == offset[order[m + 1]]
  <1>1. L \in Nat /\ m + 1 \in 1..L /\ m \in 1..L /\ order \in [1..L -> 1..L]
    <2>1. L \in Nat /\ textTarget \in 1..L
      BY DEF Placing
    <2>2. order \in [1..L -> 1..L]
      BY <2>1, OrderIs
    <2>3. QED
      BY <2>1, <2>2
  <1>2. more \in Seq(Words) /\ Len(more) = o /\ o \in Nat
    BY <1>1 DEF Placing
  <1>3. T[m] \in Nat /\ T[m + 1] = T[m] + o
    <2>1. m \in 0..L /\ m + 1 - 1 = m
      BY <1>1
    <2>2. QED
      BY <1>1, <2>1 DEF IsTotal
  <1>4. /\ \A s \in 0..L : \A k \in 0..s : T[k] <= T[s]
        /\ \A s \in 1..L : offset[order[s]] \in Nat /\ T[s - 1] \in Nat /\ T[s] \in Nat
        /\ \A s \in 1..L : T[s] = T[s - 1] + offset[order[s]]
    BY TotalGrows DEF IsTotal
  <1>5. dataOffset \in Nat /\ dataOffset <= T[m]
    <2>1. dataOffset \in Nat
      BY <1>1 DEF dataOffset, HEADER, SECTION
    <2>2. order[1] = textTarget /\ offset[textTarget] \in Nat
      BY <1>1, OrderIs DEF Placing
    <2>3. 1 \in 1..L /\ 1 - 1 = 0 /\ 1 \in 0..m /\ m \in 0..L
      BY <1>1
    <2>4. T[1] <= T[m] /\ T[0] = 0 /\ T[1] = T[0] + offset[textTarget]
      BY <1>4, <2>2, <2>3 DEF IsTotal
    <2>5. offset[textTarget] >= dataOffset
      BY DEF Placing
    <2>6. QED
      BY <1>3, <2>1, <2>2, <2>4, <2>5
  <1> HIDE DEF L, more, o
  <1>6. /\ r \in Seq(F) /\ Len(r) = T[m + 1]
        /\ \A i \in 1..T[m] + o : r[i] = IF i <= T[m] THEN q[i] ELSE more[i - T[m]]
    <2>1. more \in Seq(F)
      BY <1>2, SeqMonotonic
    <2>2. /\ r \in Seq(F) /\ Len(r) = Len(q) + Len(more)
          /\ \A i \in 1..Len(q) + Len(more) : r[i] = IF i <= Len(q) THEN q[i] ELSE more[i - Len(q)]
      BY <2>1, ConcatProperties
    <2> HIDE DEF r
    <2>3. QED
      BY <1>2, <1>3, <2>2
  <1> HIDE DEF r
  <1>7. \A i \in 1..dataOffset : r[i] = head[i]
    <2>1. \A i \in 1..dataOffset : i \in 1..T[m] + o /\ i <= T[m]
      BY <1>2, <1>3, <1>5
    <2>2. QED
      BY <1>6, <2>1 DEF Contents
  <1>8. ASSUME NEW s \in 1..m + 1, NEW i \in 1..offset[order[s]], s = 1 => i > dataOffset
        PROVE  r[T[s - 1] + i] = fp[order[s]][i]
    <2>1. CASE s = m + 1
      <3>1. s - 1 = m /\ i \in 1..o /\ fp[order[s]] = more
        BY <1>1, <2>1 DEF o, more
      <3>2. T[m] + i \in 1..T[m] + o /\ ~ (T[m] + i <= T[m]) /\ T[m] + i - T[m] = i
        BY <1>2, <1>3, <3>1
      <3>3. QED
        BY <1>6, <3>1, <3>2
    <2>2. CASE s # m + 1
      <3>1. s \in 1..m /\ s \in 1..L /\ s \in 0..m /\ m \in 0..L
        BY <1>1, <2>2
      <3>2. q[T[s - 1] + i] = fp[order[s]][i]
        BY <1>8, <3>1 DEF Contents
      <3>3. T[s] <= T[m] /\ T[s - 1] \in Nat /\ T[s] = T[s - 1] + offset[order[s]] /\ offset[order[s]] \in Nat
        BY <1>4, <3>1
      <3>4. T[s - 1] + i \in 1..T[m] + o /\ T[s - 1] + i <= T[m]
        <4> DEFINE a == T[s - 1]
                   b == T[m]
                   c == offset[order[s]]
        <4>1. a \in Nat /\ b \in Nat /\ c \in Nat /\ o \in Nat /\ a + c <= b /\ i \in 1..c
          BY <1>2, <1>3, <3>3
        <4> HIDE DEF a, b, c, o
        <4>2. a + i \in 1..b + o /\ a + i <= b
          BY <4>1
        <4>3. QED
          BY <4>2 DEF a, b, o
      <3>5. QED
        BY <1>6, <3>2, <3>4
    <2>3. QED
      BY <2>1, <2>2
  <1>9. Contents(r, head, T, m + 1)
    BY <1>7, <1>8 DEF Contents
  <1>10. QED
    BY <1>6, <1>9 DEF r, more

LEMMA JoinedIs ==
  ASSUME Placing, KnownBases, NEW T, IsTotal(T), NEW mainCode \in Nat, mainCode <= T[Len(sections)]
  PROVE  /\ joined(mainCode) \in Seq(Fitting(T[Len(sections)])) /\ Len(joined(mainCode)) = T[Len(sections)]
         /\ Contents(joined(mainCode), header(mainCode), T, Len(sections))
  <1> DEFINE L == Len(sections)
             F == Fitting(T[L])
             h == header(mainCode)
             q == h \o from(fp[textTarget], Len(h) + 1)
             step == [p \in (1..L - 1) \X Seq(F) |-> p[2] \o fp[others[p[1]]]]
             Joins(f) == f = [k \in 0..L - 1 |-> IF k = 0 THEN q ELSE f[k - 1] \o fp[others[k]]]
             joins == CHOOSE f : Joins(f)
  <1>1. L \in Nat /\ L - 1 \in Nat /\ L \in 1..L /\ Len(others) = L - 1
    <2>1. Len(sections) \in Nat /\ textTarget \in 1..Len(sections)
      BY DEF Placing
    <2>2. Len(others) = Len(sections) - 1
      BY <2>1, OrderIs
    <2>3. QED
      BY <2>1, <2>2
  <1>2. \A k \in 1..L - 1 : others[k] = order[k + 1] /\ fp[others[k]] \in Seq(Words)
    <2>1. \A k \in 1..L - 1 : others[k] = order[k + 1]
      BY <1>1, OrderIs DEF Placing
    <2>2. order \in [1..L -> 1..L]
      BY <1>1, OrderIs DEF Placing
    <2>3. \A k \in 1..L - 1 : k + 1 \in 1..L
      BY <1>1
    <2>4. \A s \in 1..L : fp[s] \in Seq(Words)
      BY DEF Placing
    <2>5. QED
      BY <2>1, <2>2, <2>3, <2>4
  <1>3. q \in Seq(F) /\ Len(q) = T[1] /\ Contents(q, h, T, 1)
    BY BehindHeader
  <1>4. Words \subseteq F
    BY DEF Fitting, Fits, Words
  <1>5. joined(mainCode) = joins[L - 1]
    BY <1>1 DEF joined
  <1> HIDE DEF F, q, h
  <1>6. step \in [(1..L - 1) \X Seq(F) -> Seq(F)] /\ \A k \in 1..L - 1, s \in Seq(F) : step[<<k, s>>] = s \o fp[others[k]]
    <2> HIDE DEF L
    <2>1. \A p \in (1..L - 1) \X Seq(F) : p[2] \o fp[others[p[1]]] \in Seq(F)
      <3> TAKE p \in (1..L - 1) \X Seq(F)
      <3>1. p[1] \in 1..L - 1 /\ p[2] \in Seq(F)
        OBVIOUS
      <3>2. fp[others[p[1]]] \in Seq(F)
        BY <1>2, <1>4, <3>1, SeqMonotonic
      <3>3. QED
        BY <3>1, <3>2, ConcatProperties
    <2>2. QED
      BY <2>1
  <1> HIDE DEF step
  <1>7. PICK g \in [0..L - 1 -> Seq(F)] : Recursive(g, L - 1, q, step)
    BY <1>1, <1>3, <1>6, Recursion
  <1>8. Joins(g)
    <2> HIDE DEF L
    <2>1. \A k \in 0..L - 1 : g[k] = IF k = 0 THEN q ELSE step[<<k, g[k - 1]>>]
      BY <1>7 DEF Recursive
    <2>2. \A k \in 0..L - 1 : k # 0 => k \in 1..L - 1 /\ k - 1 \in 0..L - 1
      BY <1>1
    <2>3. \A k \in 0..L - 1 : g[k] = IF k = 0 THEN q ELSE g[k - 1] \o fp[others[k]]
      BY <1>6, <2>1, <2>2
    <2>4. g = [k \in 0..L - 1 |-> g[k]]
      OBVIOUS
    <2>5. QED
      BY <2>3, <2>4
  <1>9. Joins(joins)
    BY <1>8
  <1> HIDE DEF joins
  <1>10. joins[0] = q /\ \A k \in 1..L - 1 : joins[k] = joins[k - 1] \o fp[others[k]]
    <2> HIDE DEF L
    <2>1. \A k \in 0..L - 1 : joins[k] = IF k = 0 THEN q ELSE joins[k - 1] \o fp[others[k]]
      BY <1>9
    <2>2. 0 \in 0..L - 1 /\ \A k \in 1..L - 1 : k \in 0..L - 1 /\ k # 0
      BY <1>1
    <2>3. QED
      BY <2>1, <2>2
  <1> HIDE DEF Joins
  <1> DEFINE S == {k \in Nat : joins[k] \in Seq(F) /\ Len(joins[k]) = T[k + 1] /\ Contents(joins[k], h, T, k + 1)}
  <1>11. 0 \in S
    <2>1. 0 + 1 = 1 /\ 0 \in Nat
      OBVIOUS
    <2>2. joins[0] \in Seq(F) /\ Len(joins[0]) = T[1] /\ Contents(joins[0], h, T, 1)
      BY <1>3, <1>10
    <2>3. QED
      BY <2>1, <2>2
  <1>12. ASSUME NEW k \in 0..L - 1 - 1, k \in S PROVE k + 1 \in S
    <2> DEFINE s == joins[k]
    <2>1. k + 1 \in 1..L - 1 /\ k + 1 - 1 = k /\ k + 1 \in 1..Len(sections) - 1 /\ k + 1 \in Nat
      BY <1>1
    <2>2. s \in Seq(F) /\ Len(s) = T[k + 1] /\ Contents(s, h, T, k + 1)
      BY <1>12
    <2>3. joins[k + 1] = s \o fp[order[k + 1 + 1]]
      <3> DEFINE i == k + 1
      <3>1. i \in 1..L - 1 /\ joins[i - 1] = s
        BY <2>1
      <3> HIDE DEF i, s, L
      <3>2. joins[i] = joins[i - 1] \o fp[others[i]] /\ others[i] = order[i + 1]
        BY <1>2, <1>10, <3>1
      <3>3. QED
        BY <3>1, <3>2 DEF i
    <2> HIDE DEF s
    <2> DEFINE r == s \o fp[order[k + 1 + 1]]
    <2>4. r \in Seq(F) /\ Len(r) = T[k + 1 + 1] /\ Contents(r, h, T, k + 1 + 1)
      BY <1>4, <2>1, <2>2, SectionJoined
    <2>5. joins[k + 1] = r
      BY <2>3
    <2> HIDE DEF r
    <2>6. joins[k + 1] \in Seq(F) /\ Len(joins[k + 1]) = T[k + 1 + 1] /\ Contents(joins[k + 1], h, T, k + 1 + 1)
      BY <2>4, <2>5
    <2>7. QED
      BY <2>1, <2>6
  <1> HIDE DEF S
  <1>13. 0..L - 1 \subseteq S
    BY <1>1, <1>11, <1>12, BoundedInduction
  <1>14. L - 1 \in S /\ L - 1 + 1 = L
    BY <1>1, <1>13
  <1>15. QED
    BY <1>5, <1>14 DEF S, F, h

(* What the finished file holds.                                           *)
BuiltBy(T) ==
  /\ IsTotal(T)
  /\ fp[textTarget] \in Seq(Fitting(T[Len(sections)])) /\ Len(fp[textTarget]) = T[Len(sections)] /\ T[Len(sections)] >= 8
  /\ fp[textTarget][1] = IMAGE_TAG /\ fp[textTarget][2] = IMAGE_VERSION
  /\ \A s \in 1..Len(sections) :
       /\ fp[textTarget][3 * s + 3] = sections[order[s]].base
       /\ fp[textTarget][3 * s + 4] = T[s - 1]
       /\ fp[textTarget][3 * s + 5] = offset[order[s]]
       /\ \A i \in 1..Len(placed) :
            placed[i][1] = order[s] => fp[textTarget][T[s - 1] + placed[i][2] + 1] = placed[i][3]
Built ==
  /\ Len(sections) \in Nat /\ textTarget \in 1..Len(sections) /\ offset \in [1..Len(sections) -> Nat]
  /\ placed \in Seq(Placement) /\ KnownBases
  /\ \E T : BuiltBy(T)

LEMMA FinishBuilds ==
  ASSUME Placing, KnownBases, placed # <<>>, BuildImage(placed[1][2])
  PROVE  Built'
  <1> DEFINE L == Len(sections)
             mainCode == placed[1][2]
             head == header(mainCode)
             q == joined(mainCode)
  <1>1. L \in Nat /\ textTarget \in 1..L /\ offset \in [1..L -> Nat] /\ placed \in Seq(Placement) /\ Len(placed) \in Nat
    BY LenProperties DEF Placing
  <1>2. PICK T : IsTotal(T)
    BY TotalExists
  <1>3. /\ \A s \in 1..L : offset[order[s]] \in Nat /\ T[s - 1] \in Nat
        /\ \A s \in 1..L : offset[s] <= T[L]
    BY <1>2, TotalGrows
  <1>4. mainCode \in Nat /\ mainCode <= T[L]
    <2>1. 1 \in 1..Len(placed)
      BY <1>1, EmptySeq
    <2>2. placed[1] \in Placement /\ Holds(placed[1])
      BY <1>1, <2>1, ElementOfSeq DEF Placing
    <2>3. placed[1][1] \in 1..L /\ mainCode \in Nat /\ mainCode < offset[placed[1][1]]
      BY <2>2 DEF Placement, Holds
    <2>4. offset[placed[1][1]] <= T[L] /\ offset[placed[1][1]] \in Nat
      BY <1>1, <1>3, <2>3
    <2>5. T[L] \in Nat
      BY <1>1, <1>2 DEF IsTotal
    <2> HIDE DEF L, mainCode
    <2>6. QED
      BY <2>3, <2>4, <2>5
  <1>5. /\ q \in Seq(Fitting(T[L])) /\ Len(q) = T[L] /\ Contents(q, head, T, L)
    BY <1>2, <1>4, JoinedIs
  <1>6. /\ dataOffset \in Nat /\ head[1] = IMAGE_TAG /\ head[2] = IMAGE_VERSION
        /\ \A s \in 1..L : /\ head[3 * s + 3] = sections[order[s]].base
                           /\ head[3 * s + 4] = T[s - 1]
                           /\ head[3 * s + 5] = offset[order[s]]
                           /\ 3 * s + 5 <= dataOffset
    BY <1>2, <1>4, HeaderIs
  <1>7. 1 \in 1..L /\ dataOffset >= 8
    BY <1>1, <1>6
  <1>8. \A i \in 1..dataOffset : q[i] = head[i]
    BY <1>5 DEF Contents
  <1>9. ASSUME NEW s \in 1..L
        PROVE  /\ q[3 * s + 3] = sections[order[s]].base /\ q[3 * s + 4] = T[s - 1] /\ q[3 * s + 5] = offset[order[s]]
               /\ \A i \in 1..Len(placed) : placed[i][1] = order[s] => q[T[s - 1] + placed[i][2] + 1] = placed[i][3]
    <2>1. q[3 * s + 3] = sections[order[s]].base /\ q[3 * s + 4] = T[s - 1] /\ q[3 * s + 5] = offset[order[s]]
      <3> HIDE DEF L, q, head
      <3>1. 3 * s + 3 \in 1..dataOffset /\ 3 * s + 4 \in 1..dataOffset /\ 3 * s + 5 \in 1..dataOffset
        <4>1. s \in Nat /\ s >= 1
          BY <1>1
        <4>3. 3 * s + 5 <= dataOffset /\ dataOffset \in Nat
          BY <1>6
        <4>2. QED
          BY <4>1, <4>3
      <3>2. QED
        BY <1>6, <1>8, <3>1
    <2>2. ASSUME NEW i \in 1..Len(placed), placed[i][1] = order[s]
          PROVE  q[T[s - 1] + placed[i][2] + 1] = placed[i][3]
      <3> DEFINE p == placed[i]
                 k == p[2] + 1
      <3>1. p \in Placement /\ Holds(p)
        BY <1>1, ElementOfSeq DEF Placing
      <3> HIDE DEF p, q
      <3>2. p[1] = order[s]
        BY <2>2 DEF p
      <3>3. p[2] \in Nat /\ p[2] < offset[order[s]] /\ fp[order[s]][p[2] + 1] = p[3] /\ (order[s] = textTarget => p[2] >= dataOffset)
        BY <3>1, <3>2 DEF Placement, Holds
      <3>4. order[1] = textTarget /\ offset[order[s]] \in Nat /\ dataOffset \in Nat
        BY <1>1, <1>3, <1>6, OrderIs
      <3> HIDE DEF L
      <3> DEFINE o == offset[order[s]]
      <3>5. k \in 1..o /\ (s = 1 => k > dataOffset)
        <4>1. o \in Nat /\ p[2] < o /\ p[2] \in Nat /\ (s = 1 => p[2] >= dataOffset) /\ dataOffset \in Nat
          BY <3>3, <3>4
        <4> HIDE DEF o
        <4>2. QED
          BY <4>1
      <3> HIDE DEF k
      <3>6. q[T[s - 1] + k] = fp[order[s]][k]
        BY <1>5, <3>5 DEF Contents
      <3>7. T[s - 1] + p[2] + 1 = T[s - 1] + k
        <4>1. T[s - 1] \in Nat /\ p[2] \in Nat
          BY <1>3, <3>3
        <4>2. QED
          BY <4>1 DEF k
      <3>8. QED
        BY <3>3, <3>6, <3>7 DEF p, k
    <2>3. QED
      BY <2>1, <2>2
  <1>10. q[1] = IMAGE_TAG /\ q[2] = IMAGE_VERSION
    <2>1. 1 \in 1..dataOffset /\ 2 \in 1..dataOffset
      BY <1>6, <1>7
    <2>2. QED
      BY <1>6, <1>8, <2>1
  <1>11. T[L] >= 8
    <2>1. offset[textTarget] >= dataOffset /\ offset[textTarget] <= T[L] /\ offset[textTarget] \in Nat
      BY <1>1, <1>3 DEF Placing
    <2>2. T[L] \in Nat
      BY <1>1, <1>2 DEF IsTotal
    <2> HIDE DEF L
    <2>3. QED
      BY <1>6, <1>7, <2>1, <2>2
  <1>12. /\ sections' = sections /\ textTarget' = textTarget /\ offset' = offset /\ placed' = placed
         /\ fp'[textTarget] = q
    <2>1. fp \in [1..L -> Seq(Words)]
      BY DEF Placing
    <2>2. fp' = [fp EXCEPT ![textTarget] = q]
      BY DEF BuildImage
    <2> HIDE DEF q
    <2>3. fp'[textTarget] = q
      BY <1>1, <2>1, <2>2
    <2>4. QED
      BY <2>3 DEF BuildImage
  <1>13. order' = order /\ IsTotal(T)' /\ Placement' = Placement /\ KnownBases'
    BY <1>2, <1>12 DEF order, IsTotal, Placement, KnownBases
  <1> HIDE DEF q
  <1>14. BuiltBy(T)'
    <2>1. fp'[textTarget'] = q /\ sections' = sections /\ offset' = offset /\ placed' = placed /\ order' = order /\ IsTotal(T)'
      BY <1>12, <1>13
    <2>2. q \in Seq(Fitting(T[Len(sections)])) /\ Len(q) = T[Len(sections)] /\ T[Len(sections)] >= 8
      BY <1>5, <1>11
    <2> HIDE DEF L
    <2>3. \A s \in 1..Len(sections) :
            /\ q[3 * s + 3] = sections[order[s]].base /\ q[3 * s + 4] = T[s - 1] /\ q[3 * s + 5] = offset[order[s]]
            /\ \A i \in 1..Len(placed) : placed[i][1] = order[s] => q[T[s - 1] + placed[i][2] + 1] = placed[i][3]
      BY <1>9 DEF L
    <2>4. QED
      BY <1>10, <2>1, <2>2, <2>3 DEF BuiltBy
  <1>15. QED
    BY <1>1, <1>12, <1>13, <1>14 DEF Built

LEMMA WholeIs ==
  ASSUME Built, image = fp[textTarget]
  PROVE  WholeImage
  <1> DEFINE L == Len(sections)
  <1>1. PICK T : BuiltBy(T)
    BY DEF Built
  <1>2. L \in Nat /\ textTarget \in 1..L /\ order \in [1..L -> 1..L] /\ order[1] = textTarget /\ 1 \in 1..L
    <2>1. L \in Nat /\ textTarget \in 1..L
      BY DEF Built
    <2>2. order \in [1..L -> 1..L] /\ order[1] = textTarget
      BY <2>1, OrderIs
    <2>3. QED
      BY <2>1, <2>2
  <1>3. \A s \in 1..L : /\ field(s, 1) = sections[order[s]].base /\ field(s, 2) = T[s - 1] /\ field(s, 3) = offset[order[s]]
                        /\ \A i \in 1..Len(placed) : placed[i][1] = order[s] => image[T[s - 1] + placed[i][2] + 1] = placed[i][3]
    <2> TAKE s \in 1..L
    <2>1. 3 * s + 2 + 1 = 3 * s + 3 /\ 3 * s + 2 + 2 = 3 * s + 4 /\ 3 * s + 2 + 3 = 3 * s + 5
      OBVIOUS
    <2>2. field(s, 1) = fp[textTarget][3 * s + 3] /\ field(s, 2) = fp[textTarget][3 * s + 4] /\ field(s, 3) = fp[textTarget][3 * s + 5]
      BY <2>1 DEF field
    <2>3. QED
      BY <1>1, <2>2 DEF BuiltBy
  <1>4. T[0] = 0 /\ \A s \in 1..L : T[s] = T[s - 1] + offset[order[s]]
    BY <1>1 DEF BuiltBy, IsTotal
  <1> DEFINE Starts(f) == f = [s \in 1..L + 1 |-> IF s = 1 THEN 0 ELSE f[s - 1] + field(s - 1, 3)]
             g == [s \in 1..L + 1 |-> T[s - 1]]
  <1>5. Starts(g)
    <2> HIDE DEF L
    <2>1. \A s \in 1..L + 1 : g[s] = IF s = 1 THEN 0 ELSE g[s - 1] + field(s - 1, 3)
      <3> TAKE s \in 1..L + 1
      <3>1. CASE s = 1
        BY <1>4, <3>1
      <3>2. CASE s # 1
        <4>1. s - 1 \in 1..L /\ s - 1 \in 1..L + 1
          BY <1>2, <3>2
        <4>2. g[s - 1] = T[s - 1 - 1] /\ g[s] = T[s - 1] /\ field(s - 1, 3) = offset[order[s - 1]]
          BY <1>3, <4>1
        <4>3. T[s - 1] = T[s - 1 - 1] + offset[order[s - 1]]
          BY <1>4, <4>1
        <4> HIDE DEF g
        <4>4. QED
          BY <3>2, <4>2, <4>3
      <3>3. QED
        BY <3>1, <3>2
    <2> HIDE DEF g
    <2>2. g = [s \in 1..L + 1 |-> g[s]]
      BY DEF g
    <2>3. QED
      BY <2>1, <2>2
  <1>6. Starts(start)
    BY <1>5 DEF start
  <1> HIDE DEF L
  <1>7. start[1] = 0 /\ \A s \in 1..L : start[s + 1] = start[s] + offset[order[s]]
    <2>1. \A s \in 1..L + 1 : start[s] = IF s = 1 THEN 0 ELSE start[s - 1] + field(s - 1, 3)
      BY <1>6
    <2>2. 1 \in 1..L + 1 /\ \A s \in 1..L : s + 1 \in 1..L + 1 /\ s + 1 # 1 /\ s + 1 - 1 = s
      BY <1>2
    <2>3. QED
      BY <1>3, <2>1, <2>2
  <1> DEFINE S == {s \in Nat : start[s + 1] = T[s]}
  <1>8. 0 \in S
    BY <1>4, <1>7
  <1>9. ASSUME NEW s \in 0..L - 1, s \in S PROVE s + 1 \in S
    <2> DEFINE r == s + 1
    <2>1. r \in 1..L /\ r - 1 = s /\ r \in Nat /\ start[r] = T[r - 1]
      BY <1>2, <1>9
    <2> HIDE DEF r
    <2>2. start[r + 1] = start[r] + offset[order[r]] /\ T[r] = T[r - 1] + offset[order[r]]
      BY <1>4, <1>7, <2>1
    <2>3. QED
      BY <2>1, <2>2 DEF r
  <1> HIDE DEF S
  <1>10. 0..L \subseteq S
    BY <1>2, <1>8, <1>9, BoundedInduction
  <1>11. start[L + 1] = T[L] /\ \A s \in 1..L : start[s] = T[s - 1]
    <2>1. L \in S /\ \A s \in 1..L : s - 1 \in S /\ s - 1 + 1 = s
      BY <1>2, <1>10
    <2>2. QED
      BY <2>1 DEF S
  <1>12. Len(image) = T[L] /\ T[L] >= 8 /\ image[1] = IMAGE_TAG /\ image[2] = IMAGE_VERSION /\ T[L] \in Nat
    <2>1. L \in 0..L
      BY <1>2
    <2>2. QED
      BY <1>1, <2>1 DEF BuiltBy, IsTotal, L
  <1> DEFINE base == sections[textTarget].base
  <1>13. image[6] = base /\ base \in Bases
    <2>1. field(1, 1) = base
      BY <1>2, <1>3
    <2>2. field(1, 1) = image[6]
      BY DEF field
    <2>3. base \in Bases
      BY <1>2 DEF Built, KnownBases, L
    <2>4. QED
      BY <2>1, <2>2, <2>3
  <1> HIDE DEF base
  <1>14. Announced[OpenAndProbeFile(image)] = base
    <2>1. ~ (Len(image) < HEADER \/ image[1] # IMAGE_TAG \/ image[2] # IMAGE_VERSION)
      BY <1>12 DEF HEADER
    <2>2. CASE base = FLASH_BASE
      <3>1. OpenAndProbeFile(image) = "FLASH_WRITE"
        BY <1>13, <2>1, <2>2 DEF OpenAndProbeFile, FLASH_BASE, RAM_BASE, HUB_BASE
      <3>2. QED
        BY <2>2, <3>1 DEF Announced
    <2>3. CASE base = RAM_BASE
      <3>1. OpenAndProbeFile(image) = "RAM_WRITE"
        BY <1>13, <2>1, <2>3 DEF OpenAndProbeFile, FLASH_BASE, RAM_BASE, HUB_BASE
      <3>2. QED
        BY <2>3, <3>1 DEF Announced
    <2>4. CASE base = HUB_BASE
      <3>1. OpenAndProbeFile(image) = "HUB_WRITE"
        BY <1>13, <2>1, <2>4 DEF OpenAndProbeFile, FLASH_BASE, RAM_BASE, HUB_BASE
      <3>2. QED
        BY <2>4, <3>1 DEF Announced
    <2>5. QED
      BY <1>13, <2>2, <2>3, <2>4 DEF Bases
  <1>15. \A s \in 1..L : /\ field(s, 1) = sections[order[s]].base /\ field(s, 2) = start[s]
                         /\ \A i \in 1..Len(placed) : placed[i][1] = order[s] => image[field(s, 2) + placed[i][2] + 1] = placed[i][3]
    BY <1>3, <1>11
  <1>16. QED
    BY <1>11, <1>12, <1>14, <1>15 DEF WholeImage, L, base

-----------------------------------------------------------------------------
(* From the configuration to the image. *)

Compiling ==
  /\ xpc \in {"config", "start"} => placed = <<>> /\ compiled = 0
  /\ xpc \in {"start", "compile"} =>
       /\ sections = config.sections /\ Len(sections) \in Nat /\ KnownBases
       /\ textTarget \in 1..Len(sections) /\ dataTarget \in 1..Len(sections)
  /\ xpc = "compile" =>
       /\ Placing /\ compiled \in 0..Len(task.program)
       /\ Len(placed) = stored(task.program, compiled) /\ (compiled > 0 => placed # <<>>)
  /\ xpc \in {"port", "load", "write", "boot", "connected"} => Built
Compiles == task.command = "xbcom" => Compiling

LEMMA ConfigIs ==
  ASSUME AreBoards(boardConfigs), GetBoardConfig(task.board) # 0
  PROVE  IsBoard(config)
  <1>1. IsSeq(boardConfigs)
    BY DEF AreBoards
  <1>2. GetBoardConfig(task.board) \in 0..Len(boardConfigs) /\ Len(boardConfigs) \in Nat
    BY <1>1, FoundIs, LenProperties DEF IsSeq
  <1> HIDE DEF config
  <1>3. GetBoardConfig(task.board) \in 1..Len(boardConfigs)
    BY <1>2
  <1>4. QED
    BY <1>3 DEF AreBoards, config

LEMMA BlockCompiles ==
  ASSUME IsProgram(task.program), AreBoards(boardConfigs), GetBoardConfig(task.board) # 0, Compiling, xpc = "compile", CompileBlock
  PROVE  Compiling'
  <1> DEFINE program == task.program
             k == compiled + 1
             block == program[k]
  <1>1. /\ Placing /\ compiled \in 0..Len(program) /\ Len(placed) = stored(program, compiled) /\ (compiled > 0 => placed # <<>>)
        /\ sections = config.sections /\ Len(sections) \in Nat /\ KnownBases
        /\ textTarget \in 1..Len(sections) /\ dataTarget \in 1..Len(sections)
    BY DEF Compiling
  <1>2. Len(program) \in Nat /\ compiled < Len(program) /\ compiled' = k /\ task' = task /\ config' = config
    <2>1. compiled < Len(program) /\ compiled' = k /\ task' = task /\ boardConfigs' = boardConfigs
      BY DEF CompileBlock, boardVars, configVars
    <2>2. QED
      BY <2>1, StoredIs, BoardKept
  <1>3. k \in 1..Len(program) /\ k - 1 = compiled /\ compiled \in 0..Len(program) - 1 /\ k \in 0..Len(program)
    BY <1>1, <1>2
  <1>4. stored(program, k) = stored(program, compiled) + Length(block) /\ stored(program, compiled) \in Nat
    BY <1>3, StoredIs
  <1>5. CASE block.to = "fixup"
    <2>1. block.at \in 1..Len(placed) /\ block.value \in Words
      BY <1>1, <1>3, <1>5 DEF IsProgram
    <2>2. WriteSectionOffset(placed[block.at][1], placed[block.at][2], block.value) /\ xpc' = "compile"
      BY <1>2, <1>5 DEF CompileBlock
    <2>3. Placing' /\ Len(placed') = Len(placed)
      BY <1>1, <2>1, <2>2, FixupPlaces
    <2>4. UNCHANGED <<sections, textTarget, dataTarget>>
      BY <2>2 DEF WriteSectionOffset
    <2>5. Length(block) = 0
      BY <1>5 DEF Length
    <2>6. compiled # 0
      <3>1. program[1].to # "fixup"
        BY DEF IsProgram
      <3>2. SUFFICES ASSUME compiled = 0 PROVE FALSE
        OBVIOUS
      <3>3. k = 1
        BY <3>2
      <3>4. QED
        BY <1>5, <3>1, <3>3
    <2>7. placed # <<>> /\ placed \in Seq(Placement) /\ placed' \in Seq(Placement')
      BY <1>1, <1>3, <2>3, <2>6 DEF Placing
    <2>8. placed' # <<>>
      BY <2>3, <2>7, EmptySeq
    <2>9. stored(program, k) = Len(placed')
      BY <1>1, <1>4, <2>3, <2>5
    <2>10. QED
      BY <1>1, <1>2, <1>3, <2>2, <2>3, <2>4, <2>8, <2>9 DEF Compiling, KnownBases
  <1>6. CASE block.to # "fixup" /\ section(block) = 0
    <2>1. xpc' = "exit"
      BY <1>2, <1>6 DEF CompileBlock, exit
    <2>2. QED
      BY <2>1 DEF Compiling
  <1>7. CASE block.to # "fixup" /\ section(block) # 0
    <2>1. WriteSection(section(block), block.words) /\ xpc' = "compile" /\ block.words \in Seq(Words)
      BY <1>2, <1>3, <1>7 DEF CompileBlock, IsProgram
    <2>2. section(block) \in 1..Len(sections)
      <3>1. IsSeq(config.sections)
        BY ConfigIs DEF IsBoard
      <3>2. GetSection(config, <<block.to>>) \in 0..Len(sections)
        BY <1>1, <3>1, SectionIs
      <3>3. section(block) \in 0..Len(sections)
        BY <1>1, <3>2 DEF section
      <3>4. QED
        BY <1>1, <1>7, <3>3
    <2>3. Placing' /\ Len(placed') = Len(placed) + Len(block.words) /\ Len(placed) \in Nat
      BY <1>1, <2>1, <2>2, WritePlaces
    <2>4. UNCHANGED <<sections, textTarget, dataTarget>>
      BY <2>1 DEF WriteSection
    <2>5. Length(block) = Len(block.words) /\ Len(block.words) \in Nat
      BY <1>7, <2>1, LenProperties DEF Length
    <2>6. placed' # <<>>
      <3>1. CASE compiled = 0
        <4>1. block.words # <<>>
          BY <1>3, <3>1 DEF IsProgram
        <4>2. Len(block.words) # 0
          BY <2>1, <4>1, EmptySeq
        <4>3. Len(placed') # 0
          BY <2>3, <2>5, <4>2
        <4>4. QED
          BY <4>3
      <3>2. CASE compiled # 0
        <4>1. placed # <<>> /\ placed \in Seq(Placement)
          BY <1>1, <1>3, <3>2 DEF Placing
        <4>2. Len(placed) # 0
          BY <4>1, EmptySeq
        <4>3. Len(placed') # 0
          BY <2>3, <2>5, <4>2
        <4>4. QED
          BY <4>3
      <3>3. QED
        BY <3>1, <3>2
    <2>7. stored(program, k) = Len(placed')
      BY <1>1, <1>4, <2>3, <2>5
    <2>8. QED
      BY <1>1, <1>2, <1>3, <2>1, <2>3, <2>4, <2>6, <2>7 DEF Compiling, KnownBases
  <1>8. QED
    BY <1>5, <1>6, <1>7

LEMMA CompilesHolds == Spec => []Compiles
  <1>1. Init => Compiles
    <2> SUFFICES ASSUME Init, task.command = "xbcom" PROVE Compiling
      BY DEF Compiles
    <2>1. xpc = "config" /\ placed = <<>> /\ compiled = 0
      BY DEF Init, ImageInit
    <2>2. QED
      BY <2>1 DEF Compiling
  <1>2. Stages /\ BoardsAreRead /\ Compiles /\ [Next]_vars => Compiles'
    <2> SUFFICES ASSUME Stages, BoardsAreRead, Compiling, [Next]_vars, task.command = "xbcom" PROVE Compiling'
      BY BoardSteps DEF Compiles
    <2>1. task' = task /\ AreBoards(boardConfigs) /\ IsProgram(task.program)
      BY BoardSteps, TasksAssumption DEF BoardsAreRead, Stages
    <2>2. ASSUME UNCHANGED <<imageVars, compiled>>
          PROVE  /\ (placed = <<>> /\ compiled = 0 => placed' = <<>> /\ compiled' = 0)
                 /\ (Built => Built')
      <3>1. UNCHANGED <<sections, textTarget, offset, fp, placed>> /\ compiled' = compiled
        BY <2>2 DEF imageVars
      <3>2. order' = order /\ KnownBases' = KnownBases /\ Placement' = Placement
        BY <3>1 DEF order, KnownBases, Placement
      <3>3. ASSUME NEW T, BuiltBy(T) PROVE BuiltBy(T)'
        <4>1. IsTotal(T)'
          BY <3>1, <3>2, <3>3 DEF BuiltBy, IsTotal
        <4>2. QED
          BY <3>1, <3>2, <3>3, <4>1 DEF BuiltBy
      <3>4. QED
        BY <3>1, <3>2, <3>3 DEF Built
    <2>3. CASE EditConfiguration \/ ReadConfiguration \/ ConfigurationError
      <3>1. xpc = "config" /\ xpc' \in {"config", "exit"} /\ UNCHANGED <<imageVars, compiled>>
        BY <2>3 DEF EditConfiguration, ReadConfiguration, ConfigurationError, exit
      <3>2. placed' = <<>> /\ compiled' = 0
        BY <2>2, <3>1 DEF Compiling
      <3>3. QED
        BY <3>1, <3>2 DEF Compiling
    <2>4. CASE SelectBoard
      <3>1. CASE xpc' = "start" /\ InitCompiler(config) /\ GetBoardConfig(task.board) # 0 /\ textTarget' # 0 /\ dataTarget' # 0
        <4>1. UNCHANGED boardVars /\ compiled' = compiled /\ xpc = "config"
          BY <2>4 DEF SelectBoard
        <4>2. config' = config
          BY <2>1, <4>1, BoardKept DEF boardVars, configVars
        <4>3. IsBoard(config) /\ IsSeq(config.sections)
          BY <2>1, <3>1, ConfigIs DEF IsBoard
        <4>4. /\ textTarget' \in 0..Len(config.sections) /\ dataTarget' \in 0..Len(config.sections)
              /\ sections' = config.sections /\ placed' = placed
          BY <3>1, <4>3, SectionIs DEF InitCompiler
        <4>5. Len(config.sections) \in Nat
          BY <4>3, LenProperties DEF IsSeq
        <4>6. textTarget' \in 1..Len(sections') /\ dataTarget' \in 1..Len(sections') /\ Len(sections') \in Nat
          BY <3>1, <4>4, <4>5
        <4>7. KnownBases'
          BY <4>3, <4>4 DEF KnownBases, IsBoard
        <4>8. QED
          BY <3>1, <4>1, <4>2, <4>4, <4>6, <4>7 DEF Compiling
      <3>2. CASE xpc' = "exit"
        BY <3>2 DEF Compiling
      <3>3. QED
        BY <2>4, <3>1, <3>2 DEF SelectBoard, exit
    <2>5. CASE StartCompile
      <3>1. xpc = "start" /\ StartImage /\ xpc' = "compile" /\ UNCHANGED boardVars /\ compiled' = compiled
        BY <2>5 DEF StartCompile
      <3>2. UNCHANGED <<sections, textTarget, dataTarget, placed>>
        BY <3>1 DEF StartImage
      <3>3. Placing'
        BY <3>1, StartPlaces DEF Compiling
      <3>4. config' = config
        BY <2>1, <3>1, BoardKept DEF boardVars, configVars
      <3>5. placed' = <<>> /\ compiled' = 0
        BY <3>1, <3>2 DEF Compiling
      <3>6. Len(task.program) \in Nat /\ stored(task.program, 0) = 0 /\ Len(<<>>) = 0
        BY <2>1, StoredIs, EmptySeq
      <3>7. QED
        BY <2>1, <3>1, <3>2, <3>3, <3>4, <3>5, <3>6 DEF Compiling, KnownBases
    <2>6. CASE CompileBlock
      <3>1. xpc = "compile"
        BY <2>6 DEF CompileBlock
      <3>2. QED
        BY <2>1, <2>6, <3>1, BlockCompiles DEF Stages
    <2>7. CASE FinishImage
      <3>1. /\ xpc = "compile" /\ compiled = Len(task.program) /\ BuildImage(placed[1][2]) /\ xpc' = "port"
        BY <2>7 DEF FinishImage
      <3>2. Len(task.program) # 0
        BY <2>1, EmptySeq DEF IsProgram
      <3>3. Len(task.program) \in Nat
        BY <2>1, StoredIs
      <3>4. Placing /\ KnownBases /\ placed # <<>>
        BY <3>1, <3>2, <3>3 DEF Compiling
      <3>5. Built'
        BY <3>1, <3>4, FinishBuilds
      <3>6. QED
        BY <3>1, <3>5 DEF Compiling
    <2>8. CASE HostAtPort
      <3>1. UNCHANGED <<imageVars, compiled>>
        BY <2>8 DEF HostAtPort, InitPort, LoadImage, WriteFlashLoaderToEEPROM, WriteHubLoaderToEEPROM, Booted, isDevice,
                    WaitForInitialAck, LoadRest, BootHost
      <3>2. xpc \in {"port", "load", "write", "boot", "connected"}
        BY <2>8 DEF HostAtPort, InitPort, LoadImage, WriteFlashLoaderToEEPROM, WriteHubLoaderToEEPROM, Booted, isDevice,
                    WaitForInitialAck, LoadRest, BootHost
      <3>3. xpc' \in {"load", "write", "boot", "connected", "exit"}
        <4>1. CASE InitPort
          BY <4>1 DEF InitPort, exit
        <4>2. CASE LoadImage \/ WriteFlashLoaderToEEPROM \/ WriteHubLoaderToEEPROM
          BY <4>2 DEF LoadImage, WriteFlashLoaderToEEPROM, WriteHubLoaderToEEPROM, ploadbuf, exit
        <4>3. CASE Booted \/ isDevice \/ BootHost
          BY <4>3 DEF Booted, isDevice, BootHost, exit
        <4>4. CASE WaitForInitialAck \/ LoadRest
          BY <4>4 DEF WaitForInitialAck, LoadRest, exit
        <4>5. QED
          BY <2>8, <4>1, <4>2, <4>3, <4>4 DEF HostAtPort
      <3>4. QED
        BY <2>2, <3>1, <3>2, <3>3 DEF Compiling
    <2>9. CASE Line(ChipStep) \/ Line(Stray) \/ Line(Lost) \/ Exited \/ UNCHANGED vars
      <3>1. UNCHANGED <<boardVars, imageVars, xpc, compiled>>
        BY <2>9 DEF Line, Exited, vars
      <3>2. config' = config
        BY <2>1, <3>1, BoardKept DEF boardVars, configVars
      <3>3. Placing => Placing'
        BY <3>1 DEF imageVars, Placing, Placement, Holds, dataOffset
      <3>4. QED
        BY <2>1, <2>2, <3>1, <3>2, <3>3 DEF Compiling, KnownBases, imageVars
    <2>10. QED
      BY <2>3, <2>4, <2>5, <2>6, <2>7, <2>8, <2>9 DEF Next, Host
  <1>3. QED
    BY <1>1, <1>2, StagesHold, BoardsReadHold, PTL DEF Spec

(* The image that xbcom finishes holds every word of the program, also the *)
(* ones that were changed after they were stored, in the section that it   *)
(* was compiled for; its header says where each section is, the sections   *)
(* fill the file, and the host announces the one that has the code         *)
(* (BuildImage of db_wrimage.c, OpenAndProbeFile of db_loader.c).          *)
THEOREM ImageIsWhole == Spec => []ImageFileIsWhole
  <1>1. Compiles => ImageFileIsWhole
    <2> SUFFICES ASSUME Compiles, xpc = "port", task.command = "xbcom" PROVE WholeImage
      BY DEF ImageFileIsWhole
    <2>1. Built
      BY DEF Compiles, Compiling
    <2>2. image = fp[textTarget]
      BY DEF image
    <2>3. QED
      BY <2>1, <2>2, WholeIs
  <1>2. QED
    BY <1>1, CompilesHolds, PTL

-----------------------------------------------------------------------------
(* The bits that the two sides send each other. *)

LEMMA LfsrIs ==
  /\ HandshakeBits \in Nat /\ HandshakeBits >= 1 /\ VersionBits \in Nat /\ VersionBits >= 1
  /\ \A k \in 0..2 * HandshakeBits : lfsr[k] \in Nat /\ lfsr_bit(k) \in 0..1
  /\ \A k \in 0..2 * HandshakeBits - 1 : lfsr[k + 1] = iterate(lfsr[k])
  <1> DEFINE m == 2 * HandshakeBits
             step == [p \in (1..m) \X Nat |-> iterate(p[2])]
             States(f) == f = [k \in 0..m |-> IF k = 0 THEN 80 ELSE iterate(f[k - 1])]
             state == CHOOSE f : States(f)
  <1>1. HandshakeBits \in Nat /\ HandshakeBits >= 1 /\ VersionBits \in Nat /\ VersionBits >= 1 /\ m \in Nat
    BY BootAssumption
  <1>2. \A x \in Nat : iterate(x) \in Nat
    BY DEF iterate
  <1>3. lfsr = [k \in DOMAIN state |-> state[k]]
    BY DEF lfsr
  <1> HIDE DEF m
  <1>4. step \in [(1..m) \X Nat -> Nat] /\ \A k \in 1..m, x \in Nat : step[<<k, x>>] = iterate(x)
    BY <1>2
  <1> HIDE DEF step
  <1>5. PICK g \in [0..m -> Nat] : Recursive(g, m, 80, step)
    BY <1>1, <1>4, Recursion
  <1>6. States(g)
    <2>1. \A k \in 0..m : g[k] = IF k = 0 THEN 80 ELSE step[<<k, g[k - 1]>>]
      BY <1>5 DEF Recursive
    <2>2. \A k \in 0..m : k # 0 => k \in 1..m /\ k - 1 \in 0..m
      BY <1>1
    <2>3. \A k \in 0..m : g[k] = IF k = 0 THEN 80 ELSE iterate(g[k - 1])
      BY <1>4, <1>5, <2>1, <2>2
    <2>4. g = [k \in 0..m |-> g[k]]
      OBVIOUS
    <2>5. QED
      BY <2>3, <2>4
  <1>7. States(state)
    BY <1>6
  <1> HIDE DEF state
  <1>8. DOMAIN state = 0..m
    BY <1>7
  <1>9. state[0] = 80 /\ \A k \in 0..m - 1 : state[k + 1] = iterate(state[k])
    <2>1. \A k \in 0..m : state[k] = IF k = 0 THEN 80 ELSE iterate(state[k - 1])
      BY <1>7
    <2>2. 0 \in 0..m /\ \A k \in 0..m - 1 : k + 1 \in 0..m /\ k + 1 # 0 /\ k + 1 - 1 = k
      BY <1>1
    <2>3. QED
      BY <2>1, <2>2
  <1>10. \A k \in 0..m : state[k] \in Nat
    <2>1. state[0] \in Nat /\ \A k \in 0..m - 1 : state[k] \in Nat => state[k + 1] \in Nat
      <3>1. \A k \in 0..m - 1 : state[k] \in Nat => iterate(state[k]) \in Nat
        BY <1>2
      <3>2. 80 \in Nat
        OBVIOUS
      <3>3. QED
        BY <1>9, <3>1, <3>2
    <2>2. QED
      BY <1>1, <2>1, Stays
  <1>11. \A k \in 0..m : lfsr[k] = state[k]
    BY <1>3, <1>8
  <1>12. \A k \in 0..m - 1 : lfsr[k + 1] = iterate(lfsr[k])
    <2>1. \A k \in 0..m - 1 : k \in 0..m /\ k + 1 \in 0..m
      BY <1>1
    <2>2. QED
      BY <1>9, <1>11, <2>1
  <1>13. \A k \in 0..m : lfsr[k] \in Nat /\ lfsr_bit(k) \in 0..1
    <2> TAKE k \in 0..m
    <2>1. lfsr[k] \in Nat
      BY <1>10, <1>11
    <2>2. QED
      BY <2>1 DEF lfsr_bit
  <1>14. QED
    BY <1>1, <1>12, <1>13 DEF m

LEMMA MagicIs ==
  /\ magic \in Seq(Nat) /\ Len(magic) = HandshakeBits + 1 /\ magic[1] = F9
  /\ \A k \in 1..HandshakeBits : magic[k + 1] = bitbyte(lfsr_bit(k - 1))
  /\ Said = 2 * HandshakeBits + VersionBits + 1 /\ Said \in Nat
  <1> DEFINE m == HandshakeBits
             more == [k \in 1..m |-> bitbyte(lfsr_bit(k - 1))]
  <1>1. m \in Nat /\ VersionBits \in Nat /\ \A k \in 1..m : lfsr_bit(k - 1) \in 0..1
    <2>1. m \in Nat /\ VersionBits \in Nat /\ m >= 1
      BY LfsrIs
    <2>2. \A k \in 0..2 * m : lfsr_bit(k) \in 0..1
      BY LfsrIs
    <2> HIDE DEF m
    <2>3. \A k \in 1..m : k - 1 \in 0..2 * m
      BY <2>1
    <2>4. QED
      BY <2>1, <2>2, <2>3
  <1> HIDE DEF m
  <1>2. more \in Seq(Nat) /\ Len(more) = m /\ \A k \in 1..m : more[k] = bitbyte(lfsr_bit(k - 1))
    <2>1. \A k \in 1..m : bitbyte(lfsr_bit(k - 1)) \in Nat
      BY <1>1 DEF bitbyte
    <2>2. QED
      BY <1>1, <2>1
  <1>3. magic = <<F9>> \o more
    BY DEF magic, m
  <1> HIDE DEF more
  <1>4. <<F9>> \in Seq(Nat) /\ Len(<<F9>>) = 1 /\ <<F9>>[1] = F9
    BY DEF F9
  <1>5. /\ magic \in Seq(Nat) /\ Len(magic) = 1 + m
        /\ \A i \in 1..1 + m : magic[i] = IF i <= 1 THEN <<F9>>[i] ELSE more[i - 1]
    <2> DEFINE head == <<F9>>
    <2>1. head \in Seq(Nat) /\ Len(head) = 1
      BY <1>4
    <2> HIDE DEF head
    <2>2. /\ head \o more \in Seq(Nat) /\ Len(head \o more) = Len(head) + Len(more)
          /\ \A i \in 1..Len(head) + Len(more) : (head \o more)[i] = IF i <= Len(head) THEN head[i] ELSE more[i - Len(head)]
      BY <1>2, <2>1, ConcatProperties
    <2> DEFINE all == head \o more
    <2>3. magic = all
      BY <1>3 DEF head
    <2> HIDE DEF all
    <2>4. all \in Seq(Nat) /\ Len(all) = 1 + m /\ \A i \in 1..1 + m : all[i] = IF i <= 1 THEN head[i] ELSE more[i - 1]
      BY <1>2, <2>1, <2>2 DEF all
    <2>5. QED
      BY <2>3, <2>4 DEF head
  <1>6. magic[1] = F9 /\ \A k \in 1..m : magic[k + 1] = more[k]
    <2>1. 1 \in 1..1 + m /\ \A k \in 1..m : k + 1 \in 1..1 + m /\ ~ (k + 1 <= 1) /\ k + 1 - 1 = k
      BY <1>1
    <2>2. QED
      BY <1>4, <1>5, <2>1
  <1>7. Said = 2 * m + VersionBits + 1
    BY <1>1, <1>5 DEF Said, m
  <1>8. QED
    BY <1>1, <1>2, <1>5, <1>6, <1>7 DEF m

LEMMA ShiftedIs ==
  /\ shifted[0] = Version /\ power[0] = 1
  /\ \A k \in 0..VersionBits : shifted[k] \in Nat /\ power[k] \in Nat
  /\ \A k \in 0..VersionBits - 1 : shifted[k + 1] = shifted[k] \div 2 /\ power[k + 1] = 2 * power[k]
  <1> DEFINE m == VersionBits
             half == [p \in (1..m) \X Nat |-> p[2] \div 2]
             double == [p \in (1..m) \X Nat |-> 2 * p[2]]
             Shift(f) == f = [k \in 0..m |-> IF k = 0 THEN Version ELSE f[k - 1] \div 2]
             Power(f) == f = [k \in 0..m |-> IF k = 0 THEN 1 ELSE 2 * f[k - 1]]
  <1>0. m \in Nat
    BY BootAssumption
  <1>2. shifted = CHOOSE f : Shift(f)
    BY DEF shifted
  <1>3. power = CHOOSE f : Power(f)
    BY DEF power
  <1> HIDE DEF m
  <1>4. Power(power) /\ \A k \in 0..m : power[k] \in Nat
    <2>1. double \in [(1..m) \X Nat -> Nat] /\ \A k \in 1..m, x \in Nat : double[<<k, x>>] = 2 * x
      BY SMT
    <2> HIDE DEF double
    <2>2. PICK g \in [0..m -> Nat] : Recursive(g, m, 1, double)
      BY <1>0, <2>1, Recursion
    <2>3. \A k \in 0..m : g[k] = IF k = 0 THEN 1 ELSE double[<<k, g[k - 1]>>]
      BY <2>2 DEF Recursive
    <2>4. \A k \in 0..m : k # 0 => k \in 1..m /\ k - 1 \in 0..m
      BY <1>0
    <2>5. \A k \in 0..m : g[k] = IF k = 0 THEN 1 ELSE 2 * g[k - 1]
      BY <2>1, <2>2, <2>3, <2>4
    <2>6. g = [k \in 0..m |-> g[k]]
      OBVIOUS
    <2>7. Power(g)
      BY <2>5, <2>6
    <2>8. Power(power)
      BY <1>3, <2>7
    <2>9. power[0] \in Nat /\ \A k \in 0..m - 1 : power[k] \in Nat => power[k + 1] \in Nat
      <3>1. 0 \in 0..m /\ \A k \in 0..m - 1 : k + 1 \in 0..m /\ k + 1 # 0 /\ k + 1 - 1 = k
        BY <1>0
      <3>2. \A k \in 0..m : power[k] = IF k = 0 THEN 1 ELSE 2 * power[k - 1]
        BY <2>8
      <3>3. power[0] = 1 /\ \A k \in 0..m - 1 : power[k + 1] = 2 * power[k]
        BY <3>1, <3>2
      <3>4. QED
        BY <3>3
    <2>10. QED
      BY <1>0, <2>8, <2>9, Stays
  <1>1. m \in Nat /\ Version \in Nat
    <2>1. Version \in 1..power[m] - 1
      BY BootAssumption DEF m
    <2>2. m \in 0..m
      BY <1>0
    <2>3. power[m] \in Nat
      BY <1>4, <2>2
    <2>4. QED
      BY <1>0, <2>1, <2>3
  <1>5. Shift(shifted) /\ \A k \in 0..m : shifted[k] \in Nat
    <2>1. half \in [(1..m) \X Nat -> Nat] /\ \A k \in 1..m, x \in Nat : half[<<k, x>>] = x \div 2
      BY SMT
    <2> HIDE DEF half
    <2>2. PICK g \in [0..m -> Nat] : Recursive(g, m, Version, half)
      BY <1>1, <2>1, Recursion
    <2>3. \A k \in 0..m : g[k] = IF k = 0 THEN Version ELSE half[<<k, g[k - 1]>>]
      BY <2>2 DEF Recursive
    <2>4. \A k \in 0..m : k # 0 => k \in 1..m /\ k - 1 \in 0..m
      BY <1>0
    <2>5. \A k \in 0..m : g[k] = IF k = 0 THEN Version ELSE g[k - 1] \div 2
      BY <2>1, <2>2, <2>3, <2>4
    <2>6. g = [k \in 0..m |-> g[k]]
      OBVIOUS
    <2>7. Shift(g)
      BY <2>5, <2>6
    <2>8. Shift(shifted)
      BY <1>2, <2>7
    <2>9. shifted[0] \in Nat /\ \A k \in 0..m - 1 : shifted[k] \in Nat => shifted[k + 1] \in Nat
      <3>1. 0 \in 0..m /\ \A k \in 0..m - 1 : k + 1 \in 0..m /\ k + 1 # 0 /\ k + 1 - 1 = k
        BY <1>0
      <3>2. \A k \in 0..m : shifted[k] = IF k = 0 THEN Version ELSE shifted[k - 1] \div 2
        BY <2>8
      <3>3. shifted[0] = Version /\ \A k \in 0..m - 1 : shifted[k + 1] = shifted[k] \div 2
        BY <3>1, <3>2
      <3>4. QED
        BY <1>1, <3>3
    <2>10. QED
      BY <1>0, <2>8, <2>9, Stays
  <1>6. \A k \in 0..m : /\ shifted[k] = (IF k = 0 THEN Version ELSE shifted[k - 1] \div 2)
                        /\ power[k] = (IF k = 0 THEN 1 ELSE 2 * power[k - 1])
    BY <1>4, <1>5
  <1>7. 0 \in 0..m /\ \A k \in 0..m - 1 : k + 1 \in 0..m /\ k + 1 # 0 /\ k + 1 - 1 = k
    BY <1>0
  <1>8. /\ shifted[0] = Version /\ power[0] = 1
        /\ \A k \in 0..m - 1 : shifted[k + 1] = shifted[k] \div 2 /\ power[k + 1] = 2 * power[k]
    BY <1>6, <1>7
  <1>9. QED
    BY <1>4, <1>5, <1>8 DEF m

LEMMA AnswerIs ==
  /\ \A k \in 0..HandshakeBits + VersionBits - 1 : answer(k) \in 0..1
  /\ \A k \in 0..HandshakeBits - 1 : answer(k) = lfsr_bit(HandshakeBits + k)
  /\ \A k \in 0..VersionBits - 1 : answer(HandshakeBits + k) = shifted[k] % 2
  <1>1. HandshakeBits \in Nat /\ VersionBits \in Nat
    BY LfsrIs
  <1>2. \A k \in 0..VersionBits - 1 : answer(HandshakeBits + k) = shifted[k] % 2
    <2> TAKE k \in 0..VersionBits - 1
    <2> DEFINE i == HandshakeBits + k
    <2>1. ~ (i < HandshakeBits) /\ i - HandshakeBits = k
      BY <1>1
    <2> HIDE DEF i
    <2>2. answer(i) = shifted[k] % 2
      BY <2>1 DEF answer
    <2>3. QED
      BY <2>2 DEF i
  <1>3. \A k \in 0..HandshakeBits - 1 : answer(k) = lfsr_bit(HandshakeBits + k)
    BY <1>1 DEF answer
  <1>4. ASSUME NEW k \in 0..HandshakeBits + VersionBits - 1 PROVE answer(k) \in 0..1
    <2>1. CASE k < HandshakeBits
      <3>1. HandshakeBits + k \in 0..2 * HandshakeBits
        BY <1>1, <2>1
      <3>2. QED
        BY <2>1, <3>1, LfsrIs DEF answer
    <2>2. CASE ~ (k < HandshakeBits)
      <3>1. k - HandshakeBits \in 0..VersionBits
        BY <1>1, <2>2
      <3>2. shifted[k - HandshakeBits] \in Nat
        BY <3>1, ShiftedIs
      <3>3. QED
        BY <2>2, <3>2 DEF answer
    <2>3. QED
      BY <2>1, <2>2
  <1>5. QED
    BY <1>2, <1>3, <1>4

LEMMA PowersMultiply ==
  \A k \in 0..VersionBits - 1 : power[VersionBits - 1 - k] * power[k] = power[VersionBits - 1]
  <1> DEFINE m == VersionBits - 1
             S == {k \in Nat : power[m - k] * power[k] = power[m]}
  <1>1. m \in Nat /\ VersionBits = m + 1
    BY LfsrIs
  <1>2. power[0] = 1 /\ (\A k \in 0..m + 1 : power[k] \in Nat) /\ \A k \in 0..m : power[k + 1] = 2 * power[k]
    <2>1. power[0] = 1 /\ (\A k \in 0..VersionBits : power[k] \in Nat) /\ \A k \in 0..VersionBits - 1 : power[k + 1] = 2 * power[k]
      BY ShiftedIs
    <2> HIDE DEF m
    <2>2. m + 1 - 1 = m
      BY <1>1
    <2>3. QED
      BY <1>1, <2>1, <2>2
  <1> HIDE DEF m
  <1>3. 0 \in S
    <2>1. m - 0 = m /\ m \in 0..m + 1
      BY <1>1
    <2>2. power[m] * 1 = power[m]
      BY <1>2, <2>1
    <2>3. QED
      BY <1>2, <2>1, <2>2
  <1>4. ASSUME NEW k \in 0..m - 1, k \in S PROVE k + 1 \in S
    <2> DEFINE p == power[m - (k + 1)]
               q == power[k]
    <2>1. m - (k + 1) \in 0..m /\ m - (k + 1) + 1 = m - k /\ k \in 0..m /\ k \in 0..m + 1 /\ m - (k + 1) \in 0..m + 1 /\ k + 1 \in Nat
      BY <1>1
    <2>2. p \in Nat /\ q \in Nat /\ power[m - k] = 2 * p /\ power[k + 1] = 2 * q
      BY <1>2, <2>1
    <2>3. (2 * p) * q = power[m]
      BY <1>4, <2>2
    <2> HIDE DEF p, q
    <2>4. p * (2 * q) = (2 * p) * q
      BY <2>2
    <2>5. power[m - (k + 1)] * power[k + 1] = power[m]
      BY <2>2, <2>3, <2>4 DEF p
    <2>6. QED
      BY <2>1, <2>5
  <1> HIDE DEF S
  <1>5. 0..m \subseteq S
    BY <1>1, <1>3, <1>4, BoundedInduction
  <1>6. QED
    BY <1>5 DEF S, m

(* What the register holds after k bits of the version.                    *)
received(k) == power[VersionBits - k] * (Version - power[k] * shifted[k])

LEMMA VersionArrives ==
  /\ received(0) = 0 /\ received(VersionBits) = Version /\ Version # 0
  /\ \A k \in 0..VersionBits - 1 :
       received(k) \in Int /\ (received(k) \div 2) + (shifted[k] % 2) * power[VersionBits - 1] = received(k + 1)
  <1> DEFINE m == VersionBits
  <1>1. m \in Nat /\ m >= 1
    BY LfsrIs
  <1>2. /\ shifted[0] = Version /\ power[0] = 1
        /\ \A k \in 0..m : shifted[k] \in Nat /\ power[k] \in Nat
        /\ \A k \in 0..m - 1 : shifted[k + 1] = shifted[k] \div 2 /\ power[k + 1] = 2 * power[k]
    BY ShiftedIs
  <1>3. Version \in Nat /\ Version # 0 /\ Version < power[m] /\ power[m] \in Nat
    <2>1. Version \in 1..power[m] - 1
      BY BootAssumption
    <2>2. 0 \in 0..m /\ m \in 0..m
      BY <1>1
    <2>3. Version \in Nat /\ power[m] \in Nat
      BY <1>2, <2>2
    <2>4. QED
      BY <2>1, <2>3
  <1>4. \A k \in 0..m - 1 : power[m - 1 - k] * power[k] = power[m - 1]
    BY PowersMultiply
  <1>5. \A k \in 0..m : received(k) = power[m - k] * (Version - power[k] * shifted[k])
    BY DEF received
  <1> HIDE DEF m
  <1>6. received(0) = 0
    <2>1. 0 \in 0..m /\ m - 0 = m /\ 1 * Version = Version /\ Version - Version = 0 /\ power[m] * 0 = 0
      BY <1>1, <1>3
    <2>2. QED
      BY <1>2, <1>5, <2>1
  <1>7. \A k \in 0..m : power[k] * shifted[k] <= Version
    <2> DEFINE S == {k \in Nat : power[k] * shifted[k] <= Version}
    <2>1. 0 \in S
      BY <1>2, <1>3
    <2>2. ASSUME NEW k \in 0..m - 1, k \in S PROVE k + 1 \in S
      <3> DEFINE q == power[k]
                 s == shifted[k]
                 h == shifted[k + 1]
      <3>1. k \in 0..m /\ k + 1 \in 0..m /\ k + 1 \in Nat
        BY <1>1
      <3>2. q \in Nat /\ s \in Nat /\ h \in Nat /\ h = s \div 2 /\ power[k + 1] = 2 * q /\ q * s <= Version
        BY <1>2, <2>2, <3>1
      <3> HIDE DEF q, s, h
      <3>3. s = 2 * h \/ s = 2 * h + 1
        BY <3>2
      <3>4. (2 * q) * h <= q * s
        <4>1. CASE s = 2 * h
          BY <3>2, <4>1
        <4>2. CASE s = 2 * h + 1
          <5>1. q * (2 * h + 1) = (2 * q) * h + q
            BY <3>2
          <5>2. (2 * q) * h \in Nat
            BY <3>2
          <5>3. QED
            BY <3>2, <4>2, <5>1, <5>2
        <4>3. QED
          BY <3>3, <4>1, <4>2
      <3>5. (2 * q) * h <= Version
        <4>1. (2 * q) * h \in Nat /\ q * s \in Nat
          BY <3>2
        <4>2. QED
          BY <1>3, <3>2, <3>4, <4>1
      <3>6. power[k + 1] * shifted[k + 1] <= Version
        BY <3>2, <3>5 DEF h
      <3>7. QED
        BY <3>1, <3>6
    <2> HIDE DEF S
    <2>3. 0..m \subseteq S
      BY <1>1, <2>1, <2>2, BoundedInduction
    <2>4. QED
      BY <2>3 DEF S
  <1>8. received(m) = Version
    <2> DEFINE p == power[m]
               s == shifted[m]
    <2>1. m \in 0..m /\ m - m = 0
      BY <1>1
    <2>2. p \in Nat /\ s \in Nat /\ p * s <= Version /\ Version < p
      BY <1>2, <1>3, <1>7, <2>1
    <2>3. received(m) = 1 * (Version - p * s)
      BY <1>2, <1>5, <2>1
    <2> HIDE DEF p, s
    <2>4. s = 0
      <3> SUFFICES ASSUME s >= 1 PROVE FALSE
        BY <2>2
      <3>1. p * s >= p
        BY <2>2
      <3>2. p * s \in Nat
        BY <2>2
      <3>3. QED
        BY <1>3, <2>2, <3>1, <3>2
    <2>5. QED
      BY <1>3, <2>2, <2>3, <2>4
  <1>9. ASSUME NEW k \in 0..m - 1
        PROVE  received(k) \in Int /\ (received(k) \div 2) + (shifted[k] % 2) * power[m - 1] = received(k + 1)
    <2> DEFINE p == power[m - 1 - k]
               q == power[k]
               s == shifted[k]
               h == shifted[k + 1]
               r == power[m - 1]
    <2>1. /\ k \in 0..m /\ k + 1 \in 0..m /\ m - 1 - k \in 0..m - 1 /\ m - 1 - k \in 0..m /\ m - 1 - k + 1 = m - k
          /\ m - (k + 1) = m - 1 - k /\ m - 1 \in 0..m
      BY <1>1
    <2>2. /\ p \in Nat /\ q \in Nat /\ s \in Nat /\ h \in Nat /\ r \in Nat /\ h = s \div 2
          /\ power[k + 1] = 2 * q /\ power[m - k] = 2 * p /\ p * q = r
      BY <1>2, <1>4, <2>1
    <2>3. received(k) = (2 * p) * (Version - q * s) /\ received(k + 1) = p * (Version - (2 * q) * h)
      BY <1>5, <2>1, <2>2
    <2> HIDE DEF p, q, s, h, r
    <2> DEFINE a == p * (Version - q * s)
    <2>4. a \in Int /\ received(k) = 2 * a
      BY <1>3, <2>2, <2>3
    <2>5. a + (s % 2) * r = p * (Version - (2 * q) * h)
      <3>1. CASE s = 2 * h /\ s % 2 = 0
        <4>1. q * (2 * h) = (2 * q) * h
          BY <2>2
        <4>2. a = p * (Version - (2 * q) * h)
          BY <3>1, <4>1
        <4>3. 0 * r = 0
          BY <2>2
        <4>4. QED
          BY <2>4, <3>1, <4>2, <4>3
      <3>2. CASE s = 2 * h + 1 /\ s % 2 = 1
        <4> DEFINE v == Version - (2 * q) * h
        <4>1. q * (2 * h + 1) = (2 * q) * h + q /\ (2 * q) * h \in Nat
          BY <2>2
        <4>2. v \in Int /\ Version - q * s = v - q
          BY <1>3, <2>2, <3>2, <4>1
        <4> HIDE DEF v
        <4>3. a = p * (v - q)
          BY <4>2
        <4>4. p * (v - q) = p * v - p * q /\ p * v \in Int /\ p * q \in Int
          BY <2>2, <4>2
        <4>5. a + r = p * v
          BY <2>2, <4>3, <4>4
        <4>6. 1 * r = r
          BY <2>2
        <4>7. QED
          BY <3>2, <4>5, <4>6 DEF v
      <3>3. (s = 2 * h /\ s % 2 = 0) \/ (s = 2 * h + 1 /\ s % 2 = 1)
        BY <2>2
      <3>4. QED
        BY <3>1, <3>2, <3>3
    <2> HIDE DEF a
    <2>6. (2 * a) \div 2 = a
      BY <2>4
    <2>7. QED
      BY <2>3, <2>4, <2>5, <2>6 DEF s, r
  <1>10. QED
    BY <1>3, <1>6, <1>8, <1>9 DEF m

-----------------------------------------------------------------------------
(* The steps of the boot loader and of the two hosts. *)

Elsewhere == {"config", "start", "compile", "port", "load", "write"}
Passed == UNCHANGED <<job, toChip, toHost, chipVars, retry, locals, ring, faults, disturbed>>
GoesOn ==
  /\ Passed
  /\ \/ bpc' = "idle" /\ (IF xpc = "boot" THEN xpc' = "exit" /\ bpc # "reset" ELSE xpc = "connected" /\ xpc' \in {"exit", "write"})
     \/ bpc = "loaded" /\ type = 1 /\ bpc' = "connect" /\ xpc = "boot" /\ xpc' = "boot"
     \/ host = "ide" /\ bpc = "idle" /\ bpc' = "reset" /\ xpc = "boot" /\ xpc' = "boot"

LEMMA StepKinds ==
  ASSUME Stages, [Next]_vars
  PROVE  \/ UNCHANGED bootVars /\ (xpc' = xpc \/ (xpc \in Elsewhere /\ xpc' \in Elsewhere \cup {"exit"}))
         \/ Programs /\ xpc \in {"load", "write"} /\ xpc' = "boot" /\ \E buf, d : ploadbuf(buf, d)
         \/ GoesOn
         \/ WaitForInitialAck
         \/ BootStep /\ xpc = "boot" /\ xpc' = "boot"
         \/ (ChipStep \/ Stray \/ Lost) /\ xpc' = xpc
  <1>1. CASE Host
    <2>1. UNCHANGED bootVars
      BY <1>1 DEF Host, EditConfiguration, ReadConfiguration, ConfigurationError, SelectBoard, StartCompile, CompileBlock, FinishImage
    <2>2. xpc \in {"config", "start", "compile"}
      BY <1>1 DEF Host, EditConfiguration, ReadConfiguration, ConfigurationError, SelectBoard, StartCompile, CompileBlock, FinishImage
    <2>3. xpc' \in {"config", "start", "compile", "port", "exit"}
      <3>1. CASE EditConfiguration \/ ReadConfiguration \/ ConfigurationError
        BY <3>1 DEF EditConfiguration, ReadConfiguration, ConfigurationError, exit
      <3>2. CASE SelectBoard
        BY <3>2 DEF SelectBoard, exit
      <3>3. CASE StartCompile \/ CompileBlock \/ FinishImage
        BY <3>3 DEF StartCompile, CompileBlock, FinishImage, exit
      <3>4. QED
        BY <1>1, <3>1, <3>2, <3>3 DEF Host
    <2>4. QED
      BY <2>1, <2>2, <2>3 DEF Elsewhere
  <1>2. CASE InitPort
    BY <1>2 DEF InitPort, exit, Elsewhere
  <1>3. CASE Programs
    <2>1. xpc \in {"load", "write"}
      BY <1>3 DEF Programs, LoadImage, WriteFlashLoaderToEEPROM, WriteHubLoaderToEEPROM
    <2>2. (\E buf, d : ploadbuf(buf, d)) \/ (UNCHANGED bootVars /\ xpc' = "exit")
      BY <1>3 DEF Programs, LoadImage, WriteFlashLoaderToEEPROM, WriteHubLoaderToEEPROM, exit
    <2>3. (\E buf, d : ploadbuf(buf, d)) => xpc' = "boot"
      BY DEF ploadbuf
    <2>4. QED
      BY <1>3, <2>1, <2>2, <2>3 DEF Elsewhere
  <1>4. CASE Booted
    BY <1>4 DEF Booted, GoesOn, Passed, exit
  <1>5. CASE isDevice
    BY <1>5 DEF isDevice, GoesOn, Passed, exit
  <1>6. CASE LoadRest
    BY <1>6 DEF LoadRest, GoesOn, Passed, exit
  <1>7. CASE BootHost
    BY <1>7 DEF BootHost
  <1>8. CASE Line(ChipStep) \/ Line(Stray) \/ Line(Lost)
    BY <1>8 DEF Line
  <1>9. CASE Exited \/ UNCHANGED vars
    BY <1>9 DEF Exited, vars
  <1>10. QED
    BY <1>1, <1>2, <1>3, <1>4, <1>5, <1>6, <1>7, <1>8, <1>9 DEF Next, HostAtPort, Programs

LEMMA Joined ==
  ASSUME NEW S, NEW p \in Seq(S), NEW q \in Seq(S)
  PROVE  /\ p \o q \in Seq(S) /\ Len(p \o q) = Len(p) + Len(q) /\ Len(p) \in Nat /\ Len(q) \in Nat
         /\ \A i \in 1..Len(p) : (p \o q)[i] = p[i]
         /\ \A i \in 1..Len(q) : (p \o q)[Len(p) + i] = q[i]
  <1>1. Len(p) \in Nat /\ Len(q) \in Nat
    BY LenProperties
  <1> DEFINE r == p \o q
  <1>2. /\ r \in Seq(S) /\ Len(r) = Len(p) + Len(q)
        /\ \A i \in 1..Len(p) + Len(q) : r[i] = IF i <= Len(p) THEN p[i] ELSE q[i - Len(p)]
    BY ConcatProperties
  <1> HIDE DEF r
  <1>3. \A i \in 1..Len(p) : r[i] = p[i]
    <2>1. \A i \in 1..Len(p) : i \in 1..Len(p) + Len(q) /\ i <= Len(p)
      BY <1>1
    <2>2. QED
      BY <1>2, <2>1
  <1>4. \A i \in 1..Len(q) : r[Len(p) + i] = q[i]
    <2>1. \A i \in 1..Len(q) : Len(p) + i \in 1..Len(p) + Len(q) /\ ~ (Len(p) + i <= Len(p)) /\ Len(p) + i - Len(p) = i
      BY <1>1
    <2>2. QED
      BY <1>2, <2>1
  <1>5. QED
    BY <1>1, <1>2, <1>3, <1>4 DEF r

-----------------------------------------------------------------------------
(* The search for the chip.  Where the two sides can be. *)

BootStages == {"idle", "reset", "magic", "drain", "timing", "first", "compare", "bit", "resync", "again", "version", "found",
               "count", "data", "verify", "ack", "loaded", "connect", "failed"}
Early == {"magic", "drain", "timing", "first", "compare", "bit", "resync", "again", "version", "found"}
Controlled ==
  /\ bpc \in BootStages /\ chip \in {"off", "listen", "answer", "command", "run", "program"}
  /\ retry \in -1..1 /\ (bpc \in Early \ {"again"} => retry >= 0)
  /\ device # "propeller" => chip = "off"
  /\ host = "ide" => xpc \in {"boot", "exit"} /\ bpc \in Early \cup {"idle", "reset", "failed"}
Counted ==
  /\ n \in Nat /\ to \in Nat /\ faults \in 0..MaxFaults
  /\ chip = "listen" => answered = 0
  /\ chip = "answer" => answered \in 0..HandshakeBits + VersionBits - 1
Register ==
  /\ bpc \in {"drain", "timing", "first"} => LFSR = lfsr[HandshakeBits]
  /\ bpc = "compare" => n \in 1..HandshakeBits /\ LFSR = lfsr[HandshakeBits + n - 1]
  /\ bpc = "bit" => n \in 1..HandshakeBits - 1 /\ LFSR = lfsr[HandshakeBits + n]
  /\ bpc = "version" => n \in 0..VersionBits

LEMMA BootFacts ==
  /\ HandshakeBits \in Nat \ {0} /\ VersionBits \in Nat \ {0} /\ BitTries \in Nat /\ MaxFaults \in Nat /\ DrainMax \in Nat
  /\ RingSize \in Nat /\ Said \in Nat /\ Said = HandshakeBits + 1 + HandshakeBits + VersionBits
  BY LfsrIs, MagicIs, BootAssumption, RingAssumption

(* Each side goes from one of its stages to the next.                      *)
LEMMA ControlledStep ==
  ASSUME Stages, Controlled, [Next]_vars
  PROVE  Controlled'
  <1> USE DEF Controlled, BootStages, Early
  <1>1. CASE UNCHANGED bootVars /\ (xpc' = xpc \/ (xpc \in Elsewhere /\ xpc' \in Elsewhere \cup {"exit"}))
    BY <1>1 DEF bootVars, job, chipVars, Elsewhere
  <1>2. CASE Programs /\ xpc \in {"load", "write"} /\ xpc' = "boot" /\ \E buf, d : ploadbuf(buf, d)
    BY <1>2 DEF ploadbuf, chipVars
  <1>3. CASE GoesOn
    BY <1>3 DEF GoesOn, Passed, job, chipVars
  <1>4. CASE WaitForInitialAck
    BY <1>4 DEF WaitForInitialAck, exit, job, chipVars
  <1>5. CASE BootStep /\ xpc = "boot" /\ xpc' = "boot"
    <2>1. CASE hwreset
      BY <1>5, <2>1 DEF hwreset, job
    <2>2. CASE SendMagic
      BY <1>5, <2>2 DEF SendMagic, tx, job, chipVars
    <2>3. CASE Drain
      BY <1>5, <2>3 DEF Drain, heard, rx_gives_up, job, chipVars
    <2>4. CASE SendTiming
      BY <1>5, <2>4 DEF SendTiming, tx, job, chipVars
    <2>5. CASE FirstBit
      BY <1>5, <2>5 DEF FirstBit, GotBit, heard, rx_gives_up, job, chipVars
    <2>6. CASE Compare
      BY <1>5, <2>6 DEF Compare, quiet_line, job, chipVars
    <2>7. CASE getBit
      BY <1>5, <2>7 DEF getBit, GotBit, heard, rx_gives_up, job, chipVars
    <2>8. CASE Resync
      BY <1>5, <2>8 DEF Resync, retries_left, quiet_line, heard, rx_gives_up, job, chipVars
    <2>9. CASE VersionBit
      BY <1>5, <2>9 DEF VersionBit, GotBit, heard, rx_gives_up, job, chipVars
    <2>10. CASE findprop
      BY <1>5, <2>10 DEF findprop, quiet_line, job, chipVars
    <2>11. CASE UploadHeader
      BY <1>5, <2>11 DEF UploadHeader, sendlong, tx, job, chipVars
    <2>12. CASE UploadData
      BY <1>5, <2>12 DEF UploadData, sendlong, tx, job, chipVars
    <2>13. CASE AskForAck
      BY <1>5, <2>13 DEF AskForAck, job, chipVars
    <2>14. CASE getAck
      BY <1>5, <2>14 DEF getAck, GotBit, heard, rx_gives_up, job, chipVars
    <2>15. CASE portHandler
      BY <1>5, <2>15 DEF portHandler, job, chipVars
    <2>16. QED
      BY <1>5, <2>1, <2>2, <2>3, <2>4, <2>5, <2>6, <2>7, <2>8, <2>9, <2>10, <2>11, <2>12, <2>13, <2>14, <2>15 DEF BootStep
  <1>6. CASE ChipStep /\ xpc' = xpc
    <2>1. UNCHANGED <<host, device, bpc, retry>>
      BY <1>6 DEF ChipStep, job
    <2>2. CASE ChipListen
      BY <1>6, <2>1, <2>2 DEF ChipListen
    <2>3. CASE ChipAnswer
      BY <1>6, <2>1, <2>3 DEF ChipAnswer
    <2>4. CASE ChipLong
      BY <1>6, <2>1, <2>4 DEF ChipLong
    <2>5. CASE ChipCheck
      BY <1>6, <2>1, <2>5 DEF ChipCheck
    <2>6. CASE ProgramStarts
      BY <1>6, <2>1, <2>6 DEF ProgramStarts
    <2>7. CASE Unheard
      BY <1>6, <2>1, <2>7 DEF Unheard, chipVars
    <2>8. QED
      BY <1>6, <2>2, <2>3, <2>4, <2>5, <2>6, <2>7 DEF ChipStep
  <1>7. CASE (Stray \/ Lost) /\ xpc' = xpc
    BY <1>7 DEF Stray, Lost, job, chipVars
  <1>8. QED
    BY <1>1, <1>2, <1>3, <1>4, <1>5, <1>6, <1>7, StepKinds

(* Faults are counted, and what one did to an answer stays known.          *)
LEMMA FaultKinds ==
  ASSUME Stages, [Next]_vars
  PROVE  (UNCHANGED faults \/ Fault) /\ (disturbed => disturbed')
  <1>1. CASE BootStep
    <2>1. CASE hwreset \/ portHandler
      BY <2>1 DEF hwreset, portHandler
    <2>2. CASE SendMagic \/ SendTiming
      BY <2>2 DEF SendMagic, SendTiming, tx
    <2>3. CASE Drain
      BY <2>3 DEF Drain, heard, rx_gives_up
    <2>4. CASE FirstBit
      BY <2>4 DEF FirstBit, GotBit, heard, rx_gives_up
    <2>5. CASE Compare \/ findprop
      BY <2>5 DEF Compare, findprop, quiet_line
    <2>6. CASE getBit
      BY <2>6 DEF getBit, GotBit, heard, rx_gives_up
    <2>7. CASE Resync
      <3>1. heard(1) \/ rx_gives_up(FALSE) \/ quiet_line
        BY <2>7 DEF Resync
      <3>2. CASE heard(1) \/ quiet_line
        BY <3>2 DEF quiet_line, heard
      <3>3. CASE rx_gives_up(FALSE)
        BY <3>3 DEF rx_gives_up
      <3>4. QED
        BY <3>1, <3>2, <3>3
    <2>8. CASE VersionBit
      BY <2>8 DEF VersionBit, GotBit, heard, rx_gives_up
    <2>9. CASE UploadHeader
      BY <2>9 DEF UploadHeader, sendlong, tx
    <2>10. CASE UploadData
      BY <2>10 DEF UploadData, sendlong, tx
    <2>11. CASE AskForAck
      BY <2>11 DEF AskForAck
    <2>12. CASE getAck
      BY <2>12 DEF getAck, GotBit, heard, rx_gives_up
    <2>13. QED
      BY <1>1, <2>1, <2>2, <2>3, <2>4, <2>5, <2>6, <2>7, <2>8, <2>9, <2>10, <2>11, <2>12 DEF BootStep
  <1>2. CASE ChipStep
    BY <1>2 DEF ChipStep, ChipListen, ChipAnswer, ChipLong, ChipCheck, ProgramStarts, Unheard
  <1>3. CASE Stray \/ Lost
    BY <1>3 DEF Stray, Lost
  <1>4. CASE WaitForInitialAck
    BY <1>4 DEF WaitForInitialAck, heard, rx_gives_up
  <1>5. CASE UNCHANGED bootVars \/ GoesOn \/ \E buf, d : ploadbuf(buf, d)
    BY <1>5 DEF bootVars, GoesOn, Passed, ploadbuf
  <1>6. QED
    BY <1>1, <1>2, <1>3, <1>4, <1>5, StepKinds

LEMMA CountedStep ==
  ASSUME Stages, Controlled, Counted, [Next]_vars
  PROVE  Counted'
  <1> USE DEF Counted
  <1>0. HandshakeBits \in Nat \ {0} /\ VersionBits \in Nat \ {0} /\ MaxFaults \in Nat
    BY BootFacts
  <1>8. faults' \in 0..MaxFaults
    BY <1>0, FaultKinds DEF Fault
  <1>1. CASE UNCHANGED <<n, to, chip, answered>>
    BY <1>1, <1>8
  <1>2. CASE WaitForInitialAck
    BY <1>1, <1>2, <1>8 DEF WaitForInitialAck, locals, chipVars
  <1>3. CASE BootStep
    <2>1. CASE hwreset
      BY <1>8, <1>0, <2>1 DEF hwreset, locals
    <2>2. CASE SendMagic \/ SendTiming
      BY <1>8, <2>2 DEF SendMagic, SendTiming, locals, chipVars
    <2>3. CASE Drain
      BY <1>8, <2>3 DEF Drain, locals, chipVars
    <2>4. CASE FirstBit
      <3>1. n' = 1 \/ n' = n
        BY <2>4 DEF FirstBit
      <3>2. to' = to /\ chip' = chip /\ answered' = answered
        BY <2>4 DEF FirstBit, chipVars
      <3>3. QED
        BY <1>8, <3>1, <3>2
    <2>5. CASE Compare
      BY <1>8, <2>5 DEF Compare, chipVars
    <2>6. CASE getBit
      <3>1. n' = n + 1 \/ n' = n
        BY <2>6 DEF getBit
      <3>2. (to' = to + 1 \/ to' = to) /\ chip' = chip /\ answered' = answered
        BY <2>6 DEF getBit, chipVars
      <3>3. QED
        BY <1>8, <3>1, <3>2
    <2>7. CASE Resync
      <3>1. n' = n + 1 \/ n' = n
        BY <2>7 DEF Resync
      <3>2. (to' = to) /\ chip' = chip /\ answered' = answered
        BY <2>7 DEF Resync, locals, chipVars
      <3>3. QED
        BY <1>8, <3>1, <3>2
    <2>8. CASE VersionBit
      <3>1. n' = n + 1
        BY <2>8 DEF VersionBit
      <3>2. (to' = to) /\ chip' = chip /\ answered' = answered
        BY <2>8 DEF VersionBit, chipVars
      <3>3. QED
        BY <1>8, <3>1, <3>2
    <2>9. CASE findprop
      BY <1>8, <2>9 DEF findprop, chipVars
    <2>10. CASE UploadHeader \/ UploadData
      BY <1>8, <2>10 DEF UploadHeader, UploadData, chipVars
    <2>11. CASE AskForAck \/ portHandler
      BY <1>8, <2>11 DEF AskForAck, portHandler, locals, chipVars
    <2>12. CASE getAck
      <3>1. n' = n + 1 \/ n' = n
        BY <2>12 DEF getAck
      <3>2. (to' = to) /\ chip' = chip /\ answered' = answered
        BY <2>12 DEF getAck, chipVars
      <3>3. QED
        BY <1>8, <3>1, <3>2
    <2>13. QED
      BY <1>3, <2>1, <2>2, <2>3, <2>4, <2>5, <2>6, <2>7, <2>8, <2>9, <2>10, <2>11, <2>12 DEF BootStep
  <1>4. CASE ChipStep
    <2>1. UNCHANGED <<n, to>>
      BY <1>4 DEF ChipStep, locals
    <2>2. CASE ChipListen
      BY <1>8, <1>0, <2>1, <2>2 DEF ChipListen
    <2>3. CASE ChipAnswer
      BY <1>8, <1>0, <2>1, <2>3 DEF ChipAnswer
    <2>4. CASE ChipLong \/ ChipCheck
      BY <1>8, <2>1, <2>4 DEF ChipLong, ChipCheck
    <2>5. CASE ProgramStarts \/ Unheard
      BY <1>8, <2>1, <2>5 DEF ProgramStarts, Unheard, chipVars
    <2>6. QED
      BY <1>4, <2>2, <2>3, <2>4, <2>5 DEF ChipStep
  <1>5. CASE Stray \/ Lost
    BY <1>5, <1>8 DEF Stray, Lost, locals, chipVars
  <1>6. CASE UNCHANGED bootVars \/ GoesOn \/ \E buf, d : ploadbuf(buf, d)
    BY <1>1, <1>6, <1>8 DEF bootVars, GoesOn, Passed, ploadbuf, locals, chipVars
  <1>7. QED
    BY <1>2, <1>3, <1>4, <1>5, <1>6, StepKinds

LEMMA RegisterStep ==
  ASSUME Stages, Controlled, Counted, Register, [Next]_vars
  PROVE  Register'
  <1> USE DEF Register
  <1>0. HandshakeBits \in Nat \ {0} /\ VersionBits \in Nat \ {0} /\ \A k \in 0..2 * HandshakeBits - 1 : lfsr[k + 1] = iterate(lfsr[k])
    BY BootFacts, LfsrIs
  <1>1. CASE UNCHANGED <<bpc, n, LFSR>>
    BY <1>1
  <1>2. CASE BootStep
    <2>1. CASE hwreset
      BY <2>1 DEF hwreset
    <2>2. CASE SendMagic
      BY <2>2 DEF SendMagic, tx
    <2>3. CASE SendTiming
      BY <2>3 DEF SendTiming, tx, locals
    <2>4. CASE Drain
      BY <2>4 DEF Drain, locals
    <2>5. CASE FirstBit
      <3>1. HandshakeBits + 1 - 1 = HandshakeBits /\ 1 \in 1..HandshakeBits
        BY <1>0
      <3>2. QED
        BY <2>5, <3>1 DEF FirstBit
    <2>6. CASE Compare
      <3>1. CASE n = HandshakeBits
        BY <1>0, <2>6, <3>1 DEF Compare
      <3>2. CASE n < HandshakeBits
        <4>1. n \in 1..HandshakeBits - 1 /\ HandshakeBits + n - 1 \in 0..2 * HandshakeBits - 1 /\ HandshakeBits + n - 1 + 1 = HandshakeBits + n
          BY <1>0, <2>6, <3>2 DEF Compare
        <4>2. iterate(LFSR) = lfsr[HandshakeBits + n]
          <5>1. lfsr[HandshakeBits + n - 1 + 1] = iterate(lfsr[HandshakeBits + n - 1])
            BY <1>0, <4>1
          <5>2. LFSR = lfsr[HandshakeBits + n - 1]
            BY <2>6 DEF Compare
          <5>3. QED
            BY <4>1, <5>1, <5>2
        <4>3. LFSR' = iterate(LFSR) /\ (bpc' = "resync" \/ (bpc' = "bit" /\ n' = n))
          BY <1>0, <2>6, <3>2 DEF Compare
        <4>4. QED
          BY <4>1, <4>2, <4>3
      <3>3. QED
        BY <2>6, <3>1, <3>2 DEF Compare
    <2>7. CASE getBit
      <3>1. n + 1 \in 1..HandshakeBits /\ HandshakeBits + (n + 1) - 1 = HandshakeBits + n
        BY <1>0, <2>7 DEF getBit
      <3>2. QED
        BY <2>7, <3>1 DEF getBit
    <2>8. CASE Resync
      BY <2>8 DEF Resync
    <2>9. CASE VersionBit
      BY <1>0, <2>9 DEF VersionBit
    <2>10. CASE findprop
      BY <2>10 DEF findprop
    <2>11. CASE UploadHeader
      BY <2>11 DEF UploadHeader, sendlong, tx
    <2>12. CASE UploadData
      BY <2>12 DEF UploadData, sendlong, tx
    <2>13. CASE AskForAck
      BY <2>13 DEF AskForAck
    <2>14. CASE getAck
      BY <2>14 DEF getAck
    <2>15. CASE portHandler
      BY <2>15 DEF portHandler, locals
    <2>16. QED
      BY <1>2, <2>1, <2>2, <2>3, <2>4, <2>5, <2>6, <2>7, <2>8, <2>9, <2>10, <2>11, <2>12, <2>13, <2>14, <2>15 DEF BootStep
  <1>3. CASE WaitForInitialAck
    BY <1>3 DEF WaitForInitialAck
  <1>4. CASE GoesOn \/ \E buf, d : ploadbuf(buf, d)
    BY <1>4 DEF GoesOn, ploadbuf
  <1>5. CASE ChipStep \/ Stray \/ Lost
    BY <1>1, <1>5 DEF ChipStep, Stray, Lost, locals
  <1>6. CASE UNCHANGED bootVars
    BY <1>1, <1>6 DEF bootVars, locals
  <1>7. QED
    BY <1>2, <1>3, <1>4, <1>5, <1>6, StepKinds

(* What is under way.                                                      *)
Lines ==
  /\ host \in {"loader", "ide"} /\ rxhead \in 0..RXSIZE /\ (host = "loader" => rxhead = 0 /\ rxtail = 0)
  /\ host = "ide" \/ bpc \in Early => toChip \in Seq(Nat) /\ toHost \in Seq(Nat)

timing == [k \in 1..HandshakeBits + VersionBits |-> F9]
LEMMA TimingIs ==
  /\ timing \in Seq(Nat) /\ Len(timing) = HandshakeBits + VersionBits
  /\ \A k \in 1..HandshakeBits + VersionBits : timing[k] = F9
  <1> DEFINE m == HandshakeBits + VersionBits
  <1>1. m \in Nat
    BY BootFacts
  <1> HIDE DEF m
  <1>2. F9 \in Nat
    BY DEF F9
  <1> DEFINE q == [k \in 1..m |-> F9]
  <1>3. q \in Seq(Nat) /\ Len(q) = m /\ \A k \in 1..m : q[k] = F9
    BY <1>1, <1>2
  <1>4. timing = q
    BY DEF timing, m
  <1> HIDE DEF q
  <1>5. QED
    BY <1>3, <1>4 DEF m

LEMMA HeardIs ==
  ASSUME toHost \in Seq(Nat), NEW k \in Nat, heard(k), host \in {"loader", "ide"}
  PROVE  /\ toHost' \in Seq(Nat) /\ Len(toHost') <= Len(toHost)
         /\ rxhead' = rxhead /\ (host = "loader" => rxtail' = rxtail)
  <1>1. CASE host = "ide"
    <2>1. toHost' = toHost /\ rxhead' = rxhead
      BY <1>1 DEF heard
    <2>2. QED
      BY <1>1, <2>1, LenProperties
  <1>2. CASE host = "loader"
    <2>1. toHost' = from(toHost, k + 1) /\ UNCHANGED ring
      BY <1>2 DEF heard
    <2>2. k + 1 \in Nat \ {0} /\ Len(toHost) \in Nat
      BY LenProperties
    <2>3. toHost' \in Seq(Nat) /\ Len(toHost') = IF k + 1 <= Len(toHost) THEN Len(toHost) - (k + 1) + 1 ELSE 0
      BY <2>1, <2>2, FromIs
    <2>4. QED
      BY <2>1, <2>2, <2>3 DEF ring
  <1>3. QED
    BY <1>1, <1>2

(* The handler of the port moves as much as has room, from the place where *)
(* the ring is empty on.                                                   *)
taken == IF Len(toHost) < RXSIZE THEN Len(toHost) ELSE RXSIZE
LEMMA PortHandlerIs ==
  ASSUME portHandler, toHost \in Seq(Nat), rxhead \in 0..RXSIZE
  PROVE  /\ host = "ide" /\ rxhead = rxtail /\ taken \in Nat /\ taken <= Len(toHost) /\ taken <= RXSIZE
         /\ rxqueue' = [i \in 0..RXSIZE |-> IF i \in rxhead..rxhead + taken - 1 THEN toHost[i - rxhead + 1] ELSE rxqueue[i]]
         /\ rxhead' = (rxhead + taken) % RingSize /\ rxhead' \in 0..RXSIZE /\ rxhead' <= rxhead + taken
         /\ toHost' = from(toHost, taken + 1) /\ toHost' \in Seq(Nat) /\ Len(toHost') = Len(toHost) - taken
         /\ \A i \in 1..Len(toHost) - taken : toHost'[i] = toHost[taken + i]
         /\ UNCHANGED <<job, toChip, chipVars, bpc, retry, locals, rxtail, faults, disturbed>>
  <1>1. RingSize \in Nat /\ RingSize >= 1 /\ RXSIZE = RingSize - 1 /\ RXSIZE \in Nat /\ Len(toHost) \in Nat
    BY BootFacts, LenProperties DEF RXSIZE
  <1> DEFINE size == IF rxhead >= rxtail THEN RXSIZE - (rxhead - rxtail) ELSE rxtail - rxhead - 1
             k == IF Len(toHost) < size THEN Len(toHost) ELSE size
  <1>2. rxhead = rxtail
    BY DEF portHandler
  <1>3. size = RXSIZE
    BY <1>1, <1>2
  <1>4. k = taken
    BY <1>3 DEF taken
  <1>5. taken \in Nat /\ taken <= Len(toHost) /\ taken <= RXSIZE
    BY <1>1 DEF taken
  <1>6. /\ host = "ide" /\ rxhead' = (rxhead + k) % RingSize /\ toHost' = from(toHost, k + 1)
        /\ rxqueue' = [i \in 0..RXSIZE |-> IF i \in rxhead..rxhead + k - 1 THEN toHost[i - rxhead + 1] ELSE rxqueue[i]]
        /\ UNCHANGED <<job, toChip, chipVars, bpc, retry, locals, rxtail, faults, disturbed>>
    BY DEF portHandler
  <1> HIDE DEF k, size
  <1>7. (rxhead + taken) % RingSize \in 0..RXSIZE /\ (rxhead + taken) % RingSize <= rxhead + taken
    <2> DEFINE a == rxhead + taken
    <2>1. a \in Nat
      BY <1>1, <1>5
    <2> HIDE DEF a
    <2>2. a % RingSize \in 0..RingSize - 1 /\ a % RingSize <= a
      BY <1>1, <2>1
    <2>3. QED
      BY <1>1, <2>2 DEF a
  <1>8. /\ from(toHost, taken + 1) \in Seq(Nat) /\ Len(from(toHost, taken + 1)) = Len(toHost) - taken
        /\ \A i \in 1..Len(toHost) - taken : from(toHost, taken + 1)[i] = toHost[taken + i]
    <2> DEFINE q == from(toHost, taken + 1)
               t == taken + 1
    <2>1. t \in Nat \ {0} /\ Len(toHost) - t + 1 = Len(toHost) - taken
      BY <1>1, <1>5
    <2>2. q \in Seq(Nat) /\ Len(q) = (IF t <= Len(toHost) THEN Len(toHost) - t + 1 ELSE 0)
          /\ \A i \in 1..Len(toHost) - t + 1 : q[i] = toHost[t + i - 1]
      BY <2>1, FromIs
    <2> HIDE DEF q
    <2>3. Len(q) = Len(toHost) - taken
      BY <1>1, <1>5, <2>2
    <2>4. \A i \in 1..Len(toHost) - taken : t + i - 1 = taken + i
      BY <1>1, <1>5
    <2>5. \A i \in 1..Len(toHost) - taken : q[i] = toHost[taken + i]
      BY <2>1, <2>2, <2>4
    <2>6. QED
      BY <2>2, <2>3, <2>5 DEF q
  <1>9. QED
    BY <1>2, <1>4, <1>5, <1>6, <1>7, <1>8

LEMMA TailIs ==
  ASSUME NEW T, NEW q \in Seq(T), q # <<>>
  PROVE  /\ Tail(q) \in Seq(T) /\ Len(q) \in Nat /\ Len(q) >= 1 /\ Len(Tail(q)) = Len(q) - 1 /\ Head(q) = q[1]
         /\ \A i \in 1..Len(q) - 1 : Tail(q)[i] = q[i + 1]
  <1>1. Len(q) \in Nat /\ Len(q) # 0
    BY LenProperties, EmptySeq
  <1>2. QED
    BY <1>1, HeadTailProperties

LEMMA AddedIs ==
  ASSUME NEW T, NEW q \in Seq(T), NEW x \in T
  PROVE  /\ Append(q, x) \in Seq(T) /\ Len(q) \in Nat /\ Len(Append(q, x)) = Len(q) + 1
         /\ Append(q, x)[Len(q) + 1] = x /\ \A i \in 1..Len(q) : Append(q, x)[i] = q[i]
  BY AppendProperties, LenProperties

(* What the chip does to the bytes under way.                              *)
LEMMA ChipMoves ==
  ASSUME toChip \in Seq(Nat), toHost \in Seq(Nat), Counted, ChipStep
  PROVE  /\ toChip' \in Seq(Nat) /\ toHost' \in Seq(Nat)
         /\ chip # "run" => Len(toHost') + Len(toChip') <= Len(toHost) + Len(toChip)
         /\ UNCHANGED <<job, bpc, retry, locals, ring>>
  <1>0. Len(toChip) \in Nat /\ Len(toHost) \in Nat /\ HandshakeBits \in Nat /\ VersionBits \in Nat
    BY LenProperties, BootFacts
  <1>1. UNCHANGED <<job, bpc, retry, locals, ring>>
    BY DEF ChipStep
  <1>2. CASE ChipListen
    <2>1. toChip' = from(toChip, HandshakeBits + 2) /\ toHost' = toHost /\ Len(toChip) > HandshakeBits
      BY <1>2 DEF ChipListen
    <2>2. HandshakeBits + 2 \in Nat \ {0}
      BY <1>0
    <2>3. /\ from(toChip, HandshakeBits + 2) \in Seq(Nat)
          /\ Len(from(toChip, HandshakeBits + 2)) = IF HandshakeBits + 2 <= Len(toChip) THEN Len(toChip) - (HandshakeBits + 2) + 1 ELSE 0
      BY <2>2, FromIs
    <2>4. QED
      BY <1>0, <1>1, <2>1, <2>3
  <1>3. CASE ChipAnswer
    <2>1. toChip' = Tail(toChip) /\ toChip # <<>> /\ chip = "answer"
      BY <1>3 DEF ChipAnswer
    <2>2. answer(answered) \in 0..1
      BY <2>1, AnswerIs DEF Counted
    <2>3. bitbyte(answer(answered)) \in Nat
      BY <2>2 DEF bitbyte
    <2>4. toHost' = Append(toHost, bitbyte(answer(answered))) \/ toHost' = toHost
      BY <1>3 DEF ChipAnswer
    <2>5. toHost' \in Seq(Nat) /\ Len(toHost') <= Len(toHost) + 1
      <3> DEFINE x == bitbyte(answer(answered))
      <3>1. x \in Nat
        BY <2>3
      <3> HIDE DEF x
      <3>2. Append(toHost, x) \in Seq(Nat) /\ Len(Append(toHost, x)) = Len(toHost) + 1
        BY <3>1, AddedIs
      <3>3. CASE toHost' = Append(toHost, x)
        BY <1>0, <3>2, <3>3
      <3>4. CASE toHost' = toHost
        BY <1>0, <3>4
      <3>5. QED
        BY <2>4, <3>3, <3>4 DEF x
    <2>6. toChip' \in Seq(Nat) /\ Len(toChip') = Len(toChip) - 1
      BY <2>1, TailIs
    <2>7. Len(toHost') \in Nat
      BY <2>5, LenProperties
    <2>8. QED
      BY <1>0, <1>1, <2>5, <2>6, <2>7
  <1>4. CASE ChipLong
    <2>1. toChip' = from(toChip, LONG + 1) /\ toHost' = toHost
      BY <1>4 DEF ChipLong
    <2>2. LONG + 1 \in Nat \ {0}
      BY DEF LONG
    <2>3. from(toChip, LONG + 1) \in Seq(Nat) /\ Len(from(toChip, LONG + 1)) = IF LONG + 1 <= Len(toChip) THEN Len(toChip) - (LONG + 1) + 1 ELSE 0
      BY <2>2, FromIs
    <2>4. QED
      BY <1>0, <1>1, <2>1, <2>2, <2>3
  <1>5. CASE ChipCheck
    <2>1. toChip' = Tail(toChip) /\ toChip # <<>> /\ \E b \in 0..1 : toHost' = Append(toHost, bitbyte(b))
      <3> DEFINE good == ~garbled /\ sum(ram) = TARGET_CHECKSUM
      <3>1. toChip' = Tail(toChip) /\ toChip # <<>> /\ toHost' = Append(toHost, bitbyte(IF good THEN 0 ELSE 1))
        BY <1>5 DEF ChipCheck
      <3> HIDE DEF good
      <3>2. QED
        BY <3>1
    <2>2. \A b \in 0..1 : bitbyte(b) \in Nat
      BY DEF bitbyte
    <2>3. toHost' \in Seq(Nat) /\ Len(toHost') = Len(toHost) + 1
      BY <1>0, <2>1, <2>2, AddedIs
    <2>4. toChip' \in Seq(Nat) /\ Len(toChip') = Len(toChip) - 1
      BY <2>1, TailIs
    <2>5. QED
      BY <1>0, <1>1, <2>3, <2>4
  <1>6. CASE ProgramStarts
    <2>1. toChip' = toChip /\ toHost' = Append(toHost, ACK) /\ chip = "run" /\ ACK \in Nat
      BY <1>6 DEF ProgramStarts, ACK
    <2>2. QED
      BY <1>1, <2>1, AddedIs
  <1>7. CASE Unheard
    <2>1. toChip' = <<>> /\ (toHost' = toHost \o toChip \/ toHost' = toHost)
      BY <1>7 DEF Unheard
    <2>2. toHost \o toChip \in Seq(Nat) /\ Len(toHost \o toChip) = Len(toHost) + Len(toChip)
      BY ConcatProperties
    <2>3. toChip' \in Seq(Nat) /\ Len(toChip') = 0
      BY <2>1, EmptySeq
    <2>4. toHost' \in Seq(Nat) /\ Len(toHost') <= Len(toHost) + Len(toChip)
      <3>1. CASE toHost' = toHost \o toChip
        BY <1>0, <2>2, <3>1
      <3>2. CASE toHost' = toHost
        BY <1>0, <3>2
      <3>3. QED
        BY <2>1, <3>1, <3>2
    <2>5. Len(toHost') \in Nat
      BY <2>4, LenProperties
    <2>6. QED
      BY <1>0, <1>1, <2>3, <2>4, <2>5
  <1>8. QED
    BY <1>2, <1>3, <1>4, <1>5, <1>6, <1>7 DEF ChipStep

(* A write appends, or fails as a whole.                                   *)
LEMMA TxIs ==
  ASSUME toChip \in Seq(Nat), NEW q \in Seq(Nat), NEW then, tx(q, then)
  PROVE  /\ toChip' \in Seq(Nat) /\ Len(toChip) \in Nat /\ Len(q) \in Nat
         /\ \/ toChip' = toChip \o q /\ Len(toChip') = Len(toChip) + Len(q) /\ bpc' = then /\ UNCHANGED <<faults, disturbed>>
            \/ toChip' = toChip /\ Fault /\ disturbed' = TRUE /\ bpc' = IF host = "ide" THEN then ELSE "failed"
  <1>1. Len(toChip) \in Nat /\ Len(q) \in Nat /\ toChip \o q \in Seq(Nat) /\ Len(toChip \o q) = Len(toChip) + Len(q)
    BY ConcatProperties, LenProperties
  <1>2. QED
    BY <1>1 DEF tx

LEMMA ReadKinds ==
  ASSUME Drain \/ FirstBit \/ Compare \/ getBit \/ Resync \/ VersionBit \/ findprop
  PROVE  heard(1) \/ heard(Chunk) \/ UNCHANGED <<toHost, ring>>
  <1>1. CASE Drain
    BY <1>1 DEF Drain, rx_gives_up
  <1>2. CASE FirstBit
    BY <1>2 DEF FirstBit, GotBit, rx_gives_up
  <1>3. CASE Compare \/ findprop
    BY <1>3 DEF Compare, findprop, quiet_line
  <1>4. CASE getBit
    BY <1>4 DEF getBit, GotBit, rx_gives_up
  <1>5. CASE Resync
    BY <1>5 DEF Resync, quiet_line, rx_gives_up
  <1>6. CASE VersionBit
    BY <1>6 DEF VersionBit, GotBit, rx_gives_up
  <1>7. QED
    BY <1>1, <1>2, <1>3, <1>4, <1>5, <1>6

LEMMA LinesStep ==
  ASSUME Stages, Controlled, Counted, Lines, [Next]_vars
  PROVE  Lines'
  <1>0. Chunk \in Nat /\ magic \in Seq(Nat) /\ timing \in Seq(Nat) /\ Strays \subseteq Nat
    BY MagicIs, TimingIs, BootAssumption
  <1>1. /\ host \in {"loader", "ide"} /\ rxhead \in 0..RXSIZE /\ (host = "loader" => rxhead = 0 /\ rxtail = 0)
        /\ host = "ide" \/ bpc \in Early => toChip \in Seq(Nat) /\ toHost \in Seq(Nat)
    BY DEF Lines
  <1>2. CASE UNCHANGED <<job, toChip, toHost, ring>> /\ bpc' \notin Early
    BY <1>1, <1>2 DEF Lines, job, ring
  <1>3. CASE WaitForInitialAck
    <2>1. UNCHANGED <<host, device, dlbuf, type>> /\ toChip' = toChip /\ bpc' \in {"connect", "idle"} /\ (heard(1) \/ rx_gives_up(TRUE))
      BY <1>3 DEF WaitForInitialAck, job
    <2>2. host # "ide"
      BY <1>3 DEF WaitForInitialAck, Controlled, Early
    <2>3. UNCHANGED ring
      BY <1>1, <2>1, <2>2 DEF heard, rx_gives_up
    <2>4. QED
      BY <1>1, <2>1, <2>2, <2>3 DEF Lines, ring, Early
  <1>4. CASE BootStep
    <2>1. CASE hwreset
      <3>1. toChip' = <<>> /\ toHost' = <<>> /\ UNCHANGED <<host, rxhead, rxtail>>
        BY <2>1 DEF hwreset, job, ring
      <3>2. <<>> \in Seq(Nat)
        BY EmptySeq
      <3>3. QED
        BY <1>1, <3>1, <3>2 DEF Lines
    <2>2. CASE SendMagic
      <3>1. tx(magic, "drain") /\ UNCHANGED <<host, rxhead, rxtail, toHost>> /\ bpc \in Early
        BY <2>2 DEF SendMagic, job, ring, Early
      <3>2. toChip' \in Seq(Nat)
        BY <1>0, <1>1, <3>1, TxIs
      <3>3. QED
        BY <1>1, <3>1, <3>2 DEF Lines
    <2>3. CASE SendTiming
      <3>1. tx(timing, "first") /\ UNCHANGED <<host, rxhead, rxtail, toHost>> /\ bpc \in Early
        BY <2>3 DEF SendTiming, job, ring, Early, timing
      <3>2. toChip' \in Seq(Nat)
        BY <1>0, <1>1, <3>1, TxIs
      <3>3. QED
        BY <1>1, <3>1, <3>2 DEF Lines
    <2>4. CASE Drain \/ FirstBit \/ Compare \/ getBit \/ Resync \/ VersionBit \/ findprop
      <3>1. bpc \in Early /\ UNCHANGED <<host, toChip>>
        BY <2>4 DEF Drain, FirstBit, Compare, getBit, Resync, VersionBit, findprop, Early, job
      <3>2. heard(1) \/ heard(Chunk) \/ UNCHANGED <<toHost, ring>>
        BY <2>4, ReadKinds
      <3>3. toHost' \in Seq(Nat) /\ rxhead' = rxhead /\ (host = "loader" => rxtail' = rxtail)
        <4>1. CASE heard(1) \/ heard(Chunk)
          BY <1>0, <1>1, <3>1, <4>1, HeardIs
        <4>2. CASE UNCHANGED <<toHost, ring>>
          BY <1>1, <3>1, <4>2 DEF ring
        <4>3. QED
          BY <3>2, <4>1, <4>2
      <3>4. QED
        BY <1>1, <3>1, <3>3 DEF Lines
    <2>5. CASE UploadHeader \/ UploadData \/ AskForAck
      <3>1. UNCHANGED <<host, rxhead, rxtail>> /\ host # "ide" /\ bpc' \notin Early
        BY <2>5 DEF UploadHeader, UploadData, AskForAck, sendlong, tx, job, ring, Controlled, Early
      <3>2. QED
        BY <1>1, <3>1 DEF Lines
    <2>6. CASE getAck
      <3>1. host # "ide" /\ UNCHANGED host /\ bpc' \notin Early /\ (heard(1) \/ rx_gives_up(TRUE))
        BY <2>6 DEF getAck, GotBit, job, Controlled, Early
      <3>2. UNCHANGED ring
        BY <1>1, <3>1 DEF heard, rx_gives_up
      <3>3. QED
        BY <1>1, <3>1, <3>2 DEF Lines, ring
    <2>7. CASE portHandler
      <3>1. host = "ide"
        BY <2>7 DEF portHandler
      <3>2. toHost' \in Seq(Nat) /\ rxhead' \in 0..RXSIZE /\ UNCHANGED <<host, toChip>>
        BY <1>1, <2>7, <3>1, PortHandlerIs DEF job
      <3>3. RXSIZE' = RXSIZE
        BY DEF RXSIZE
      <3>4. QED
        BY <1>1, <3>1, <3>2, <3>3 DEF Lines
    <2>8. QED
      BY <1>4, <2>1, <2>2, <2>3, <2>4, <2>5, <2>6, <2>7 DEF BootStep
  <1>5. CASE ChipStep
    <2>1. UNCHANGED <<host, bpc, rxhead, rxtail>>
      BY <1>5 DEF ChipStep, job, ring
    <2>2. host = "ide" \/ bpc \in Early => toChip' \in Seq(Nat) /\ toHost' \in Seq(Nat)
      BY <1>1, <1>5, ChipMoves
    <2>3. QED
      BY <1>1, <2>1, <2>2 DEF Lines
  <1>6. CASE Stray
    <2>1. UNCHANGED <<host, bpc, rxhead, rxtail, toChip>> /\ \E b \in Strays : toHost' = Append(toHost, b)
      BY <1>6 DEF Stray, job, ring
    <2>2. toHost \in Seq(Nat) => toHost' \in Seq(Nat)
      BY <1>0, <2>1, AddedIs
    <2>3. QED
      BY <1>1, <2>1, <2>2 DEF Lines
  <1>7. CASE Lost
    <2>1. UNCHANGED <<host, bpc, rxhead, rxtail, toHost>> /\ toChip' = Tail(toChip) /\ toChip # <<>>
      BY <1>7 DEF Lost, job, ring
    <2>2. toChip \in Seq(Nat) => toChip' \in Seq(Nat)
      BY <2>1, TailIs
    <2>3. QED
      BY <1>1, <2>1, <2>2 DEF Lines
  <1>8. CASE UNCHANGED bootVars
    BY <1>1, <1>8 DEF Lines, bootVars, job, ring
  <1>9. CASE GoesOn
    BY <1>1, <1>9 DEF Lines, GoesOn, Passed, job, ring, Early
  <1>10. CASE Programs /\ xpc \in {"load", "write"} /\ \E buf, d : ploadbuf(buf, d)
    BY <1>1, <1>10 DEF Lines, ploadbuf, ring, Early
  <1>11. QED
    BY <1>3, <1>4, <1>5, <1>6, <1>7, <1>8, <1>9, <1>10, StepKinds

-----------------------------------------------------------------------------
(* The ring of the IDE: what it has received, what is under way to it, and *)
(* what can still come, have room in it.                                   *)

Unsent == IF bpc = "magic" THEN Said ELSE IF bpc \in {"drain", "timing"} THEN HandshakeBits + VersionBits ELSE 0
Ahead ==
  IF bpc \in {"reset", "again"} \/ (bpc = "idle" /\ xpc = "boot")
    THEN IF retry = 1 THEN Said + Said ELSE IF retry = 0 THEN Said ELSE 0
    ELSE IF retry = 1 THEN Said ELSE 0
Swallowed == IF chip = "answer" THEN HandshakeBits + 1 + answered ELSE IF chip = "command" THEN Said ELSE 0
Due == (((rxhead + Len(toHost)) + Len(toChip)) + Unsent) + Ahead
RingLasts ==
  host = "ide" =>
    /\ chip \in {"off", "listen", "answer", "command"} /\ longs = <<>>
    /\ chip # "off" => Swallowed + Len(toChip) + Unsent <= Said
    /\ Due + (MaxFaults - faults) <= RingSize

LEMMA RingLastsStep ==
  ASSUME Stages, Controlled, Counted, Lines, RingLasts, [Next]_vars
  PROVE  RingLasts'
  <1> SUFFICES ASSUME host' = "ide" PROVE RingLasts'
    BY DEF RingLasts
  <1> DEFINE h == Len(toHost)
             c == Len(toChip)
             f == MaxFaults - faults
             faults1 == faults'
             rxhead1 == rxhead'
             Unsent1 == Unsent'
             Ahead1 == Ahead'
             Swallowed1 == Swallowed'
             Due1 == Due'
             h1 == Len(toHost')
             c1 == Len(toChip')
             f1 == MaxFaults - faults1
             H == HandshakeBits
             V == VersionBits
  <1>1. /\ H \in Nat /\ H >= 1 /\ V \in Nat /\ V >= 1 /\ MaxFaults \in Nat /\ RingSize \in Nat /\ RXSIZE = RingSize - 1
        /\ Said \in Nat /\ Said = H + 1 + H + V
    BY BootFacts DEF RXSIZE
  <1>2. Controlled' /\ Counted' /\ Lines' /\ (faults1 = faults \/ (faults1 = faults + 1 /\ faults < MaxFaults))
    BY ControlledStep, CountedStep, LinesStep, FaultKinds DEF Fault
  <1>3. host = "ide"
    BY StepKinds DEF bootVars, job, ploadbuf, GoesOn, Passed, WaitForInitialAck, BootStep, hwreset, SendMagic, Drain, SendTiming, FirstBit,
       Compare, getBit, Resync, VersionBit, findprop, UploadHeader, UploadData, AskForAck, getAck, portHandler, ChipStep, Stray, Lost
  <1>4. /\ toChip \in Seq(Nat) /\ toHost \in Seq(Nat) /\ h \in Nat /\ c \in Nat /\ rxhead \in Nat
        /\ toChip' \in Seq(Nat) /\ toHost' \in Seq(Nat) /\ h1 \in Nat /\ c1 \in Nat /\ rxhead1 \in Nat
    BY <1>1, <1>2, <1>3, LenProperties DEF Lines
  <1>5. faults \in 0..MaxFaults /\ faults1 \in 0..MaxFaults /\ retry \in -1..1 /\ retry' \in -1..1 /\ f \in Nat
    BY <1>1, <1>2 DEF Counted, Controlled
  <1>6. /\ chip \in {"off", "listen", "answer", "command"} /\ longs = <<>>
        /\ chip # "off" => Swallowed + c + Unsent <= Said
        /\ Due + f <= RingSize
    BY <1>3 DEF RingLasts
  <1>7. Unsent \in Nat /\ Ahead \in Nat /\ Unsent1 \in Nat /\ Ahead1 \in Nat
    BY <1>1 DEF Unsent, Ahead
  <1> HIDE DEF faults1
  <1>8. f1 = f \/ (f >= 1 /\ f1 = f - 1)
    BY <1>1, <1>2, <1>5
  <1>20. Due = (((rxhead + h) + c) + Unsent) + Ahead /\ Due1 = (((rxhead1 + h1) + c1) + Unsent1) + Ahead1
    BY DEF Due
  <1> HIDE DEF h, c, f, H, V, h1, c1, f1, faults1, rxhead1, Unsent1, Ahead1, Swallowed1, Due1
  <1>21. Due \in Nat /\ Due1 \in Nat
    BY <1>4, <1>7, <1>20
  <1> DEFINE Chips == chip' \in {"off", "listen", "answer", "command"} /\ longs' = <<>> /\ (chip' # "off" => Swallowed1 + c1 + Unsent1 <= Said)
  <1>9. SUFFICES Chips /\ (Due1 <= Due \/ (f1 = f - 1 /\ Due1 <= Due + 1))
    <2>1. Due1 + f1 <= RingSize
      BY <1>1, <1>5, <1>6, <1>8, <1>9, <1>21
    <2>2. QED
      BY <1>9, <2>1 DEF RingLasts, f1, c1, faults1, Unsent1, Swallowed1, Due1
  <1>10. CASE BootStep /\ xpc = "boot" /\ xpc' = "boot"
    <2>1. CASE hwreset
      <3>1. toChip' = <<>> /\ toHost' = <<>> /\ rxhead1 = rxhead /\ retry' = retry /\ longs' = <<>> /\ chip' \in {"listen", "off"}
        BY <2>1 DEF hwreset, ring, rxhead1
      <3>2. Len(<<>>) = 0
        OBVIOUS
      <3>3. c1 = 0 /\ h1 = 0
        BY <3>1, <3>2 DEF h1, c1
      <3>4. Swallowed1 = 0
        BY <3>1 DEF Swallowed, Swallowed1, H, V
      <3>5. bpc \in {"reset", "again"} /\ bpc' = IF retry < 0 THEN "failed" ELSE "magic"
        BY <2>1 DEF hwreset
      <3>6. Unsent1 <= Said /\ Unsent1 + Ahead1 <= Ahead
        BY <1>1, <1>5, <3>1, <3>5 DEF Unsent, Ahead, Unsent1, Ahead1, H, V
      <3>7. Due1 <= Due
        BY <1>20, <1>4, <1>7, <3>1, <3>3, <3>6
      <3>8. Chips
        BY <1>1, <1>7, <3>1, <3>3, <3>4, <3>6
      <3>9. QED
        BY <3>7, <3>8
    <2>2. CASE SendMagic
      <3>1. tx(magic, "drain") /\ bpc = "magic" /\ UNCHANGED <<toHost, chip, answered, longs, retry>> /\ rxhead1 = rxhead
        BY <2>2 DEF SendMagic, ring, chipVars, rxhead1
      <3>2. bpc' = "drain" /\ c1 <= c + H + 1
        <4>1. magic \in Seq(Nat) /\ Len(magic) = H + 1
          BY MagicIs DEF H
        <4>2. bpc' = "drain" /\ (toChip' = toChip \/ Len(toChip') = Len(toChip) + Len(magic))
          BY <1>3, <1>4, <3>1, <4>1, TxIs
        <4>3. c1 = c \/ c1 = c + (H + 1)
          BY <4>1, <4>2 DEF c, c1
        <4>4. QED
          BY <1>1, <1>4, <4>2, <4>3
      <3>3. Unsent = Said /\ Unsent1 = H + V /\ Ahead1 = Ahead /\ Swallowed1 = Swallowed
        BY <3>1, <3>2 DEF Unsent, Ahead, Swallowed, Unsent1, Ahead1, H, V, Swallowed1
      <3>4. h1 = h
        BY <3>1 DEF h, h1
      <3>5. Swallowed \in Nat
        BY <1>1 DEF Swallowed, Counted, Swallowed1, H, V
      <3>6. Due1 <= Due
        BY <1>20, <1>1, <1>4, <1>7, <3>1, <3>2, <3>3, <3>4
      <3>7. Chips
        BY <1>1, <1>4, <1>6, <1>7, <3>1, <3>2, <3>3, <3>5
      <3>8. QED
        BY <3>6, <3>7
    <2>3. CASE SendTiming
      <3>1. tx(timing, "first") /\ bpc = "timing" /\ UNCHANGED <<toHost, chip, answered, longs, retry>> /\ rxhead1 = rxhead
        BY <2>3 DEF SendTiming, timing, ring, chipVars, rxhead1
      <3>2. bpc' = "first" /\ c1 <= c + H + V
        <4>1. timing \in Seq(Nat) /\ Len(timing) = H + V
          BY TimingIs DEF H, V
        <4>2. bpc' = "first" /\ (toChip' = toChip \/ Len(toChip') = Len(toChip) + Len(timing))
          BY <1>3, <1>4, <3>1, <4>1, TxIs
        <4>3. c1 = c \/ c1 = c + (H + V)
          BY <4>1, <4>2 DEF c, c1
        <4>4. QED
          BY <1>1, <1>4, <4>2, <4>3
      <3>3. Unsent = H + V /\ Unsent1 = 0 /\ Ahead1 = Ahead /\ Swallowed1 = Swallowed
        BY <3>1, <3>2 DEF Unsent, Ahead, Swallowed, Unsent1, Ahead1, H, V, Swallowed1
      <3>4. h1 = h
        BY <3>1 DEF h, h1
      <3>5. Swallowed \in Nat
        BY <1>1 DEF Swallowed, Counted, Swallowed1, H, V
      <3>6. Due1 <= Due
        BY <1>20, <1>1, <1>4, <1>7, <3>1, <3>2, <3>3, <3>4
      <3>7. Chips
        BY <1>1, <1>4, <1>6, <1>7, <3>1, <3>2, <3>3, <3>5
      <3>8. QED
        BY <3>6, <3>7
    <2>4. CASE Drain \/ FirstBit \/ Compare \/ getBit \/ Resync \/ VersionBit \/ findprop
      <3>1. UNCHANGED <<toChip, chip, answered, longs>>
        BY <2>4 DEF Drain, FirstBit, Compare, getBit, Resync, VersionBit, findprop, chipVars
      <3>2. heard(1) \/ heard(Chunk) \/ UNCHANGED <<toHost, ring>>
        BY <2>4, ReadKinds
      <3>3. toHost' = toHost /\ rxhead1 = rxhead
        BY <1>3, <3>2 DEF heard, ring, rxhead1
      <3>4. Unsent1 <= Unsent /\ Ahead1 <= Ahead
        <4>1. CASE Drain
          <5>1. bpc = "drain" /\ bpc' \in {"drain", "timing"} /\ retry' = retry
            BY <4>1 DEF Drain
          <5>2. QED
            BY <1>1, <5>1 DEF Unsent, Ahead, Unsent1, Ahead1, H, V
        <4>2. CASE FirstBit
          <5>1. bpc = "first" /\ bpc' \in {"compare", "failed"} /\ retry' = retry
            BY <4>2 DEF FirstBit
          <5>2. QED
            BY <1>1, <5>1 DEF Unsent, Ahead, Unsent1, Ahead1, H, V
        <4>3. CASE Compare
          <5>1. bpc = "compare" /\ bpc' \in {"version", "bit", "resync"} /\ retry' = retry
            BY <4>3 DEF Compare
          <5>2. QED
            BY <1>1, <5>1 DEF Unsent, Ahead, Unsent1, Ahead1, H, V
        <4>4. CASE getBit
          <5>1. bpc = "bit" /\ bpc' \in {"compare", "bit", "failed"} /\ retry' = retry
            BY <4>4 DEF getBit
          <5>2. QED
            BY <1>1, <5>1 DEF Unsent, Ahead, Unsent1, Ahead1, H, V
        <4>5. CASE Resync
          <5>1. bpc = "resync" /\ ((bpc' = "resync" /\ retry' = retry) \/ (bpc' = "again" /\ retry' = retry - 1))
            BY <4>5 DEF Resync, retries_left
          <5>2. QED
            BY <1>1, <1>5, <5>1 DEF Unsent, Ahead, Unsent1, Ahead1, H, V
        <4>6. CASE VersionBit
          BY <1>1, <4>6 DEF VersionBit, Unsent, Ahead, Unsent1, Ahead1, H, V
        <4>7. CASE findprop
          BY <1>1, <4>7 DEF findprop, Unsent, Ahead, Unsent1, Ahead1, H, V
        <4>8. QED
          BY <2>4, <4>1, <4>2, <4>3, <4>4, <4>5, <4>6, <4>7
      <3>5. h1 = h /\ c1 = c /\ Swallowed1 = Swallowed
        BY <3>1, <3>3 DEF Swallowed, Swallowed1, h, h1, c, c1
      <3>6. Swallowed \in Nat
        BY <1>1 DEF Swallowed, Counted, Swallowed1, H, V
      <3>7. Due1 <= Due
        BY <1>4, <1>7, <1>20, <3>3, <3>4, <3>5
      <3>8. Chips
        BY <1>1, <1>4, <1>6, <1>7, <3>1, <3>4, <3>5, <3>6
      <3>9. QED
        BY <3>7, <3>8
    <2>5. CASE UploadHeader \/ UploadData \/ AskForAck \/ getAck
      BY <1>3, <2>5 DEF UploadHeader, UploadData, AskForAck, getAck, Controlled, Early
    <2>6. CASE portHandler
      <3>1. /\ taken \in Nat /\ h1 = h - taken /\ rxhead1 <= rxhead + taken
            /\ UNCHANGED <<toChip, chipVars, bpc, retry>>
        BY <1>3, <1>4, <2>6, PortHandlerIs DEF Lines, h, h1, rxhead1
      <3>2. UNCHANGED <<chip, answered, longs>> /\ c1 = c
        BY <3>1 DEF chipVars, c, c1
      <3>3. Unsent1 = Unsent /\ Ahead1 = Ahead /\ Swallowed1 = Swallowed
        BY <1>10, <3>1, <3>2 DEF Unsent, Ahead, Swallowed, Unsent1, Ahead1, H, V, Swallowed1
      <3>4. Due1 <= Due /\ Chips
        BY <1>20, <1>4, <1>6, <1>7, <3>1, <3>2, <3>3
      <3>5. QED
        BY <3>4
    <2>7. QED
      BY <1>10, <2>1, <2>2, <2>3, <2>4, <2>5, <2>6 DEF BootStep
  <1>11. CASE ChipStep /\ xpc' = xpc
    <2>1. UNCHANGED <<bpc, retry>> /\ rxhead1 = rxhead
      BY <1>11 DEF ChipStep, ring, rxhead1
    <2>2. Unsent1 = Unsent /\ Ahead1 = Ahead
      BY <1>11, <2>1 DEF Unsent, Ahead, Unsent1, Ahead1, H, V
    <2>3. h1 + c1 <= h + c
      BY <1>4, <1>6, <1>11, ChipMoves DEF h, c, h1, c1
    <2>4. Due1 <= Due
      BY <1>4, <1>7, <1>20, <2>1, <2>2, <2>3
    <2>6. Chips
      <3>1. CASE ChipListen
        <4>1. toChip' = from(toChip, H + 2) /\ longs' = longs /\ chip = "listen" /\ c > H /\ answered' = 0 /\ chip' \in {"answer", "off"}
          BY <3>1 DEF ChipListen, H, c
        <4>2. H + 2 \in Nat \ {0}
          BY <1>1
        <4>3. c1 = IF H + 2 <= c THEN c - (H + 2) + 1 ELSE 0
          BY <1>4, <4>1, <4>2, FromIs DEF c, c1
        <4>4. c1 + H + 1 <= c
          <5>1. QED
            BY <1>1, <1>4, <4>1, <4>3
        <4>5. Swallowed = 0 /\ (Swallowed1 = H + 1 + 0 \/ chip' = "off")
          BY <4>1 DEF Swallowed, Swallowed1, H, V
        <4>6. QED
          BY <1>1, <1>4, <1>6, <1>7, <2>2, <4>1, <4>4, <4>5
      <3>2. CASE ChipAnswer
        <4>1. toChip' = Tail(toChip) /\ toChip # <<>> /\ answered' = answered + 1 /\ longs' = longs /\ chip = "answer"
              /\ chip' = IF answered' = H + V THEN "command" ELSE "answer"
          BY <3>2 DEF ChipAnswer, H, V
        <4>2. c1 = c - 1
          BY <1>4, <4>1, TailIs DEF c, c1
        <4>3. answered \in Nat /\ Swallowed = H + 1 + answered
          BY <1>1, <4>1 DEF Counted, Swallowed, Swallowed1, H, V
        <4>4. Swallowed1 = H + 1 + answered + 1
          BY <1>1, <4>1, <4>3 DEF Swallowed, Swallowed1, H, V
        <4>5. QED
          BY <1>1, <1>4, <1>6, <1>7, <2>2, <4>1, <4>2, <4>3, <4>4
      <3>3. CASE ChipLong \/ ChipCheck
        <4>1. chip = "command" /\ c >= 1
          <5>1. CASE ChipLong
            BY <1>4, <5>1 DEF ChipLong, LONG, c
          <5>2. CASE ChipCheck
            BY <1>4, <5>2, TailIs DEF ChipCheck, c
          <5>3. QED
            BY <3>3, <5>1, <5>2 DEF ChipLong, ChipCheck
        <4>2. Swallowed = Said
          BY <4>1 DEF Swallowed, Swallowed1, H, V
        <4>3. QED
          BY <1>1, <1>4, <1>6, <1>7, <4>1, <4>2
      <3>4. CASE ProgramStarts
        BY <1>6, <3>4 DEF ProgramStarts
      <3>5. CASE Unheard
        <4>1. chip = "off" /\ UNCHANGED <<chip, longs>>
          BY <1>6, <3>5 DEF Unheard, chipVars
        <4>2. QED
          BY <1>6, <4>1
      <3>6. QED
        BY <1>11, <3>1, <3>2, <3>3, <3>4, <3>5 DEF ChipStep
    <2>7. QED
      BY <2>4, <2>6
  <1>12. CASE Stray /\ xpc' = xpc
    <2>1. UNCHANGED <<toChip, chipVars, bpc, retry>> /\ rxhead1 = rxhead /\ faults1 = faults + 1
      BY <1>12 DEF Stray, Fault, faults1, ring, rxhead1
    <2>2. f1 = f - 1
      BY <1>1, <1>5, <2>1 DEF f, f1
    <2>3. h1 = h + 1
      <3>1. PICK b \in Strays : toHost' = Append(toHost, b)
        BY <1>12 DEF Stray
      <3>2. b \in Nat
        BY BootAssumption
      <3>3. QED
        BY <1>4, <3>1, <3>2, AddedIs DEF h, h1
    <2>4. UNCHANGED <<chip, longs, answered>> /\ c1 = c /\ Unsent1 = Unsent /\ Ahead1 = Ahead /\ Swallowed1 = Swallowed
      BY <1>12, <2>1 DEF chipVars, c, c1, Swallowed, Swallowed1, Unsent, Ahead, Swallowed, Unsent1, Ahead1, H, V, Swallowed1
    <2>5. Chips
      BY <1>6, <2>4
    <2>6. Due1 <= Due + 1
      BY <1>20, <1>4, <1>7, <2>1, <2>3, <2>4
    <2>7. QED
      BY <2>2, <2>5, <2>6
  <1>13. CASE Lost /\ xpc' = xpc
    <2>1. chip = "command" /\ toChip # <<>>
      BY <1>13 DEF Lost
    <2>2. Swallowed = Said /\ c >= 1
      BY <1>4, <2>1, TailIs DEF c, Swallowed, Swallowed1, H, V
    <2>3. QED
      BY <1>1, <1>4, <1>6, <1>7, <2>1, <2>2
  <1>14. CASE UNCHANGED bootVars /\ (xpc' = xpc \/ (xpc \in Elsewhere /\ xpc' \in Elsewhere \cup {"exit"}))
    <2>1. xpc' = xpc
      BY <1>3, <1>14 DEF Controlled, Elsewhere
    <2>2. UNCHANGED <<toChip, toHost, chip, longs, answered, bpc, retry>> /\ rxhead1 = rxhead
      BY <1>14 DEF bootVars, chipVars, ring, rxhead1
    <2>3. h1 = h /\ c1 = c /\ Unsent1 = Unsent /\ Ahead1 = Ahead /\ Swallowed1 = Swallowed
      BY <2>1, <2>2 DEF h, h1, c, c1, Unsent, Ahead, Swallowed, Unsent1, Ahead1, H, V, Swallowed1
    <2>4. Due1 <= Due
      BY <1>4, <1>7, <1>20, <2>2, <2>3
    <2>5. QED
      BY <1>6, <2>2, <2>3, <2>4
  <1>15. CASE GoesOn
    <2>1. UNCHANGED <<toChip, toHost, chip, longs, answered, retry>> /\ rxhead1 = rxhead
      BY <1>15 DEF GoesOn, Passed, chipVars, ring, rxhead1
    <2>2. h1 = h /\ c1 = c /\ Swallowed1 = Swallowed
      BY <2>1 DEF h, h1, c, c1, Swallowed, Swallowed1, H, V
    <2>3. Unsent1 = 0 /\ Ahead1 <= Ahead
      BY <1>1, <1>3, <1>5, <1>15, <2>1 DEF GoesOn, Unsent, Ahead, Controlled, Early, Unsent1, Ahead1, H, V
    <2>4. Swallowed \in Nat
      BY <1>1 DEF Swallowed, Counted, Swallowed1, H, V
    <2>5. Due1 <= Due
      BY <1>4, <1>7, <1>20, <2>1, <2>2, <2>3
    <2>6. Chips
      BY <1>1, <1>4, <1>6, <1>7, <2>1, <2>2, <2>3, <2>4
    <2>7. QED
      BY <2>5, <2>6
  <1>16. CASE WaitForInitialAck
    BY <1>3, <1>16 DEF WaitForInitialAck, Controlled, Early
  <1>17. CASE Programs /\ xpc \in {"load", "write"}
    BY <1>3, <1>17 DEF Controlled
  <1>18. QED
    BY <1>10, <1>11, <1>12, <1>13, <1>14, <1>15, <1>16, <1>17, StepKinds

LEMMA RingHasRoom ==
  ASSUME Controlled, Counted, Lines, RingLasts, host = "ide"
  PROVE  rxhead + Len(toHost) <= RingSize
  <1> DEFINE h == Len(toHost)
             c == Len(toChip)
             f == MaxFaults - faults
  <1>1. toChip \in Seq(Nat) /\ toHost \in Seq(Nat) /\ h \in Nat /\ c \in Nat /\ rxhead \in Nat /\ RingSize \in Nat
    BY BootFacts, LenProperties DEF Lines, RXSIZE
  <1>2. Unsent \in Nat /\ Ahead \in Nat /\ f \in Nat
    BY BootFacts DEF Unsent, Ahead, Counted
  <1>3. ((((rxhead + h) + c) + Unsent) + Ahead) + f <= RingSize
    BY DEF RingLasts, Due
  <1> HIDE DEF h, c, f
  <1>4. rxhead + h <= RingSize
    BY <1>1, <1>2, <1>3
  <1>5. QED
    BY <1>4 DEF h

-----------------------------------------------------------------------------
(* The bytes that the host has still to read: those in the ring, then      *)
(* those under way.                                                        *)

waiting == IF rxhead >= rxtail THEN rxhead - rxtail ELSE RingSize - rxtail
unread == waiting + Len(toHost)
incoming(i) == IF i <= waiting THEN rxqueue[rxtail + i - 1] ELSE toHost[i - waiting]
RingInOrder == rxtail \in 0..RXSIZE /\ (rxtail <= rxhead \/ rxhead = 0)

LEMMA WaitingIs ==
  ASSUME RingInOrder, rxhead \in 0..RXSIZE, toHost \in Seq(Nat)
  PROVE  /\ waiting \in Nat /\ unread \in Nat /\ (waiting = 0 <=> rxhead = rxtail)
         /\ unread = 0 <=> ~Arriving
  <1>1. RingSize \in Nat /\ RingSize >= 1 /\ RXSIZE = RingSize - 1 /\ Len(toHost) \in Nat
    BY BootFacts, LenProperties DEF RXSIZE
  <1>2. waiting \in Nat /\ (waiting = 0 <=> rxhead = rxtail)
    BY <1>1 DEF waiting, RingInOrder
  <1>3. unread \in Nat /\ (unread = 0 <=> waiting = 0 /\ Len(toHost) = 0)
    BY <1>1, <1>2 DEF unread
  <1>4. Len(toHost) = 0 <=> toHost = <<>>
    BY EmptySeq
  <1>5. QED
    BY <1>2, <1>3, <1>4 DEF Arriving

LEMMA Wraps ==
  ASSUME NEW N \in Nat, N >= 1, NEW a \in Nat, a <= N
  PROVE  (a < N => a % N = a) /\ (a = N => a % N = 0)
  <1>1. a < N => a % N = a
    OBVIOUS
  <1>2. N % N = 0
    OBVIOUS
  <1>3. QED
    BY <1>1, <1>2

(* A line on which nothing arrives is in order.                            *)
LEMMA Silence ==
  ASSUME ~Arriving, rxhead \in 0..RXSIZE
  PROVE  RingInOrder
  <1>1. rxhead = rxtail /\ RXSIZE \in Int
    BY BootFacts DEF Arriving, RXSIZE
  <1>2. QED
    BY <1>1 DEF RingInOrder

LEMMA PortMoves ==
  ASSUME portHandler, RingInOrder, toHost \in Seq(Nat), rxhead \in 0..RXSIZE, rxhead + Len(toHost) <= RingSize
  PROVE  RingInOrder' /\ unread' = unread /\ \A i \in 1..unread : incoming(i)' = incoming(i)
  <1> DEFINE k == taken
             m == Len(toHost)
             s == rxhead
             s1 == rxhead'
             w1 == waiting'
  <1>1. /\ RingSize \in Nat /\ RingSize >= 1 /\ RXSIZE = RingSize - 1 /\ m \in Nat
    BY BootFacts, LenProperties DEF RXSIZE
  <1>2. /\ s = rxtail /\ rxtail' = rxtail /\ k \in Nat /\ k <= m /\ k <= RXSIZE
        /\ rxqueue' = [i \in 0..RXSIZE |-> IF i \in rxhead..rxhead + k - 1 THEN toHost[i - rxhead + 1] ELSE rxqueue[i]]
        /\ s1 = (s + k) % RingSize /\ Len(toHost') = m - k
        /\ \A i \in 1..m - k : toHost'[i] = toHost[k + i]
    BY PortHandlerIs
  <1>3. k >= 1 \/ RXSIZE = 0
    <2>1. m # 0
      BY EmptySeq DEF portHandler
    <2>2. QED
      BY <1>1, <2>1 DEF taken
  <1> HIDE DEF k
  <1>4. s \in Nat /\ s + k <= RingSize /\ s <= RXSIZE
    BY <1>1, <1>2
  <1>5. (s + k < RingSize /\ s1 = s + k) \/ (s + k = RingSize /\ s1 = 0)
    <2> DEFINE a == s + k
    <2>1. a \in Nat /\ a <= RingSize
      BY <1>1, <1>2, <1>4
    <2>2. s1 = a % RingSize
      BY <1>2
    <2> HIDE DEF a, s1
    <2>3. (a < RingSize => a % RingSize = a) /\ (a = RingSize => a % RingSize = 0)
      BY <1>1, <2>1, Wraps
    <2>5. a < RingSize \/ a = RingSize
      BY <1>1, <2>1
    <2>4. QED
      BY <2>2, <2>3, <2>5 DEF a
  <1>6. w1 = k /\ RingInOrder'
    <2>1. w1 = IF s1 >= s THEN s1 - s ELSE RingSize - s
      BY <1>2 DEF waiting
    <2>2. RingInOrder' <=> (s \in 0..RXSIZE /\ (s <= s1 \/ s1 = 0))
      BY <1>2 DEF RingInOrder, RXSIZE
    <2> HIDE DEF s, s1, w1
    <2>3. CASE s + k < RingSize /\ s1 = s + k
      BY <1>1, <1>2, <1>4, <2>1, <2>2, <2>3
    <2>4. CASE s + k = RingSize /\ s1 = 0
      BY <1>1, <1>2, <1>3, <1>4, <2>1, <2>2, <2>4
    <2>5. QED
      BY <1>5, <2>3, <2>4
  <1>7. waiting = 0
    BY <1>2, <1>4 DEF waiting
  <1>8. unread = m /\ unread' = m
    <2>1. unread = 0 + m /\ unread' = k + (m - k)
      BY <1>2, <1>6, <1>7 DEF unread
    <2> HIDE DEF m
    <2>2. QED
      BY <1>1, <1>2, <2>1
  <1>9. ASSUME NEW i \in 1..m PROVE incoming(i)' = incoming(i)
    <2>1. incoming(i) = toHost[i]
      BY <1>1, <1>7, <1>9 DEF incoming
    <2>2. incoming(i)' = IF i <= k THEN rxqueue'[s + i - 1] ELSE toHost'[i - k]
      BY <1>2, <1>6 DEF incoming
    <2>3. CASE i <= k
      <3>1. s + i - 1 \in 0..RXSIZE /\ s + i - 1 \in s..s + k - 1 /\ s + i - 1 - s + 1 = i
        <4> HIDE DEF m, s
        <4>1. QED
          BY <1>1, <1>2, <1>4, <2>3
      <3>2. rxqueue'[s + i - 1] = toHost[s + i - 1 - s + 1]
        BY <1>2, <3>1
      <3>3. QED
        BY <2>1, <2>2, <2>3, <3>1, <3>2
    <2>4. CASE ~ (i <= k)
      <3>1. i - k \in 1..m - k /\ k + (i - k) = i
        <4> HIDE DEF m, s
        <4>1. QED
          BY <1>1, <1>2, <2>4
      <3>2. QED
        BY <1>2, <2>1, <2>2, <2>4, <3>1
    <2>5. QED
      BY <2>3, <2>4
  <1>10. QED
    BY <1>6, <1>8, <1>9

(* A call for one byte takes the next.                                     *)
LEMMA HearsNext ==
  ASSUME heard(1), RingInOrder, toHost \in Seq(Nat), rxhead \in 0..RXSIZE, host \in {"loader", "ide"},
         host = "loader" => rxhead = 0 /\ rxtail = 0
  PROVE  /\ RingInOrder' /\ unread \in Nat /\ unread >= 1 /\ unread' = unread - 1 /\ first = incoming(1)
         /\ \A i \in 1..unread - 1 : incoming(i)' = incoming(i + 1)
  <1>1. RingSize \in Nat /\ RingSize >= 1 /\ RXSIZE = RingSize - 1 /\ Len(toHost) \in Nat /\ RXSIZE' = RXSIZE
    BY BootFacts, LenProperties DEF RXSIZE
  <1>2. waiting \in Nat /\ unread \in Nat
    BY WaitingIs
  <1>3. CASE host = "ide"
    <2> DEFINE s == rxhead
               t == rxtail
               t1 == rxtail'
               w == waiting
               w1 == waiting'
               m == Len(toHost)
    <2>1. s # t /\ toHost' = toHost /\ rxqueue' = rxqueue /\ rxhead' = s /\ t1 = place(taken_from_ring(1))
      BY <1>3 DEF heard
    <2>2. taken_from_ring(1) = 1
      BY DEF taken_from_ring
    <2>3. place(1) = (t + 1) % RingSize
      <3>1. (1 * (1 + 1)) \div 2 = 1
        OBVIOUS
      <3>2. QED
        BY <3>1 DEF place
    <2>4. t1 = (t + 1) % RingSize
      BY <2>1, <2>2, <2>3
    <2>5. s \in Nat /\ t \in Nat /\ s <= RXSIZE /\ t <= RXSIZE /\ (t <= s \/ s = 0)
      BY <1>1 DEF RingInOrder
    <2>6. w = (IF s >= t THEN s - t ELSE RingSize - t) /\ w1 = IF s >= t1 THEN s - t1 ELSE RingSize - t1
      BY <2>1 DEF waiting
    <2>7. RingInOrder' <=> (t1 \in 0..RXSIZE /\ (t1 <= s \/ s = 0))
      BY <1>1, <2>1 DEF RingInOrder
    <2>8. first = rxqueue[t]
      BY <1>3 DEF first
    <2>9. unread = w + m /\ unread' = w1 + m
      BY <2>1 DEF unread
    <2>10. \A i : incoming(i) = (IF i <= w THEN rxqueue[t + i - 1] ELSE toHost[i - w])
      BY DEF incoming
    <2>11. \A i : incoming(i)' = IF i <= w1 THEN rxqueue[t1 + i - 1] ELSE toHost[i - w1]
      BY <2>1 DEF incoming
    <2> HIDE DEF s, t, t1, w, w1, m
    <2>12. w \in Nat /\ w >= 1 /\ w1 = w - 1 /\ RingInOrder' /\ (w1 >= 1 => t1 = t + 1)
      <3>1. CASE t + 1 < RingSize
        <4>1. t1 = t + 1
          BY <1>1, <2>4, <2>5, <3>1, Wraps
        <4>2. QED
          BY <1>1, <2>1, <2>5, <2>6, <2>7, <3>1, <4>1
      <3>2. CASE t + 1 = RingSize
        <4>1. t1 = 0
          BY <1>1, <2>4, <2>5, <3>2, Wraps
        <4>2. QED
          BY <1>1, <2>1, <2>5, <2>6, <2>7, <3>2, <4>1
      <3>3. QED
        BY <1>1, <2>5, <3>1, <3>2
    <2>13. first = incoming(1)
      BY <2>5, <2>8, <2>10, <2>12
    <2>14. m \in Nat
      BY <1>1 DEF m
    <2>15. ASSUME NEW i \in 1..w + m - 1 PROVE incoming(i)' = incoming(i + 1)
      <3>1. CASE i <= w1
        <4>1. i + 1 <= w /\ t1 + i - 1 = t + (i + 1) - 1
          BY <2>5, <2>12, <3>1
        <4>2. QED
          BY <2>10, <2>11, <3>1, <4>1
      <3>2. CASE ~ (i <= w1)
        <4>1. ~ (i + 1 <= w) /\ i - w1 = (i + 1) - w
          BY <2>12, <3>2
        <4>2. QED
          BY <2>10, <2>11, <3>2, <4>1
      <3>3. QED
        BY <3>1, <3>2
    <2>16. unread >= 1 /\ unread' = unread - 1
      BY <2>9, <2>12, <2>14
    <2>17. \A i \in 1..unread - 1 : incoming(i)' = incoming(i + 1)
      <3>1. unread - 1 = w + m - 1
        BY <2>9, <2>12, <2>14
      <3>2. QED
        BY <2>15, <3>1
    <2>18. QED
      BY <1>2, <2>12, <2>13, <2>16, <2>17
  <1>4. CASE host = "loader"
    <2>1. toHost # <<>> /\ toHost' = from(toHost, 1 + 1) /\ UNCHANGED ring /\ rxhead = 0 /\ rxtail = 0
      BY <1>4 DEF heard
    <2>2. waiting = 0 /\ waiting' = 0 /\ RingInOrder'
      BY <1>1, <2>1 DEF waiting, ring, RingInOrder
    <2> DEFINE m == Len(toHost)
    <2>3. m # 0
      BY <2>1, EmptySeq
    <2>4. Len(toHost') = m - 1 /\ \A i \in 1..m - 1 : toHost'[i] = toHost[i + 1]
      <3> DEFINE q == from(toHost, 2)
      <3>1. Len(q) = (IF 2 <= Len(toHost) THEN Len(toHost) - 2 + 1 ELSE 0) /\ \A i \in 1..Len(toHost) - 2 + 1 : q[i] = toHost[2 + i - 1]
        <4>1. 2 \in Nat \ {0}
          OBVIOUS
        <4>2. QED
          BY <4>1, FromIs
      <3>2. toHost' = q
        BY <2>1
      <3> HIDE DEF q
      <3>3. Len(toHost) - 2 + 1 = m - 1 /\ \A i \in 1..m - 1 : 2 + i - 1 = i + 1
        BY <1>1
      <3>4. Len(q) = m - 1
        <4>1. m \in Nat /\ m # 0 /\ Len(q) = IF 2 <= m THEN m - 2 + 1 ELSE 0
          BY <1>1, <2>3, <3>1
        <4> HIDE DEF m
        <4>2. QED
          BY <4>1
      <3>5. \A i \in 1..m - 1 : q[i] = toHost[i + 1]
        BY <3>1, <3>3
      <3>6. QED
        BY <3>2, <3>4, <3>5
    <2>5. unread = m /\ unread' = m - 1
      BY <1>1, <2>2, <2>3, <2>4 DEF unread
    <2>6. first = toHost[1]
      BY <1>4, <2>1, HeadTailProperties DEF first
    <2>7. \A i \in 1..m : incoming(i) = toHost[i]
      BY <1>1, <2>2 DEF incoming
    <2>8. \A i \in 1..m - 1 : incoming(i)' = toHost'[i]
      <3> TAKE i \in 1..m - 1
      <3>1. ~ (i <= 0) /\ i - 0 = i
        BY <1>1
      <3>2. incoming(i)' = IF i <= 0 THEN rxqueue'[rxtail' + i - 1] ELSE toHost'[i - 0]
        BY <2>2 DEF incoming
      <3>3. QED
        BY <3>1, <3>2
    <2>9. \A i \in 1..m - 1 : incoming(i)' = incoming(i + 1)
      <3>1. \A i \in 1..m - 1 : i + 1 \in 1..m
        BY <1>1
      <3>2. QED
        BY <2>4, <2>7, <2>8, <3>1
    <2>10. m \in Nat /\ m >= 1 /\ 1 \in 1..m
      BY <1>1, <2>3
    <2>11. QED
      BY <2>2, <2>5, <2>6, <2>7, <2>9, <2>10
  <1>5. QED
    BY <1>3, <1>4

(* What is said to the host is the last that it reads.                     *)
LEMMA SaysNext ==
  ASSUME RingInOrder, rxhead \in 0..RXSIZE, toHost \in Seq(Nat), UNCHANGED ring,
         NEW q \in Seq(Nat), Len(toHost') = Len(toHost) + Len(q), \A i \in 1..Len(toHost) : toHost'[i] = toHost[i],
         \A i \in 1..Len(q) : toHost'[Len(toHost) + i] = q[i]
  PROVE  /\ RingInOrder' /\ unread \in Nat /\ Len(q) \in Nat /\ unread' = unread + Len(q)
         /\ \A i \in 1..unread : incoming(i)' = incoming(i)
         /\ \A i \in unread + 1..unread + Len(q) : incoming(i)' = q[i - unread]
  <1> DEFINE w == waiting
             m == Len(toHost)
             m1 == Len(toHost')
             u == unread
  <1>1. w \in Nat /\ u \in Nat /\ Len(q) \in Nat /\ m \in Nat /\ u = w + m
    BY WaitingIs, LenProperties DEF unread
  <1>2. UNCHANGED <<rxqueue, rxhead, rxtail>>
    BY DEF ring
  <1>3. RingInOrder' /\ waiting' = w
    BY <1>2 DEF RingInOrder, waiting, RXSIZE
  <1>4. /\ m1 = m + Len(q) /\ \A i \in 1..m : toHost'[i] = toHost[i]
        /\ \A i \in 1..Len(q) : toHost'[m + i] = q[i]
    OBVIOUS
  <1>5. unread' = w + m1
    BY <1>3 DEF unread
  <1>6. \A i : incoming(i) = IF i <= w THEN rxqueue[rxtail + i - 1] ELSE toHost[i - w]
    BY DEF incoming
  <1>7. \A i : incoming(i)' = IF i <= w THEN rxqueue[rxtail + i - 1] ELSE toHost'[i - w]
    BY <1>2, <1>3 DEF incoming
  <1> HIDE DEF w, m, m1, u
  <1>8. \A i \in 1..u : incoming(i)' = incoming(i)
    <2> TAKE i \in 1..u
    <2>1. ~ (i <= w) => i - w \in 1..m
      BY <1>1
    <2>2. QED
      BY <1>4, <1>6, <1>7, <2>1
  <1>9. \A i \in u + 1..u + Len(q) : incoming(i)' = q[i - u]
    <2> TAKE i \in u + 1..u + Len(q)
    <2>1. ~ (i <= w) /\ i - u \in 1..Len(q) /\ i - w = m + (i - u)
      BY <1>1
    <2>2. incoming(i)' = toHost'[i - w]
      BY <1>7, <2>1
    <2>3. toHost'[m + (i - u)] = q[i - u]
      BY <1>4, <2>1
    <2>4. QED
      BY <2>1, <2>2, <2>3
  <1>10. unread' = u + Len(q)
    BY <1>1, <1>4, <1>5
  <1>11. QED
    BY <1>1, <1>3, <1>8, <1>9, <1>10 DEF u

(* Who does not touch the bytes leaves them as they are.                   *)
LEMMA UnreadStays ==
  ASSUME UNCHANGED <<toHost, ring>>
  PROVE  RingInOrder' = RingInOrder /\ unread' = unread /\ Arriving' = Arriving /\ \A i : incoming(i)' = incoming(i)
  <1>1. UNCHANGED <<toHost, rxqueue, rxhead, rxtail>>
    BY DEF ring
  <1>2. waiting' = waiting /\ RXSIZE' = RXSIZE
    BY <1>1 DEF waiting, RXSIZE
  <1>3. QED
    BY <1>1, <1>2 DEF RingInOrder, unread, incoming, Arriving

-----------------------------------------------------------------------------
(* A Propeller and its host, in step as long as no fault hits an answer.   *)

LEMMA HostStays ==
  ASSUME Stages, [Next]_vars
  PROVE  UNCHANGED <<host, device>>
  <1>1. CASE BootStep
    BY <1>1 DEF BootStep, job, hwreset, SendMagic, Drain, SendTiming, FirstBit, Compare, getBit, Resync, VersionBit, findprop, UploadHeader,
       UploadData, AskForAck, getAck, portHandler
  <1>2. CASE ChipStep \/ Stray \/ Lost \/ WaitForInitialAck
    BY <1>2 DEF ChipStep, Stray, Lost, WaitForInitialAck, job
  <1>3. CASE UNCHANGED bootVars \/ GoesOn \/ \E buf, d : ploadbuf(buf, d)
    BY <1>3 DEF bootVars, GoesOn, Passed, ploadbuf, job
  <1>4. QED
    BY <1>1, <1>2, <1>3, StepKinds

Heard ==
  IF bpc = "version" THEN HandshakeBits + n ELSE IF bpc = "found" THEN HandshakeBits + VersionBits
  ELSE IF bpc \in {"compare", "bit"} THEN n ELSE 0
Talking == {"first", "compare", "bit", "version", "found"}
Listening == {"timing"} \cup Talking
Bits == HandshakeBits + VersionBits
Called == \A i \in 1..HandshakeBits + 1 : toChip[i] = magic[i]
ChipHas ==
  /\ bpc = "magic" => chip = "listen" /\ toChip = <<>>
  /\ bpc \in {"drain", "timing"} =>
       \/ chip = "listen" /\ Len(toChip) = HandshakeBits + 1 /\ Called
       \/ chip = "answer" /\ Len(toChip) = 0 /\ answered = 0
  /\ bpc \in Talking =>
       \/ chip = "listen" /\ Len(toChip) = Said /\ Called
       \/ chip = "answer" /\ Len(toChip) + answered = Bits
       \/ chip = "command" /\ Len(toChip) = 0 /\ answered = Bits
HostHas ==
  bpc \in Listening =>
    /\ RingInOrder /\ Heard + unread = answered
    /\ \A i \in 1..unread : incoming(i) = bitbyte(answer(Heard + i - 1))
Compared ==
  /\ bpc = "compare" => ii = answer(n - 1)
  /\ bpc = "bit" => to <= faults
  /\ bpc = "version" => rc = received(n)
  /\ bpc = "found" => version = Version
InStep ==
  device = "propeller" /\ ~disturbed =>
    /\ retry = 1 /\ bpc \notin {"resync", "again", "failed"}
    /\ ChipHas /\ HostHas /\ Compared

(* While bits are missing, there is one, or the chip is about to send it.  *)
LEMMA StillSpeaking ==
  ASSUME Counted, Register, Lines, ChipHas, HostHas, bpc \in {"first", "bit"} \/ (bpc = "version" /\ n < VersionBits)
  PROVE  Arriving \/ Responding
  <1>1. HandshakeBits \in Nat /\ HandshakeBits >= 1 /\ VersionBits \in Nat /\ VersionBits >= 1 /\ Bits = HandshakeBits + VersionBits
        /\ Said = HandshakeBits + 1 + HandshakeBits + VersionBits
    BY BootFacts DEF Bits
  <1>2. bpc \in Listening /\ bpc \in Talking /\ bpc \in Early
    BY DEF Listening, Talking, Early
  <1>3. toHost \in Seq(Nat) /\ toChip \in Seq(Nat) /\ rxhead \in 0..RXSIZE /\ RingInOrder /\ Heard + unread = answered
    BY <1>2 DEF Lines, HostHas
  <1>4. SUFFICES ASSUME ~Arriving PROVE Responding
    OBVIOUS
  <1>5. unread = 0
    BY <1>3, <1>4, WaitingIs
  <1>6. Heard \in Nat /\ Heard < Bits
    BY <1>1 DEF Heard, Register, Counted
  <1>7. answered = Heard
    BY <1>3, <1>5, <1>6
  <1>8. CASE chip = "listen" /\ Len(toChip) = Said
    <2>1. Len(toChip) > HandshakeBits
      BY <1>1, <1>8
    <2>2. QED
      BY <1>8, <2>1 DEF Responding
  <1>9. CASE chip = "answer" /\ Len(toChip) + answered = Bits
    <2>1. Len(toChip) # 0
      BY <1>6, <1>7, <1>9
    <2>2. toChip # <<>>
      BY <2>1
    <2>3. QED
      BY <1>9, <2>2 DEF Responding
  <1>10. answered # Bits
    BY <1>1, <1>6, <1>7
  <1>11. QED
    BY <1>2, <1>8, <1>9, <1>10 DEF ChipHas

(* The host reads the next bit of the answer.                              *)
LEMMA NextBit ==
  ASSUME Counted, Lines, HostHas, bpc \in Talking, NEW b \in 0..1, GotBit(b), NEW k \in 0..Bits - 1, Heard = k
  PROVE  /\ b = answer(k) /\ UNCHANGED <<faults, disturbed>>
         /\ RingInOrder' /\ unread' \in Nat /\ k + 1 + unread' = answered
         /\ \A i \in 1..unread' : incoming(i)' = bitbyte(answer(k + 1 + i - 1))
  <1>1. Bits \in Nat /\ k \in Nat /\ answer(k) \in 0..1
    BY BootFacts, AnswerIs DEF Bits
  <1>2. bpc \in Listening /\ bpc \in Early
    BY DEF Listening, Talking, Early
  <1>3. /\ toHost \in Seq(Nat) /\ rxhead \in 0..RXSIZE /\ RingInOrder /\ k + unread = answered
        /\ \A i \in 1..unread : incoming(i) = bitbyte(answer(k + i - 1))
        /\ host \in {"loader", "ide"} /\ (host = "loader" => rxhead = 0 /\ rxtail = 0)
    BY <1>2 DEF Lines, HostHas
  <1>4. heard(1) /\ b = first % 2
    BY DEF GotBit
  <1>5. /\ RingInOrder' /\ unread \in Nat /\ unread >= 1 /\ unread' = unread - 1 /\ first = incoming(1)
        /\ \A i \in 1..unread - 1 : incoming(i)' = incoming(i + 1)
    BY <1>3, <1>4, HearsNext
  <1>6. first = bitbyte(answer(k))
    <2>1. 1 \in 1..unread /\ k + 1 - 1 = k
      BY <1>1, <1>5
    <2>2. QED
      BY <1>3, <1>5, <2>1
  <1>7. b = answer(k)
    <2>1. first = 254 + answer(k)
      BY <1>6 DEF bitbyte
    <2>2. QED
      BY <1>1, <1>4, <2>1
  <1>8. UNCHANGED <<faults, disturbed>>
    BY <1>4 DEF heard
  <1>9. unread' \in Nat /\ k + 1 + unread' = answered
    BY <1>1, <1>3, <1>5
  <1>10. ASSUME NEW i \in 1..unread' PROVE incoming(i)' = bitbyte(answer(k + 1 + i - 1))
    <2>1. i \in 1..unread - 1 /\ i + 1 \in 1..unread /\ k + (i + 1) - 1 = k + 1 + i - 1
      BY <1>1, <1>5
    <2>2. QED
      BY <1>3, <1>5, <2>1
  <1>11. QED
    BY <1>5, <1>7, <1>8, <1>9, <1>10

LEMMA HostKept ==
  ASSUME HostHas, bpc \in Listening, UNCHANGED <<toHost, ring, answered>>, Heard' = Heard
  PROVE  HostHas'
  <1>1. RingInOrder' = RingInOrder /\ unread' = unread /\ \A i : incoming(i)' = incoming(i)
    BY UnreadStays
  <1>2. RingInOrder /\ Heard + unread = answered /\ \A i \in 1..unread : incoming(i) = bitbyte(answer(Heard + i - 1))
    BY DEF HostHas
  <1>3. RingInOrder' /\ Heard' + unread' = answered'
    BY <1>1, <1>2
  <1>4. \A i \in 1..unread' : incoming(i)' = bitbyte(answer(Heard' + i - 1))
    BY <1>1, <1>2
  <1>5. QED
    BY <1>3, <1>4 DEF HostHas

LEMMA ChipKept ==
  ASSUME ChipHas, UNCHANGED <<toChip, chip, answered>>,
         bpc' = bpc \/ (bpc \in Talking /\ bpc' \in Talking) \/ (bpc = "drain" /\ bpc' = "timing")
                    \/ bpc' \notin {"magic", "drain"} \cup Listening
  PROVE  ChipHas'
  <1>1. Called' <=> Called
    BY DEF Called
  <1>2. QED
    BY <1>1 DEF ChipHas, Talking, Listening

(* What the host sends goes behind what is under way.                      *)
LEMMA Sends ==
  ASSUME Lines, bpc \in Early, NEW q \in Seq(Nat), NEW then, tx(q, then), ~disturbed'
  PROVE  /\ bpc' = then /\ Len(toChip) \in Nat /\ Len(toChip') = Len(toChip) + Len(q)
         /\ \A i \in 1..Len(toChip) : toChip'[i] = toChip[i]
         /\ \A i \in 1..Len(q) : toChip'[Len(toChip) + i] = q[i]
  <1>1. toChip \in Seq(Nat)
    BY DEF Lines
  <1>2. toChip' = toChip \o q /\ bpc' = then
    BY DEF tx
  <1>3. QED
    BY <1>1, <1>2, Joined

LEMMA InStepSends ==
  ASSUME Controlled, Counted, Lines, ChipHas, HostHas, SendMagic \/ SendTiming, ~disturbed', retry = 1
  PROVE  retry' = 1 /\ bpc' \in {"drain", "first"} /\ ChipHas' /\ HostHas'
  <1>0. HandshakeBits \in Nat /\ VersionBits \in Nat /\ Bits = HandshakeBits + VersionBits /\ Said = HandshakeBits + 1 + Bits /\ Bits \in Nat
    BY BootFacts DEF Bits
  <1>1. CASE SendMagic
    <2>1. tx(magic, "drain") /\ bpc \in Early /\ chip = "listen" /\ toChip = <<>> /\ UNCHANGED <<chip, retry>>
      BY <1>1 DEF SendMagic, Early, ChipHas, chipVars
    <2>2. magic \in Seq(Nat) /\ Len(magic) = HandshakeBits + 1
      BY MagicIs
    <2>3. /\ bpc' = "drain" /\ Len(toChip') = Len(toChip) + Len(magic)
          /\ \A i \in 1..Len(magic) : toChip'[Len(toChip) + i] = magic[i]
      BY <2>1, <2>2, Sends
    <2>4. Len(toChip) = 0
      BY <2>1
    <2>5. Len(toChip') = HandshakeBits + 1
      BY <1>0, <2>2, <2>3, <2>4
    <2>6. Called'
      <3>1. \A i \in 1..HandshakeBits + 1 : 0 + i = i
        BY <1>0
      <3>2. QED
        BY <2>2, <2>3, <2>4, <3>1 DEF Called
    <2>7. QED
      BY <2>1, <2>3, <2>5, <2>6 DEF ChipHas, HostHas, Listening, Talking
  <1>2. CASE SendTiming
    <2>1. tx(timing, "first") /\ bpc = "timing" /\ UNCHANGED <<toHost, ring, chip, answered, retry>>
      BY <1>2 DEF SendTiming, timing, chipVars
    <2>2. timing \in Seq(Nat) /\ Len(timing) = Bits
      BY TimingIs DEF Bits
    <2>3. /\ bpc' = "first" /\ Len(toChip') = Len(toChip) + Bits
          /\ \A i \in 1..Len(toChip) : toChip'[i] = toChip[i]
      BY <2>1, <2>2, Sends DEF Early
    <2>4. Heard = 0 /\ Heard' = 0
      BY <2>1, <2>3 DEF Heard
    <2>5. HostHas'
      BY <2>1, <2>4, HostKept DEF Listening
    <2>6. CASE chip = "listen" /\ Len(toChip) = HandshakeBits + 1 /\ Called
      <3>1. Len(toChip') = Said /\ Called'
        BY <1>0, <2>3, <2>6 DEF Called
      <3>2. QED
        BY <2>1, <2>3, <2>5, <2>6, <3>1 DEF ChipHas, Talking
    <2>7. CASE chip = "answer" /\ Len(toChip) = 0 /\ answered = 0
      <3>1. Len(toChip') + answered' = Bits
        BY <1>0, <2>1, <2>3, <2>7
      <3>2. QED
        BY <2>1, <2>3, <2>5, <2>7, <3>1 DEF ChipHas, Talking
    <2>8. QED
      BY <2>1, <2>6, <2>7 DEF ChipHas
  <1>3. QED
    BY <1>1, <1>2

LEMMA InStepDrains ==
  ASSUME Counted, Lines, ChipHas, Drain, ~disturbed', retry = 1
  PROVE  retry' = 1 /\ bpc' \in {"drain", "timing"} /\ ChipHas' /\ HostHas'
  <1>1. bpc = "drain" /\ bpc' \in {"drain", "timing"} /\ UNCHANGED <<toChip, chip, answered, retry>>
    BY DEF Drain, chipVars
  <1>2. ChipHas'
    BY <1>1, ChipKept
  <1>3. CASE bpc' = "drain"
    BY <1>1, <1>2, <1>3 DEF HostHas, Listening, Talking
  <1>4. CASE bpc' = "timing"
    <2>1. rx_gives_up(Arriving)
      BY <1>4 DEF Drain
    <2>2. ~Arriving /\ UNCHANGED <<toHost, ring>>
      BY <2>1 DEF rx_gives_up
    <2>3. toHost \in Seq(Nat) /\ rxhead \in 0..RXSIZE
      BY <1>1 DEF Lines, Early
    <2>4. RingInOrder
      BY <2>2, <2>3, Silence
    <2>5. unread = 0
      BY <2>2, <2>3, <2>4, WaitingIs
    <2>6. RingInOrder' /\ unread' = 0
      BY <2>2, <2>4, <2>5, UnreadStays
    <2>7. answered = 0
      BY <1>1 DEF ChipHas, Counted
    <2>8. Heard' = 0
      BY <1>4 DEF Heard
    <2>9. HostHas'
      BY <1>1, <2>6, <2>7, <2>8 DEF HostHas
    <2>10. QED
      BY <1>1, <1>2, <2>9
  <1>5. QED
    BY <1>1, <1>3, <1>4

LEMMA InStepReads ==
  ASSUME Counted, Register, Lines, ChipHas, HostHas, Compared, FirstBit \/ getBit \/ VersionBit, ~disturbed', retry = 1
  PROVE  retry' = 1 /\ bpc' \in {"compare", "bit", "version"} /\ ChipHas' /\ HostHas' /\ Compared'
  <1>0. HandshakeBits \in Nat /\ HandshakeBits >= 1 /\ VersionBits \in Nat /\ VersionBits >= 1 /\ Bits = HandshakeBits + VersionBits /\ Bits \in Nat
        /\ MaxFaults \in Nat /\ BitTries \in Nat /\ MaxFaults <= BitTries
    BY BootFacts, PatienceAssumption DEF Bits
  <1>1. UNCHANGED <<toChip, chip, answered, retry>>
    BY DEF FirstBit, getBit, VersionBit, chipVars
  <1>2. ASSUME NEW h, bpc \in {"first", "bit"} \/ (bpc = "version" /\ n < VersionBits), rx_gives_up(h)
        PROVE  Fault /\ disturbed' = (disturbed \/ h) /\ UNCHANGED <<toHost, ring>>
    BY <1>2, StillSpeaking DEF rx_gives_up
  <1>3. CASE FirstBit
    <2>1. bpc = "first" /\ Heard = 0 /\ 0 \in 0..Bits - 1
      BY <1>0, <1>3 DEF FirstBit, Heard
    <2>2. ~ rx_gives_up(TRUE)
      BY <1>2, <2>1
    <2>3. PICK b \in 0..1 : GotBit(b) /\ ii' = b /\ n' = 1 /\ bpc' = "compare"
      BY <1>3, <2>2 DEF FirstBit
    <2>4. /\ b = answer(0) /\ RingInOrder' /\ unread' \in Nat /\ 0 + 1 + unread' = answered
          /\ \A i \in 1..unread' : incoming(i)' = bitbyte(answer(0 + 1 + i - 1))
      BY <2>1, <2>3, NextBit DEF Talking
    <2>5. Heard' = 1
      BY <2>3 DEF Heard
    <2>6. HostHas'
      BY <1>1, <2>4, <2>5 DEF HostHas
    <2>7. Compared'
      BY <2>3, <2>4 DEF Compared
    <2>8. ChipHas'
      BY <1>1, <2>1, <2>3, ChipKept DEF Talking
    <2>9. QED
      BY <1>1, <2>3, <2>6, <2>7, <2>8
  <1>4. CASE getBit
    <2>1. bpc = "bit" /\ Heard = n /\ n \in 0..Bits - 1 /\ n \in Nat
      BY <1>0, <1>4 DEF getBit, Heard, Register
    <2>2. CASE rx_gives_up(FALSE) /\ to' = to + 1 /\ UNCHANGED n /\ bpc' = IF to < BitTries THEN "bit" ELSE "failed"
      <3>1. Fault /\ UNCHANGED <<toHost, ring>>
        BY <1>2, <2>1, <2>2
      <3>2. to <= faults /\ to \in Nat /\ faults \in 0..MaxFaults /\ faults < MaxFaults /\ faults' = faults + 1
        BY <2>1, <3>1 DEF Compared, Counted, Fault
      <3>3. to < BitTries /\ to' <= faults'
        BY <1>0, <2>2, <3>2
      <3>4. bpc' = "bit"
        BY <2>2, <3>3
      <3>5. Heard' = Heard
        BY <2>1, <2>2, <3>4 DEF Heard
      <3>6. HostHas'
        BY <1>1, <2>1, <3>1, <3>5, HostKept DEF Listening, Talking
      <3>7. ChipHas'
        BY <1>1, <2>1, <3>4, ChipKept
      <3>8. QED
        BY <1>1, <3>3, <3>4, <3>6, <3>7 DEF Compared
    <2>3. CASE bpc' = "compare" /\ (\E b \in 0..1 : GotBit(b) /\ ii' = b) /\ n' = n + 1
      <3>1. PICK b \in 0..1 : GotBit(b) /\ ii' = b
        BY <2>3
      <3>2. /\ b = answer(n) /\ RingInOrder' /\ unread' \in Nat /\ n + 1 + unread' = answered
            /\ \A i \in 1..unread' : incoming(i)' = bitbyte(answer(n + 1 + i - 1))
        BY <2>1, <3>1, NextBit DEF Talking
      <3>3. Heard' = n + 1
        BY <2>3 DEF Heard
      <3>4. HostHas'
        BY <1>1, <3>2, <3>3 DEF HostHas
      <3>5. n' - 1 = n
        BY <2>1, <2>3
      <3>6. Compared'
        BY <2>3, <3>1, <3>2, <3>5 DEF Compared
      <3>7. ChipHas'
        BY <1>1, <2>1, <2>3, ChipKept DEF Talking
      <3>8. QED
        BY <1>1, <2>3, <3>4, <3>6, <3>7
    <2>4. QED
      BY <1>4, <2>2, <2>3 DEF getBit
  <1>5. CASE VersionBit
    <2>1. bpc = "version" /\ bpc' = "version" /\ n < VersionBits /\ n \in Nat /\ n' = n + 1
      BY <1>5 DEF VersionBit, Counted
    <2>2. HandshakeBits + n \in 0..Bits - 1 /\ Heard = HandshakeBits + n /\ n \in 0..VersionBits - 1
      BY <1>0, <2>1 DEF Heard
    <2>3. ~ rx_gives_up(TRUE)
      BY <1>2, <2>1
    <2>4. PICK b \in 0..1 : GotBit(b) /\ rc' = (rc \div 2) + b * power[VersionBits - 1]
      BY <1>5, <2>3 DEF VersionBit
    <2>5. /\ b = answer(HandshakeBits + n) /\ RingInOrder' /\ unread' \in Nat /\ HandshakeBits + n + 1 + unread' = answered
          /\ \A i \in 1..unread' : incoming(i)' = bitbyte(answer(HandshakeBits + n + 1 + i - 1))
      BY <2>1, <2>2, <2>4, NextBit DEF Talking
    <2>6. Heard' = HandshakeBits + n + 1
      BY <1>0, <2>1 DEF Heard
    <2>7. HostHas'
      BY <1>1, <2>5, <2>6 DEF HostHas
    <2>8. rc' = received(n + 1)
      <3>1. answer(HandshakeBits + n) = shifted[n] % 2
        BY <2>2, AnswerIs
      <3>2. rc = received(n)
        BY <2>1 DEF Compared
      <3>3. (received(n) \div 2) + (shifted[n] % 2) * power[VersionBits - 1] = received(n + 1)
        BY <2>2, VersionArrives
      <3>4. QED
        BY <2>4, <2>5, <3>1, <3>2, <3>3
    <2>9. Compared'
      BY <2>1, <2>8 DEF Compared
    <2>10. ChipHas'
      BY <1>1, <2>1, ChipKept
    <2>11. QED
      BY <1>1, <2>1, <2>7, <2>9, <2>10
  <1>6. QED
    BY <1>3, <1>4, <1>5

LEMMA InStepCompares ==
  ASSUME Counted, Register, Lines, ChipHas, HostHas, Compared, Compare \/ findprop, retry = 1
  PROVE  retry' = 1 /\ bpc' \in {"bit", "version", "found"} /\ ChipHas' /\ HostHas' /\ Compared'
  <1>0. HandshakeBits \in Nat /\ HandshakeBits >= 1 /\ VersionBits \in Nat /\ VersionBits >= 1
    BY BootFacts
  <1>1. UNCHANGED <<toHost, ring, toChip, chip, answered, retry, faults>>
    BY DEF Compare, findprop, chipVars, quiet_line
  <1>2. CASE Compare
    <2>1. bpc = "compare" /\ Heard = n /\ n \in 1..HandshakeBits /\ LFSR = lfsr[HandshakeBits + n - 1] /\ ii = answer(n - 1)
      BY <1>2 DEF Compare, Heard, Register, Compared
    <2>2. CASE n = HandshakeBits
      <3>1. bpc' = "version" /\ n' = 0 /\ rc' = 0
        BY <1>0, <1>2, <2>2 DEF Compare
      <3>2. Heard' = Heard
        BY <1>0, <2>1, <2>2, <3>1 DEF Heard
      <3>3. HostHas'
        BY <1>1, <2>1, <3>2, HostKept DEF Listening, Talking
      <3>4. Compared'
        BY <3>1, VersionArrives DEF Compared
      <3>5. ChipHas'
        BY <1>1, <2>1, <3>1, ChipKept DEF Talking
      <3>6. QED
        BY <1>1, <3>1, <3>3, <3>4, <3>5
    <2>3. CASE n < HandshakeBits
      <3>1. as_expected
        <4>1. n - 1 \in 0..HandshakeBits - 1 /\ HandshakeBits + (n - 1) = HandshakeBits + n - 1
          BY <1>0, <2>1
        <4>2. answer(n - 1) = lfsr_bit(HandshakeBits + (n - 1))
          BY <4>1, AnswerIs
        <4>3. QED
          BY <2>1, <4>1, <4>2 DEF as_expected, lfsr_bit
      <3>2. bpc' = "bit" /\ n' = n /\ to' = 0
        BY <1>2, <2>1, <2>3, <3>1 DEF Compare
      <3>3. Heard' = Heard
        BY <2>1, <3>2 DEF Heard
      <3>4. HostHas'
        BY <1>1, <2>1, <3>3, HostKept DEF Listening, Talking
      <3>5. Compared'
        BY <1>1, <3>2 DEF Compared, Counted
      <3>6. ChipHas'
        BY <1>1, <2>1, <3>2, ChipKept DEF Talking
      <3>7. QED
        BY <1>1, <3>2, <3>4, <3>5, <3>6
    <2>4. QED
      BY <1>0, <2>1, <2>2, <2>3
  <1>3. CASE findprop
    <2>1. bpc = "version" /\ n = VersionBits /\ version' = rc /\ bpc' = IF rc # 0 THEN "found" ELSE "failed"
      BY <1>3 DEF findprop
    <2>2. rc = Version /\ Version # 0
      BY <2>1, VersionArrives DEF Compared
    <2>3. bpc' = "found" /\ version' = Version
      BY <2>1, <2>2
    <2>4. Heard' = Heard
      BY <2>1, <2>3 DEF Heard
    <2>5. HostHas'
      BY <1>1, <2>1, <2>4, HostKept DEF Listening, Talking
    <2>6. ChipHas'
      BY <1>1, <2>1, <2>3, ChipKept DEF Talking
    <2>7. QED
      BY <1>1, <2>3, <2>5, <2>6 DEF Compared
  <1>4. QED
    BY <1>2, <1>3

LEMMA InStepChip ==
  ASSUME Counted, Lines, ChipHas, HostHas, ChipStep, ~disturbed', bpc \in {"magic", "drain"} \cup Listening
  PROVE  ChipHas' /\ HostHas'
  <1>0. /\ HandshakeBits \in Nat /\ HandshakeBits >= 1 /\ VersionBits \in Nat /\ VersionBits >= 1
        /\ Bits = HandshakeBits + VersionBits /\ Said = HandshakeBits + 1 + Bits /\ Bits \in Nat
    BY BootFacts DEF Bits
  <1>1. UNCHANGED <<bpc, ring, n>>
    BY DEF ChipStep, locals
  <1>2. toChip \in Seq(Nat) /\ toHost \in Seq(Nat) /\ rxhead \in 0..RXSIZE /\ Len(toChip) \in Nat
    BY LenProperties DEF Lines, Listening, Talking, Early
  <1>3. Heard' = Heard
    BY <1>1 DEF Heard
  <1>4. CASE ChipListen
    <2>1. /\ chip = "listen" /\ Len(toChip) > HandshakeBits /\ toChip' = from(toChip, HandshakeBits + 2)
          /\ chip' = (IF SubSeq(toChip, 1, HandshakeBits + 1) = magic THEN "answer" ELSE "off")
          /\ answered' = 0 /\ answered = 0 /\ toHost' = toHost
      BY <1>4 DEF ChipListen, Counted
    <2>2. bpc # "magic"
      BY <1>0, <2>1 DEF ChipHas
    <2>3. Called /\ ((Len(toChip) = HandshakeBits + 1 /\ bpc \in {"drain", "timing"}) \/ (Len(toChip) = Said /\ bpc \in Talking))
      BY <2>1, <2>2 DEF ChipHas, Listening
    <2>4. SubSeq(toChip, 1, HandshakeBits + 1) = magic
      <3> DEFINE m == HandshakeBits + 1
                 q == SubSeq(toChip, 1, m)
      <3>1. m \in Nat /\ m >= 1 /\ m <= Len(toChip) /\ 1..m \subseteq 1..Len(toChip)
        BY <1>0, <1>2, <2>1
      <3>2. magic \in Seq(Nat) /\ Len(magic) = m
        BY MagicIs
      <3>3. Called <=> \A i \in 1..m : toChip[i] = magic[i]
        BY DEF Called
      <3> HIDE DEF m
      <3>4. \A i \in 1..m : toChip[i] \in Nat
        BY <1>2, <3>1, LenProperties, ElementOfSeq
      <3>5. q \in Seq(Nat) /\ Len(q) = m - 1 + 1 /\ \A i \in 1..m - 1 + 1 : q[i] = toChip[1 + i - 1]
        <4>1. 1 \in 1..m + 1 /\ (IF 1 <= m THEN m - 1 + 1 ELSE 0) = m - 1 + 1
          BY <3>1
        <4>2. QED
          BY <3>1, <3>4, <4>1, SubSeqProperties
      <3> HIDE DEF q
      <3>6. Len(q) = m /\ \A i \in 1..m : q[i] = toChip[i]
        BY <3>1, <3>5
      <3>7. Len(q) = Len(magic) /\ \A i \in 1..Len(q) : q[i] = magic[i]
        BY <2>3, <3>2, <3>3, <3>6
      <3>8. q = magic
        BY <3>2, <3>5, <3>7, SeqEqual
      <3>9. QED
        BY <3>8 DEF q, m
    <2>5. chip' = "answer"
      BY <2>1, <2>4
    <2>6. Len(toChip') = Len(toChip) - (HandshakeBits + 1)
      <3> DEFINE k == HandshakeBits + 2
      <3>1. k \in Nat \ {0} /\ k <= Len(toChip) + 1
        BY <1>0, <1>2, <2>1
      <3>2. Len(from(toChip, k)) = IF k <= Len(toChip) THEN Len(toChip) - k + 1 ELSE 0
        BY <1>2, <3>1, FromIs
      <3>3. toChip' = from(toChip, k)
        BY <2>1
      <3>4. k = HandshakeBits + 1 + 1
        BY <1>0
      <3> HIDE DEF k
      <3>5. Len(toChip') = IF k <= Len(toChip) THEN Len(toChip) - k + 1 ELSE 0
        BY <3>2, <3>3
      <3>6. QED
        BY <1>0, <1>2, <3>1, <3>4, <3>5
    <2>7. CASE Len(toChip) = HandshakeBits + 1 /\ bpc \in {"drain", "timing"}
      <3>1. Len(toChip') = 0
        BY <1>0, <2>6, <2>7
      <3>2. QED
        <4>1. ChipHas'
          BY <1>1, <2>1, <2>5, <2>7, <3>1 DEF ChipHas, Talking
        <4>2. HostHas'
          <5>1. CASE bpc \in Listening
            BY <1>1, <1>3, <2>1, <5>1, HostKept
          <5>2. CASE bpc \notin Listening
            BY <1>1, <5>2 DEF HostHas
          <5>3. QED
            BY <5>1, <5>2
        <4>3. QED
          BY <4>1, <4>2
    <2>8. CASE Len(toChip) = Said /\ bpc \in Talking
      <3>1. Len(toChip') + answered' = Bits
        BY <1>0, <2>1, <2>6, <2>8
      <3>2. ChipHas'
        BY <1>1, <2>1, <2>5, <2>8, <3>1 DEF ChipHas, Talking
      <3>3. HostHas'
        BY <1>1, <1>3, <2>1, <2>8, HostKept DEF Listening
      <3>4. QED
        BY <3>2, <3>3
    <2>9. QED
      BY <2>3, <2>7, <2>8
  <1>5. CASE ChipAnswer
    <2> DEFINE x == bitbyte(answer(answered))
    <2>1. /\ chip = "answer" /\ toChip # <<>> /\ toChip' = Tail(toChip) /\ answered' = answered + 1
          /\ chip' = IF answered' = Bits THEN "command" ELSE "answer"
      BY <1>5 DEF ChipAnswer, Bits
    <2>2. toHost' = Append(toHost, x)
      BY <1>5 DEF ChipAnswer
    <2>3. Len(toChip) # 0 /\ Len(toChip') = Len(toChip) - 1
      BY <1>2, <2>1, TailIs
    <2>4. bpc \in Talking /\ Len(toChip) + answered = Bits
      BY <2>1, <2>3 DEF ChipHas, Listening
    <2>5. answered \in 0..Bits - 1
      BY <1>0, <2>1 DEF Counted
    <2>6. x \in Nat
      <3>1. answer(answered) \in 0..1
        BY <1>0, <2>5, AnswerIs
      <3>2. QED
        BY <3>1 DEF bitbyte
    <2>7. ChipHas'
      <3> DEFINE l == Len(toChip)
                 k == Len(toChip')
                 j == answered'
      <3>7. l \in Nat /\ k = l - 1 /\ Bits \in Nat /\ answered \in Nat /\ j = answered + 1 /\ l + answered = Bits
        BY <1>0, <1>2, <2>1, <2>3, <2>4, <2>5
      <3> HIDE DEF l, k, j
      <3>8. k + j = Bits /\ (j = Bits => k = 0)
        BY <3>7
      <3>1. Len(toChip') + answered' = Bits
        BY <3>8 DEF k, j
      <3>2. answered' = Bits => Len(toChip') = 0
        BY <3>8 DEF k, j
      <3>3. bpc' = bpc /\ bpc \in Talking /\ bpc \notin {"magic", "drain", "timing"}
        BY <1>1, <2>4 DEF Talking
      <3>4. CASE answered' = Bits
        BY <2>1, <3>1, <3>2, <3>3, <3>4 DEF ChipHas
      <3>5. CASE answered' # Bits
        BY <2>1, <3>1, <3>3, <3>5 DEF ChipHas
      <3>6. QED
        BY <3>4, <3>5
    <2>8. RingInOrder /\ Heard + unread = answered /\ \A i \in 1..unread : incoming(i) = bitbyte(answer(Heard + i - 1))
      BY <2>4 DEF HostHas, Listening
    <2> DEFINE q == <<x>>
               u == unread
               h == Heard
    <2> HIDE DEF x
    <2>9. q \in Seq(Nat) /\ Len(q) = 1 /\ q[1] = x
      BY <2>6
    <2>10. /\ Len(toHost') = Len(toHost) + 1 /\ Len(toHost) \in Nat /\ toHost'[Len(toHost) + 1] = x
           /\ \A i \in 1..Len(toHost) : toHost'[i] = toHost[i]
      BY <1>2, <2>2, <2>6, AddedIs
    <2>11. /\ RingInOrder' /\ u \in Nat /\ unread' = u + 1
           /\ \A i \in 1..u : incoming(i)' = incoming(i)
           /\ \A i \in u + 1..u + 1 : incoming(i)' = q[i - u]
      <3> HIDE DEF q
      <3>1. Len(toHost') = Len(toHost) + Len(q) /\ \A i \in 1..Len(q) : toHost'[Len(toHost) + i] = q[i]
        BY <2>9, <2>10
      <3>2. QED
        BY <1>1, <1>2, <2>8, <2>9, <2>10, <3>1, SaysNext
    <2>12. h \in Nat
      BY <1>0, <1>2, <2>5, <2>8, <2>11 DEF Heard, Counted
    <2>13. h + unread' = answered'
      BY <2>1, <2>5, <2>8, <2>11, <2>12
    <2>14. \A i \in 1..unread' : incoming(i)' = bitbyte(answer(h + i - 1))
      <3> SUFFICES ASSUME NEW i \in 1..u + 1 PROVE incoming(i)' = bitbyte(answer(h + i - 1))
        BY <2>11
      <3>1. CASE i <= u
        <4>1. i \in 1..u
          BY <2>11, <3>1
        <4>2. QED
          BY <2>8, <2>11, <4>1
      <3>2. CASE ~ (i <= u)
        <4>1. i = u + 1 /\ i - u = 1 /\ h + i - 1 = h + u
          BY <2>11, <2>12, <3>2
        <4>2. incoming(i)' = x
          BY <2>9, <2>11, <4>1
        <4>3. h + u = answered
          BY <2>8
        <4>4. QED
          BY <4>1, <4>2, <4>3 DEF x
      <3>3. QED
        BY <3>1, <3>2
    <2>15. HostHas'
      <3> HIDE DEF u
      <3>1. Heard' = h
        BY <1>3
      <3> HIDE DEF h
      <3>2. RingInOrder' /\ Heard' + unread' = answered' /\ \A i \in 1..unread' : incoming(i)' = bitbyte(answer(Heard' + i - 1))
        BY <2>11, <2>13, <2>14, <3>1
      <3>3. QED
        BY <3>2 DEF HostHas
    <2>16. QED
      BY <2>7, <2>15
  <1>6. CASE ChipLong \/ ChipCheck \/ ProgramStarts \/ Unheard
    <2>1. chip \in {"command", "run", "off", "program"} /\ (chip = "command" => Len(toChip) # 0)
      <3>1. CASE ChipLong
        BY <1>2, <3>1 DEF ChipLong, LONG
      <3>2. CASE ChipCheck
        BY <1>2, <3>2, TailIs DEF ChipCheck
      <3>3. CASE ProgramStarts \/ Unheard
        BY <3>3 DEF ProgramStarts, Unheard
      <3>4. QED
        BY <1>6, <3>1, <3>2, <3>3
    <2>2. QED
      BY <2>1 DEF ChipHas, Listening
  <1>7. QED
    BY <1>4, <1>5, <1>6 DEF ChipStep

LEMMA InStepStep ==
  ASSUME Stages, Controlled, Counted, Register, Lines, RingLasts, InStep, [Next]_vars
  PROVE  InStep'
  <1>1. SUFFICES ASSUME device' = "propeller", ~disturbed'
        PROVE  retry' = 1 /\ bpc' \notin {"resync", "again", "failed"} /\ ChipHas' /\ HostHas' /\ Compared'
    BY DEF InStep
  <1>2. /\ device = "propeller" /\ ~disturbed /\ retry = 1 /\ bpc \notin {"resync", "again", "failed"}
        /\ ChipHas /\ HostHas /\ Compared
    BY <1>1, HostStays, FaultKinds DEF InStep
  <1>3. ASSUME retry' = 1, bpc' \notin {"resync", "again", "failed", "magic", "drain"} \cup Listening
        PROVE  retry' = 1 /\ bpc' \notin {"resync", "again", "failed"} /\ ChipHas' /\ HostHas' /\ Compared'
    BY <1>3 DEF ChipHas, HostHas, Compared, Listening, Talking
  <1>4. ASSUME bpc' \in {"drain", "first"} PROVE Compared'
    BY <1>4 DEF Compared
  <1>5. CASE BootStep
    <2>1. CASE hwreset
      <3>1. bpc' = "magic" /\ chip' = "listen" /\ toChip' = <<>> /\ retry' = 1
        BY <1>2, <2>1 DEF hwreset
      <3>2. QED
        BY <3>1 DEF ChipHas, HostHas, Compared, Listening, Talking
    <2>2. CASE SendMagic \/ SendTiming
      BY <1>1, <1>2, <1>4, <2>2, InStepSends
    <2>3. CASE Drain
      <3>1. retry' = 1 /\ bpc' \in {"drain", "timing"} /\ ChipHas' /\ HostHas'
        BY <1>1, <1>2, <2>3, InStepDrains
      <3>2. QED
        BY <3>1 DEF Compared
    <2>4. CASE FirstBit \/ getBit \/ VersionBit
      <3>1. retry' = 1 /\ bpc' \in {"compare", "bit", "version"} /\ ChipHas' /\ HostHas' /\ Compared'
        BY <1>1, <1>2, <2>4, InStepReads
      <3>2. QED
        BY <3>1
    <2>5. CASE Compare \/ findprop
      <3>1. retry' = 1 /\ bpc' \in {"bit", "version", "found"} /\ ChipHas' /\ HostHas' /\ Compared'
        BY <1>2, <2>5, InStepCompares
      <3>2. QED
        BY <3>1
    <2>6. CASE Resync
      BY <1>2, <2>6 DEF Resync
    <2>7. CASE UploadHeader \/ UploadData \/ AskForAck \/ getAck
      <3>1. retry' = 1
        BY <1>2, <2>7 DEF UploadHeader, UploadData, AskForAck, getAck
      <3>2. bpc' \in {"count", "data", "verify", "ack", "loaded"}
        <4>1. CASE UploadHeader
          BY <1>1, <4>1 DEF UploadHeader, sendlong, tx
        <4>2. CASE UploadData
          BY <1>1, <4>2 DEF UploadData, sendlong, tx
        <4>3. CASE AskForAck \/ getAck
          BY <4>3 DEF AskForAck, getAck
        <4>4. QED
          BY <2>7, <4>1, <4>2, <4>3
      <3>3. QED
        BY <1>3, <3>1, <3>2 DEF Listening, Talking
    <2>8. CASE portHandler
      <3>1. /\ host = "ide" /\ UNCHANGED <<toChip, chip, answered, bpc, retry, LFSR, n, ii, to, rc, version, faults, disturbed>>
            /\ bpc \in {"drain", "first", "bit", "resync", "version"}
        BY <2>8 DEF portHandler, chipVars, locals
      <3>2. ChipHas' /\ Compared'
        BY <1>2, <3>1, ChipKept DEF Compared
      <3>3. HostHas'
        <4>1. CASE bpc = "drain"
          BY <3>1, <4>1 DEF HostHas, Listening, Talking
        <4>2. CASE bpc # "drain"
          <5>1. /\ bpc \in Listening /\ RingInOrder /\ toHost \in Seq(Nat) /\ rxhead \in 0..RXSIZE
                /\ Heard + unread = answered /\ \A i \in 1..unread : incoming(i) = bitbyte(answer(Heard + i - 1))
            BY <1>2, <3>1, <4>2 DEF HostHas, Lines, Listening, Talking
          <5>2. rxhead + Len(toHost) <= RingSize
            BY <3>1, RingHasRoom
          <5>3. RingInOrder' /\ unread' = unread /\ \A i \in 1..unread : incoming(i)' = incoming(i)
            BY <2>8, <5>1, <5>2, PortMoves
          <5>4. Heard' = Heard
            BY <3>1 DEF Heard
          <5>5. RingInOrder' /\ Heard' + unread' = answered' /\ \A i \in 1..unread' : incoming(i)' = bitbyte(answer(Heard' + i - 1))
            BY <3>1, <5>1, <5>3, <5>4
          <5>6. QED
            BY <5>5 DEF HostHas
        <4>3. QED
          BY <4>1, <4>2
      <3>4. QED
        BY <1>2, <3>1, <3>2, <3>3
    <2>9. QED
      BY <1>5, <2>1, <2>2, <2>3, <2>4, <2>5, <2>6, <2>7, <2>8 DEF BootStep
  <1>6. CASE ChipStep
    <2>1. UNCHANGED <<bpc, retry, n, ii, to, rc, version>>
      BY <1>6 DEF ChipStep, locals
    <2>2. faults <= faults'
      BY FaultKinds, BootFacts DEF Counted, Fault
    <2>3. Compared'
      <3>1. bpc = "bit" => to <= faults'
        <4>1. faults \in Nat /\ faults' \in Nat /\ to \in Nat
          BY CountedStep, BootFacts DEF Counted
        <4>2. QED
          BY <1>2, <2>2, <4>1 DEF Compared
      <3>2. QED
        BY <1>2, <2>1, <3>1 DEF Compared
    <2>4. CASE bpc \in {"magic", "drain"} \cup Listening
      BY <1>1, <1>2, <1>6, <2>1, <2>3, <2>4, InStepChip
    <2>5. CASE bpc \notin {"magic", "drain"} \cup Listening
      BY <1>2, <1>3, <2>1, <2>5
    <2>6. QED
      BY <2>4, <2>5
  <1>7. CASE Stray
    <2>1. bpc = "drain" /\ UNCHANGED <<toChip, chip, answered, bpc, retry>>
      BY <1>1, <1>7 DEF Stray, chipVars
    <2>2. ChipHas'
      BY <1>2, <2>1, ChipKept
    <2>3. QED
      BY <1>2, <1>4, <2>1, <2>2 DEF HostHas, Listening, Talking
  <1>8. CASE Lost
    BY <1>1, <1>8 DEF Lost
  <1>9. CASE UNCHANGED bootVars
    <2>1. UNCHANGED <<toChip, toHost, ring, chip, answered, bpc, retry, n, ii, to, rc, version, faults>>
      BY <1>9 DEF bootVars, chipVars, locals
    <2>2. ChipHas' /\ Compared'
      BY <1>2, <2>1, ChipKept DEF Compared
    <2>3. Heard' = Heard
      BY <2>1 DEF Heard
    <2>4. HostHas'
      <3>1. CASE bpc \in Listening
        BY <1>2, <2>1, <2>3, <3>1, HostKept
      <3>2. CASE bpc \notin Listening
        BY <2>1, <3>2 DEF HostHas
      <3>3. QED
        BY <3>1, <3>2
    <2>5. QED
      BY <1>2, <2>1, <2>2, <2>4
  <1>10. CASE GoesOn \/ (\E buf, d : ploadbuf(buf, d)) \/ WaitForInitialAck
    <2>1. retry' = 1 /\ bpc' \in {"idle", "connect", "reset"}
      <3>1. CASE GoesOn
        BY <1>2, <3>1 DEF GoesOn, Passed
      <3>2. CASE \E buf, d : ploadbuf(buf, d)
        BY <3>2 DEF ploadbuf
      <3>3. CASE WaitForInitialAck
        BY <1>2, <3>3 DEF WaitForInitialAck
      <3>4. QED
        BY <1>10, <3>1, <3>2, <3>3
    <2>2. QED
      BY <1>3, <2>1 DEF Listening, Talking
  <1>11. QED
    BY <1>5, <1>6, <1>7, <1>8, <1>9, <1>10, StepKinds

-----------------------------------------------------------------------------
(* Another device returns what the host says, or nothing.                  *)

Mirrored(v, k) == IF v /\ k <= HandshakeBits + 1 THEN magic[k] ELSE F9
Echoed(v) ==
  /\ RingInOrder
  /\ \A i \in 1..unread : incoming(i) = Mirrored(v, Heard + i)
  /\ \A i \in 1..Len(toChip) : toChip[i] = Mirrored(v, (Heard + unread) + i)
Alike(v, k) == \A j \in 0..k - 1 : answer(j) = Mirrored(v, j + 1) % 2
Sent == Len(toChip) = 0 \/ (Len(toChip) = HandshakeBits + 1 /\ Called)
Resting ==
  /\ RingInOrder
  /\ \/ unread = 0 /\ Sent
     \/ Len(toChip) = 0 /\ unread = HandshakeBits + 1 /\ \A i \in 1..unread : incoming(i) = magic[i]
Mirror(v) ==
  /\ Echoed(v)
  /\ bpc = "compare" => Alike(v, n - 1) /\ ii = Mirrored(v, n) % 2
  /\ bpc = "bit" => Alike(v, n)
Astray ==
  device # "propeller" /\ ~disturbed =>
    /\ bpc \notin {"version", "found"}
    /\ bpc = "magic" => toChip = <<>>
    /\ bpc = "drain" => Sent
    /\ bpc = "timing" => Resting
    /\ bpc \in {"first", "compare", "bit"} => \E v \in BOOLEAN : Mirror(v)

LEMMA SentStays ==
  ASSUME toChip' = toChip
  PROVE  Sent' = Sent
  BY DEF Sent, Called

LEMMA RestingStays ==
  ASSUME UNCHANGED <<toHost, ring, toChip>>
  PROVE  Resting' = Resting
  <1>1. RingInOrder' = RingInOrder /\ unread' = unread /\ Sent' = Sent /\ \A i : incoming(i)' = incoming(i)
    BY UnreadStays, SentStays
  <1>2. QED
    BY <1>1 DEF Resting

LEMMA EchoStays ==
  ASSUME NEW v, Echoed(v), UNCHANGED <<toHost, ring, toChip>>, Heard' = Heard
  PROVE  Echoed(v)'
  <1>1. RingInOrder' = RingInOrder /\ unread' = unread /\ \A i : incoming(i)' = incoming(i)
    BY UnreadStays
  <1>2. QED
    BY <1>1 DEF Echoed

LEMMA NextEcho ==
  ASSUME Lines, bpc \in Early, NEW v \in BOOLEAN, Echoed(v), NEW b \in 0..1, GotBit(b), NEW k \in Nat, Heard = k, Heard' = k + 1, toChip' = toChip
  PROVE  b = Mirrored(v, k + 1) % 2 /\ Echoed(v)'
  <1>1. /\ toHost \in Seq(Nat) /\ rxhead \in 0..RXSIZE /\ RingInOrder /\ toChip \in Seq(Nat) /\ Len(toChip) \in Nat
        /\ host \in {"loader", "ide"} /\ (host = "loader" => rxhead = 0 /\ rxtail = 0)
    BY LenProperties DEF Lines, Echoed
  <1>2. heard(1) /\ b = first % 2
    BY DEF GotBit
  <1>3. /\ RingInOrder' /\ unread \in Nat /\ unread >= 1 /\ unread' = unread - 1 /\ first = incoming(1)
        /\ \A i \in 1..unread - 1 : incoming(i)' = incoming(i + 1)
    BY <1>1, <1>2, HearsNext
  <1>4. /\ \A i \in 1..unread : incoming(i) = Mirrored(v, k + i)
        /\ \A i \in 1..Len(toChip) : toChip[i] = Mirrored(v, (k + unread) + i)
    BY DEF Echoed
  <1>5. b = Mirrored(v, k + 1) % 2
    <2>1. 1 \in 1..unread
      BY <1>3
    <2>2. QED
      BY <1>2, <1>3, <1>4, <2>1
  <1>6. \A i \in 1..unread' : incoming(i)' = Mirrored(v, Heard' + i)
    <2> SUFFICES ASSUME NEW i \in 1..unread - 1 PROVE incoming(i)' = Mirrored(v, (k + 1) + i)
      BY <1>3
    <2>1. i + 1 \in 1..unread /\ k + (i + 1) = (k + 1) + i
      BY <1>3
    <2>2. QED
      BY <1>3, <1>4, <2>1
  <1>7. \A i \in 1..Len(toChip') : toChip'[i] = Mirrored(v, (Heard' + unread') + i)
    <2>1. \A i \in 1..Len(toChip) : toChip'[i] = Mirrored(v, (k + unread) + i)
      BY <1>4
    <2>2. Heard' + unread' = k + unread
      BY <1>3
    <2>3. QED
      BY <2>1, <2>2
  <1>8. QED
    BY <1>3, <1>5, <1>6, <1>7 DEF Echoed

(* What is sent goes behind what has come back.                            *)
LEMMA AstraySends ==
  ASSUME Lines, Resting, SendTiming, ~disturbed'
  PROVE  bpc' = "first" /\ \E v \in BOOLEAN : Echoed(v)'
  <1>0. HandshakeBits \in Nat
    BY BootFacts
  <1>1. bpc = "timing" /\ tx(timing, "first") /\ UNCHANGED <<toHost, ring>>
    BY DEF SendTiming, timing
  <1>2. timing \in Seq(Nat) /\ \A i \in 1..Len(timing) : timing[i] = F9
    BY TimingIs
  <1>3. /\ bpc' = "first" /\ Len(toChip) \in Nat /\ Len(toChip') = Len(toChip) + Len(timing)
        /\ \A i \in 1..Len(toChip) : toChip'[i] = toChip[i]
        /\ \A i \in 1..Len(timing) : toChip'[Len(toChip) + i] = timing[i]
    BY <1>1, <1>2, Sends DEF Early
  <1>4. Len(timing) \in Nat
    BY <1>2, LenProperties
  <1>5. RingInOrder' /\ unread' = unread /\ (\A i : incoming(i)' = incoming(i)) /\ Heard' = 0
    BY <1>1, <1>3, UnreadStays DEF Resting, Heard
  <1> DEFINE c == Len(toChip)
             l == Len(timing)
  <1>6. \A i \in c + 1..c + l : toChip'[i] = F9
    <2> TAKE i \in c + 1..c + l
    <2>1. i - c \in 1..l /\ c + (i - c) = i
      BY <1>3, <1>4
    <2>2. QED
      BY <1>2, <1>3, <2>1
  <1>7. CASE unread = 0 /\ c = 0
    <2>1. \A i \in 1..Len(toChip') : toChip'[i] = Mirrored(FALSE, (Heard' + unread') + i)
      BY <1>3, <1>4, <1>6, <1>7 DEF Mirrored
    <2>2. \A i \in 1..unread' : incoming(i)' = Mirrored(FALSE, Heard' + i)
      BY <1>5, <1>7
    <2>3. Echoed(FALSE)'
      BY <1>5, <2>1, <2>2 DEF Echoed
    <2>4. QED
      BY <1>3, <2>3
  <1>8. CASE unread = 0 /\ c = HandshakeBits + 1 /\ Called
    <2>1. ASSUME NEW i \in 1..Len(toChip') PROVE toChip'[i] = Mirrored(TRUE, i)
      <3>1. CASE i <= c
        <4>1. i \in 1..c /\ i \in 1..HandshakeBits + 1
          BY <1>3, <1>4, <1>8, <3>1
        <4>2. toChip'[i] = magic[i]
          BY <1>3, <1>8, <4>1 DEF Called
        <4>3. QED
          BY <4>1, <4>2, <1>0 DEF Mirrored
      <3>2. CASE ~ (i <= c)
        <4>1. i \in c + 1..c + l /\ ~ (i <= HandshakeBits + 1)
          BY <1>3, <1>4, <1>8, <3>2
        <4>2. QED
          BY <1>6, <4>1 DEF Mirrored
      <3>3. QED
        BY <3>1, <3>2
    <2>2. \A i \in 1..unread' : incoming(i)' = Mirrored(TRUE, Heard' + i)
      BY <1>5, <1>8
    <2>3. \A i \in 1..Len(toChip') : (Heard' + unread') + i = i
      BY <1>3, <1>4, <1>5, <1>8
    <2>4. Echoed(TRUE)'
      BY <1>5, <2>1, <2>2, <2>3 DEF Echoed
    <2>5. QED
      BY <1>3, <2>4
  <1>9. CASE c = 0 /\ unread = HandshakeBits + 1 /\ \A i \in 1..unread : incoming(i) = magic[i]
    <2>1. ASSUME NEW i \in 1..Len(toChip') PROVE toChip'[i] = Mirrored(TRUE, (HandshakeBits + 1) + i)
      <3>1. i \in c + 1..c + l /\ ~ ((HandshakeBits + 1) + i <= HandshakeBits + 1)
        BY <1>0, <1>3, <1>4, <1>9
      <3>2. QED
        BY <1>6, <3>1 DEF Mirrored
    <2>2. Heard' + unread' = HandshakeBits + 1
      BY <1>0, <1>5, <1>9
    <2>3. \A i \in 1..unread' : incoming(i)' = Mirrored(TRUE, Heard' + i)
      <3> SUFFICES ASSUME NEW i \in 1..unread PROVE incoming(i)' = Mirrored(TRUE, 0 + i)
        BY <1>5
      <3>1. i <= HandshakeBits + 1 /\ 0 + i = i
        BY <1>0, <1>9
      <3>2. QED
        BY <1>5, <1>9, <3>1 DEF Mirrored
    <2>4. \A i \in 1..Len(toChip') : toChip'[i] = Mirrored(TRUE, (Heard' + unread') + i)
      BY <2>1, <2>2
    <2>5. Echoed(TRUE)'
      BY <1>5, <2>3, <2>4 DEF Echoed
    <2>6. QED
      BY <1>3, <2>5
  <1>10. QED
    BY <1>7, <1>8, <1>9 DEF Resting, Sent

(* The answer of the chip is not what an echo returns.                     *)
LEMMA NoEchoPasses ==
  ASSUME NEW v \in BOOLEAN
  PROVE  ~ Alike(v, HandshakeBits - 1)
  <1>1. HandshakeBits \in Nat
    BY BootFacts
  <1>2. SUFFICES ASSUME Alike(v, HandshakeBits - 1) PROVE FALSE
    OBVIOUS
  <1>3. \A j \in 0..HandshakeBits - 2 : answer(j) = Mirrored(v, j + 1) % 2
    <2>1. HandshakeBits - 1 - 1 = HandshakeBits - 2
      BY <1>1
    <2>2. QED
      BY <1>2, <2>1 DEF Alike
  <1>4. CASE v
    <2>1. \A j \in 0..HandshakeBits - 2 : Mirrored(v, j + 1) = magic[j + 1]
      BY <1>1, <1>4 DEF Mirrored
    <2>2. QED
      BY <1>3, <2>1, LfsrAssumption
  <1>5. CASE ~v
    <2>1. \A j \in 0..HandshakeBits - 2 : Mirrored(v, j + 1) = F9
      BY <1>5 DEF Mirrored
    <2>2. QED
      BY <1>3, <2>1, LfsrAssumption
  <1>6. QED
    BY <1>4, <1>5

LEMMA AstrayReads ==
  ASSUME Counted, Register, Lines, FirstBit \/ getBit, NEW v \in BOOLEAN, Mirror(v), bpc' # "failed"
  PROVE  bpc' \in {"compare", "bit"} /\ Mirror(v)'
  <1>0. toChip' = toChip
    BY DEF FirstBit, getBit
  <1>1. CASE FirstBit
    <2>1. bpc = "first" /\ Heard = 0 /\ bpc' = "compare" /\ n' = 1
      BY <1>1 DEF FirstBit, Heard
    <2>2. PICK b \in 0..1 : GotBit(b) /\ ii' = b
      BY <1>1 DEF FirstBit
    <2>3. Heard' = 0 + 1
      BY <2>1 DEF Heard
    <2>4. b = Mirrored(v, 0 + 1) % 2 /\ Echoed(v)'
      BY <1>0, <2>1, <2>2, <2>3, NextEcho DEF Mirror, Early
    <2>5. Alike(v, n - 1)'
      BY <2>1 DEF Alike
    <2>6. QED
      BY <2>1, <2>2, <2>4, <2>5 DEF Mirror
  <1>2. CASE getBit
    <2>1. bpc = "bit" /\ Heard = n /\ n \in Nat
      BY <1>2 DEF getBit, Heard, Counted
    <2>2. CASE rx_gives_up(FALSE) /\ UNCHANGED <<n, ii>> /\ bpc' = IF to < BitTries THEN "bit" ELSE "failed"
      <3>1. UNCHANGED <<toHost, ring>> /\ bpc' = "bit"
        BY <2>2 DEF rx_gives_up
      <3>2. Heard' = Heard
        BY <2>1, <2>2, <3>1 DEF Heard
      <3>3. Echoed(v)'
        BY <1>0, <3>1, <3>2, EchoStays DEF Mirror
      <3>4. Alike(v, n)'
        BY <2>1, <2>2 DEF Mirror, Alike
      <3>5. QED
        BY <3>1, <3>3, <3>4 DEF Mirror
    <2>3. CASE bpc' = "compare" /\ (\E b \in 0..1 : GotBit(b) /\ ii' = b) /\ n' = n + 1
      <3>1. PICK b \in 0..1 : GotBit(b) /\ ii' = b
        BY <2>3
      <3>2. Heard' = n + 1
        BY <2>3 DEF Heard
      <3>3. b = Mirrored(v, n + 1) % 2 /\ Echoed(v)'
        BY <1>0, <2>1, <3>1, <3>2, NextEcho DEF Mirror, Early
      <3>4. n' - 1 = n
        BY <2>1, <2>3
      <3>5. Alike(v, n - 1)'
        BY <2>1, <3>4 DEF Mirror, Alike
      <3>6. QED
        BY <2>3, <3>1, <3>3, <3>5 DEF Mirror
    <2>4. QED
      BY <1>2, <2>2, <2>3 DEF getBit
  <1>3. QED
    BY <1>1, <1>2

LEMMA AstrayCompares ==
  ASSUME Counted, Register, Lines, Compare, NEW v \in BOOLEAN, Mirror(v)
  PROVE  bpc' = "resync" \/ (bpc' = "bit" /\ Mirror(v)')
  <1>0. HandshakeBits \in Nat /\ UNCHANGED <<toHost, ring, toChip>>
    BY BootFacts DEF Compare, quiet_line
  <1>1. bpc = "compare" /\ Heard = n /\ n \in 1..HandshakeBits /\ LFSR = lfsr[HandshakeBits + n - 1] /\ Alike(v, n - 1) /\ ii = Mirrored(v, n) % 2
    BY DEF Compare, Heard, Register, Mirror
  <1>2. n # HandshakeBits
    BY <1>1, NoEchoPasses
  <1>3. CASE as_expected /\ bpc' = "bit" /\ n' = n
    <2>1. Heard' = Heard
      BY <1>1, <1>3 DEF Heard
    <2>2. Echoed(v)'
      BY <1>0, <2>1, EchoStays DEF Mirror
    <2>3. answer(n - 1) = Mirrored(v, n) % 2
      <3>1. n - 1 \in 0..HandshakeBits - 1 /\ HandshakeBits + (n - 1) = HandshakeBits + n - 1
        BY <1>0, <1>1
      <3>2. answer(n - 1) = lfsr_bit(HandshakeBits + (n - 1))
        BY <3>1, AnswerIs
      <3>3. QED
        BY <1>1, <1>3, <3>1, <3>2 DEF as_expected, lfsr_bit
    <2>4. Alike(v, n)
      <3> SUFFICES ASSUME NEW j \in 0..n - 1 PROVE answer(j) = Mirrored(v, j + 1) % 2
        BY DEF Alike
      <3>1. CASE j = n - 1
        <4>1. j + 1 = n
          BY <1>0, <1>1, <3>1
        <4>2. QED
          BY <2>3, <3>1, <4>1
      <3>2. CASE j # n - 1
        <4>1. j \in 0..n - 1 - 1
          BY <1>0, <1>1, <3>2
        <4>2. QED
          BY <1>1, <4>1 DEF Alike
      <3>3. QED
        BY <3>1, <3>2
    <2>5. Alike(v, n)'
      BY <1>3, <2>4 DEF Alike
    <2>6. QED
      BY <1>3, <2>2, <2>5 DEF Mirror
  <1>4. QED
    BY <1>2, <1>3 DEF Compare

(* The device, as long as no fault hits an answer: what was under way comes *)
(* back as a whole, or is gone.                                             *)
LEMMA DeviceMoves ==
  ASSUME Lines, bpc \in Early, chip = "off", ChipStep, RingInOrder
  PROVE  /\ toChip' = <<>> /\ bpc' = bpc /\ n' = n /\ ii' = ii /\ UNCHANGED <<device, disturbed>>
         /\ RingInOrder' /\ unread \in Nat /\ Len(toChip) \in Nat /\ \A i \in 1..unread : incoming(i)' = incoming(i)
         /\ \/ unread' = unread
            \/ /\ unread' = unread + Len(toChip)
               /\ \A i \in unread + 1..unread + Len(toChip) : incoming(i)' = toChip[i - unread]
  <1>1. toChip \in Seq(Nat) /\ toHost \in Seq(Nat) /\ rxhead \in 0..RXSIZE
    BY DEF Lines
  <1>2. UNCHANGED <<bpc, n, ii, ring, device>>
    BY DEF ChipStep, locals, job
  <1>3. Unheard
    BY DEF ChipStep, ChipListen, ChipAnswer, ChipLong, ChipCheck, ProgramStarts
  <1>4. toChip' = <<>> /\ (toHost' = toHost \o toChip \/ toHost' = toHost) /\ disturbed' = disturbed
    BY <1>3 DEF Unheard
  <1>5. unread \in Nat /\ Len(toChip) \in Nat
    BY <1>1, WaitingIs, LenProperties
  <1>6. CASE toHost' = toHost
    BY <1>2, <1>4, <1>5, <1>6, UnreadStays
  <1>7. CASE toHost' = toHost \o toChip
    <2>1. /\ Len(toHost') = Len(toHost) + Len(toChip) /\ \A i \in 1..Len(toHost) : toHost'[i] = toHost[i]
          /\ \A i \in 1..Len(toChip) : toHost'[Len(toHost) + i] = toChip[i]
      BY <1>1, <1>7, Joined
    <2>2. /\ RingInOrder' /\ unread' = unread + Len(toChip)
          /\ \A i \in 1..unread : incoming(i)' = incoming(i)
          /\ \A i \in unread + 1..unread + Len(toChip) : incoming(i)' = toChip[i - unread]
      BY <1>1, <1>2, <2>1, SaysNext
    <2>3. QED
      BY <1>2, <1>4, <1>5, <2>2
  <1>8. QED
    BY <1>4, <1>6, <1>7

LEMMA AstrayDevice ==
  ASSUME Counted, Lines, bpc \in {"drain", "timing", "first", "compare", "bit"}, chip = "off", ChipStep
  PROVE  /\ Sent => Sent'
         /\ Resting => Resting'
         /\ \A v \in BOOLEAN : Mirror(v) => Mirror(v)'
  <1>0. bpc \in Early /\ HandshakeBits \in Nat
    BY BootFacts DEF Early
  <1>1. Sent'
    <2>1. Unheard
      BY DEF ChipStep, ChipListen, ChipAnswer, ChipLong, ChipCheck, ProgramStarts
    <2>2. toChip' = <<>>
      BY <2>1 DEF Unheard
    <2>3. Len(toChip') = 0
      BY <2>2
    <2>4. QED
      BY <2>3 DEF Sent
  <1>2. ASSUME RingInOrder
        PROVE  /\ Len(toChip') = 0 /\ bpc' = bpc /\ n' = n /\ ii' = ii
               /\ RingInOrder' /\ unread \in Nat /\ Len(toChip) \in Nat /\ \A i \in 1..unread : incoming(i)' = incoming(i)
               /\ \/ unread' = unread
                  \/ /\ unread' = unread + Len(toChip)
                     /\ \A i \in unread + 1..unread + Len(toChip) : incoming(i)' = toChip[i - unread]
    <2>1. toChip' = <<>>
      BY <1>0, <1>2, DeviceMoves
    <2>2. Len(toChip') = 0
      BY <2>1
    <2>3. QED
      BY <1>0, <1>2, <2>2, DeviceMoves
  <1>3. ASSUME Resting PROVE Resting'
    <2>1. RingInOrder
      BY <1>3 DEF Resting
    <2> DEFINE u == unread
               u1 == unread'
               c == Len(toChip)
    <2>2. /\ Len(toChip') = 0 /\ RingInOrder' /\ u \in Nat /\ c \in Nat /\ \A i \in 1..u : incoming(i)' = incoming(i)
          /\ u1 = u \/ (u1 = u + c /\ \A i \in u + 1..u + c : incoming(i)' = toChip[i - u])
      BY <1>2, <2>1
    <2>3. CASE u1 = u \/ (u1 = u + c /\ c = 0)
      <3>1. u1 = u
        BY <2>2, <2>3
      <3>2. QED
        BY <1>1, <1>3, <2>2, <3>1 DEF Resting
    <2>4. CASE u1 = u + c /\ c # 0 /\ \A i \in u + 1..u + c : incoming(i)' = toChip[i - u]
      <3>1. u = 0 /\ c = HandshakeBits + 1 /\ Called
        BY <1>3, <2>4 DEF Resting, Sent
      <3>2. u1 = HandshakeBits + 1
        BY <1>0, <2>4, <3>1
      <3>3. ASSUME NEW i \in 1..u1 PROVE incoming(i)' = magic[i]
        <4>1. i \in 1..HandshakeBits + 1 /\ i \in u + 1..u + c /\ i - u = i
          BY <1>0, <3>1, <3>2
        <4>2. QED
          BY <2>4, <3>1, <4>1 DEF Called
      <3>4. QED
        BY <2>2, <3>2, <3>3 DEF Resting
    <2>5. QED
      BY <2>2, <2>3, <2>4
  <1>4. ASSUME NEW v \in BOOLEAN, Mirror(v) PROVE Mirror(v)'
    <2> DEFINE u == unread
               u1 == unread'
               c == Len(toChip)
               h == Heard
    <2>1. /\ RingInOrder /\ \A i \in 1..u : incoming(i) = Mirrored(v, h + i)
          /\ \A i \in 1..c : toChip[i] = Mirrored(v, (h + u) + i)
      BY <1>4 DEF Mirror, Echoed
    <2>2. /\ Len(toChip') = 0 /\ bpc' = bpc /\ n' = n /\ ii' = ii
          /\ RingInOrder' /\ u \in Nat /\ c \in Nat /\ \A i \in 1..u : incoming(i)' = incoming(i)
          /\ u1 = u \/ (u1 = u + c /\ \A i \in u + 1..u + c : incoming(i)' = toChip[i - u])
      BY <1>2, <2>1
    <2>3. Heard' = h
      BY <2>2 DEF Heard
    <2>4. Echoed(v)'
      <3>1. ASSUME NEW i \in 1..u1 PROVE incoming(i)' = Mirrored(v, Heard' + i)
        <4>1. CASE i \in 1..u
          BY <2>1, <2>2, <2>3, <4>1
        <4>2. CASE i \notin 1..u
          <5>1. i \in u + 1..u + c /\ i - u \in 1..c /\ \A j \in u + 1..u + c : incoming(j)' = toChip[j - u]
            BY <2>2, <4>2
          <5>2. toChip[i - u] = Mirrored(v, (h + u) + (i - u))
            BY <2>1, <5>1
          <5>3. (h + u) + (i - u) = h + i
            <6>1. h \in Nat
              BY <1>0 DEF Heard, Counted
            <6>2. QED
              BY <2>2, <5>1, <6>1
          <5>4. QED
            BY <2>3, <5>1, <5>2, <5>3
        <4>3. QED
          BY <4>1, <4>2
      <3>2. \A i \in 1..Len(toChip') : toChip'[i] = Mirrored(v, (Heard' + unread') + i)
        BY <2>2
      <3>3. QED
        BY <2>2, <3>1, <3>2 DEF Echoed
    <2>5. QED
      BY <1>4, <2>2, <2>4 DEF Mirror, Alike
  <1>5. QED
    BY <1>1, <1>3, <1>4

LEMMA AstrayStep ==
  ASSUME Stages, Controlled, Counted, Register, Lines, RingLasts, Astray, [Next]_vars
  PROVE  Astray'
  <1> DEFINE Watched == {"version", "found", "magic", "drain", "timing", "first", "compare", "bit"}
             Goal == /\ bpc' \notin {"version", "found"}
                     /\ bpc' = "magic" => toChip' = <<>>
                     /\ bpc' = "drain" => Sent'
                     /\ bpc' = "timing" => Resting'
                     /\ bpc' \in {"first", "compare", "bit"} => \E v \in BOOLEAN : Mirror(v)'
  <1>1. SUFFICES ASSUME device' # "propeller", ~disturbed' PROVE Goal
    BY DEF Astray
  <1>2. /\ device # "propeller" /\ ~disturbed /\ chip = "off" /\ bpc \notin {"version", "found"}
        /\ bpc = "magic" => toChip = <<>>
        /\ bpc = "drain" => Sent
        /\ bpc = "timing" => Resting
        /\ bpc \in {"first", "compare", "bit"} => \E v \in BOOLEAN : Mirror(v)
    BY <1>1, HostStays, FaultKinds DEF Astray, Controlled
  <1>3. ASSUME bpc' \notin Watched PROVE Goal
    BY <1>3
  <1>4. ASSUME bpc' \in {"first", "compare", "bit"}, \E v \in BOOLEAN : Mirror(v)' PROVE Goal
    BY <1>4
  <1>5. CASE UNCHANGED <<toChip, toHost, ring, bpc, n, ii>>
    <2>1. Heard' = Heard
      BY <1>5 DEF Heard
    <2>2. Sent' = Sent /\ Resting' = Resting
      BY <1>5, SentStays, RestingStays
    <2>3. ASSUME NEW v \in BOOLEAN, Mirror(v) PROVE Mirror(v)'
      <3>1. Echoed(v)'
        BY <1>5, <2>1, <2>3, EchoStays DEF Mirror
      <3>2. QED
        BY <1>5, <2>3, <3>1 DEF Mirror, Alike
    <2>4. QED
      BY <1>2, <1>5, <2>2, <2>3
  <1>6. CASE BootStep
    <2>1. CASE hwreset
      <3>1. bpc' \in {"magic", "failed"} /\ toChip' = <<>>
        BY <2>1 DEF hwreset
      <3>2. QED
        BY <3>1
    <2>2. CASE SendMagic
      <3>1. bpc = "magic" /\ bpc \in Early /\ toChip = <<>> /\ tx(magic, "drain")
        BY <1>2, <2>2 DEF SendMagic, Early
      <3>2. magic \in Seq(Nat) /\ Len(magic) = HandshakeBits + 1 /\ HandshakeBits \in Nat
        BY MagicIs, BootFacts
      <3>3. /\ bpc' = "drain" /\ Len(toChip) \in Nat /\ Len(toChip') = Len(toChip) + Len(magic)
            /\ \A i \in 1..Len(magic) : toChip'[Len(toChip) + i] = magic[i]
        BY <1>1, <3>1, <3>2, Sends
      <3>4. Len(toChip) = 0
        BY <3>1
      <3>5. Len(toChip') = HandshakeBits + 1 /\ \A i \in 1..HandshakeBits + 1 : toChip'[i] = magic[i]
        BY <3>2, <3>3, <3>4
      <3>6. QED
        BY <3>3, <3>5 DEF Sent, Called
    <2>3. CASE Drain
      <3>1. bpc = "drain" /\ toChip' = toChip /\ Sent
        BY <1>2, <2>3 DEF Drain
      <3>2. Sent'
        BY <3>1, SentStays
      <3>3. CASE bpc' = "drain"
        BY <3>2, <3>3
      <3>4. CASE bpc' = "timing" /\ rx_gives_up(Arriving)
        <4>1. ~Arriving /\ UNCHANGED <<toHost, ring>>
          BY <1>1, <3>4 DEF rx_gives_up
        <4>2. toHost \in Seq(Nat) /\ rxhead \in 0..RXSIZE
          BY <3>1 DEF Lines, Early
        <4>3. RingInOrder
          BY <4>1, <4>2, Silence
        <4>4. unread = 0
          BY <4>1, <4>2, <4>3, WaitingIs
        <4>5. RingInOrder' /\ unread' = 0
          BY <4>1, <4>3, <4>4, UnreadStays
        <4>6. QED
          BY <3>2, <3>4, <4>5 DEF Resting
      <3>5. QED
        BY <2>3, <3>3, <3>4 DEF Drain
    <2>4. CASE SendTiming
      <3>1. bpc = "timing" /\ Resting
        BY <1>2, <2>4 DEF SendTiming
      <3>2. bpc' = "first" /\ \E v \in BOOLEAN : Echoed(v)'
        BY <1>1, <2>4, <3>1, AstraySends
      <3>3. QED
        BY <1>4, <3>2 DEF Mirror
    <2>5. CASE FirstBit \/ getBit
      <3>1. bpc \in {"first", "bit"}
        BY <2>5 DEF FirstBit, getBit
      <3>2. PICK v \in BOOLEAN : Mirror(v)
        BY <1>2, <3>1
      <3>3. bpc' = "failed" \/ (bpc' \in {"compare", "bit"} /\ Mirror(v)')
        BY <2>5, <3>2, AstrayReads
      <3>4. QED
        BY <1>3, <1>4, <3>3
    <2>6. CASE Compare
      <3>1. bpc = "compare"
        BY <2>6 DEF Compare
      <3>2. PICK v \in BOOLEAN : Mirror(v)
        BY <1>2, <3>1
      <3>3. bpc' = "resync" \/ (bpc' = "bit" /\ Mirror(v)')
        BY <2>6, <3>2, AstrayCompares
      <3>4. QED
        BY <1>3, <1>4, <3>3
    <2>7. CASE Resync
      <3>1. bpc' \in {"resync", "again"}
        BY <2>7 DEF Resync
      <3>2. QED
        BY <1>3, <3>1
    <2>8. CASE VersionBit \/ findprop
      BY <1>2, <2>8 DEF VersionBit, findprop
    <2>9. CASE UploadHeader \/ UploadData \/ AskForAck \/ getAck
      <3>1. bpc' \in {"count", "data", "verify", "ack", "loaded"}
        <4>1. CASE UploadHeader
          BY <1>1, <4>1 DEF UploadHeader, sendlong, tx
        <4>2. CASE UploadData
          BY <1>1, <4>2 DEF UploadData, sendlong, tx
        <4>3. CASE AskForAck \/ getAck
          BY <4>3 DEF AskForAck, getAck
        <4>4. QED
          BY <2>9, <4>1, <4>2, <4>3
      <3>2. QED
        BY <1>3, <3>1
    <2>10. CASE portHandler
      <3>1. host = "ide" /\ UNCHANGED <<toChip, bpc, n, ii>> /\ bpc \in {"drain", "first", "bit", "resync", "version"}
        BY <2>10 DEF portHandler, locals
      <3>2. CASE bpc = "drain"
        <4>1. Sent'
          BY <1>2, <3>1, <3>2, SentStays
        <4>2. QED
          BY <3>1, <3>2, <4>1
      <3>3. CASE bpc \in {"first", "bit"}
        <4>1. PICK v \in BOOLEAN : Mirror(v)
          BY <1>2, <3>3
        <4>2. /\ RingInOrder /\ \A i \in 1..unread : incoming(i) = Mirrored(v, Heard + i)
              /\ \A i \in 1..Len(toChip) : toChip[i] = Mirrored(v, (Heard + unread) + i)
              /\ bpc = "bit" => Alike(v, n)
          BY <4>1 DEF Mirror, Echoed
        <4>3. toHost \in Seq(Nat) /\ rxhead \in 0..RXSIZE /\ rxhead + Len(toHost) <= RingSize
          BY <3>1, <3>3, RingHasRoom DEF Lines
        <4>4. RingInOrder' /\ unread' = unread /\ \A i \in 1..unread : incoming(i)' = incoming(i)
          BY <2>10, <4>2, <4>3, PortMoves
        <4>5. Heard' = Heard
          BY <3>1 DEF Heard
        <4>6. Echoed(v)'
          BY <3>1, <4>2, <4>4, <4>5 DEF Echoed
        <4>7. Mirror(v)'
          BY <3>1, <3>3, <4>2, <4>6 DEF Mirror, Alike
        <4>8. QED
          BY <1>4, <3>1, <3>3, <4>7
      <3>4. CASE bpc \in {"resync", "version"}
        BY <1>2, <1>3, <3>1, <3>4
      <3>5. QED
        BY <3>1, <3>2, <3>3, <3>4
    <2>11. QED
      BY <1>6, <2>1, <2>2, <2>3, <2>4, <2>5, <2>6, <2>7, <2>8, <2>9, <2>10 DEF BootStep
  <1>7. CASE ChipStep
    <2>1. bpc' = bpc
      BY <1>7 DEF ChipStep
    <2>2. CASE bpc = "magic"
      <3>1. toChip' = <<>>
        BY <1>2, <1>7, <2>2 DEF ChipStep, ChipListen, ChipAnswer, ChipLong, ChipCheck, ProgramStarts, Unheard
      <3>2. QED
        BY <2>1, <2>2, <3>1
    <2>3. CASE bpc \in {"drain", "timing", "first", "compare", "bit"}
      <3>1. (Sent => Sent') /\ (Resting => Resting') /\ \A v \in BOOLEAN : Mirror(v) => Mirror(v)'
        BY <1>2, <1>7, <2>3, AstrayDevice
      <3>2. QED
        BY <1>2, <2>1, <2>3, <3>1
    <2>4. CASE bpc \notin {"magic", "drain", "timing", "first", "compare", "bit"}
      BY <1>2, <2>1, <2>4
    <2>5. QED
      BY <2>2, <2>3, <2>4
  <1>8. CASE Stray
    <2>1. bpc = "drain" /\ toChip' = toChip /\ bpc' = bpc
      BY <1>1, <1>8 DEF Stray
    <2>2. Sent'
      BY <1>2, <2>1, SentStays
    <2>3. QED
      BY <2>1, <2>2
  <1>9. CASE Lost
    BY <1>2, <1>9 DEF Lost
  <1>10. CASE UNCHANGED bootVars
    BY <1>5, <1>10 DEF bootVars, locals
  <1>11. CASE GoesOn \/ (\E buf, d : ploadbuf(buf, d)) \/ WaitForInitialAck
    <2>1. bpc' \in {"idle", "connect", "reset"}
      <3>1. CASE GoesOn
        BY <3>1 DEF GoesOn
      <3>2. CASE \E buf, d : ploadbuf(buf, d)
        BY <3>2 DEF ploadbuf
      <3>3. CASE WaitForInitialAck
        BY <3>3 DEF WaitForInitialAck
      <3>4. QED
        BY <1>11, <3>1, <3>2, <3>3
    <2>2. QED
      BY <1>3, <2>1
  <1>12. QED
    BY <1>6, <1>7, <1>8, <1>9, <1>10, <1>11, StepKinds

-----------------------------------------------------------------------------
(* All that the search keeps to. *)
Search == Controlled /\ Counted /\ Register /\ Lines /\ RingLasts /\ InStep /\ Astray

LEMMA SearchBegins == Init => Search
  <1> SUFFICES ASSUME Init PROVE Search
    OBVIOUS
  <1>1. /\ toChip = <<>> /\ toHost = <<>> /\ chip = "off" /\ answered = 0 /\ longs = <<>> /\ bpc = "idle" /\ retry = 1
        /\ n = 0 /\ to = 0 /\ rxhead = 0 /\ rxtail = 0 /\ faults = 0 /\ disturbed = FALSE
        /\ host \in {"loader", "ide"} /\ (host = "ide" => xpc = "boot")
    BY DEF Init, BootInit
  <1>2. RingSize \in Nat /\ MaxFaults \in Nat /\ Said \in Nat /\ Said >= 1 /\ 2 * Said + MaxFaults <= RingSize
    BY BootFacts, RingAssumption
  <1>3. Controlled /\ Register /\ InStep /\ Astray
    <2>1. Controlled
      BY <1>1 DEF Controlled, BootStages, Early
    <2>2. Register
      BY <1>1 DEF Register
    <2>3. InStep
      BY <1>1 DEF InStep, ChipHas, HostHas, Compared, Listening, Talking
    <2>4. Astray
      BY <1>1 DEF Astray
    <2>5. QED
      BY <2>1, <2>2, <2>3, <2>4
  <1>4. Counted
    BY <1>1, <1>2 DEF Counted
  <1>5. Lines
    <2>1. 0 \in 0..RXSIZE
      BY <1>2 DEF RXSIZE
    <2>2. QED
      BY <1>1, <2>1 DEF Lines
  <1>6. RingLasts
    <2> SUFFICES ASSUME host = "ide" PROVE RingLasts
      BY DEF RingLasts
    <2>1. Len(toHost) = 0 /\ Len(toChip) = 0
      BY <1>1
    <2>2. Unsent = 0 /\ Ahead = Said + Said
      BY <1>1 DEF Unsent, Ahead
    <2>3. Due = Said + Said
      BY <1>1, <1>2, <2>1, <2>2 DEF Due
    <2>4. Due + (MaxFaults - faults) <= RingSize
      BY <1>1, <1>2, <2>3
    <2>5. QED
      BY <1>1, <2>4 DEF RingLasts
  <1>7. QED
    BY <1>3, <1>4, <1>5, <1>6 DEF Search

LEMMA SearchHolds == Spec => []Search
  <1>1. Init => Search
    BY SearchBegins
  <1>2. Stages /\ Search /\ [Next]_vars => Search'
    <2> SUFFICES ASSUME Stages, Search, [Next]_vars PROVE Search'
      OBVIOUS
    <2>1. Controlled /\ Counted /\ Register /\ Lines /\ RingLasts /\ InStep /\ Astray
      BY DEF Search
    <2>2. Controlled' /\ Counted' /\ Lines' /\ RingLasts'
      BY <2>1, ControlledStep, CountedStep, LinesStep, RingLastsStep
    <2>3. Register' /\ InStep' /\ Astray'
      BY <2>1, RegisterStep, InStepStep, AstrayStep
    <2>4. QED
      BY <2>2, <2>3 DEF Search
  <1>3. QED
    BY <1>1, <1>2, StagesHold, PTL DEF Spec

(* A search that fails although a Propeller is there was disturbed by a    *)
(* fault; one that was not ends only with a Propeller and its version,     *)
(* never with a device that returns what it is sent; and the ring of the   *)
(* IDE never overflows (hwfind and findprop of PLoadLib.c, PropellerID.cpp *)
(* of the IDE).                                                            *)
THEOREM PropellerIsFound == Spec => []FindsThePropeller
  <1>1. Search => FindsThePropeller
    <2> SUFFICES ASSUME Search PROVE FindsThePropeller
      OBVIOUS
    <2>1. bpc = "failed" /\ device = "propeller" => disturbed
      BY DEF Search, InStep
    <2>2. bpc = "found" /\ ~disturbed => device = "propeller" /\ version = Version
      BY DEF Search, InStep, Astray, Compared
    <2>3. host = "ide" => rxhead + Len(toHost) <= RingSize
      BY RingHasRoom DEF Search
    <2>4. QED
      BY <2>1, <2>2, <2>3 DEF FindsThePropeller
  <1>2. QED
    BY <1>1, SearchHolds, PTL

-----------------------------------------------------------------------------
(* The programs for the chip: bytes that add up to 20. *)

Bytes == 0..255

IsLe(k) ==
  /\ le(k) \in Seq(Bytes) /\ Len(le(k)) = 4
  /\ le(k)[1] = k % 256 /\ le(k)[2] = (k \div 256) % 256
  /\ IsWord(k) => Word(le(k), 1) = k

LEMMA LeIs == \A k \in Int : IsLe(k)
  <1> SUFFICES ASSUME NEW k \in Int PROVE IsLe(k)
    OBVIOUS
  <1> DEFINE a == k % 256
             b == (k \div 256) % 256
             c == (k \div 65536) % 256
             d == (k \div 16777216) % 256
  <1>1. a \in Bytes /\ b \in Bytes /\ c \in Bytes /\ d \in Bytes
    BY DEF Bytes
  <1>2. IsWord(k) => a + 256 * (b + 256 * (c + 256 * d)) = k
    BY DEF IsWord
  <1>3. le(k) = <<a, b, c, d>>
    BY DEF le
  <1> HIDE DEF a, b, c, d
  <1>4. le(k) \in Seq(Bytes) /\ Len(le(k)) = 4 /\ le(k)[1] = a /\ le(k)[2] = b /\ le(k)[3] = c /\ le(k)[4] = d
    BY <1>1, <1>3
  <1>5. Word(le(k), 1) = a + 256 * (b + 256 * (c + 256 * d))
    BY <1>4 DEF Word
  <1>6. QED
    BY <1>2, <1>4, <1>5 DEF IsLe, a, b, c, d

LEMMA SumIs ==
  ASSUME NEW q \in Seq(Bytes)
  PROVE  \E s \in [0..Len(q) -> Bytes] :
           s[0] = 0 /\ sum(q) = s[Len(q)] /\ \A i \in 1..Len(q) : s[i] = (s[i - 1] + q[i]) % 256
  <1> DEFINE m == Len(q)
             step == [p \in (1..m) \X Bytes |-> (p[2] + q[p[1]]) % 256]
             Sums(f) == f = [i \in 0..m |-> IF i = 0 THEN 0 ELSE (f[i - 1] + q[i]) % 256]
             s == CHOOSE f : Sums(f)
  <1>1. m \in Nat /\ \A i \in 1..m : q[i] \in Bytes
    BY LenProperties
  <1>2. sum(q) = s[m]
    BY DEF sum
  <1> HIDE DEF m
  <1>3. step \in [(1..m) \X Bytes -> Bytes] /\ \A i \in 1..m, x \in Bytes : step[<<i, x>>] = (x + q[i]) % 256
    <2>1. ASSUME NEW i \in 1..m, NEW x \in Bytes PROVE (x + q[i]) % 256 \in Bytes
      <3> DEFINE y == q[i]
      <3>1. y \in Bytes
        BY <1>1
      <3> HIDE DEF y
      <3>2. (x + y) % 256 \in Bytes
        BY <3>1 DEF Bytes
      <3>3. QED
        BY <3>2 DEF y
    <2>2. QED
      BY <2>1
  <1> HIDE DEF step
  <1>4. PICK g \in [0..m -> Bytes] : Recursive(g, m, 0, step)
    <2>1. 0 \in Bytes
      BY DEF Bytes
    <2>2. QED
      BY <1>1, <1>3, <2>1, Recursion
  <1>5. Sums(g)
    <2>1. \A k \in 0..m : g[k] = IF k = 0 THEN 0 ELSE step[<<k, g[k - 1]>>]
      BY <1>4 DEF Recursive
    <2>2. \A k \in 0..m : k # 0 => k \in 1..m /\ k - 1 \in 0..m
      BY <1>1
    <2>3. \A k \in 0..m : g[k] = IF k = 0 THEN 0 ELSE (g[k - 1] + q[k]) % 256
      BY <1>3, <1>4, <2>1, <2>2
    <2>4. g = [k \in 0..m |-> g[k]]
      OBVIOUS
    <2>5. QED
      BY <2>3, <2>4
  <1>6. Sums(s)
    BY <1>5
  <1> HIDE DEF s
  <1>7. s[0] = 0 /\ \A k \in 0..m - 1 : s[k + 1] = (s[k] + q[k + 1]) % 256
    <2>1. \A k \in 0..m : s[k] = IF k = 0 THEN 0 ELSE (s[k - 1] + q[k]) % 256
      BY <1>6
    <2>2. 0 \in 0..m /\ \A k \in 0..m - 1 : k + 1 \in 0..m /\ k + 1 # 0 /\ k + 1 - 1 = k
      BY <1>1
    <2>3. QED
      BY <2>1, <2>2
  <1>8. \A k \in 0..m : s[k] \in Bytes
    <2>1. s[0] \in Bytes
      BY <1>7 DEF Bytes
    <2>2. ASSUME NEW k \in 0..m - 1, s[k] \in Bytes PROVE s[k + 1] \in Bytes
      <3>1. k + 1 \in 1..m
        BY <1>1
      <3>2. <<k + 1, s[k]>> \in (1..m) \X Bytes
        BY <2>2, <3>1
      <3>3. step[<<k + 1, s[k]>>] \in Bytes
        BY <1>3, <3>2
      <3>4. s[k + 1] = step[<<k + 1, s[k]>>]
        BY <1>3, <1>7, <2>2, <3>1
      <3>5. QED
        BY <3>3, <3>4
    <2>3. QED
      BY <1>1, <2>1, <2>2, Stays
  <1>9. \A i \in 1..m : s[i] = (s[i - 1] + q[i]) % 256
    <2>1. \A i \in 1..m : i - 1 \in 0..m - 1 /\ i - 1 + 1 = i
      BY <1>1
    <2>2. QED
      BY <1>7, <2>1
  <1>10. s \in [0..m -> Bytes]
    BY <1>6, <1>8
  <1>11. QED
    BY <1>2, <1>7, <1>9, <1>10 DEF m

(* One byte of a program changes the sum by its difference.                *)
LEMMA SumChanges ==
  ASSUME NEW p \in Seq(Bytes), NEW q \in Seq(Bytes), Len(q) = Len(p), NEW i \in 1..Len(p),
         \A k \in 1..Len(p) : k # i => q[k] = p[k]
  PROVE  sum(q) = ((sum(p) - p[i]) + q[i]) % 256 /\ sum(p) \in Bytes
  <1> DEFINE m == Len(p)
  <1>1. m \in Nat /\ \A k \in 1..m : p[k] \in Bytes /\ q[k] \in Bytes
    BY LenProperties
  <1> DEFINE Adds(u, f) == f[0] = 0 /\ sum(u) = f[Len(u)] /\ \A k \in 1..Len(u) : f[k] = (f[k - 1] + u[k]) % 256
  <1>21. \A u \in Seq(Bytes) : \E f \in [0..Len(u) -> Bytes] : Adds(u, f)
    BY SumIs
  <1> HIDE DEF Adds
  <1>22. PICK s \in [0..Len(p) -> Bytes] : Adds(p, s)
    BY <1>21
  <1>23. PICK t \in [0..Len(q) -> Bytes] : Adds(q, t)
    BY <1>21
  <1>2. s \in [0..m -> Bytes] /\ s[0] = 0 /\ sum(p) = s[m] /\ \A k \in 1..m : s[k] = (s[k - 1] + p[k]) % 256
    BY <1>22 DEF Adds
  <1>3. t \in [0..m -> Bytes] /\ t[0] = 0 /\ sum(q) = t[m] /\ \A k \in 1..m : t[k] = (t[k - 1] + q[k]) % 256
    BY <1>23 DEF Adds
  <1> HIDE DEF m
  <1> DEFINE S == {k \in Nat : t[k] = IF k < i THEN s[k] ELSE ((s[k] - p[i]) + q[i]) % 256}
  <1>4. i \in 1..m /\ \A k \in 1..m : k # i => q[k] = p[k]
    BY DEF m
  <1>5. 0 \in S
    BY <1>2, <1>3, <1>4
  <1>6. ASSUME NEW k \in 0..m - 1, k \in S PROVE k + 1 \in S
    <2> DEFINE x == s[k]
               y == t[k]
               a == p[k + 1]
               b == q[k + 1]
               c == p[i]
               d == q[i]
    <2>1. k + 1 \in 1..m /\ k \in 0..m /\ k + 1 - 1 = k /\ k \in Nat
      BY <1>1
    <2>2. s[k + 1] = (x + a) % 256 /\ t[k + 1] = (y + b) % 256
      BY <1>2, <1>3, <2>1
    <2>3. x \in Bytes /\ y \in Bytes /\ a \in Bytes /\ b \in Bytes /\ c \in Bytes /\ d \in Bytes
      BY <1>1, <1>2, <1>3, <1>4, <2>1
    <2>4. y = IF k < i THEN x ELSE ((x - c) + d) % 256
      BY <1>6
    <2>5. k + 1 # i => a = b
      BY <1>4, <2>1
    <2>6. k + 1 = i => a = c /\ b = d
      OBVIOUS
    <2> HIDE DEF x, y, a, b, c, d
    <2>7. t[k + 1] = IF k + 1 < i THEN s[k + 1] ELSE ((s[k + 1] - c) + d) % 256
      <3>1. CASE k + 1 < i
        BY <1>4, <2>1, <2>2, <2>4, <2>5, <3>1
      <3>2. CASE k + 1 = i
        <4>1. y = x /\ a = c /\ b = d
          BY <1>4, <2>1, <2>4, <2>6, <3>2
        <4>2. (x + d) % 256 = ((((x + c) % 256) - c) + d) % 256
          BY <2>3 DEF Bytes
        <4>3. QED
          BY <2>2, <3>2, <4>1, <4>2
      <3>3. CASE k + 1 > i
        <4>1. y = ((x - c) + d) % 256 /\ a = b
          BY <1>4, <2>1, <2>4, <2>5, <3>3
        <4>2. ((((x - c) + d) % 256) + a) % 256 = ((((x + a) % 256) - c) + d) % 256
          BY <2>3 DEF Bytes
        <4>3. QED
          BY <1>4, <2>1, <2>2, <3>3, <4>1, <4>2
      <3>4. QED
        BY <1>4, <2>1, <3>1, <3>2, <3>3
    <2>8. QED
      BY <2>1, <2>7 DEF c, d
  <1>7. 0..m \subseteq S
    <2> HIDE DEF S
    <2>1. QED
      BY <1>1, <1>5, <1>6, BoundedInduction
  <1>8. m \in S /\ ~ (m < i) /\ m \in 0..m
    BY <1>1, <1>4, <1>7
  <1>9. t[m] = ((s[m] - p[i]) + q[i]) % 256 /\ s[m] \in Bytes
    BY <1>2, <1>8
  <1>10. QED
    BY <1>2, <1>3, <1>9

(* A program behind its header, whose checksum makes the sum what the chip *)
(* insists on.                                                             *)
ClockIs == config.num["clkfreq"] \in Int /\ config.num["clkmode"] \in Bytes

LEMMA BytesJoined ==
  \A p \in Seq(Bytes), q \in Seq(Bytes) :
    /\ p \o q \in Seq(Bytes) /\ Len(p \o q) = Len(p) + Len(q) /\ Len(p) \in Nat /\ Len(q) \in Nat
    /\ \A i \in 1..Len(p) : (p \o q)[i] = p[i]
    /\ \A i \in 1..Len(q) : (p \o q)[Len(p) + i] = q[i]
  BY Joined

LEMMA BinaryIs ==
  ASSUME ClockIs, NEW data \in Seq(Bytes), NEW c \in Bytes
  PROVE  /\ binary(c, data) \in Seq(Bytes) /\ Len(data) \in Nat /\ Len(binary(c, data)) = 8 + Len(data)
         /\ \A i \in 1..4 : binary(c, data)[i] = le(config.num["clkfreq"])[i]
         /\ binary(c, data)[5] = config.num["clkmode"] /\ binary(c, data)[6] = c
         /\ binary(c, data)[7] = 0 /\ binary(c, data)[8] = 0
         /\ \A i \in 1..Len(data) : binary(c, data)[8 + i] = data[i]
  <1> DEFINE f == le(config.num["clkfreq"])
             h == <<config.num["clkmode"], c, 0, 0>>
             fh == f \o h
             m == config.num["clkmode"]
  <1>1. f \in Seq(Bytes) /\ Len(f) = 4
    <2>1. config.num["clkfreq"] \in Int
      BY DEF ClockIs
    <2>2. QED
      BY <2>1, LeIs DEF IsLe
  <1>2. h \in Seq(Bytes) /\ Len(h) = 4 /\ h[1] = m /\ h[2] = c /\ h[3] = 0 /\ h[4] = 0
    <2>1. m \in Bytes /\ 0 \in Bytes
      BY DEF ClockIs, Bytes
    <2> HIDE DEF m
    <2>2. h = <<m, c, 0, 0>>
      BY DEF m
    <2>3. QED
      BY <2>1, <2>2
  <1>3. binary(c, data) = fh \o data
    BY DEF binary
  <1> HIDE DEF f, h, m
  <1>4. /\ fh \in Seq(Bytes) /\ Len(fh) = 8 /\ \A i \in 1..4 : fh[i] = f[i] /\ fh[4 + i] = h[i]
    <2>1. fh = f \o h
      OBVIOUS
    <2> HIDE DEF fh
    <2>2. fh \in Seq(Bytes) /\ Len(fh) = Len(f) + Len(h) /\ (\A i \in 1..Len(f) : fh[i] = f[i]) /\ \A i \in 1..Len(h) : fh[Len(f) + i] = h[i]
      BY <1>1, <1>2, <2>1, BytesJoined
    <2>3. QED
      BY <1>1, <1>2, <2>2
  <1> HIDE DEF fh
  <1>5. fh[5] = m /\ fh[6] = c /\ fh[7] = 0 /\ fh[8] = 0
    <2>1. fh[4 + 1] = m /\ fh[4 + 2] = c /\ fh[4 + 3] = 0 /\ fh[4 + 4] = 0
      BY <1>2, <1>4
    <2>2. QED
      BY <2>1
  <1> DEFINE b == fh \o data
  <1>6. /\ b \in Seq(Bytes) /\ Len(b) = Len(fh) + Len(data) /\ Len(data) \in Nat
        /\ (\A i \in 1..Len(fh) : b[i] = fh[i]) /\ \A i \in 1..Len(data) : b[Len(fh) + i] = data[i]
    <2>1. b = fh \o data
      OBVIOUS
    <2> HIDE DEF b
    <2>2. QED
      BY <1>4, <2>1, BytesJoined
  <1> HIDE DEF b
  <1>7. \A i \in 1..8 : b[i] = fh[i]
    BY <1>4, <1>6
  <1>8. \A i \in 1..4 : b[i] = f[i]
    BY <1>4, <1>7
  <1>9. b[5] = m /\ b[6] = c /\ b[7] = 0 /\ b[8] = 0
    BY <1>5, <1>7
  <1>10. QED
    BY <1>3, <1>4, <1>6, <1>8, <1>9 DEF b, m, f

IsPatched(q, data) ==
  /\ q \in Seq(Bytes) /\ Len(data) \in Nat /\ Len(q) = 8 + Len(data) /\ sum(q) = TARGET_CHECKSUM
  /\ \A i \in 1..4 : q[i] = le(config.num["clkfreq"])[i]
  /\ q[5] = config.num["clkmode"]
  /\ \A i \in 1..Len(data) : q[8 + i] = data[i]

LEMMA PatchedIs ==
  ASSUME ClockIs
  PROVE  \A data \in Seq(Bytes) : IsPatched(patched(data), data)
  <1> SUFFICES ASSUME NEW data \in Seq(Bytes) PROVE IsPatched(patched(data), data)
    OBVIOUS
  <1> DEFINE p == binary(0, data)
             c == checksum(data)
             q == binary(c, data)
             s == sum(p)
  <1>1. 0 \in Bytes
    BY DEF Bytes
  <1>2. /\ p \in Seq(Bytes) /\ Len(data) \in Nat /\ Len(p) = 8 + Len(data)
        /\ \A i \in 1..4 : p[i] = le(config.num["clkfreq"])[i]
        /\ p[5] = config.num["clkmode"] /\ p[6] = 0 /\ p[7] = 0 /\ p[8] = 0
        /\ \A i \in 1..Len(data) : p[8 + i] = data[i]
    BY <1>1, BinaryIs
  <1>3. s \in Bytes
    BY <1>2, SumIs
  <1>4. c = (20 - s) % 256
    BY DEF checksum, TARGET_CHECKSUM
  <1> HIDE DEF s
  <1>5. c \in Bytes
    BY <1>3, <1>4 DEF Bytes
  <1> HIDE DEF c
  <1>6. /\ q \in Seq(Bytes) /\ Len(q) = 8 + Len(data)
        /\ \A i \in 1..4 : q[i] = le(config.num["clkfreq"])[i]
        /\ q[5] = config.num["clkmode"] /\ q[6] = c /\ q[7] = 0 /\ q[8] = 0
        /\ \A i \in 1..Len(data) : q[8 + i] = data[i]
    BY <1>5, BinaryIs
  <1>7. patched(data) = q
    BY DEF patched, c
  <1> HIDE DEF p, q
  <1>8. \A k \in 1..Len(p) : k # 6 => q[k] = p[k]
    <2> SUFFICES ASSUME NEW k \in 1..8 + Len(data), k # 6 PROVE q[k] = p[k]
      BY <1>2
    <2>1. CASE k \in 1..4
      BY <1>2, <1>6, <2>1
    <2>2. CASE k \in {5, 7, 8}
      BY <1>2, <1>6, <2>2
    <2>3. CASE k > 8
      <3>1. k - 8 \in 1..Len(data) /\ 8 + (k - 8) = k
        BY <1>2, <2>3
      <3>2. QED
        BY <1>2, <1>6, <3>1
    <2>4. QED
      BY <1>2, <2>1, <2>2, <2>3
  <1>9. sum(q) = ((s - p[6]) + q[6]) % 256
    <2>1. 6 \in 1..Len(p) /\ Len(q) = Len(p)
      BY <1>2, <1>6
    <2>2. p \in Seq(Bytes) /\ q \in Seq(Bytes)
      BY <1>2, <1>6
    <2>3. \A i \in 1..Len(p) :
            (\A k \in 1..Len(p) : k # i => q[k] = p[k]) => sum(q) = ((sum(p) - p[i]) + q[i]) % 256
      BY <2>1, <2>2, SumChanges
    <2>4. QED
      BY <1>8, <2>1, <2>3 DEF s
  <1>10. sum(q) = TARGET_CHECKSUM
    <2>1. sum(q) = (s + ((20 - s) % 256)) % 256
      BY <1>2, <1>3, <1>4, <1>6, <1>9 DEF Bytes
    <2>2. (s + ((20 - s) % 256)) % 256 = 20
      BY <1>3 DEF Bytes
    <2>3. QED
      BY <2>1, <2>2 DEF TARGET_CHECKSUM
  <1>11. QED
    BY <1>2, <1>6, <1>7, <1>10 DEF IsPatched

-----------------------------------------------------------------------------
(* A long on the line: what is encoded is what the chip decodes. *)

Quad == [1..4 -> Bytes]

LEMMA ByteIs ==
  \A y \in Bytes :
    y = ((((((((y % 2) + 2 * ((y \div 2) % 2)) + 4 * ((y \div 4) % 2)) + 8 * ((y \div 8) % 2))
          + 16 * ((y \div 16) % 2)) + 32 * ((y \div 32) % 2)) + 64 * ((y \div 64) % 2)) + 128 * ((y \div 128) % 2))
  BY DEF Bytes

LEMMA ThreeBits ==
  \A w \in {146, 242}, x \in 0..1, y \in 0..1, z \in 0..1 :
    /\ ((((w + x) + 8 * y) + 64 * z) \div 1) % 2 = x
    /\ ((((w + x) + 8 * y) + 64 * z) \div 8) % 2 = y
    /\ w = 146 => ((((w + x) + 8 * y) + 64 * z) \div 64) % 2 = z
  OBVIOUS

LEMMA BitIs ==
  ASSUME NEW d \in Quad
  PROVE  /\ \A k \in Nat : bit(d, k) \in 0..1
         /\ \A j \in 1..4 :
              /\ bit(d, 8 * (j - 1)) = d[j] % 2 /\ bit(d, 8 * (j - 1) + 1) = (d[j] \div 2) % 2
              /\ bit(d, 8 * (j - 1) + 2) = (d[j] \div 4) % 2 /\ bit(d, 8 * (j - 1) + 3) = (d[j] \div 8) % 2
              /\ bit(d, 8 * (j - 1) + 4) = (d[j] \div 16) % 2 /\ bit(d, 8 * (j - 1) + 5) = (d[j] \div 32) % 2
              /\ bit(d, 8 * (j - 1) + 6) = (d[j] \div 64) % 2 /\ bit(d, 8 * (j - 1) + 7) = (d[j] \div 128) % 2
  <1>1. 2^0 = 1 /\ 2^1 = 2 /\ 2^2 = 4 /\ 2^3 = 8 /\ 2^4 = 16 /\ 2^5 = 32 /\ 2^6 = 64 /\ 2^7 = 128
    OBVIOUS
  <1>2. \A y \in Bytes : y \div 1 = y
    BY DEF Bytes
  <1>3. ASSUME NEW j \in 1..4, NEW r \in 0..7
        PROVE  bit(d, 8 * (j - 1) + r) = (d[j] \div 2^r) % 2 /\ bit(d, 8 * (j - 1) + r) \in 0..1
    <2> DEFINE k == 8 * (j - 1) + r
    <2>1. k \in 0..31 /\ k \div 8 + 1 = j /\ k % 8 = r
      OBVIOUS
    <2> HIDE DEF k
    <2>2. bit(d, k) = (d[j] \div 2^r) % 2
      BY <2>1 DEF bit
    <2>3. (d[j] \div 2^r) % 2 \in 0..1
      <3> DEFINE y == d[j]
                 p == 2^r
      <3>1. p \in {1, 2, 4, 8, 16, 32, 64, 128}
        <4> DEFINE P(t) == 2^t \in {1, 2, 4, 8, 16, 32, 64, 128}
        <4>1. P(0) /\ P(1) /\ P(2) /\ P(3) /\ P(4) /\ P(5) /\ P(6) /\ P(7)
          BY <1>1
        <4> HIDE DEF P
        <4>2. r \in {0, 1, 2, 3, 4, 5, 6, 7}
          OBVIOUS
        <4>3. P(r)
          BY <4>1, <4>2
        <4>4. QED
          BY <4>3 DEF P
      <3>2. y \in Bytes
        BY DEF Quad
      <3> HIDE DEF y, p
      <3>3. (y \div p) % 2 \in 0..1
        BY <3>1, <3>2 DEF Bytes
      <3>4. QED
        BY <3>3 DEF y, p
    <2>4. QED
      BY <2>2, <2>3 DEF k
  <1>4. ASSUME NEW k \in Nat PROVE bit(d, k) \in 0..1
    <2>1. CASE k > 31
      BY <2>1 DEF bit
    <2>2. CASE ~ (k > 31)
      <3> DEFINE j == k \div 8 + 1
                 r == k % 8
      <3>1. j \in 1..4 /\ r \in 0..7 /\ 8 * (j - 1) + r = k
        BY <2>2
      <3> HIDE DEF j, r
      <3>2. bit(d, 8 * (j - 1) + r) \in 0..1
        BY <1>3, <3>1
      <3>3. QED
        BY <3>1, <3>2
    <2>3. QED
      BY <2>1, <2>2
  <1>5. ASSUME NEW j \in 1..4
        PROVE  /\ bit(d, 8 * (j - 1)) = d[j] % 2 /\ bit(d, 8 * (j - 1) + 1) = (d[j] \div 2) % 2
               /\ bit(d, 8 * (j - 1) + 2) = (d[j] \div 4) % 2 /\ bit(d, 8 * (j - 1) + 3) = (d[j] \div 8) % 2
               /\ bit(d, 8 * (j - 1) + 4) = (d[j] \div 16) % 2 /\ bit(d, 8 * (j - 1) + 5) = (d[j] \div 32) % 2
               /\ bit(d, 8 * (j - 1) + 6) = (d[j] \div 64) % 2 /\ bit(d, 8 * (j - 1) + 7) = (d[j] \div 128) % 2
    <2>1. bit(d, 8 * (j - 1)) = d[j] % 2
      <3>1. bit(d, 8 * (j - 1) + 0) = (d[j] \div 2^0) % 2
        BY <1>3
      <3>2. 8 * (j - 1) + 0 = 8 * (j - 1) /\ d[j] \div 2^0 = d[j]
        BY <1>1, <1>2 DEF Quad
      <3>3. QED
        BY <3>1, <3>2
    <2>2. bit(d, 8 * (j - 1) + 1) = (d[j] \div 2^1) % 2 /\ bit(d, 8 * (j - 1) + 2) = (d[j] \div 2^2) % 2
      BY <1>3
    <2>3. bit(d, 8 * (j - 1) + 3) = (d[j] \div 2^3) % 2 /\ bit(d, 8 * (j - 1) + 4) = (d[j] \div 2^4) % 2
      BY <1>3
    <2>4. bit(d, 8 * (j - 1) + 5) = (d[j] \div 2^5) % 2 /\ bit(d, 8 * (j - 1) + 6) = (d[j] \div 2^6) % 2
      BY <1>3
    <2>5. bit(d, 8 * (j - 1) + 7) = (d[j] \div 2^7) % 2
      BY <1>3
    <2>6. QED
      BY <1>1, <2>1, <2>2, <2>3, <2>4, <2>5
  <1>6. QED
    BY <1>4, <1>5

LEMMA LongIs ==
  \A d \in Quad : makelong(d) \in Seq(Nat) /\ Len(makelong(d)) = LONG
  <1> SUFFICES ASSUME NEW d \in Quad PROVE makelong(d) \in Seq(Nat) /\ Len(makelong(d)) = LONG
    OBVIOUS
  <1> DEFINE v(i) == (IF i < LONG THEN 146 ELSE 242) + bit(d, 3 * i - 3) + 8 * bit(d, 3 * i - 2) + 64 * bit(d, 3 * i - 1)
             m == [i \in 1..LONG |-> v(i)]
  <1>1. ASSUME NEW i \in 1..LONG PROVE v(i) \in Nat
    <2> DEFINE x == bit(d, 3 * i - 3)
               y == bit(d, 3 * i - 2)
               z == bit(d, 3 * i - 1)
    <2>1. 3 * i - 3 \in Nat /\ 3 * i - 2 \in Nat /\ 3 * i - 1 \in Nat
      BY DEF LONG
    <2>2. x \in 0..1 /\ y \in 0..1 /\ z \in 0..1
      BY <2>1, BitIs
    <2> HIDE DEF x, y, z
    <2>3. (IF i < LONG THEN 146 ELSE 242) + x + 8 * y + 64 * z \in Nat
      BY <2>2
    <2>4. QED
      BY <2>3 DEF x, y, z
  <1> HIDE DEF v
  <1>2. LONG \in Nat
    BY DEF LONG
  <1>3. m \in Seq(Nat) /\ Len(m) = LONG
    BY <1>1, <1>2
  <1>4. makelong(d) = m
    BY DEF makelong, v
  <1>5. QED
    BY <1>3, <1>4

LEMMA LongArrives == \A d \in Quad : decoded(makelong(d)) = d
  <1> SUFFICES ASSUME NEW d \in Quad PROVE decoded(makelong(d)) = d
    OBVIOUS
  <1> DEFINE x(k) == bit(d, k)
             m == makelong(d)
             b(k) == (m[(k \div 3) + 1] \div 8^(k % 3)) % 2
  <1>1. \A k \in Nat : x(k) \in 0..1
    BY BitIs
  <1>2. \A i \in 1..11 : m[i] = (IF i < 11 THEN 146 ELSE 242) + x(3 * i - 3) + 8 * x(3 * i - 2) + 64 * x(3 * i - 1)
    BY DEF makelong, LONG
  <1> HIDE DEF x, m
  <1>3. ASSUME NEW k \in 0..31 PROVE b(k) = x(k)
    <2> DEFINE i == (k \div 3) + 1
               w == IF i < 11 THEN 146 ELSE 242
               p == x(3 * i - 3)
               q == x(3 * i - 2)
               r == x(3 * i - 1)
               y == m[i]
    <2>1. i \in 1..11 /\ (k % 3 = 0 => k = 3 * i - 3) /\ (k % 3 = 1 => k = 3 * i - 2) /\ (k % 3 = 2 => k = 3 * i - 1 /\ i < 11) /\ k % 3 \in {0, 1, 2}
      OBVIOUS
    <2> HIDE DEF i
    <2>2. 3 * i - 3 \in Nat /\ 3 * i - 2 \in Nat /\ 3 * i - 1 \in Nat
      BY <2>1
    <2>3. p \in 0..1 /\ q \in 0..1 /\ r \in 0..1
      BY <1>1, <2>2
    <2>4. y = w + p + 8 * q + 64 * r
      BY <1>2, <2>1
    <2>5. w \in {146, 242} /\ (i < 11 => w = 146)
      OBVIOUS
    <2>6. b(k) = (y \div 8^(k % 3)) % 2
      BY DEF i
    <2> HIDE DEF w, p, q, r, y, b
    <2>7. (y \div 1) % 2 = p /\ (y \div 8) % 2 = q /\ (w = 146 => (y \div 64) % 2 = r)
      BY <2>3, <2>4, <2>5, ThreeBits
    <2>8. 8^0 = 1 /\ 8^1 = 8 /\ 8^2 = 64
      OBVIOUS
    <2>9. CASE k % 3 = 0
      BY <2>1, <2>6, <2>7, <2>8, <2>9 DEF p
    <2>10. CASE k % 3 = 1
      BY <2>1, <2>6, <2>7, <2>8, <2>10 DEF q
    <2>11. CASE k % 3 = 2
      BY <2>1, <2>5, <2>6, <2>7, <2>8, <2>11 DEF r
    <2>12. QED
      BY <2>1, <2>9, <2>10, <2>11
  <1> DEFINE up(k) == b(k) + 2 * b(k + 1)
             D == [j \in 1..4 |-> up(8 * (j - 1)) + 4 * up(8 * (j - 1) + 2) + 16 * up(8 * (j - 1) + 4) + 64 * up(8 * (j - 1) + 6)]
  <1>4. decoded(m) = D
    BY DEF decoded
  <1> HIDE DEF b
  <1>5. ASSUME NEW j \in 1..4 PROVE D[j] = d[j]
    <2> DEFINE k == 8 * (j - 1)
               y == d[j]
    <2>1. k \in 0..24 /\ k + 1 \in 0..31 /\ k + 2 \in 0..31 /\ k + 3 \in 0..31 /\ k + 4 \in 0..31 /\ k + 5 \in 0..31 /\ k + 6 \in 0..31 /\ k + 7 \in 0..31
          /\ k \in 0..31 /\ (k + 2) + 1 = k + 3 /\ (k + 4) + 1 = k + 5 /\ (k + 6) + 1 = k + 7
      OBVIOUS
    <2>2. D[j] = up(k) + 4 * up(k + 2) + 16 * up(k + 4) + 64 * up(k + 6)
      OBVIOUS
    <2>3. /\ x(k) = y % 2 /\ x(k + 1) = (y \div 2) % 2 /\ x(k + 2) = (y \div 4) % 2 /\ x(k + 3) = (y \div 8) % 2
          /\ x(k + 4) = (y \div 16) % 2 /\ x(k + 5) = (y \div 32) % 2 /\ x(k + 6) = (y \div 64) % 2 /\ x(k + 7) = (y \div 128) % 2
      BY BitIs DEF x
    <2>4. y \in Bytes
      BY DEF Quad
    <2> HIDE DEF k, y, D
    <2>5. /\ b(k) = y % 2 /\ b(k + 1) = (y \div 2) % 2 /\ b(k + 2) = (y \div 4) % 2 /\ b(k + 3) = (y \div 8) % 2
          /\ b(k + 4) = (y \div 16) % 2 /\ b(k + 5) = (y \div 32) % 2 /\ b(k + 6) = (y \div 64) % 2 /\ b(k + 7) = (y \div 128) % 2
      BY <1>3, <2>1, <2>3
    <2>6. /\ up(k) = b(k) + 2 * b(k + 1) /\ up(k + 2) = b(k + 2) + 2 * b(k + 3)
          /\ up(k + 4) = b(k + 4) + 2 * b(k + 5) /\ up(k + 6) = b(k + 6) + 2 * b(k + 7)
      BY <2>1
    <2> HIDE DEF up
    <2>7. D[j] = y
      <3>1. D[j] = ((y % 2) + 2 * ((y \div 2) % 2)) + 4 * (((y \div 4) % 2) + 2 * ((y \div 8) % 2))
                   + 16 * (((y \div 16) % 2) + 2 * ((y \div 32) % 2)) + 64 * (((y \div 64) % 2) + 2 * ((y \div 128) % 2))
        BY <2>2, <2>5, <2>6
      <3>2. QED
        BY <2>4, <3>1, ByteIs DEF Bytes
    <2>8. QED
      BY <2>7 DEF y
  <1>6. D = d
    <2>1. d = [j \in 1..4 |-> d[j]]
      BY DEF Quad
    <2>2. D = [j \in 1..4 |-> D[j]]
      OBVIOUS
    <2> HIDE DEF D
    <2>3. QED
      BY <1>5, <2>1, <2>2
  <1>7. QED
    BY <1>4, <1>6 DEF m

-----------------------------------------------------------------------------
(* What the description means, and the programs that are made for it. *)

LEMMA Greatest ==
  ASSUME NEW S, NEW L \in Nat, S \subseteq 1..L, S # {}
  PROVE  Max(S) \in S
  <1> DEFINE T == {k \in Nat : \E y \in S : k = L - y}
  <1>1. T \subseteq Nat /\ T # {}
    <2>1. PICK y : y \in S
      OBVIOUS
    <2>2. L - y \in Nat
      BY <2>1
    <2>3. L - y \in T
      BY <2>1, <2>2
    <2>4. QED
      BY <2>3
  <1>2. Min(T) \in T /\ \A k \in T : Min(T) <= k
    <2> HIDE DEF T
    <2>1. QED
      BY <1>1, Least
  <1>3. PICK x \in S : Min(T) = L - x
    BY <1>2
  <1>4. \A y \in S : x >= y
    <2> SUFFICES ASSUME NEW y \in S PROVE x >= y
      OBVIOUS
    <2>1. x \in 1..L /\ y \in 1..L
      OBVIOUS
    <2>2. L - y \in T
      BY <2>1
    <2>3. L - x <= L - y
      BY <1>2, <1>3, <2>2
    <2>4. QED
      BY <2>1, <2>3
  <1>5. QED
    BY <1>4 DEF Max

LEMMA MeantIs ==
  ASSUME task \in Tasks, Described(task.board) # 0, NEW tag \in NumericTags
  PROVE  Meant(tag) = UNDEFINED \/ IsWord(Meant(tag))
  <1> DEFINE D == {i \in 1..Len(task.boards) : task.boards[i].name = task.board}
             d == Described(task.board)
             b == task.boards[d]
             G == {i \in 1..Len(b.settings) : b.settings[i][1] = tag}
             g == Given(b, tag)
             s == b.settings[g]
  <1>1. task.boards \in Seq(Range(task.boards)) /\ Len(task.boards) \in Nat
    BY DescriptionAssumption, LenProperties
  <1>2. d \in 1..Len(task.boards)
    <2>1. d = IF D # {} THEN Min(D) ELSE 0
      BY DEF Described, SelectInSeq
    <2>2. D \subseteq 1..Len(task.boards)
      OBVIOUS
    <2> HIDE DEF D, d
    <2>3. d \in 0..Len(task.boards)
      BY <1>1, <2>1, <2>2, First
    <2>4. d # 0
      BY DEF d
    <2>5. QED
      BY <1>1, <2>3, <2>4
  <1> HIDE DEF d
  <1>3. b \in Range(task.boards)
    BY <1>1, <1>2, ElementOfSeq
  <1>4. /\ b.settings \in Seq(Range(b.settings)) /\ Len(b.settings) \in Nat
        /\ \A x \in Range(b.settings) : x[1] \in NumericTags => x[3] = UNDEFINED \/ IsWord(x[3])
    BY <1>3, DescriptionAssumption, LenProperties
  <1>5. tag \notin StringTags
    BY DEF NumericTags, ByteTags, StringTags
  <1>6. Meant(tag) = IF g = 0 THEN 0 ELSE worth(s)
    BY <1>5 DEF Meant, MeantFor, nothing, d
  <1> HIDE DEF b
  <1>7. CASE g = 0
    BY <1>6, <1>7 DEF IsWord
  <1>8. CASE g # 0
    <2>1. g = IF G # {} THEN Max(G) ELSE 0
      BY DEF Given, SelectLastInSeq
    <2>2. G \subseteq 1..Len(b.settings)
      OBVIOUS
    <2>3. g \in G
      <3> HIDE DEF G, g
      <3>1. G # {} /\ g = Max(G)
        BY <1>8, <2>1
      <3>2. QED
        BY <1>4, <2>2, <3>1, Greatest
    <2>4. s \in Range(b.settings) /\ s[1] = tag
      BY <1>4, <2>3, ElementOfSeq
    <2> HIDE DEF s
    <2>5. s[3] = UNDEFINED \/ IsWord(s[3])
      BY <1>4, <2>4
    <2>6. worth(s) = IF tag \in ByteTags /\ s[3] # UNDEFINED THEN s[3] % 256 ELSE s[3]
      BY <1>5, <2>4 DEF worth
    <2>7. IsWord(s[3]) => IsWord(s[3] % 256)
      BY DEF IsWord
    <2>8. QED
      BY <1>6, <1>8, <2>5, <2>6, <2>7
  <1>9. QED
    BY <1>7, <1>8

(* Four bytes that say what the board says.                                *)
LEMMA WordFits ==
  ASSUME task \in Tasks, Described(task.board) # 0, NEW tag \in NumericTags
  PROVE  \A v \in Int : IsFor(tag, v) => IsFor(tag, Word(le(v), 1))
  <1> SUFFICES ASSUME NEW v \in Int, IsFor(tag, v) PROVE IsFor(tag, Word(le(v), 1))
    OBVIOUS
  <1>1. CASE Meant(tag) = UNDEFINED
    BY <1>1 DEF IsFor
  <1>2. CASE Meant(tag) # UNDEFINED
    <2>1. Meant(tag) = v
      BY <1>2 DEF IsFor
    <2>2. IsWord(v)
      BY <1>2, <2>1, MeantIs
    <2>3. Word(le(v), 1) = v
      BY <2>2, LeIs DEF IsLe
    <2>4. QED
      BY <2>1, <2>3 DEF IsFor
  <1>3. QED
    BY <1>1, <1>2

LEMMA BytesAre ==
  ASSUME NEW words \in Seq(Int)
  PROVE  /\ bytes(words) \in Seq(Bytes) /\ Len(words) \in Nat /\ Len(bytes(words)) = 4 * Len(words)
         /\ \A i \in 1..Len(words), j \in 1..4 : bytes(words)[4 * i - 4 + j] = le(words[i])[j]
  <1> DEFINE m == Len(words)
             e(i) == le(words[(i - 1) \div 4 + 1])[((i - 1) % 4) + 1]
             q == [i \in 1..4 * m |-> e(i)]
  <1>1. m \in Nat /\ \A i \in 1..m : words[i] \in Int
    BY LenProperties
  <1>2. bytes(words) = q
    BY DEF bytes
  <1> HIDE DEF m
  <1>3. ASSUME NEW i \in 1..4 * m PROVE e(i) \in Bytes
    <2> DEFINE k == (i - 1) \div 4 + 1
               j == ((i - 1) % 4) + 1
    <2>1. k \in 1..m /\ j \in 1..4
      BY <1>1
    <2> HIDE DEF k, j
    <2>2. le(words[k]) \in Seq(Bytes) /\ Len(le(words[k])) = 4
      BY <1>1, <2>1, LeIs DEF IsLe
    <2>3. le(words[k])[j] \in Bytes
      BY <2>1, <2>2, ElementOfSeq
    <2>4. QED
      BY <2>3 DEF k, j
  <1>4. ASSUME NEW i \in 1..m, NEW j \in 1..4 PROVE q[4 * i - 4 + j] = le(words[i])[j]
    <2> DEFINE k == 4 * i - 4 + j
    <2>1. k \in 1..4 * m /\ (k - 1) \div 4 + 1 = i /\ ((k - 1) % 4) + 1 = j
      BY <1>1
    <2> HIDE DEF k
    <2>2. q[k] = le(words[i])[j]
      BY <2>1
    <2>3. QED
      BY <2>2 DEF k
  <1> HIDE DEF e
  <1>5. 4 * m \in Nat
    BY <1>1
  <1>6. q \in Seq(Bytes) /\ Len(q) = 4 * m
    BY <1>3, <1>5
  <1> HIDE DEF q
  <1>7. QED
    BY <1>1, <1>2, <1>4, <1>6 DEF m

(* What upload can send: whole longs, not too many, with the right sum.    *)
IsUpload(q) == q \in Seq(Bytes) /\ Len(q) % 4 = 0 /\ Len(q) \div 4 < 65536 /\ sum(q) = TARGET_CHECKSUM

params(x, y) == (x \o pins) \o <<y, 0>>

LEMMA FieldsAre ==
  ASSUME IsBoard(config)
  PROVE  \A x \in Seq(Bytes), y \in Bytes :
           /\ params(x, y) \in Seq(Bytes) /\ Len(x) \in Nat /\ Len(params(x, y)) = Len(x) + 4
           /\ \A i \in 1..Len(x) : params(x, y)[i] = x[i]
           /\ params(x, y)[Len(x) + 1] = config.num["rxpin"] /\ params(x, y)[Len(x) + 2] = config.num["txpin"]
           /\ params(x, y)[Len(x) + 3] = y /\ params(x, y)[Len(x) + 4] = 0
  <1> SUFFICES ASSUME NEW x \in Seq(Bytes), NEW y \in Bytes
               PROVE  /\ params(x, y) \in Seq(Bytes) /\ Len(x) \in Nat /\ Len(params(x, y)) = Len(x) + 4
                      /\ \A i \in 1..Len(x) : params(x, y)[i] = x[i]
                      /\ params(x, y)[Len(x) + 1] = config.num["rxpin"] /\ params(x, y)[Len(x) + 2] = config.num["txpin"]
                      /\ params(x, y)[Len(x) + 3] = y /\ params(x, y)[Len(x) + 4] = 0
    OBVIOUS
  <1> DEFINE rx == config.num["rxpin"]
             tx1 == config.num["txpin"]
             two == <<y, 0>>
             a == x \o pins
             b == a \o two
  <1>1. rx \in Bytes /\ tx1 \in Bytes /\ 0 \in Bytes
    BY DEF IsBoard, ByteTags, Bytes
  <1>2. pins = <<rx, tx1>>
    BY DEF pins
  <1> HIDE DEF rx, tx1
  <1>3. pins \in Seq(Bytes) /\ Len(pins) = 2 /\ pins[1] = rx /\ pins[2] = tx1
    BY <1>1, <1>2
  <1>4. two \in Seq(Bytes) /\ Len(two) = 2 /\ two[1] = y /\ two[2] = 0
    BY <1>1
  <1> HIDE DEF two
  <1>5. /\ a \in Seq(Bytes) /\ Len(a) = Len(x) + Len(pins) /\ Len(x) \in Nat
        /\ (\A i \in 1..Len(x) : a[i] = x[i]) /\ \A i \in 1..Len(pins) : a[Len(x) + i] = pins[i]
    BY <1>3, BytesJoined
  <1> HIDE DEF a
  <1>6. /\ b \in Seq(Bytes) /\ Len(b) = Len(a) + Len(two)
        /\ (\A i \in 1..Len(a) : b[i] = a[i]) /\ \A i \in 1..Len(two) : b[Len(a) + i] = two[i]
    BY <1>4, <1>5, BytesJoined
  <1>7. params(x, y) = b
    BY DEF params, a, two
  <1> HIDE DEF b
  <1>8. \A i \in 1..Len(x) : b[i] = x[i]
    BY <1>3, <1>5, <1>6
  <1>9. b[Len(x) + 1] = rx /\ b[Len(x) + 2] = tx1
    <2>1. Len(x) + 1 \in 1..Len(a) /\ Len(x) + 2 \in 1..Len(a) /\ 1 \in 1..Len(pins) /\ 2 \in 1..Len(pins)
      BY <1>3, <1>5
    <2>2. QED
      BY <1>3, <1>5, <1>6, <2>1
  <1>10. b[Len(x) + 3] = y /\ b[Len(x) + 4] = 0
    <2>1. 1 \in 1..Len(two) /\ 2 \in 1..Len(two) /\ Len(a) + 1 = Len(x) + 3 /\ Len(a) + 2 = Len(x) + 4
      BY <1>3, <1>4, <1>5
    <2>2. QED
      BY <1>4, <1>6, <2>1
  <1>11. Len(b) = Len(x) + 4
    BY <1>3, <1>4, <1>5, <1>6
  <1>12. QED
    BY <1>5, <1>6, <1>7, <1>8, <1>9, <1>10, <1>11 DEF rx, tx1

(* A program q for the chip: behind the header x, the pins, another byte   *)
(* and the code.                                                           *)
MadeOf(q, x, y, code) ==
  /\ IsUpload(q) /\ Len(x) \in Nat /\ Len(code) \in Nat /\ Len(q) = (12 + Len(x)) + Len(code)
  /\ \A i \in 1..4 : q[i] = le(config.num["clkfreq"])[i]
  /\ q[5] = config.num["clkmode"]
  /\ \A i \in 1..Len(x) : q[8 + i] = x[i]
  /\ q[9 + Len(x)] = config.num["rxpin"] /\ q[10 + Len(x)] = config.num["txpin"] /\ q[11 + Len(x)] = y
  /\ SubSeq(q, 13 + Len(x), Len(q)) = code

EndsWith(q, k, code) == Len(q) = k + Len(code) /\ \A i \in 1..Len(code) : q[k + i] = code[i]
LEMMA Behind ==
  \A q \in Seq(Bytes), code \in Seq(Bytes), k \in Nat : EndsWith(q, k, code) => SubSeq(q, k + 1, Len(q)) = code
  <1> SUFFICES ASSUME NEW q \in Seq(Bytes), NEW code \in Seq(Bytes), NEW k \in Nat, Len(q) = k + Len(code),
                      \A i \in 1..Len(code) : q[k + i] = code[i]
               PROVE  SubSeq(q, k + 1, Len(q)) = code
    BY DEF EndsWith
  <1>1. Len(code) \in Nat /\ Len(q) \in Nat
    BY LenProperties
  <1> DEFINE t == SubSeq(q, k + 1, Len(q))
  <1>2. k + 1 \in Int /\ Len(q) \in Int /\ k + 1 >= 1
    BY <1>1
  <1>3. /\ t \in Seq(Bytes) /\ Len(t) = (IF k + 1 <= Len(q) THEN Len(q) - (k + 1) + 1 ELSE 0)
        /\ \A i \in 1..Len(q) - (k + 1) + 1 : t[i] = q[(k + 1) + i - 1]
    <2>1. \A i \in k + 1..Len(q) : q[i] \in Bytes
      <3>1. \A i \in k + 1..Len(q) : i \in 1..Len(q)
        BY <1>1
      <3>2. QED
        BY <3>1, ElementOfSeq
    <2>2. QED
      BY <1>2, <2>1, SubSeqProperties
  <1> HIDE DEF t
  <1>4. Len(t) = Len(code)
    BY <1>1, <1>3
  <1>5. \A i \in 1..Len(t) : t[i] = code[i]
    <2> SUFFICES ASSUME NEW i \in 1..Len(code) PROVE t[i] = code[i]
      BY <1>4
    <2>1. i \in 1..Len(q) - (k + 1) + 1 /\ (k + 1) + i - 1 = k + i
      BY <1>1
    <2>2. QED
      BY <1>3, <2>1
  <1>6. QED
    BY <1>3, <1>4, <1>5, SeqEqual DEF t

WholeLongs(x, code) == Len(x) % 4 = 0 /\ Len(code) % 4 = 0 /\ (Len(x) + Len(code)) \div 4 < 65533

LEMMA ProgramIs ==
  ASSUME IsBoard(config)
  PROVE  \A x \in Seq(Bytes), y \in Bytes, code \in Seq(Bytes) :
           WholeLongs(x, code) => MadeOf(patched(params(x, y) \o code), x, y, code)
  <1> SUFFICES ASSUME NEW x \in Seq(Bytes), NEW y \in Bytes, NEW code \in Seq(Bytes), Len(x) % 4 = 0, Len(code) % 4 = 0,
                      (Len(x) + Len(code)) \div 4 < 65533
               PROVE  MadeOf(patched(params(x, y) \o code), x, y, code)
    BY DEF WholeLongs
  <1> DEFINE p == params(x, y)
             d == p \o code
             q == patched(d)
  <1>1. /\ p \in Seq(Bytes) /\ Len(x) \in Nat /\ Len(p) = Len(x) + 4
        /\ \A i \in 1..Len(x) : p[i] = x[i]
        /\ p[Len(x) + 1] = config.num["rxpin"] /\ p[Len(x) + 2] = config.num["txpin"] /\ p[Len(x) + 3] = y
    BY FieldsAre
  <1> HIDE DEF p
  <1>2. /\ d \in Seq(Bytes) /\ Len(d) = Len(p) + Len(code) /\ Len(code) \in Nat
        /\ (\A i \in 1..Len(p) : d[i] = p[i]) /\ \A i \in 1..Len(code) : d[Len(p) + i] = code[i]
    <2>1. p \in Seq(Bytes) /\ code \in Seq(Bytes)
      BY <1>1
    <2>2. QED
      BY <2>1, BytesJoined
  <1> HIDE DEF d
  <1>3. ClockIs
    BY DEF ClockIs, IsBoard, NumericTags, ByteTags, Bytes
  <1>4. /\ q \in Seq(Bytes) /\ Len(q) = 8 + Len(d) /\ sum(q) = TARGET_CHECKSUM
        /\ \A i \in 1..4 : q[i] = le(config.num["clkfreq"])[i]
        /\ q[5] = config.num["clkmode"]
        /\ \A i \in 1..Len(d) : q[8 + i] = d[i]
    <2>1. IsPatched(q, d)
      BY <1>2, <1>3, PatchedIs
    <2> HIDE DEF q
    <2>2. QED
      BY <2>1 DEF IsPatched
  <1>5. MadeOf(q, x, y, code)
    <2> HIDE DEF q
    <2>1. Len(q) = (12 + Len(x)) + Len(code)
      BY <1>1, <1>2, <1>4
    <2>2. IsUpload(q)
      <3>1. Len(q) % 4 = 0 /\ Len(q) \div 4 < 65536
        <4> DEFINE a == Len(x)
                   b == Len(code)
        <4>1. a \in Nat /\ b \in Nat /\ a % 4 = 0 /\ b % 4 = 0 /\ (a + b) \div 4 < 65533 /\ Len(q) = (12 + a) + b
          BY <1>1, <1>2, <2>1
        <4> HIDE DEF a, b
        <4>2. QED
          BY <4>1
      <3>2. QED
        BY <1>4, <3>1 DEF IsUpload
    <2>3. \A i \in 1..Len(x) : q[8 + i] = x[i]
      <3>1. \A i \in 1..Len(x) : i \in 1..Len(p) /\ i \in 1..Len(d)
        BY <1>1, <1>2
      <3>2. QED
        BY <1>1, <1>2, <1>4, <3>1
    <2>4. \A k \in 1..3 : q[(8 + Len(x)) + k] = p[Len(x) + k]
      <3> SUFFICES ASSUME NEW k \in 1..3 PROVE q[(8 + Len(x)) + k] = p[Len(x) + k]
        OBVIOUS
      <3> DEFINE a == Len(x)
                 b == Len(p)
                 e == Len(d)
                 c == Len(code)
                 j == a + k
      <3>3. a \in Nat /\ b = a + 4 /\ c \in Nat /\ e = b + c
        BY <1>1, <1>2
      <3> HIDE DEF a, b, c, e
      <3>1. j \in 1..b /\ j \in 1..e /\ (8 + a) + k = 8 + j
        BY <3>3
      <3> HIDE DEF j
      <3>4. d[j] = p[j]
        BY <1>2, <3>1 DEF b
      <3>5. q[8 + j] = d[j]
        BY <1>4, <3>1 DEF e
      <3>2. QED
        BY <3>1, <3>4, <3>5 DEF a, j
    <2>5. q[9 + Len(x)] = config.num["rxpin"] /\ q[10 + Len(x)] = config.num["txpin"] /\ q[11 + Len(x)] = y
      <3>1. (8 + Len(x)) + 1 = 9 + Len(x) /\ (8 + Len(x)) + 2 = 10 + Len(x) /\ (8 + Len(x)) + 3 = 11 + Len(x)
        BY <1>1
      <3>2. 1 \in 1..3 /\ 2 \in 1..3 /\ 3 \in 1..3
        OBVIOUS
      <3>3. QED
        BY <1>1, <2>4, <3>1, <3>2
    <2>6. SubSeq(q, 13 + Len(x), Len(q)) = code
      <3>1. 12 + Len(x) \in Nat /\ (12 + Len(x)) + 1 = 13 + Len(x)
        BY <1>1
      <3>2. \A i \in 1..Len(code) : q[(12 + Len(x)) + i] = code[i]
        <4> SUFFICES ASSUME NEW i \in 1..Len(code) PROVE q[(12 + Len(x)) + i] = code[i]
          OBVIOUS
        <4>1. Len(p) + i \in 1..Len(d) /\ (12 + Len(x)) + i = 8 + (Len(p) + i)
          BY <1>1, <1>2
        <4>2. d[Len(p) + i] = code[i]
          BY <1>2
        <4>3. q[8 + (Len(p) + i)] = d[Len(p) + i]
          BY <1>4, <4>1
        <4>4. QED
          BY <4>1, <4>2, <4>3
      <3> DEFINE k == 12 + Len(x)
      <3>3. k \in Nat /\ EndsWith(q, k, code)
        BY <2>1, <3>1, <3>2 DEF EndsWith
      <3> HIDE DEF k
      <3>4. SubSeq(q, k + 1, Len(q)) = code
        BY <1>4, <3>3, Behind
      <3>5. QED
        BY <3>1, <3>4 DEF k
    <2>7. QED
      BY <1>1, <1>2, <1>4, <2>1, <2>2, <2>3, <2>5, <2>6 DEF MadeOf
  <1>6. QED
    BY <1>5 DEF q, d, p

Helper == patched(params(le(config.num["baudrate"]), config.num["tvpin"]) \o serial_helper)
HubCode == (hub_loader \o bytes(image)) \o bytes([i \in 1..room |-> 0])
Loader ==
  IF cached THEN patched(params(le(config.num["cache-size"]) \o le(config.num["baudrate"]), 0) \o flash_loader)
  ELSE patched(params(le(0) \o le(config.num["baudrate"]), 0) \o HubCode)
ImageFits == image \in Seq(Words) /\ room >= 0

LEMMA Prefix ==
  \A p \in Seq(Bytes), q \in Seq(Bytes) : SubSeq(p \o q, 1, Len(p)) = p
  <1> SUFFICES ASSUME NEW p \in Seq(Bytes), NEW q \in Seq(Bytes) PROVE SubSeq(p \o q, 1, Len(p)) = p
    OBVIOUS
  <1> DEFINE r == p \o q
             t == SubSeq(r, 1, Len(p))
  <1>1. /\ r \in Seq(Bytes) /\ Len(r) = Len(p) + Len(q) /\ Len(p) \in Nat /\ Len(q) \in Nat
        /\ \A i \in 1..Len(p) : r[i] = p[i]
    BY BytesJoined
  <1> HIDE DEF r
  <1>2. \A i \in 1..Len(p) : r[i] \in Bytes
    BY <1>1, ElementOfSeq
  <1>3. 1 \in Int /\ Len(p) \in Int
    BY <1>1
  <1>4. /\ t \in Seq(Bytes) /\ Len(t) = (IF 1 <= Len(p) THEN Len(p) - 1 + 1 ELSE 0)
        /\ \A i \in 1..Len(p) - 1 + 1 : t[i] = r[1 + i - 1]
    BY <1>2, <1>3, SubSeqProperties
  <1> HIDE DEF t
  <1>5. Len(t) = Len(p)
    BY <1>1, <1>4
  <1>6. \A i \in 1..Len(t) : t[i] = p[i]
    BY <1>1, <1>4, <1>5
  <1>7. QED
    BY <1>4, <1>5, <1>6, SeqEqual DEF t, r

SpinCode == {serial_helper, hub_loader, flash_loader}
LEMMA SpinIs ==
  /\ max_image_size \in Nat /\ max_image_size < 65536
  /\ \A code \in SpinCode : /\ code \in Seq(Bytes) /\ Len(code) \in Nat /\ Len(code) % 4 = 0
                            /\ (5 + Len(code) \div 4) + max_image_size < 65536
  <1>1. max_image_size \in Nat
    BY SpinAssumption
  <1>2. \A code \in SpinCode : /\ code \in Seq(Bytes) /\ Len(code) % 4 = 0 /\ (5 + Len(code) \div 4) + max_image_size < 65536
    BY SpinAssumption DEF SpinCode, Bytes
  <1>3. \A code \in SpinCode : Len(code) \in Nat
    BY <1>2, LenProperties
  <1>4. max_image_size < 65536
    <2> DEFINE k == Len(serial_helper)
    <2>1. k \in Nat /\ (5 + k \div 4) + max_image_size < 65536
      BY <1>2, <1>3 DEF SpinCode
    <2> HIDE DEF k
    <2>2. QED
      BY <1>1, <2>1
  <1>5. QED
    BY <1>1, <1>2, <1>3, <1>4

LEMMA HubCodeIs ==
  ASSUME ImageFits
  PROVE  /\ HubCode \in Seq(Bytes) /\ Len(HubCode) = Len(hub_loader) + 4 * max_image_size
         /\ HubCode = hub_loader \o (bytes(image) \o bytes([i \in 1..room |-> 0]))
         /\ SubSeq(HubCode, 1, Len(hub_loader)) = hub_loader
         /\ \A i \in 1..Len(image), j \in 1..4 : HubCode[(Len(hub_loader) + (4 * i - 4)) + j] = le(image[i])[j]
  <1> DEFINE zeros == [i \in 1..room |-> 0]
             b == bytes(image)
             z == bytes(zeros)
             h == hub_loader
             hb == h \o b
             c == hb \o z
             m == Len(image)
  <1>1. h \in Seq(Bytes) /\ Len(h) \in Nat /\ max_image_size \in Nat
    BY SpinIs DEF SpinCode
  <1>2. image \in Seq(Int) /\ m \in Nat
    <2>1. Words \subseteq Int
      BY DEF Words
    <2>2. QED
      BY <2>1, SeqMonotonic, LenProperties DEF ImageFits
  <1>3. room \in Nat /\ room = max_image_size - m
    BY <1>1, <1>2 DEF ImageFits, room
  <1>4. zeros \in Seq(Int) /\ Len(zeros) = room
    <2> HIDE DEF room
    <2>1. QED
      BY <1>3
  <1> HIDE DEF zeros
  <1>5. b \in Seq(Bytes) /\ Len(b) = 4 * m /\ \A i \in 1..m, j \in 1..4 : b[4 * i - 4 + j] = le(image[i])[j]
    BY <1>2, BytesAre
  <1>6. z \in Seq(Bytes) /\ Len(z) = 4 * room
    BY <1>4, BytesAre
  <1>7. HubCode = c
    BY DEF HubCode, zeros
  <1> HIDE DEF b, z, h
  <1>8. c = h \o (b \o z)
    BY <1>1, <1>5, <1>6, ConcatAssociative
  <1>9. hb \in Seq(Bytes) /\ Len(hb) = Len(h) + Len(b) /\ (\A i \in 1..Len(b) : hb[Len(h) + i] = b[i])
    BY <1>1, <1>5, BytesJoined
  <1>10. SubSeq(c, 1, Len(h)) = h
    <2> DEFINE bz == b \o z
    <2>1. bz \in Seq(Bytes)
      BY <1>5, <1>6, BytesJoined
    <2>2. SubSeq(h \o bz, 1, Len(h)) = h
      <3> HIDE DEF bz
      <3>1. QED
        BY <1>1, <2>1, Prefix
    <2>3. QED
      BY <1>8, <2>2
  <1> HIDE DEF hb
  <1>11. c \in Seq(Bytes) /\ Len(c) = Len(hb) + Len(z) /\ \A i \in 1..Len(hb) : c[i] = hb[i]
    BY <1>6, <1>9, BytesJoined
  <1> HIDE DEF c
  <1>12. Len(c) = Len(h) + 4 * max_image_size
    <2> HIDE DEF room, m
    <2>1. QED
      BY <1>1, <1>2, <1>3, <1>5, <1>6, <1>9, <1>11
  <1>13. ASSUME NEW i \in 1..m, NEW j \in 1..4 PROVE c[(Len(h) + (4 * i - 4)) + j] = le(image[i])[j]
    <2> DEFINE k == 4 * i - 4 + j
    <2>1. k \in 1..4 * m /\ (Len(h) + (4 * i - 4)) + j = Len(h) + k
      BY <1>1, <1>2
    <2>2. b[k] = le(image[i])[j]
      BY <1>5
    <2> HIDE DEF k, m
    <2>3. k \in 1..Len(b) /\ Len(h) + k \in 1..Len(hb)
      BY <1>1, <1>5, <1>9, <2>1
    <2>4. c[Len(h) + k] = b[k]
      BY <1>9, <1>11, <2>3
    <2>5. QED
      BY <2>1, <2>2, <2>4
  <1>14. QED
    BY <1>7, <1>8, <1>10, <1>11, <1>12, <1>13 DEF h, b, z, zeros, m

LEMMA HelperIs ==
  ASSUME IsBoard(config)
  PROVE  /\ le(config.num["baudrate"]) \in Seq(Bytes) /\ Len(le(config.num["baudrate"])) = 4
         /\ MadeOf(Helper, le(config.num["baudrate"]), config.num["tvpin"], serial_helper)
  <1> DEFINE x == le(config.num["baudrate"])
             y == config.num["tvpin"]
  <1>1. config.num["baudrate"] \in Int /\ y \in Bytes
    BY DEF IsBoard, NumericTags, ByteTags, Bytes
  <1>2. x \in Seq(Bytes) /\ Len(x) = 4
    BY <1>1, LeIs DEF IsLe
  <1>3. Helper = patched(params(x, y) \o serial_helper)
    BY DEF Helper
  <1> HIDE DEF x, y
  <1>4. serial_helper \in Seq(Bytes) /\ Len(serial_helper) % 4 = 0 /\ (4 + Len(serial_helper)) \div 4 < 65533
    <2> DEFINE k == Len(serial_helper)
    <2>1. serial_helper \in Seq(Bytes) /\ k \in Nat /\ k % 4 = 0 /\ (5 + k \div 4) + max_image_size < 65536 /\ max_image_size \in Nat
      BY SpinIs DEF SpinCode
    <2> HIDE DEF k
    <2>2. (4 + k) \div 4 < 65533
      BY <2>1
    <2>3. QED
      BY <2>1, <2>2 DEF k
  <1>5. MadeOf(Helper, x, y, serial_helper)
    <2>1. WholeLongs(x, serial_helper)
      BY <1>2, <1>4 DEF WholeLongs
    <2>2. QED
      BY <1>1, <1>2, <1>3, <1>4, <2>1, ProgramIs
  <1>6. QED
    BY <1>2, <1>5 DEF x, y

LoaderHeader == (IF cached THEN le(config.num["cache-size"]) ELSE le(0)) \o le(config.num["baudrate"])
LoaderCode == IF cached THEN flash_loader ELSE HubCode

LEMMA LoaderIs ==
  ASSUME IsBoard(config), cached \/ ImageFits
  PROVE  /\ LoaderHeader \in Seq(Bytes) /\ Len(LoaderHeader) = 8 /\ LoaderCode \in Seq(Bytes)
         /\ \A i \in 1..4 : /\ cached => LoaderHeader[i] = le(config.num["cache-size"])[i]
                            /\ LoaderHeader[4 + i] = le(config.num["baudrate"])[i]
         /\ MadeOf(Loader, LoaderHeader, 0, LoaderCode)
  <1> DEFINE s == IF cached THEN le(config.num["cache-size"]) ELSE le(0)
             b == le(config.num["baudrate"])
             x == LoaderHeader
             code == LoaderCode
  <1>1. config.num["baudrate"] \in Int /\ config.num["cache-size"] \in Int /\ 0 \in Int
    BY DEF IsBoard, NumericTags, ByteTags
  <1>2. s \in Seq(Bytes) /\ Len(s) = 4 /\ b \in Seq(Bytes) /\ Len(b) = 4
    BY <1>1, LeIs DEF IsLe
  <1>3. x = s \o b
    BY DEF LoaderHeader
  <1> HIDE DEF s, b, x
  <1>4. x \in Seq(Bytes) /\ Len(x) = 8 /\ \A i \in 1..4 : x[i] = s[i] /\ x[4 + i] = b[i]
    <2>1. /\ s \o b \in Seq(Bytes) /\ Len(s \o b) = Len(s) + Len(b)
          /\ (\A i \in 1..Len(s) : (s \o b)[i] = s[i]) /\ \A i \in 1..Len(b) : (s \o b)[Len(s) + i] = b[i]
      BY <1>2, BytesJoined
    <2>2. QED
      BY <1>2, <1>3, <2>1
  <1>5. code \in Seq(Bytes) /\ Len(code) % 4 = 0 /\ (8 + Len(code)) \div 4 < 65533
    <2>1. CASE cached
      <3> DEFINE k == Len(flash_loader)
      <3>1. flash_loader \in Seq(Bytes) /\ k \in Nat /\ k % 4 = 0 /\ (5 + k \div 4) + max_image_size < 65536 /\ max_image_size \in Nat
        BY SpinIs DEF SpinCode
      <3> HIDE DEF k
      <3>2. (8 + k) \div 4 < 65533
        BY <3>1
      <3>3. QED
        BY <2>1, <3>1, <3>2 DEF k, LoaderCode
    <2>2. CASE ~cached
      <3> DEFINE k == Len(hub_loader)
                 l == Len(HubCode)
      <3>1. k \in Nat /\ k % 4 = 0 /\ (5 + k \div 4) + max_image_size < 65536 /\ max_image_size \in Nat
        BY SpinIs DEF SpinCode
      <3>2. HubCode \in Seq(Bytes) /\ l = k + 4 * max_image_size
        BY <2>2, HubCodeIs
      <3> HIDE DEF k, l
      <3>3. l % 4 = 0 /\ (8 + l) \div 4 < 65533
        BY <3>1, <3>2
      <3>4. QED
        BY <2>2, <3>2, <3>3 DEF l, LoaderCode
    <2>3. QED
      BY <2>1, <2>2
  <1>6. Loader = patched(params(x, 0) \o code)
    BY DEF Loader, LoaderHeader, LoaderCode, x
  <1> HIDE DEF code
  <1>7. 0 \in Bytes
    BY DEF Bytes
  <1>8. MadeOf(Loader, x, 0, code)
    <2>1. WholeLongs(x, code)
      BY <1>4, <1>5 DEF WholeLongs
    <2>2. QED
      BY <1>4, <1>5, <1>6, <1>7, <2>1, ProgramIs
  <1>9. cached => s = le(config.num["cache-size"])
    BY DEF s
  <1>10. QED
    BY <1>4, <1>5, <1>8, <1>9 DEF x, code, b

LEMMA Uploads ==
  ASSUME IsBoard(config)
  PROVE  IsUpload(Helper) /\ (cached \/ ImageFits => IsUpload(Loader))
  BY HelperIs, LoaderIs DEF MadeOf

(* What the steps that begin a download upload.                            *)
LEMMA ProgramsUpload ==
  ASSUME IsBoard(config)
  PROVE  /\ LoadImage => ploadbuf(Helper, 1)
         /\ WriteFlashLoaderToEEPROM => cached /\ ploadbuf(Loader, 2)
         /\ WriteHubLoaderToEEPROM /\ xpc' = "boot" => room >= 0
         /\ WriteHubLoaderToEEPROM /\ ImageFits => ploadbuf(Loader, 2)
  <1>1. LoadImage => ploadbuf(Helper, 1)
    BY DEF LoadImage, Helper, params
  <1>2. WriteFlashLoaderToEEPROM => cached /\ ploadbuf(Loader, 2)
    BY DEF WriteFlashLoaderToEEPROM, Loader, params
  <1>3. WriteHubLoaderToEEPROM /\ xpc' = "boot" => room >= 0
    BY DEF WriteHubLoaderToEEPROM, exit
  <1>4. ASSUME WriteHubLoaderToEEPROM, ImageFits PROVE ploadbuf(Loader, 2)
    <2> DEFINE b == bytes(image)
               z == bytes([i \in 1..room |-> 0])
               x == le(0) \o le(config.num["baudrate"])
               p == params(x, 0)
               h == hub_loader
    <2>1. ~cached /\ ploadbuf(patched(((p \o h) \o b) \o z), 2)
      BY <1>4 DEF WriteHubLoaderToEEPROM, params, ImageFits
    <2>2. Loader = patched(p \o HubCode)
      BY <2>1 DEF Loader
    <2>3. image \in Seq(Words) /\ room >= 0
      BY <1>4 DEF ImageFits
    <2>4. HubCode = h \o (b \o z)
      BY <1>4, HubCodeIs
    <2>5. p \in Seq(Bytes)
      <3>1. config.num["baudrate"] \in Int /\ 0 \in Int /\ 0 \in Bytes
        BY DEF IsBoard, NumericTags, ByteTags, Bytes
      <3>2. le(0) \in Seq(Bytes) /\ le(config.num["baudrate"]) \in Seq(Bytes)
        BY <3>1, LeIs DEF IsLe
      <3>3. x \in Seq(Bytes)
        BY <3>2, BytesJoined
      <3> HIDE DEF x
      <3>4. QED
        BY <3>1, <3>3, FieldsAre
    <2>6. h \in Seq(Bytes)
      BY SpinIs DEF SpinCode
    <2>7. b \in Seq(Bytes) /\ z \in Seq(Bytes)
      <3> DEFINE zeros == [i \in 1..room |-> 0]
      <3>1. image \in Seq(Int) /\ Len(image) \in Nat
        <4>1. Words \subseteq Int
          BY DEF Words
        <4>2. QED
          BY <2>3, <4>1, SeqMonotonic, LenProperties
      <3>2. room \in Nat
        BY <2>3, <3>1, SpinIs DEF room
      <3>3. zeros \in Seq(Int)
        <4> HIDE DEF room
        <4>1. QED
          BY <3>2
      <3>4. z = bytes(zeros)
        OBVIOUS
      <3> HIDE DEF zeros, z
      <3>5. QED
        BY <3>1, <3>3, <3>4, BytesAre
    <2> HIDE DEF b, z, p, h
    <2>8. p \o (h \o (b \o z)) = (p \o h) \o (b \o z)
      <3>1. b \o z \in Seq(Bytes)
        BY <2>7, BytesJoined
      <3> DEFINE bz == b \o z
      <3> HIDE DEF bz
      <3>2. p \o (h \o bz) = (p \o h) \o bz
        <4>1. bz \in Seq(Bytes)
          BY <3>1 DEF bz
        <4>2. QED
          BY <2>5, <2>6, <4>1, ConcatAssociative
      <3>3. QED
        BY <3>2 DEF bz
    <2>9. (p \o h) \o (b \o z) = ((p \o h) \o b) \o z
      <3> DEFINE ph == p \o h
      <3>1. ph \in Seq(Bytes)
        BY <2>5, <2>6, BytesJoined
      <3> HIDE DEF ph
      <3>2. ph \o (b \o z) = (ph \o b) \o z
        BY <2>7, <3>1, ConcatAssociative
      <3>3. QED
        BY <3>2 DEF ph
    <2>10. Loader = patched(((p \o h) \o b) \o z)
      BY <2>2, <2>4, <2>8, <2>9
    <2>11. QED
      BY <2>1, <2>10
  <1>5. QED
    BY <1>1, <1>2, <1>3, <1>4

(* What a program was made of is what the board needs.                     *)
AsDescribed ==
  /\ task \in Tasks /\ Described(task.board) # 0
  /\ \A tag \in NumericTags : IsFor(tag, config.num[tag])
  /\ config.str["cache-driver"] = Meant("cache-driver")

LEMMA DescribedIs ==
  ASSUME task \in Tasks, ConfigurationIsAsDescribed, parsing = "done", task.boards # <<>>, ~saved, GetBoardConfig(task.board) # 0
  PROVE  AsDescribed
  BY DEF ConfigurationIsAsDescribed, AsDescribed, StringTags

Holding(p, k, x) == \A i \in 1..4 : p[k + i] = x[i]
LEMMA SameWord ==
  ASSUME NEW p, NEW x, NEW k \in Nat, Holding(p, k, x)
  PROVE  Word(p, k + 1) = Word(x, 1)
  <1>1. p[k + 1] = x[1] /\ p[k + 2] = x[2] /\ p[k + 3] = x[3] /\ p[k + 4] = x[4]
    BY DEF Holding
  <1>2. (k + 1) + 1 = k + 2 /\ (k + 1) + 2 = k + 3 /\ (k + 1) + 3 = k + 4
    OBVIOUS
  <1>3. QED
    BY <1>1, <1>2 DEF Word

LEMMA NumberFits ==
  ASSUME AsDescribed, IsBoard(config), NEW tag \in NumericTags, NEW p, NEW k \in Nat,
         \A i \in 1..4 : p[k + i] = le(config.num[tag])[i]
  PROVE  IsFor(tag, Word(p, k + 1))
  <1> DEFINE v == config.num[tag]
  <1>1. v \in Int /\ IsFor(tag, v) /\ task \in Tasks /\ Described(task.board) # 0
    BY DEF AsDescribed, IsBoard
  <1> DEFINE x == le(v)
  <1>2. Holding(p, k, x)
    BY DEF Holding
  <1> HIDE DEF x, v
  <1>3. Word(p, k + 1) = Word(x, 1)
    BY <1>2, SameWord
  <1>4. IsFor(tag, Word(x, 1))
    BY <1>1, WordFits DEF x
  <1>5. QED
    BY <1>3, <1>4

LEMMA BoardFits ==
  ASSUME AsDescribed, IsBoard(config), NEW p, NEW x, NEW y, NEW code, MadeOf(p, x, y, code), NEW l \in {0, 4}, Len(x) = l + 4,
         \A i \in 1..4 : x[l + i] = le(config.num["baudrate"])[i]
  PROVE  ForTheBoard(p, l + 9)
  <1>1. /\ IsUpload(p) /\ (\A i \in 1..4 : p[i] = le(config.num["clkfreq"])[i]) /\ p[5] = config.num["clkmode"]
        /\ \A i \in 1..l + 4 : p[8 + i] = x[i]
        /\ p[9 + (l + 4)] = config.num["rxpin"] /\ p[10 + (l + 4)] = config.num["txpin"]
    BY DEF MadeOf
  <1>2. \A tag \in {"clkfreq", "clkmode", "baudrate", "rxpin", "txpin"} : tag \in NumericTags /\ IsFor(tag, config.num[tag])
    BY DEF AsDescribed, NumericTags, ByteTags
  <1>3. IsFor("clkfreq", Word(p, 1))
    <2>1. \A i \in 1..4 : p[0 + i] = le(config.num["clkfreq"])[i]
      BY <1>1
    <2>2. IsFor("clkfreq", Word(p, 0 + 1))
      BY <1>2, <2>1, NumberFits
    <2>3. QED
      BY <2>2
  <1>4. IsFor("baudrate", Word(p, l + 9))
    <2>1. \A i \in 1..4 : p[(l + 8) + i] = le(config.num["baudrate"])[i]
      <3> SUFFICES ASSUME NEW i \in 1..4 PROVE p[(l + 8) + i] = le(config.num["baudrate"])[i]
        OBVIOUS
      <3>1. l + i \in 1..l + 4 /\ 8 + (l + i) = (l + 8) + i
        OBVIOUS
      <3>2. QED
        BY <1>1, <3>1
    <2>2. l + 8 \in Nat /\ (l + 8) + 1 = l + 9
      OBVIOUS
    <2>3. IsFor("baudrate", Word(p, (l + 8) + 1))
      BY <1>2, <2>1, <2>2, NumberFits
    <2>4. QED
      BY <2>2, <2>3
  <1>5. p[(l + 9) + 4] = config.num["rxpin"] /\ p[(l + 9) + 5] = config.num["txpin"]
    <2>1. 9 + (l + 4) = (l + 9) + 4 /\ 10 + (l + 4) = (l + 9) + 5
      OBVIOUS
    <2>2. QED
      BY <1>1, <2>1
  <1>6. IsFor("clkmode", p[5]) /\ IsFor("rxpin", p[(l + 9) + 4]) /\ IsFor("txpin", p[(l + 9) + 5])
    BY <1>1, <1>2, <1>5
  <1>7. QED
    BY <1>1, <1>3, <1>4, <1>6 DEF ForTheBoard, IsUpload

LEMMA HelperIsForTheBoard ==
  ASSUME AsDescribed, IsBoard(config)
  PROVE  HelperFits(Helper)
  <1> DEFINE x == le(config.num["baudrate"])
             y == config.num["tvpin"]
             p == Helper
  <1>1. Len(x) = 4 /\ MadeOf(p, x, y, serial_helper)
    BY HelperIs
  <1> HIDE DEF p
  <1>2. ForTheBoard(p, 9)
    <2>1. 0 \in {0, 4} /\ Len(x) = 0 + 4 /\ 0 + 9 = 9 /\ \A i \in 1..4 : x[0 + i] = le(config.num["baudrate"])[i]
      BY <1>1
    <2>2. ForTheBoard(p, 0 + 9)
      BY <1>1, <2>1, BoardFits
    <2>3. QED
      BY <2>1, <2>2
  <1> HIDE DEF x
  <1>3. p[15] = y /\ SubSeq(p, 17, Len(p)) = serial_helper
    <2>1. 11 + Len(x) = 15 /\ 13 + Len(x) = 17
      BY <1>1
    <2>2. p[11 + Len(x)] = y /\ SubSeq(p, 13 + Len(x), Len(p)) = serial_helper
      BY <1>1 DEF MadeOf
    <2>3. QED
      BY <2>1, <2>2
  <1>4. IsFor("tvpin", y)
    BY DEF AsDescribed, NumericTags, ByteTags
  <1>5. QED
    BY <1>2, <1>3, <1>4 DEF HelperFits, p

LEMMA LoaderIsForTheBoard ==
  ASSUME AsDescribed, IsBoard(config), cached \/ ImageFits
  PROVE  LoaderFits(Loader)
  <1> DEFINE x == LoaderHeader
             p == Loader
             code == SubSeq(p, 21, Len(p))
  <1>1. /\ Len(x) = 8 /\ MadeOf(p, x, 0, LoaderCode)
        /\ \A i \in 1..4 : /\ cached => x[i] = le(config.num["cache-size"])[i]
                           /\ x[4 + i] = le(config.num["baudrate"])[i]
    BY LoaderIs
  <1> HIDE DEF p, x
  <1>2. ForTheBoard(p, 13)
    <2>1. 4 \in {0, 4} /\ Len(x) = 4 + 4 /\ 4 + 9 = 13
      BY <1>1
    <2>2. ForTheBoard(p, 4 + 9)
      BY <1>1, <2>1, BoardFits
    <2>3. QED
      BY <2>1, <2>2
  <1>3. code = LoaderCode
    <2>1. 13 + Len(x) = 21
      BY <1>1
    <2>2. SubSeq(p, 13 + Len(x), Len(p)) = LoaderCode
      BY <1>1 DEF MadeOf
    <2>3. QED
      BY <2>1, <2>2
  <1> HIDE DEF code
  <1>4. cached <=> Meant("cache-driver") # NULL
    BY DEF cached, AsDescribed
  <1>5. CASE cached
    <2>1. IsFor("cache-size", Word(p, 9))
      <3>1. \A i \in 1..4 : p[8 + i] = le(config.num["cache-size"])[i]
        <4>1. \A i \in 1..4 : i \in 1..Len(x)
          BY <1>1
        <4>2. QED
          BY <1>1, <1>5, <4>1 DEF MadeOf
      <3>2. "cache-size" \in NumericTags
        BY DEF NumericTags
      <3>3. IsFor("cache-size", Word(p, 8 + 1))
        BY <3>1, <3>2, NumberFits
      <3>4. QED
        BY <3>3
    <2>2. code = flash_loader
      BY <1>3, <1>5 DEF LoaderCode
    <2>3. QED
      BY <1>2, <1>4, <1>5, <2>1, <2>2 DEF LoaderFits, p, code
  <1>6. CASE ~cached
    <2>1. code = HubCode /\ ImageFits
      BY <1>3, <1>6 DEF LoaderCode
    <2>2. /\ SubSeq(code, 1, Len(hub_loader)) = hub_loader /\ Len(code) = Len(hub_loader) + 4 * max_image_size
          /\ \A i \in 1..Len(image), j \in 1..4 : code[(Len(hub_loader) + (4 * i - 4)) + j] = le(image[i])[j]
      BY <2>1, HubCodeIs
    <2>3. ASSUME NEW i \in 1..Len(image) PROVE Word(code, Len(hub_loader) + 4 * i - 3) = image[i]
      <3> DEFINE k == Len(hub_loader) + (4 * i - 4)
                 w == image[i]
      <3>1. image \in Seq(Words) /\ Len(image) \in Nat /\ Len(hub_loader) \in Nat
        BY <2>1, SpinIs, LenProperties DEF ImageFits, SpinCode
      <3>2. w \in Words
        BY <3>1
      <3>3. k \in Nat /\ k + 1 = Len(hub_loader) + 4 * i - 3
        BY <3>1
      <3> DEFINE x2 == le(w)
      <3>4. Holding(code, k, x2)
        BY <2>2 DEF Holding
      <3> HIDE DEF k, w, x2
      <3>5. Word(code, k + 1) = Word(x2, 1)
        BY <3>3, <3>4, SameWord
      <3>6. Word(x2, 1) = w
        <4>1. w \in Int /\ IsWord(w)
          BY <3>2 DEF Words
        <4>2. QED
          BY <4>1, LeIs DEF IsLe, x2
      <3>7. QED
        BY <3>3, <3>5, <3>6 DEF w
    <2>4. QED
      BY <1>2, <1>4, <1>6, <2>2, <2>3 DEF LoaderFits, p, code
  <1>7. QED
    BY <1>5, <1>6

-----------------------------------------------------------------------------
(* What is uploaded, and in which state of the host.                       *)

Ports == {"port", "load", "write", "boot", "connected", "exit"}
LEMMA Settled ==
  ASSUME Stages, xpc \in Ports, [Next]_vars
  PROVE  /\ UNCHANGED <<boardVars, imageVars, task>>
         /\ xpc' \in Ports /\ (xpc = "write" => xpc' \in {"write", "boot", "exit"})
         /\ xpc' = "port" => xpc = "port"
         /\ xpc' = "load" => xpc \in {"port", "load"}
         /\ xpc' = "write" => xpc \in {"port", "write", "connected"}
         /\ xpc' = "boot" => xpc = "boot" \/ Programs
  <1> USE DEF Ports
  <1>1. CASE Host
    <2>1. xpc \in {"config", "start", "compile"}
      BY <1>1 DEF Host, EditConfiguration, ReadConfiguration, ConfigurationError, SelectBoard, StartCompile, CompileBlock, FinishImage
    <2>2. QED
      BY <2>1
  <1>2. CASE InitPort
    BY <1>2 DEF InitPort, exit
  <1>3. CASE Programs
    <2>1. CASE LoadImage
      BY <2>1 DEF LoadImage, ploadbuf, Programs
    <2>2. CASE WriteFlashLoaderToEEPROM
      BY <2>2 DEF WriteFlashLoaderToEEPROM, ploadbuf, Programs
    <2>3. CASE WriteHubLoaderToEEPROM
      BY <2>3 DEF WriteHubLoaderToEEPROM, ploadbuf, Programs, exit
    <2>4. QED
      BY <1>3, <2>1, <2>2, <2>3 DEF Programs
  <1>4. CASE Booted \/ isDevice
    BY <1>4 DEF Booted, isDevice, exit
  <1>5. CASE WaitForInitialAck \/ LoadRest
    BY <1>5 DEF WaitForInitialAck, LoadRest, exit
  <1>6. CASE BootHost
    BY <1>6 DEF BootHost
  <1>7. CASE Line(ChipStep) \/ Line(Stray) \/ Line(Lost)
    BY <1>7 DEF Line
  <1>8. CASE Exited \/ UNCHANGED vars
    BY <1>8 DEF Exited, vars
  <1>9. QED
    BY <1>1, <1>2, <1>3, <1>4, <1>5, <1>6, <1>7, <1>8 DEF Next, HostAtPort, Programs

LEMMA ProgramsKept ==
  ASSUME UNCHANGED <<boardVars, imageVars, task>>
  PROVE  /\ config' = config /\ image' = image /\ cached' = cached /\ ImageFits' = ImageFits
         /\ Helper' = Helper /\ Loader' = Loader /\ parsing' = parsing
         /\ GetBoardConfig(task.board)' = GetBoardConfig(task.board)
  <1>1. boardConfigs' = boardConfigs /\ parsing' = parsing /\ task' = task /\ fp' = fp /\ textTarget' = textTarget
    BY DEF boardVars, configVars, imageVars
  <1>2. GetBoardConfig(task.board)' = GetBoardConfig(task.board) /\ config' = config
    BY <1>1, BoardKept
  <1>4. image' = image
    BY <1>1 DEF image
  <1>5. cached' = cached /\ room' = room /\ ImageFits' = ImageFits
    BY <1>2, <1>4 DEF cached, room, ImageFits
  <1>6. pins' = pins
    BY <1>2 DEF pins
  <1>7. HubCode' = HubCode
    BY <1>4, <1>5 DEF HubCode
  <1>8. Helper' = Helper
    BY <1>2, <1>6 DEF Helper, patched, checksum, binary, params
  <1>9. Loader' = Loader
    BY <1>2, <1>5, <1>6, <1>7 DEF Loader, patched, checksum, binary, params
  <1>10. QED
    BY <1>1, <1>2, <1>4, <1>5, <1>8, <1>9

Jobs ==
  host = "loader" =>
    /\ type \in 0..2
    /\ type = 0 => chip = "off" /\ bpc = "idle" /\ eeprom = <<>>
    /\ xpc \in {"config", "start", "compile", "port", "load"} => type = 0
    /\ xpc = "write" => type \in {0, 1}
    /\ xpc = "boot" => type # 0
    /\ bpc = "connect" => type = 1
    /\ xpc = "connected" => bpc = "connect"
    /\ xpc \notin {"boot", "connected"} => bpc = "idle"
    /\ type # 0 => parsing = "done" /\ GetBoardConfig(task.board) # 0 /\ task.option # "none"
    /\ type = 1 => dlbuf = Helper
    /\ type = 2 => dlbuf = Loader /\ (cached \/ ImageFits)

LEMMA ImageIsWords ==
  ASSUME Stages, Compiles, xpc = "write", task.command # "ide", room >= 0
  PROVE  ImageFits
  <1>1. task \in Tasks /\ task.option # "none"
    BY DEF Stages
  <1>2. CASE task.command = "xload"
    <2>1. image = task.image
      BY <1>2 DEF image
    <2>2. QED
      BY <1>1, <2>1, TasksAssumption DEF ImageFits
  <1>3. CASE task.command # "xload"
    <2>1. task.command = "xbcom"
      BY <1>1, <1>3, TasksAssumption
    <2>2. image = fp[textTarget] /\ Built
      BY <2>1 DEF image, Compiles, Compiling
    <2>3. PICK T : BuiltBy(T)
      BY <2>2 DEF Built
    <2> DEFINE t == T[Len(sections)]
    <2>4. image \in Seq(Fitting(t)) /\ Len(image) = t
      BY <2>2, <2>3 DEF BuiltBy
    <2> HIDE DEF t
    <2>5. t < 65536 /\ t \in Nat
      <3>1. Len(image) \in Nat
        BY <2>4, LenProperties
      <3>2. QED
        BY <2>4, <3>1, SpinIs DEF room
    <2>6. Fitting(t) \subseteq Words
      <3> SUFFICES ASSUME NEW w \in Fitting(t) PROVE w \in Words
        OBVIOUS
      <3>1. w \in Nat /\ (w \in Words \/ w <= t)
        BY DEF Fitting, Fits
      <3>2. w <= t => w \div 16777216 < 256
        BY <2>5, <3>1
      <3>3. QED
        BY <3>1, <3>2 DEF Words, IsWord
    <2>7. QED
      BY <2>4, <2>6, SeqMonotonic DEF ImageFits
  <1>4. QED
    BY <1>2, <1>3

LEMMA JobsStep ==
  ASSUME Stages, BoardsAreRead, Compiles, Jobs, [Next]_vars
  PROVE  Jobs'
  <1> SUFFICES ASSUME host = "loader" PROVE Jobs'
    BY JobSteps DEF Jobs
  <1>1. /\ type \in 0..2
        /\ type = 0 => chip = "off" /\ bpc = "idle" /\ eeprom = <<>>
        /\ xpc \in {"config", "start", "compile", "port", "load"} => type = 0
        /\ xpc = "write" => type \in {0, 1}
        /\ xpc = "boot" => type # 0
        /\ bpc = "connect" => type = 1
        /\ xpc = "connected" => bpc = "connect"
        /\ xpc \notin {"boot", "connected"} => bpc = "idle"
        /\ type # 0 => parsing = "done" /\ GetBoardConfig(task.board) # 0 /\ task.option # "none"
        /\ type = 1 => dlbuf = Helper
        /\ type = 2 => dlbuf = Loader /\ (cached \/ ImageFits)
    BY DEF Jobs
  <1>2. task.command # "ide"
    BY DEF Stages
  <1>3. type # 0 => xpc \in Ports
    BY <1>1 DEF Stages, Ports
  <1>4. ASSUME xpc \in Ports
        PROVE  /\ task' = task /\ cached' = cached /\ ImageFits' = ImageFits
               /\ Helper' = Helper /\ Loader' = Loader /\ parsing' = parsing
               /\ GetBoardConfig(task.board)' = GetBoardConfig(task.board)
    BY <1>4, Settled, ProgramsKept
  <1> DEFINE Dull == /\ type # 0 => parsing = "done" /\ GetBoardConfig(task.board) # 0 /\ task.option # "none"
                     /\ type = 1 => dlbuf = Helper
                     /\ type = 2 => dlbuf = Loader /\ (cached \/ ImageFits)
  <1>5. ASSUME UNCHANGED job PROVE Dull'
    <2>1. type' = type /\ dlbuf' = dlbuf
      BY <1>5 DEF job
    <2>2. CASE type = 0
      BY <2>1, <2>2
    <2>3. CASE type # 0
      BY <1>1, <1>3, <1>4, <2>1, <2>3
    <2>4. QED
      BY <2>2, <2>3
  <1>6. CASE UNCHANGED bootVars /\ (xpc' = xpc \/ (xpc \in Elsewhere /\ xpc' \in Elsewhere \cup {"exit"}))
    <2>1. UNCHANGED <<job, chip, bpc, eeprom, type>>
      BY <1>6 DEF bootVars, job, chipVars
    <2>2. Dull'
      BY <1>5, <2>1
    <2>3. /\ xpc' \in {"config", "start", "compile", "port", "load"} => type = 0
          /\ xpc' = "write" => type \in {0, 1}
          /\ xpc' = "boot" => xpc = "boot"
          /\ xpc' = "connected" => xpc = "connected"
          /\ xpc' \notin {"boot", "connected"} => xpc \notin {"boot", "connected"}
      <3>1. CASE type = 0
        BY <1>6, <3>1 DEF Elsewhere
      <3>2. CASE type # 0
        <4>1. xpc \in {"write", "boot", "connected", "exit"}
          BY <1>1, <1>3, <3>2 DEF Ports
        <4>2. xpc = "write" => xpc' \in {"write", "boot", "exit"}
          BY <1>3, <3>2, Settled
        <4>3. QED
          BY <1>1, <1>6, <3>2, <4>1, <4>2 DEF Elsewhere
      <3>3. QED
        BY <3>1, <3>2
    <2> HIDE DEF Dull
    <2>4. QED
      BY <1>1, <2>1, <2>2, <2>3 DEF Jobs, Dull
  <1>7. CASE Programs /\ xpc \in {"load", "write"} /\ xpc' = "boot" /\ \E buf, d : ploadbuf(buf, d)
    <2>1. parsing = "done" /\ GetBoardConfig(task.board) # 0 /\ task.option # "none" /\ task \in Tasks
      BY <1>2, <1>7 DEF Stages
    <2>2. task.command # "edit"
      BY <2>1, TasksAssumption
    <2>3. IsBoard(config)
      BY <2>1, <2>2, ConfigIs DEF BoardsAreRead
    <2>4. ploadbuf(Helper, 1) \/ (ploadbuf(Loader, 2) /\ (cached \/ ImageFits))
      <3>1. CASE LoadImage
        BY <2>3, <3>1, ProgramsUpload
      <3>2. CASE WriteFlashLoaderToEEPROM
        BY <2>3, <3>2, ProgramsUpload
      <3>3. CASE WriteHubLoaderToEEPROM
        <4>1. room >= 0
          BY <1>7, <2>3, <3>3, ProgramsUpload
        <4>2. xpc = "write"
          BY <3>3 DEF WriteHubLoaderToEEPROM
        <4>3. ImageFits
          BY <1>2, <4>1, <4>2, ImageIsWords
        <4>4. QED
          BY <2>3, <3>3, <4>3, ProgramsUpload
      <3>4. QED
        BY <1>7, <3>1, <3>2, <3>3 DEF Programs
    <2>5. \/ dlbuf' = Helper /\ type' = 1
          \/ dlbuf' = Loader /\ type' = 2 /\ (cached \/ ImageFits)
      BY <2>4 DEF ploadbuf
    <2>6. bpc' = "reset"
      BY <2>4 DEF ploadbuf
    <2>7. xpc \in Ports
      BY <1>7 DEF Ports
    <2>8. Dull'
      BY <1>4, <2>1, <2>5, <2>7
    <2> HIDE DEF Dull
    <2>9. QED
      BY <1>7, <2>5, <2>6, <2>8 DEF Jobs, Dull
  <1>8. CASE GoesOn
    <2>1. UNCHANGED <<job, chip, eeprom, type>>
      BY <1>8 DEF GoesOn, Passed, job, chipVars
    <2>2. Dull'
      BY <1>5, <2>1
    <2> HIDE DEF Dull
    <2>3. QED
      BY <1>1, <1>8, <2>1, <2>2 DEF Jobs, Dull, GoesOn
  <1>9. CASE WaitForInitialAck
    <2>1. UNCHANGED <<job, chip, eeprom, type>> /\ xpc = "boot" /\ bpc = "connect"
      BY <1>9 DEF WaitForInitialAck, job, chipVars
    <2>2. (xpc' = "connected" /\ bpc' = "connect") \/ (xpc' = "exit" /\ bpc' = "idle")
      BY <1>9 DEF WaitForInitialAck, exit
    <2>3. Dull'
      BY <1>5, <2>1
    <2> HIDE DEF Dull
    <2>4. QED
      BY <1>1, <2>1, <2>2, <2>3 DEF Jobs, Dull
  <1>10. CASE BootStep /\ xpc = "boot" /\ xpc' = "boot"
    <2>1. UNCHANGED job /\ type' = type /\ (bpc' = "connect" => bpc = "connect")
      BY <1>10, BootStepKeeps DEF job
    <2>2. Dull'
      BY <1>5, <2>1
    <2> HIDE DEF Dull
    <2>3. QED
      BY <1>1, <1>10, <2>1, <2>2 DEF Jobs, Dull
  <1>11. CASE (ChipStep \/ Stray \/ Lost) /\ xpc' = xpc
    <2>1. UNCHANGED <<job, bpc, type>>
      BY <1>11 DEF ChipStep, Stray, Lost, job
    <2>2. type = 0 => chip' = chip /\ eeprom' = eeprom
      <3> SUFFICES ASSUME chip = "off" PROVE chip' = chip /\ eeprom' = eeprom
        BY <1>1
      <3>1. QED
        BY <1>11 DEF ChipStep, ChipListen, ChipAnswer, ChipLong, ChipCheck, ProgramStarts, Unheard, Stray, Lost, chipVars
    <2>3. Dull'
      BY <1>5, <2>1
    <2> HIDE DEF Dull
    <2>4. QED
      BY <1>1, <1>11, <2>1, <2>2, <2>3 DEF Jobs, Dull
  <1>12. QED
    BY <1>6, <1>7, <1>8, <1>9, <1>10, <1>11, StepKinds

(* A program on the line: the command, the number of longs, the longs.     *)
Longs(P) == 2 + Len(P) \div 4
Nth(P, k, j) == IF j = 1 THEN le(k) ELSE IF j = 2 THEN le(Len(P) \div 4) ELSE SubSeq(P, 4 * j - 11, 4 * j - 8)

Divides(P, c) ==
  /\ P \in Seq(Bytes) /\ c \in Nat /\ c >= 2 /\ c - 2 \in Nat /\ c - 2 < 65536
  /\ Len(P) \in Nat /\ Len(P) = 4 * (c - 2) /\ Len(P) \div 4 = c - 2
LEMMA LongsAre ==
  ASSUME NEW P, IsUpload(P)
  PROVE  Divides(P, Longs(P))
  <1> DEFINE l == Len(P)
  <1>1. P \in Seq(Bytes) /\ l \in Nat /\ l % 4 = 0 /\ l \div 4 < 65536 /\ Longs(P) = 2 + l \div 4
    BY LenProperties DEF IsUpload, Longs
  <1> HIDE DEF l
  <1> DEFINE h == l \div 4
  <1>2. h \in Nat /\ h < 65536 /\ l = 4 * h
    BY <1>1
  <1>3. Longs(P) = 2 + h
    BY <1>1
  <1> HIDE DEF h
  <1>4. Longs(P) \in Nat /\ Longs(P) >= 2 /\ l = 4 * (Longs(P) - 2) /\ h = Longs(P) - 2 /\ Longs(P) - 2 \in Nat /\ Longs(P) - 2 < 65536
    BY <1>2, <1>3
  <1>5. P \in Seq(Bytes) /\ l \in Nat /\ Len(P) = l
    BY <1>1 DEF l
  <1>6. l \div 4 = h
    BY DEF h
  <1> DEFINE c == Longs(P)
  <1>7. c \in Nat /\ c >= 2 /\ l = 4 * (c - 2) /\ h = c - 2 /\ c - 2 \in Nat /\ c - 2 < 65536
    BY <1>4
  <1> HIDE DEF c
  <1>8. Divides(P, c)
    BY <1>5, <1>6, <1>7 DEF Divides
  <1>9. QED
    BY <1>8 DEF c

LEMMA NthIs ==
  ASSUME NEW P, IsUpload(P), NEW k \in {1, 2}
  PROVE  /\ \A j \in 1..Longs(P) : Nth(P, k, j) \in Quad
         /\ \A i \in 1..Len(P) : (i - 1) \div 4 + 3 \in 1..Longs(P) /\ Nth(P, k, (i - 1) \div 4 + 3)[((i - 1) % 4) + 1] = P[i]
         /\ number(Nth(P, k, 1)) = k /\ number(Nth(P, k, 2)) = Longs(P) - 2
  <1> DEFINE c == Longs(P)
  <1>1. P \in Seq(Bytes) /\ c \in Nat /\ c >= 2 /\ Len(P) = 4 * (c - 2) /\ Len(P) \div 4 = c - 2 /\ c - 2 \in Nat /\ c - 2 < 65536
    <2>1. Divides(P, c)
      BY LongsAre
    <2> HIDE DEF c
    <2>2. QED
      BY <2>1 DEF Divides
  <1> HIDE DEF c
  <1>2. ASSUME NEW v \in Nat, v < 65536 PROVE le(v) \in Quad /\ number(le(v)) = v
    <2> DEFINE x == le(v)
    <2>1. x \in Seq(Bytes) /\ Len(x) = 4 /\ x[1] = v % 256 /\ x[2] = (v \div 256) % 256
      <3>1. v \in Int
        OBVIOUS
      <3>2. IsLe(v)
        BY <3>1, LeIs
      <3>3. QED
        BY <3>2 DEF IsLe
    <2> HIDE DEF x
    <2>2. x \in [1..4 -> Bytes]
      <3>1. x \in [1..Len(x) -> Bytes]
        BY <2>1, LenProperties
      <3>2. QED
        BY <2>1, <3>1
    <2>3. (v % 256) + 256 * ((v \div 256) % 256) = v
      <3> DEFINE h == v \div 256
      <3>1. h \in Nat /\ h < 256 /\ v = 256 * h + (v % 256)
        BY <1>2
      <3> HIDE DEF h
      <3>2. h % 256 = h
        BY <3>1
      <3>3. QED
        BY <3>1, <3>2 DEF h
    <2>4. QED
      BY <2>1, <2>2, <2>3 DEF x, number, Quad
  <1>3. ASSUME NEW j \in 3..c
        PROVE  /\ Nth(P, k, j) \in Quad
               /\ \A r \in 1..4 : Nth(P, k, j)[r] = P[(4 * j - 12) + r]
    <2> DEFINE t == SubSeq(P, 4 * j - 11, 4 * j - 8)
    <2>1. Nth(P, k, j) = t
      BY DEF Nth
    <2>2. \A i \in 4 * j - 11..4 * j - 8 : P[i] \in Bytes
      <3>1. \A i \in 4 * j - 11..4 * j - 8 : i \in 1..Len(P)
        BY <1>1
      <3>2. QED
        BY <1>1, <3>1, ElementOfSeq
    <2>3. /\ t \in Seq(Bytes)
          /\ Len(t) = IF 4 * j - 11 <= 4 * j - 8 THEN (4 * j - 8) - (4 * j - 11) + 1 ELSE 0
          /\ \A i \in 1..(4 * j - 8) - (4 * j - 11) + 1 : t[i] = P[(4 * j - 11) + i - 1]
      <3> DEFINE a == 4 * j - 11
                 b == 4 * j - 8
      <3>1. a \in Int /\ b \in Int
        OBVIOUS
      <3>2. t = SubSeq(P, a, b) /\ \A i \in a..b : P[i] \in Bytes
        BY <2>2
      <3> HIDE DEF a, b, t
      <3>3. /\ t \in Seq(Bytes) /\ Len(t) = IF a <= b THEN b - a + 1 ELSE 0
            /\ \A i \in 1..b - a + 1 : t[i] = P[a + i - 1]
        BY <3>1, <3>2, SubSeqProperties
      <3>4. QED
        BY <3>3 DEF a, b
    <2> HIDE DEF t
    <2>4. Len(t) = 4 /\ \A r \in 1..4 : t[r] = P[(4 * j - 12) + r]
      <3>1. (4 * j - 8) - (4 * j - 11) + 1 = 4 /\ 4 * j - 11 <= 4 * j - 8
        BY <1>1
      <3>2. \A r \in 1..4 : (4 * j - 11) + r - 1 = (4 * j - 12) + r
        BY <1>1
      <3>3. QED
        BY <2>3, <3>1, <3>2
    <2>5. t \in Quad
      BY <2>3, <2>4, LenProperties DEF Quad
    <2>6. QED
      BY <2>1, <2>4, <2>5
  <1>4. Nth(P, k, 1) \in Quad /\ number(Nth(P, k, 1)) = k
    BY <1>2 DEF Nth
  <1>5. Nth(P, k, 2) \in Quad /\ number(Nth(P, k, 2)) = c - 2
    <2> DEFINE v == c - 2
    <2>1. v \in Nat /\ v < 65536 /\ Len(P) \div 4 = v
      BY <1>1
    <2>2. Nth(P, k, 2) = le(v)
      BY <2>1 DEF Nth
    <2> HIDE DEF v
    <2>3. Nth(P, k, 2) \in Quad /\ number(Nth(P, k, 2)) = v
      BY <1>2, <2>1, <2>2
    <2>4. QED
      BY <2>3 DEF v
  <1>6. \A j \in 1..c : Nth(P, k, j) \in Quad
    <2> SUFFICES ASSUME NEW j \in 1..c PROVE Nth(P, k, j) \in Quad
      OBVIOUS
    <2>1. j = 1 \/ j = 2 \/ j \in 3..c
      BY <1>1
    <2>2. QED
      BY <1>3, <1>4, <1>5, <2>1
  <1>7. ASSUME NEW i \in 1..Len(P)
        PROVE  (i - 1) \div 4 + 3 \in 1..c /\ Nth(P, k, (i - 1) \div 4 + 3)[((i - 1) % 4) + 1] = P[i]
    <2> DEFINE j == (i - 1) \div 4 + 3
               r == ((i - 1) % 4) + 1
    <2>1. j \in 3..c /\ r \in 1..4 /\ (4 * j - 12) + r = i
      BY <1>1
    <2> HIDE DEF j, r
    <2>2. Nth(P, k, j)[r] = P[i]
      BY <1>3, <2>1
    <2>3. j \in 1..c
      BY <1>1, <2>1
    <2>4. QED
      BY <2>2, <2>3 DEF j, r
  <1>8. QED
    BY <1>4, <1>5, <1>6, <1>7 DEF c

(* What the chip has received of it.                                       *)
Received(P, k) == longs \in Seq(Quad) /\ Len(longs) <= Longs(P) /\ \A j \in 1..Len(longs) : longs[j] = Nth(P, k, j)

LEMMA ReceivedIs ==
  ASSUME NEW P, IsUpload(P), NEW k \in {1, 2}, Received(P, k)
  PROVE  /\ Len(longs) \in 0..Longs(P)
         /\ whole <=> Len(longs) = Longs(P)
         /\ whole => ram = P /\ number(longs[1]) = k
  <1> DEFINE c == Longs(P)
             l == Len(longs)
  <1>1. c \in Nat /\ c >= 2 /\ Len(P) = 4 * (c - 2) /\ P \in Seq(Bytes)
    <2>1. Divides(P, c)
      BY LongsAre
    <2> HIDE DEF c
    <2>2. QED
      BY <2>1 DEF Divides
  <1>2. l \in 0..c /\ \A j \in 1..l : longs[j] = Nth(P, k, j)
    <2>1. l \in Nat
      BY LenProperties DEF Received
    <2>2. QED
      BY <1>1, <2>1 DEF Received
  <1> HIDE DEF c, l
  <1>3. l >= 2 => number(longs[2]) = c - 2 /\ number(longs[1]) = k
    <2> SUFFICES ASSUME l >= 2 PROVE number(longs[2]) = c - 2 /\ number(longs[1]) = k
      OBVIOUS
    <2>1. 1 \in 1..l /\ 2 \in 1..l
      BY <1>2
    <2>2. longs[1] = Nth(P, k, 1) /\ longs[2] = Nth(P, k, 2)
      BY <1>2, <2>1
    <2>3. QED
      BY <2>2, NthIs DEF c
  <1>4. whole <=> l = c
    <2>1. whole <=> l >= 2 /\ l = 2 + number(longs[2])
      BY DEF whole, l
    <2>2. QED
      BY <1>1, <1>2, <1>3, <2>1
  <1>5. ASSUME l = c PROVE ram = P
    <2> DEFINE e(i) == longs[(i - 1) \div 4 + 3][((i - 1) % 4) + 1]
    <2>1. 4 * (l - 2) = Len(P)
      BY <1>1, <1>5
    <2>2. ram = [i \in 1..4 * (l - 2) |-> e(i)]
      BY DEF ram, l
    <2>3. \A i \in 1..Len(P) : e(i) = P[i]
      <3> SUFFICES ASSUME NEW i \in 1..Len(P) PROVE e(i) = P[i]
        OBVIOUS
      <3> DEFINE j == (i - 1) \div 4 + 3
      <3>1. j \in 1..c /\ Nth(P, k, j)[((i - 1) % 4) + 1] = P[i]
        BY NthIs DEF c
      <3> HIDE DEF j
      <3>2. longs[j] = Nth(P, k, j)
        BY <1>2, <1>5, <3>1
      <3>3. longs[j][((i - 1) % 4) + 1] = P[i]
        BY <3>1, <3>2
      <3>4. QED
        BY <3>3 DEF j
    <2> HIDE DEF e
    <2>4. ram = [i \in 1..Len(P) |-> e(i)]
      BY <2>1, <2>2
    <2>5. [i \in 1..Len(P) |-> e(i)] = [i \in 1..Len(P) |-> P[i]]
      BY <2>3
    <2>6. P = [i \in 1..Len(P) |-> P[i]]
      BY <1>1, LenProperties
    <2>7. QED
      BY <2>4, <2>5, <2>6
  <1>6. QED
    BY <1>1, <1>2, <1>3, <1>4, <1>5 DEF c, l

(* While the chip attends, what is under way to it is what it misses of    *)
(* the program.                                                            *)
Attending == chip \in {"listen", "answer", "command"} /\ ~garbled
Gone ==
  IF chip = "listen" THEN 0 ELSE IF chip = "answer" THEN (HandshakeBits + 1) + answered ELSE Said + LONG * Len(longs)
Told == Gone + Len(toChip)
Spot(j, r) == (Said + LONG * (j - 1)) + r
OnWire(P, k) ==
  /\ toChip \in Seq(Nat)
  /\ \A j \in 1..Longs(P), r \in 1..LONG :
       Spot(j, r) - Gone \in 1..Len(toChip) => toChip[Spot(j, r) - Gone] = makelong(Nth(P, k, j))[r]
Follows(P, k, q) ==
  \A j \in 1..Longs(P), r \in 1..LONG :
    Spot(j, r) - Told \in 1..Len(q) => q[Spot(j, r) - Told] = makelong(Nth(P, k, j))[r]

LEMMA SpotIs ==
  ASSUME NEW P, IsUpload(P)
  PROVE  /\ Longs(P) \in Nat /\ LONG = 11 /\ Said \in Nat
         /\ \A j \in 1..Longs(P), r \in 1..LONG :
              Spot(j, r) \in Nat /\ Spot(j, r) > Said /\ Spot(j, r) <= Said + LONG * Longs(P)
  <1> DEFINE c == Longs(P)
             s == Said
  <1>1. c \in Nat /\ LONG = 11 /\ s \in Nat
    <2>1. Divides(P, c)
      BY LongsAre
    <2>2. c \in Nat
      BY <2>1 DEF Divides
    <2>3. QED
      BY <2>2, BootFacts DEF LONG
  <1> HIDE DEF c, s
  <1>2. ASSUME NEW j \in 1..c, NEW r \in 1..11 PROVE (s + 11 * (j - 1)) + r \in Nat /\ (s + 11 * (j - 1)) + r > s /\ (s + 11 * (j - 1)) + r <= s + 11 * c
    BY <1>1
  <1>3. \A j \in 1..c, r \in 1..LONG : Spot(j, r) \in Nat /\ Spot(j, r) > s /\ Spot(j, r) <= s + LONG * c
    BY <1>1, <1>2 DEF Spot, s
  <1>4. QED
    BY <1>1, <1>3 DEF c, s

LEMMA Flows ==
  ASSUME NEW P, IsUpload(P), NEW k, NEW m \in Nat, OnWire(P, k), m <= Len(toChip), Gone \in Nat,
         toChip' = from(toChip, m + 1), Gone' = Gone + m
  PROVE  OnWire(P, k)' /\ Len(toChip) \in Nat /\ Len(toChip') = Len(toChip) - m /\ toChip' \in Seq(Nat)
  <1> DEFINE g == Gone
             h == Gone'
             l == Len(toChip)
             t == toChip'
  <1>1. toChip \in Seq(Nat) /\ l \in Nat
    BY LenProperties DEF OnWire
  <1>2. t \in Seq(Nat) /\ Len(t) = l - m /\ \A x \in 1..l - m : t[x] = toChip[m + x]
    <2>1. m + 1 \in Nat \ {0} /\ (IF m + 1 <= l THEN l - (m + 1) + 1 ELSE 0) = l - m /\ l - (m + 1) + 1 = l - m
      BY <1>1
    <2>2. \A x \in 1..l - m : (m + 1) + x - 1 = m + x
      BY <1>1
    <2>3. /\ t \in Seq(Nat) /\ Len(t) = (IF m + 1 <= l THEN l - (m + 1) + 1 ELSE 0)
          /\ \A x \in 1..l - (m + 1) + 1 : t[x] = toChip[(m + 1) + x - 1]
      BY <1>1, <2>1, FromIs
    <2> HIDE DEF t, l
    <2>4. QED
      BY <2>1, <2>2, <2>3
  <1> HIDE DEF t, l
  <1>3. ASSUME NEW j \in 1..Longs(P), NEW r \in 1..LONG, Spot(j, r) - h \in 1..Len(t)
        PROVE  t[Spot(j, r) - h] = makelong(Nth(P, k, j))[r]
    <2> DEFINE e == Spot(j, r)
               x == e - h
    <2>1. e \in Nat /\ g \in Nat /\ h = g + m
      BY SpotIs
    <2> HIDE DEF e, g, h
    <2>6. l \in Nat /\ m \in Nat /\ e - h \in 1..l - m
      BY <1>1, <1>2, <1>3 DEF e
    <2>2. x \in 1..l - m /\ e - g \in 1..l /\ m + x = e - g
      BY <2>1, <2>6
    <2> HIDE DEF x
    <2>3. t[x] = toChip[e - g]
      BY <1>2, <2>2
    <2>4. toChip[e - g] = makelong(Nth(P, k, j))[r]
      BY <2>2 DEF OnWire, e, g, l
    <2>5. QED
      BY <2>3, <2>4 DEF x, e
  <1>4. OnWire(P, k)'
    BY <1>2, <1>3 DEF OnWire, t, h
  <1>5. QED
    BY <1>1, <1>2, <1>4 DEF l, t

LEMMA Grows ==
  ASSUME NEW P, IsUpload(P), NEW k, NEW q \in Seq(Nat), OnWire(P, k), Gone \in Nat,
         toChip' = toChip \o q, Gone' = Gone, Follows(P, k, q)
  PROVE  OnWire(P, k)' /\ Told \in Nat /\ Told' = Told + Len(q)
  <1> DEFINE g == Gone
             h == Gone'
             l == Len(toChip)
             t == toChip'
  <1>1. /\ toChip \in Seq(Nat) /\ l \in Nat /\ Len(q) \in Nat /\ t \in Seq(Nat) /\ Len(t) = l + Len(q)
        /\ \A x \in 1..l : t[x] = toChip[x]
        /\ \A x \in 1..Len(q) : t[l + x] = q[x]
    <2>1. toChip \in Seq(Nat)
      BY DEF OnWire
    <2>2. QED
      BY <2>1, Joined
  <1> HIDE DEF t, l
  <1>2. Told = g + l /\ g \in Nat /\ h = g
    BY DEF Told, l
  <1>3. ASSUME NEW j \in 1..Longs(P), NEW r \in 1..LONG, Spot(j, r) - h \in 1..Len(t)
        PROVE  t[Spot(j, r) - h] = makelong(Nth(P, k, j))[r]
    <2> DEFINE e == Spot(j, r)
    <2>1. e \in Nat
      BY SpotIs
    <2>2. e - h \in 1..Len(t)
      BY <1>3
    <2> HIDE DEF e, g, h
    <2>3. CASE e - g \in 1..l
      <3>1. toChip[e - g] = makelong(Nth(P, k, j))[r]
        BY <2>3 DEF OnWire, e, g, l
      <3>2. QED
        BY <1>1, <1>2, <2>3, <3>1 DEF e
    <2>4. CASE e - g \notin 1..l
      <3> DEFINE x == e - Told
                 a == Len(q)
      <3>5. /\ l \in Nat /\ a \in Nat /\ g \in Nat /\ e \in Nat /\ Told = g + l /\ h = g
            /\ e - h \in 1..l + a /\ e - g \notin 1..l
        BY <1>1, <1>2, <2>1, <2>2, <2>4
      <3> HIDE DEF a
      <3>6. x \in 1..a /\ l + x = e - g
        BY <3>5
      <3>1. x \in 1..Len(q) /\ l + x = e - g
        BY <3>6 DEF a
      <3>2. q[x] = makelong(Nth(P, k, j))[r]
        BY <3>1 DEF Follows, e
      <3> HIDE DEF x
      <3>3. t[l + x] = q[x]
        BY <1>1, <3>1
      <3>4. QED
        BY <1>2, <3>1, <3>2, <3>3 DEF e
    <2>5. QED
      BY <2>3, <2>4
  <1>4. OnWire(P, k)'
    BY <1>1, <1>3 DEF OnWire, t, h
  <1>5. Told' = h + Len(t)
    BY DEF Told, h, t
  <1> HIDE DEF g, h
  <1>6. QED
    BY <1>1, <1>2, <1>4, <1>5

(* A long that is sent when its turn has come, and bytes that are not      *)
(* longs of the program.                                                   *)
LEMMA LongFollows ==
  ASSUME NEW P, IsUpload(P), NEW k \in {1, 2}, NEW j \in 1..Longs(P), Told \in Nat, Told = Said + LONG * (j - 1)
  PROVE  makelong(Nth(P, k, j)) \in Seq(Nat) /\ Len(makelong(Nth(P, k, j))) = LONG /\ Follows(P, k, makelong(Nth(P, k, j)))
  <1> DEFINE q == makelong(Nth(P, k, j))
             c == Longs(P)
             s == Said
  <1>1. q \in Seq(Nat) /\ Len(q) = LONG
    BY NthIs, LongIs
  <1>2. c \in Nat /\ LONG = 11 /\ s \in Nat
    BY SpotIs
  <1>3. ASSUME NEW i \in 1..c, NEW r \in 1..LONG, Spot(i, r) - Told \in 1..Len(q)
        PROVE  q[Spot(i, r) - Told] = makelong(Nth(P, k, i))[r]
    <2>1. Told = s + 11 * (j - 1) /\ Spot(i, r) = (s + 11 * (i - 1)) + r /\ r \in 1..11 /\ Spot(i, r) - Told \in 1..11
      BY <1>1, <1>2, <1>3 DEF Spot
    <2> HIDE DEF q, c, s
    <2>2. i = j /\ Spot(i, r) - Told = r
      <3>1. i \in Int /\ j \in Int
        BY <1>2 DEF c
      <3>2. ((s + 11 * (i - 1)) + r) - (s + 11 * (j - 1)) = 11 * (i - j) + r
        BY <1>2, <2>1, <3>1
      <3>3. i - j = 0
        BY <2>1, <3>1, <3>2
      <3>4. QED
        BY <2>1, <3>1, <3>2, <3>3
    <2>3. QED
      BY <2>2 DEF q
  <1> HIDE DEF q
  <1>4. Follows(P, k, q)
    BY <1>3 DEF Follows, c
  <1>5. QED
    BY <1>1, <1>4 DEF q

LEMMA OthersFollow ==
  ASSUME NEW P, IsUpload(P), NEW k, NEW q \in Seq(Nat), Told \in Nat,
         Told + Len(q) <= Said \/ Told >= Said + LONG * Longs(P)
  PROVE  Follows(P, k, q)
  <1> DEFINE s == Said
             z == Said + LONG * Longs(P)
  <1>1. s \in Nat /\ z \in Int /\ Len(q) \in Nat
    BY SpotIs, LenProperties DEF LONG
  <1>2. ASSUME NEW j \in 1..Longs(P), NEW r \in 1..LONG PROVE Spot(j, r) - Told \notin 1..Len(q)
    <2> DEFINE e == Spot(j, r)
    <2>1. e \in Nat /\ e > s /\ e <= z
      BY SpotIs
    <2>2. Told + Len(q) <= s \/ Told >= z
      OBVIOUS
    <2> HIDE DEF e, s, z
    <2>3. e - Told \notin 1..Len(q)
      BY <1>1, <2>1, <2>2
    <2>4. QED
      BY <2>3 DEF e
  <1>3. QED
    BY <1>2 DEF Follows

(* The chip receives the next long as it was sent.                         *)
LEMMA LongComes ==
  ASSUME NEW P, IsUpload(P), NEW k \in {1, 2}, Received(P, k), OnWire(P, k), chip = "command", ~whole, Len(toChip) >= LONG
  PROVE  /\ Len(longs) + 1 \in 1..Longs(P)
         /\ decoded(SubSeq(toChip, 1, LONG)) = Nth(P, k, Len(longs) + 1)
  <1> DEFINE c == Longs(P)
             l == Len(longs)
             j == l + 1
             t == SubSeq(toChip, 1, LONG)
             m == makelong(Nth(P, k, j))
  <1>1. l \in 0..c /\ l # c /\ c \in Nat
    BY ReceivedIs, SpotIs
  <1>2. j \in 1..c
    BY <1>1
  <1>3. m \in Seq(Nat) /\ Len(m) = LONG /\ Nth(P, k, j) \in Quad
    BY <1>2, NthIs, LongIs
  <1>4. toChip \in Seq(Nat) /\ Len(toChip) \in Nat
    BY LenProperties DEF OnWire
  <1>5. LONG = 11
    BY DEF LONG
  <1>6. \A i \in 1..LONG : toChip[i] \in Nat /\ i \in 1..Len(toChip)
    <2>1. \A i \in 1..LONG : i \in 1..Len(toChip)
      BY <1>4, <1>5
    <2>2. QED
      BY <1>4, <2>1, ElementOfSeq
  <1>7. t \in Seq(Nat) /\ Len(t) = LONG /\ \A i \in 1..LONG : t[i] = toChip[i]
    <2>1. 1 \in Int /\ LONG \in Int
      BY <1>5
    <2>2. /\ t \in Seq(Nat) /\ Len(t) = (IF 1 <= LONG THEN LONG - 1 + 1 ELSE 0)
          /\ \A i \in 1..LONG - 1 + 1 : t[i] = toChip[1 + i - 1]
      BY <1>6, <2>1, SubSeqProperties
    <2> HIDE DEF t
    <2>3. Len(t) = LONG /\ LONG - 1 + 1 = LONG
      BY <1>5, <2>2
    <2>4. \A i \in 1..LONG : 1 + i - 1 = i
      OBVIOUS
    <2>5. QED
      BY <2>2, <2>3, <2>4
  <1>8. \A r \in 1..LONG : toChip[r] = m[r]
    <2> SUFFICES ASSUME NEW r \in 1..LONG PROVE toChip[r] = m[r]
      OBVIOUS
    <2>1. Gone = Said + LONG * l
      BY DEF Gone
    <2>2. Spot(j, r) = (Said + LONG * (j - 1)) + r
      BY DEF Spot
    <2>3. Spot(j, r) - Gone = r
      <3> DEFINE s == Said
      <3>1. s \in Nat
        BY SpotIs
      <3> HIDE DEF s
      <3>2. ((s + 11 * (j - 1)) + r) - (s + 11 * l) = r
        BY <1>1, <3>1
      <3>3. QED
        BY <1>5, <2>1, <2>2, <3>2 DEF s
    <2>4. Spot(j, r) - Gone \in 1..Len(toChip)
      BY <1>6, <2>3
    <2>5. toChip[Spot(j, r) - Gone] = m[r]
      BY <1>2, <2>4 DEF OnWire
    <2>6. QED
      BY <2>3, <2>5
  <1> HIDE DEF t, m
  <1>9. t = m
    <2>1. Len(t) = Len(m) /\ \A i \in 1..Len(t) : t[i] = m[i]
      BY <1>3, <1>7, <1>8
    <2>2. QED
      BY <1>3, <1>7, <2>1, SeqEqual
  <1>10. decoded(t) = Nth(P, k, j)
    BY <1>3, <1>9, LongArrives DEF m
  <1>11. QED
    BY <1>2, <1>10 DEF t

LEMMA GoneIs ==
  ASSUME Attending, Counted, Len(longs) \in Nat
  PROVE  Gone \in Nat /\ Said = (HandshakeBits + 1) + Bits /\ Said \in Nat /\ Bits \in Nat /\ HandshakeBits \in Nat
  <1>1. HandshakeBits \in Nat /\ VersionBits \in Nat /\ Said = HandshakeBits + 1 + HandshakeBits + VersionBits /\ Said \in Nat /\ LONG = 11
    BY BootFacts DEF LONG
  <1>2. chip = "answer" => answered \in Nat
    BY <1>1 DEF Counted
  <1>3. 11 * Len(longs) \in Nat
    OBVIOUS
  <1>4. Gone \in Nat
    BY <1>1, <1>2, <1>3 DEF Gone
  <1>5. QED
    BY <1>1, <1>4 DEF Bits

(* What the chip takes in, and nothing else, is gone from the line, as     *)
(* long as it attends.                                                     *)
Consumed(m) == m <= Len(toChip) /\ toChip' = from(toChip, m + 1) /\ Gone' = Gone + m
LEMMA ChipConsumes ==
  ASSUME Attending, Counted, toChip \in Seq(Nat), Len(longs) \in Nat, chip # "command" => longs = <<>>,
         ChipStep \/ Stray \/ Lost, Attending'
  PROVE  /\ \E m \in Nat : Consumed(m)
         /\ (longs' = longs \/ ChipLong) /\ (chip' # "command" => longs' = <<>>) /\ chip' # "run"
  <1> DEFINE H == HandshakeBits
             g == Gone
             l == Len(toChip)
  <1>1. g \in Nat /\ H \in Nat /\ Bits \in Nat /\ Said = (H + 1) + Bits /\ l \in Nat /\ H + VersionBits = Bits /\ VersionBits \in Nat
    BY GoneIs, LenProperties, BootFacts DEF Bits
  <1>2. toChip # <<>> => l >= 1 /\ Tail(toChip) = from(toChip, 2)
    <2> SUFFICES ASSUME toChip # <<>> PROVE l >= 1 /\ Tail(toChip) = from(toChip, 2)
      OBVIOUS
    <2>1. /\ Tail(toChip) \in Seq(Nat) /\ l >= 1 /\ Len(Tail(toChip)) = l - 1
          /\ \A i \in 1..l - 1 : Tail(toChip)[i] = toChip[i + 1]
      BY TailIs
    <2>2. 2 \in Nat \ {0}
      OBVIOUS
    <2>3. /\ from(toChip, 2) \in Seq(Nat) /\ Len(from(toChip, 2)) = (IF 2 <= l THEN l - 2 + 1 ELSE 0)
          /\ \A k \in 1..l - 2 + 1 : from(toChip, 2)[k] = toChip[2 + k - 1]
      BY <2>2, FromIs
    <2> DEFINE t == Tail(toChip)
               f == from(toChip, 2)
    <2> HIDE DEF t, f, l
    <2>4. Len(f) = l - 1 /\ Len(t) = l - 1
      BY <1>1, <2>1, <2>3 DEF t, f
    <2>5. \A i \in 1..l - 1 : i \in 1..l - 2 + 1 /\ 2 + i - 1 = i + 1
      BY <1>1
    <2>6. \A i \in 1..l - 1 : t[i] = f[i]
      BY <2>1, <2>3, <2>5 DEF t, f
    <2>7. t = f
      BY <2>1, <2>3, <2>4, <2>6, SeqEqual DEF t, f
    <2>8. QED
      BY <2>1, <2>7 DEF t, f
  <1> HIDE DEF g, l, H
  <1>3. CASE ChipStep /\ ChipListen
    <2>1. /\ chip = "listen" /\ l > H /\ toChip' = from(toChip, H + 2) /\ longs' = longs /\ answered' = 0
          /\ chip' \in {"answer", "off"}
      BY <1>3 DEF ChipListen, l, H
    <2>2. chip' = "answer"
      BY <2>1 DEF Attending
    <2>3. g = 0 /\ Gone' = (H + 1) + 0
      BY <2>1, <2>2 DEF Gone, g, H
    <2>4. H + 1 \in Nat /\ H + 1 <= l /\ (H + 1) + 1 = H + 2 /\ Gone' = g + (H + 1)
      BY <1>1, <2>1, <2>3
    <2>5. Consumed(H + 1)
      BY <2>1, <2>4 DEF Consumed, g, l
    <2>6. QED
      BY <2>1, <2>2, <2>4, <2>5
  <1>4. CASE ChipStep /\ ChipAnswer
    <2>1. /\ chip = "answer" /\ toChip # <<>> /\ toChip' = Tail(toChip) /\ answered' = answered + 1 /\ longs' = longs
          /\ chip' = IF answered' = Bits THEN "command" ELSE "answer"
      BY <1>4 DEF ChipAnswer, Bits
    <2>2. longs = <<>> /\ Len(longs) = 0
      <3>1. longs = <<>>
        BY <2>1
      <3>2. QED
        BY <3>1
    <2>3. answered \in Nat /\ g = (H + 1) + answered
      BY <1>1, <2>1 DEF Counted, Gone, g, H
    <2>4. Gone' = (H + 1) + (answered + 1)
      <3>1. CASE answered' = Bits
        <4>1. chip' = "command" /\ Len(longs') = 0
          BY <2>1, <2>2, <3>1
        <4>2. Gone' = Said + LONG * 0
          BY <4>1 DEF Gone
        <4>3. QED
          BY <1>1, <2>1, <3>1, <4>2 DEF LONG
      <3>2. CASE answered' # Bits
        <4>1. chip' = "answer"
          BY <2>1, <3>2
        <4>2. QED
          BY <2>1, <4>1 DEF Gone, H
      <3>3. QED
        BY <3>1, <3>2
    <2>5. Gone' = g + 1 /\ 1 \in Nat /\ 1 <= l /\ 1 + 1 = 2
      BY <1>1, <1>2, <2>1, <2>3, <2>4
    <2>6. Consumed(1)
      BY <1>2, <2>1, <2>5 DEF Consumed, g, l
    <2>7. QED
      BY <2>1, <2>2, <2>5, <2>6
  <1>5. CASE ChipStep /\ ChipLong
    <2>1. /\ chip = "command" /\ l >= LONG /\ toChip' = from(toChip, LONG + 1) /\ chip' = chip
          /\ longs' = Append(longs, decoded(SubSeq(toChip, 1, LONG)))
      BY <1>5 DEF ChipLong, l
    <2>2. Len(longs') = Len(longs) + 1
      BY <2>1, LenProperties
    <2>3. g = Said + 11 * Len(longs) /\ Gone' = Said + 11 * (Len(longs) + 1)
      BY <2>1, <2>2 DEF Gone, g, LONG
    <2>4. Gone' = g + 11
      <3> DEFINE s == Said
                 c == Len(longs)
      <3>1. s \in Nat /\ c \in Nat
        BY <1>1
      <3> HIDE DEF s, c
      <3>2. s + 11 * (c + 1) = (s + 11 * c) + 11
        BY <3>1
      <3>3. QED
        BY <2>3, <3>2 DEF s, c
    <2>5. LONG = 11
      BY DEF LONG
    <2>6. Consumed(11)
      BY <2>1, <2>4, <2>5 DEF Consumed, g, l
    <2>7. QED
      BY <1>5, <2>1, <2>6
  <1>6. CASE ChipStep /\ (ChipCheck \/ ProgramStarts \/ Unheard)
    <2>1. chip' \in {"run", "off", "program"}
      BY <1>6 DEF ChipCheck, ProgramStarts, Unheard, chipVars
    <2>2. QED
      BY <2>1 DEF Attending
  <1>7. CASE Stray
    <2>1. UNCHANGED <<toChip, chip, longs, answered>>
      BY <1>7 DEF Stray, chipVars
    <2>2. Gone' = g + 0
      BY <1>1, <2>1 DEF Gone, g
    <2>3. toChip' = from(toChip, 0 + 1)
      <3>1. 1 \in Nat \ {0}
        OBVIOUS
      <3>2. /\ from(toChip, 1) \in Seq(Nat) /\ Len(from(toChip, 1)) = (IF 1 <= l THEN l - 1 + 1 ELSE 0)
            /\ \A k \in 1..l - 1 + 1 : from(toChip, 1)[k] = toChip[1 + k - 1]
        BY <3>1, FromIs DEF l
      <3> DEFINE f == from(toChip, 1)
      <3> HIDE DEF f
      <3>3. Len(f) = Len(toChip)
        BY <1>1, <3>2 DEF f, l
      <3>4. \A i \in 1..l : i \in 1..l - 1 + 1 /\ 1 + i - 1 = i
        BY <1>1
      <3>5. \A i \in 1..Len(f) : f[i] = toChip[i]
        BY <3>2, <3>3, <3>4 DEF f, l
      <3>6. f = toChip
        BY <3>2, <3>3, <3>5, SeqEqual DEF f
      <3>7. QED
        BY <2>1, <3>6 DEF f
    <2>4. Consumed(0)
      BY <1>1, <2>2, <2>3 DEF Consumed, g, l
    <2>5. QED
      BY <2>1, <2>4 DEF Attending
  <1>8. CASE Lost
    <2>1. garbled'
      BY <1>8 DEF Lost
    <2>2. QED
      BY <2>1 DEF Attending
  <1>9. QED
    BY <1>3, <1>4, <1>5, <1>6, <1>7, <1>8 DEF ChipStep

-----------------------------------------------------------------------------
(* How much the loader has told the chip, wherever it is.                  *)
Sounding == Early \ {"resync", "again"}
Ready == toChip \in Seq(Nat) /\ longs \in Seq(Quad) /\ (chip # "command" => longs = <<>>)
Order ==
  host = "loader" /\ Attending =>
    /\ bpc \in Sounding => Told + Unsent = Said
    /\ bpc = "count" => Told = Said + LONG
    /\ bpc = "data" => n % 4 = 0 /\ n <= Len(dlbuf) /\ Told = Said + LONG * (2 + n \div 4)
    /\ bpc \in {"verify", "ack"} => Told >= Said + LONG * Longs(dlbuf)

Says(P, k, q) ==
  \/ Told + Len(q) <= Said
  \/ Told >= Said + LONG * Longs(P)
  \/ \E j \in 1..Longs(P) : Told = Said + LONG * (j - 1) /\ q = makelong(Nth(P, k, j))

LEMMA ToldGrows ==
  ASSUME toChip \in Seq(Nat), Gone \in Nat, Gone' = Gone
  PROVE  /\ Told \in Nat /\ (toChip' = toChip => Told' = Told)
         /\ \A q \in Seq(Nat) : Len(q) \in Nat /\ (toChip' = toChip \o q => Told' = Told + Len(q))
  <1> DEFINE g == Gone
             g1 == Gone'
             l == Len(toChip)
  <1>1. l \in Nat /\ \A q \in Seq(Nat) : Len(q) \in Nat /\ Len(toChip \o q) = l + Len(q)
    BY Joined
  <1>2. g \in Nat /\ g1 = g
    OBVIOUS
  <1>3. Told = g + l /\ Told' = g1 + Len(toChip')
    BY DEF Told
  <1> HIDE DEF g, g1
  <1>4. toChip' = toChip => Told' = Told
    BY <1>2, <1>3 DEF l
  <1>5. ASSUME NEW q \in Seq(Nat), toChip' = toChip \o q PROVE Told' = Told + Len(q)
    <2>1. Len(toChip') = l + Len(q) /\ Len(q) \in Nat
      BY <1>1, <1>5
    <2> HIDE DEF l
    <2>2. QED
      BY <1>1, <1>2, <1>3, <2>1 DEF l
  <1>6. QED
    BY <1>1, <1>2, <1>3, <1>4, <1>5

(* What the host does about the line while the chip attends.               *)
LEMMA HostSays ==
  ASSUME host = "loader", Controlled, Counted, Attending, Ready, Order, IsUpload(dlbuf), type \in {1, 2}, BootStep, ~hwreset
  PROVE  /\ UNCHANGED <<job, chipVars>> /\ Gone' = Gone /\ bpc' # "reset"
         /\ toChip' = toChip \/ \E q \in Seq(Nat) : toChip' = toChip \o q /\ Says(dlbuf, type, q)
         /\ Order'
  <1> DEFINE H == HandshakeBits
             V == VersionBits
             s == Said
             c == Longs(dlbuf)
             d == Len(dlbuf)
             w == Told
             w1 == Told'
  <1>1. UNCHANGED <<job, chipVars>>
    BY DEF BootStep, hwreset, SendMagic, Drain, SendTiming, FirstBit,
       Compare, getBit, Resync, VersionBit, findprop, UploadHeader, UploadData, AskForAck, getAck, portHandler, sendlong, tx
  <1>2. Gone' = Gone /\ Attending' = Attending /\ host' = host /\ dlbuf' = dlbuf
    BY <1>1 DEF chipVars, Gone, Attending, job
  <1>3. H \in Nat /\ V \in Nat /\ s \in Nat /\ s = ((H + 1) + H) + V
    BY BootFacts
  <1>4. c \in Nat /\ c >= 2 /\ d \in Nat /\ d = 4 * (c - 2) /\ d \div 4 = c - 2
    <2>1. Divides(dlbuf, c)
      BY LongsAre
    <2> HIDE DEF c
    <2>2. QED
      BY <2>1 DEF Divides
  <1>5. w \in Nat /\ (toChip' = toChip => w1 = w) /\ \A q \in Seq(Nat) : Len(q) \in Nat /\ (toChip' = toChip \o q => w1 = w + Len(q))
    <2>1. Gone \in Nat
      BY GoneIs, LenProperties DEF Ready
    <2>2. QED
      BY <1>2, <2>1, ToldGrows DEF Ready
  <1>6. /\ bpc \in Sounding => w + Unsent = s
        /\ bpc = "count" => w = s + 11
        /\ bpc = "data" => n % 4 = 0 /\ n <= d /\ w = s + 11 * (2 + n \div 4)
        /\ bpc \in {"verify", "ack"} => w >= s + 11 * c
    BY DEF Order, LONG
  <1> DEFINE Ordered ==
        /\ bpc' \in Sounding => w1 + Unsent' = s
        /\ bpc' = "count" => w1 = s + 11
        /\ bpc' = "data" => n' % 4 = 0 /\ n' <= d /\ w1 = s + 11 * (2 + n' \div 4)
        /\ bpc' \in {"verify", "ack"} => w1 >= s + 11 * c
      Said2 == toChip' = toChip \/ \E q \in Seq(Nat) : toChip' = toChip \o q /\ Says(dlbuf, type, q)
  <1>7. Ordered => Order'
    BY <1>2 DEF Order, LONG, Longs, Ordered
  <1>8. Counted => n \in Nat
    BY DEF Counted
  <1> HIDE DEF H, V, s, c, d, w, w1
  <1> DEFINE Goal == bpc' # "reset" /\ Said2 /\ Ordered
  <1>20. SUFFICES Goal
    BY <1>1, <1>2, <1>7
  <1> HIDE DEF Said2
  <1>9. CASE SendMagic
    <2>1. bpc = "magic" /\ tx(magic, "drain")
      BY <1>9 DEF SendMagic
    <2>2. magic \in Seq(Nat) /\ Len(magic) = H + 1
      BY MagicIs DEF H
    <2>3. w + s = s
      BY <1>6, <2>1 DEF Sounding, Early, Unsent, s
    <2>4. CASE toChip' = toChip \o magic /\ bpc' = "drain"
      <3>1. w1 = w + (H + 1)
        BY <1>5, <2>2, <2>4
      <3>2. Unsent' = H + V
        BY <2>4 DEF Unsent, H, V
      <3>3. w1 + Unsent' = s
        BY <1>3, <1>5, <2>3, <3>1, <3>2
      <3>4. w + Len(magic) <= s
        BY <1>3, <1>5, <2>2, <2>3
      <3>5. Says(dlbuf, type, magic)
        BY <3>4 DEF Says, w, s
      <3>6. Said2
        BY <2>2, <2>4, <3>5 DEF Said2
      <3>7. QED
        BY <2>4, <3>3, <3>6
    <2>5. CASE toChip' = toChip /\ bpc' = "failed"
      BY <2>5 DEF Sounding, Early, Said2
    <2>6. QED
      BY <2>1, <2>4, <2>5 DEF tx
  <1>10. CASE SendTiming
    <2>1. bpc = "timing" /\ tx(timing, "first")
      BY <1>10 DEF SendTiming, timing
    <2>2. timing \in Seq(Nat) /\ Len(timing) = H + V
      BY TimingIs DEF H, V
    <2>3. w + (H + V) = s
      BY <1>6, <2>1 DEF Sounding, Early, Unsent, H, V
    <2>4. CASE toChip' = toChip \o timing /\ bpc' = "first"
      <3>1. w1 = w + (H + V)
        BY <1>5, <2>2, <2>4
      <3>2. Unsent' = 0
        BY <2>4 DEF Unsent
      <3>3. w1 + Unsent' = s
        BY <1>3, <1>5, <2>3, <3>1, <3>2
      <3>4. w + Len(timing) <= s
        BY <1>3, <1>5, <2>2, <2>3
      <3>5. Says(dlbuf, type, timing)
        BY <3>4 DEF Says, w, s
      <3>6. Said2
        BY <2>2, <2>4, <3>5 DEF Said2
      <3>7. QED
        BY <2>4, <3>3, <3>6
    <2>5. CASE toChip' = toChip /\ bpc' = "failed"
      BY <2>5 DEF Sounding, Early, Said2
    <2>6. QED
      BY <2>1, <2>4, <2>5 DEF tx
  <1>11. CASE Drain \/ FirstBit \/ Compare \/ getBit \/ Resync \/ VersionBit \/ findprop
    <2>1. toChip' = toChip
      BY <1>11 DEF Drain, FirstBit, Compare, getBit, Resync, VersionBit, findprop
    <2>2. \/ bpc \in {"drain"} /\ bpc' \in {"drain", "timing"}
          \/ bpc \in {"first", "compare", "bit", "version"} /\ bpc' \in {"compare", "bit", "version", "found"}
          \/ bpc' \in {"resync", "again", "failed"}
      BY <1>11 DEF Drain, FirstBit, Compare, getBit, Resync, VersionBit, findprop
    <2>3. bpc' \in Sounding => bpc \in Sounding /\ Unsent' = Unsent
      BY <2>2 DEF Sounding, Early, Unsent
    <2>4. bpc' \notin {"count", "data", "verify", "ack", "reset"}
      BY <2>2
    <2>5. Said2
      BY <2>1 DEF Said2
    <2>6. QED
      BY <1>5, <1>6, <2>1, <2>3, <2>4, <2>5
  <1>12. ASSUME NEW j \in 1..c, NEW q, q = makelong(Nth(dlbuf, type, j)), w = s + 11 * (j - 1),
                tx(q, bpc'), bpc' # "failed"
         PROVE  Said2 /\ w1 = s + 11 * j
    <2>1. j \in 1..Longs(dlbuf) /\ Told \in Nat /\ Told = Said + LONG * (j - 1)
      BY <1>5, <1>12 DEF c, w, s, LONG
    <2>2. q \in Seq(Nat) /\ Len(q) = 11
      BY <1>12, <2>1, LongFollows DEF LONG
    <2>3. toChip' = toChip \o q
      BY <1>12 DEF tx
    <2>4. Says(dlbuf, type, q)
      BY <1>12, <2>1 DEF Says
    <2>5. w1 = w + 11
      BY <1>5, <2>2, <2>3
    <2>6. w1 = s + 11 * j
      <3>1. j \in Int
        BY <1>4
      <3>2. (s + 11 * (j - 1)) + 11 = s + 11 * j
        BY <1>3, <3>1
      <3>3. QED
        BY <1>12, <2>5, <3>2
    <2>7. QED
      BY <2>2, <2>3, <2>4, <2>6 DEF Said2
  <1>13. ASSUME NEW q, NEW then, tx(q, then), then # "failed"
         PROVE  /\ bpc' # "failed" => tx(q, bpc') /\ bpc' = then
                /\ bpc' = "failed" => Goal
    <2>1. (toChip' = toChip \o q /\ bpc' = then) \/ (toChip' = toChip /\ bpc' = "failed")
      BY <1>13 DEF tx
    <2>2. bpc' = "failed" => toChip' = toChip
      BY <1>13, <2>1
    <2>3. bpc' # "failed" => tx(q, bpc') /\ bpc' = then
      BY <1>13, <2>1 DEF tx
    <2>4. QED
      BY <2>2, <2>3 DEF Sounding, Early, Said2
  <1>14. CASE UploadHeader
    <2>1. \/ bpc = "found" /\ tx(makelong(le(type)), "count")
          \/ bpc = "count" /\ tx(makelong(le(Len(dlbuf) \div 4)), "data")
      BY <1>14 DEF UploadHeader, sendlong
    <2>2. Nth(dlbuf, type, 1) = le(type) /\ Nth(dlbuf, type, 2) = le(Len(dlbuf) \div 4)
      BY DEF Nth
    <2>3. CASE bpc = "found" /\ tx(makelong(le(type)), "count") /\ bpc' # "failed"
      <3> DEFINE q == makelong(le(type))
      <3>1. tx(q, bpc') /\ bpc' = "count" /\ q = makelong(Nth(dlbuf, type, 1))
        BY <1>13, <2>2, <2>3
      <3>2. w = s
        BY <1>3, <1>5, <1>6, <2>3 DEF Sounding, Early, Unsent
      <3>3. w = s + 11 * (1 - 1) /\ 1 \in 1..c
        BY <1>3, <1>4, <3>2
      <3> HIDE DEF q
      <3>4. Said2 /\ w1 = s + 11 * 1
        BY <1>12, <2>3, <3>1, <3>3
      <3>5. QED
        BY <3>1, <3>4 DEF Sounding, Early
    <2>4. CASE bpc = "count" /\ tx(makelong(le(Len(dlbuf) \div 4)), "data") /\ bpc' # "failed"
      <3> DEFINE q == makelong(le(Len(dlbuf) \div 4))
      <3>1. tx(q, bpc') /\ bpc' = "data" /\ q = makelong(Nth(dlbuf, type, 2))
        BY <1>13, <2>2, <2>4
      <3>2. w = s + 11 * (2 - 1) /\ 2 \in 1..c
        BY <1>3, <1>4, <1>6, <2>4
      <3> HIDE DEF q
      <3>3. Said2 /\ w1 = s + 11 * 2
        BY <1>12, <2>4, <3>1, <3>2
      <3>4. n' = 0
        BY <1>14 DEF UploadHeader
      <3>5. n' % 4 = 0 /\ n' <= d /\ w1 = s + 11 * (2 + n' \div 4)
        BY <1>3, <1>4, <3>3, <3>4
      <3>6. QED
        BY <3>1, <3>3, <3>5 DEF Sounding, Early
    <2>5. CASE bpc' = "failed"
      BY <1>13, <2>1, <2>5
    <2>6. QED
      BY <2>1, <2>3, <2>4, <2>5
  <1>15. CASE UploadData
    <2>1. bpc = "data" /\ n % 4 = 0 /\ n <= d /\ w = s + 11 * (2 + n \div 4) /\ n \in Nat
      BY <1>6, <1>8, <1>15 DEF UploadData
    <2>2. CASE n < d /\ tx(makelong(SubSeq(dlbuf, n + 1, n + 4)), "data") /\ n' = n + 4 /\ bpc' # "failed"
      <3> DEFINE q == makelong(SubSeq(dlbuf, n + 1, n + 4))
                 j == 3 + n \div 4
                 m == n \div 4
      <3>1. m \in Nat /\ n = 4 * m /\ m < c - 2
        BY <1>4, <2>1, <2>2
      <3>2. j = 3 + m
        OBVIOUS
      <3> HIDE DEF m
      <3>3. 4 * j - 11 = n + 1 /\ 4 * j - 8 = n + 4 /\ j # 1 /\ j # 2 /\ j \in 1..c
        BY <1>4, <3>1, <3>2
      <3> HIDE DEF j
      <3>4. Nth(dlbuf, type, j) = SubSeq(dlbuf, n + 1, n + 4)
        BY <3>3 DEF Nth
      <3>5. tx(q, bpc') /\ bpc' = "data" /\ q = makelong(Nth(dlbuf, type, j))
        BY <1>13, <2>2, <3>4
      <3>6. w = s + 11 * (j - 1)
        <4>1. w = s + 11 * (2 + m)
          BY <2>1 DEF m
        <4>2. j - 1 = 2 + m
          BY <3>1, <3>2
        <4>3. QED
          BY <4>1, <4>2
      <3> HIDE DEF q
      <3>7. Said2 /\ w1 = s + 11 * j
        BY <1>12, <2>2, <3>3, <3>5, <3>6
      <3>8. n' % 4 = 0 /\ n' <= d /\ n' \div 4 = m + 1
        <4>1. n' = 4 * (m + 1) /\ 4 * (m + 1) <= d
          BY <1>4, <2>2, <3>1
        <4>2. (4 * (m + 1)) % 4 = 0 /\ (4 * (m + 1)) \div 4 = m + 1
          BY <3>1
        <4>3. QED
          BY <4>1, <4>2
      <3>9. j = 2 + (m + 1)
        BY <3>1, <3>2
      <3>10. w1 = s + 11 * (2 + n' \div 4)
        BY <3>7, <3>8, <3>9
      <3>11. QED
        BY <3>5, <3>7, <3>8, <3>10 DEF Sounding, Early
    <2>3. CASE n >= d /\ bpc' = "verify" /\ toChip' = toChip
      <3>1. n = d /\ n \div 4 = c - 2
        BY <1>4, <2>1, <2>3
      <3>2. w = s + 11 * (2 + (c - 2))
        BY <2>1, <3>1
      <3>3. 2 + (c - 2) = c
        BY <1>4
      <3>4. w1 >= s + 11 * c
        BY <1>3, <1>4, <1>5, <2>3, <3>2, <3>3
      <3>5. QED
        BY <2>3, <3>4 DEF Sounding, Early, Said2
    <2>4. CASE n < d /\ tx(makelong(SubSeq(dlbuf, n + 1, n + 4)), "data") /\ bpc' = "failed"
      BY <1>13, <2>4
    <2>5. QED
      BY <1>15, <2>2, <2>3, <2>4 DEF UploadData, sendlong, d
  <1>16. CASE AskForAck
    <2>1. w >= s + 11 * c /\ bpc' = "ack"
      BY <1>6, <1>16 DEF AskForAck
    <2>2. toChip' = Append(toChip, F9) \/ toChip' = toChip
      BY <1>16 DEF AskForAck
    <2>3. CASE toChip' = toChip
      BY <1>5, <2>1, <2>3 DEF Sounding, Early, Said2
    <2>4. CASE toChip' = Append(toChip, F9)
      <3> DEFINE q == <<F9>>
      <3>1. q \in Seq(Nat) /\ Len(q) = 1
        BY DEF F9
      <3>2. toChip' = toChip \o q
        <4>1. F9 \in Nat /\ toChip \in Seq(Nat)
          BY DEF F9, Ready
        <4>2. QED
          BY <2>4, <4>1, AppendIsConcat
      <3> HIDE DEF q
      <3>3. w1 = w + 1
        BY <1>5, <3>1, <3>2
      <3>4. w1 >= s + 11 * c
        BY <1>3, <1>4, <1>5, <2>1, <3>3
      <3>5. Says(dlbuf, type, q)
        BY <2>1 DEF Says, w, s, c, LONG
      <3>6. Said2
        BY <3>1, <3>2, <3>5 DEF Said2
      <3>7. QED
        BY <2>1, <3>4, <3>6 DEF Sounding, Early
    <2>5. QED
      BY <2>2, <2>3, <2>4
  <1>17. CASE getAck
    <2>1. bpc = "ack" /\ bpc' \in {"loaded", "verify"} /\ toChip' = toChip
      BY <1>17 DEF getAck
    <2>2. QED
      BY <1>5, <1>6, <2>1 DEF Sounding, Early, Said2
  <1>18. ~portHandler
    BY DEF portHandler
  <1>19. QED
    BY <1>9, <1>10, <1>11, <1>14, <1>15, <1>16, <1>17, <1>18 DEF BootStep

LEMMA ConsumedIs ==
  ASSUME toChip \in Seq(Nat), Gone \in Nat, NEW m \in Nat, Consumed(m)
  PROVE  toChip' \in Seq(Nat) /\ Len(toChip') = Len(toChip) - m /\ Told' = Told
  <1> DEFINE l == Len(toChip)
             g == Gone
             g1 == Gone'
             f == from(toChip, m + 1)
  <1>1. l \in Nat /\ m <= l /\ toChip' = f /\ g1 = g + m /\ g \in Nat
    BY LenProperties DEF Consumed
  <1>2. m + 1 \in Nat \ {0}
    OBVIOUS
  <1>3. f \in Seq(Nat) /\ Len(f) = IF m + 1 <= l THEN l - (m + 1) + 1 ELSE 0
    BY <1>2, FromIs
  <1>4. Told = g + l /\ Told' = g1 + Len(toChip')
    BY DEF Told
  <1> HIDE DEF f, l, g, g1
  <1>5. Len(f) = l - m
    BY <1>1, <1>3
  <1>6. g1 + (l - m) = g + l
    BY <1>1
  <1>7. QED
    BY <1>1, <1>3, <1>4, <1>5, <1>6 DEF l

(* A chip that attends has attended before, unless it was reset.           *)
LEMMA AttendsStill ==
  ASSUME ChipStep \/ Stray \/ Lost, Attending'
  PROVE  Attending
  <1>1. CASE ChipStep
    BY <1>1 DEF ChipStep, ChipListen, ChipAnswer, ChipLong, ChipCheck, ProgramStarts, Unheard, Attending, chipVars
  <1>2. CASE Stray \/ Lost
    BY <1>2 DEF Stray, Lost, Attending, chipVars
  <1>3. QED
    BY <1>1, <1>2

LEMMA OrderStep ==
  ASSUME Stages, Controlled, Counted, host = "loader", Attending => Ready /\ IsUpload(dlbuf) /\ type \in {1, 2}, Order, [Next]_vars
  PROVE  Order'
  <1> USE DEF Sounding, Early
  <1>1. CASE UNCHANGED bootVars
    <2>1. UNCHANGED <<job, toChip, chipVars, bpc, locals>>
      BY <1>1 DEF bootVars
    <2>2. Attending' = Attending /\ Told' = Told /\ Unsent' = Unsent /\ UNCHANGED <<host, bpc, dlbuf, n>> /\ Longs(dlbuf)' = Longs(dlbuf)
      BY <2>1 DEF job, chipVars, locals, Attending, Told, Gone, Unsent, Longs
    <2>3. QED
      BY <2>2 DEF Order
  <1>2. CASE bpc' \in {"reset", "idle", "connect"}
    BY <1>2 DEF Order
  <1>3. CASE BootStep /\ hwreset
    <2>1. toChip' = <<>> /\ chip' \in {"listen", "off"} /\ bpc' \in {"magic", "failed"}
      BY <1>3 DEF hwreset
    <2>2. Attending' /\ bpc' = "magic" => Told' = 0 /\ Unsent' = Said
      <3> SUFFICES ASSUME chip' = "listen", bpc' = "magic" PROVE Told' = 0 /\ Unsent' = Said
        BY <2>1 DEF Attending
      <3>1. Gone' = 0
        BY DEF Gone
      <3>2. Len(toChip') = 0
        BY <2>1
      <3>3. QED
        BY <3>1, <3>2 DEF Told, Unsent
    <2>3. Said \in Nat
      BY BootFacts
    <2>4. QED
      BY <2>1, <2>2, <2>3 DEF Order
  <1>4. CASE BootStep /\ ~hwreset
    <2>1. CASE Attending
      BY <1>4, <2>1, HostSays
    <2>2. CASE ~Attending
      <3>1. chipVars' = chipVars
        BY <1>4 DEF BootStep, hwreset, SendMagic, Drain, SendTiming, FirstBit,
           Compare, getBit, Resync, VersionBit, findprop, UploadHeader, UploadData, AskForAck, getAck, portHandler, sendlong, tx
      <3>2. ~Attending'
        BY <2>2, <3>1 DEF chipVars, Attending
      <3>3. QED
        BY <3>2 DEF Order
    <2>3. QED
      BY <2>1, <2>2
  <1>5. CASE ChipStep \/ Stray \/ Lost
    <2> SUFFICES ASSUME Attending' PROVE Order'
      BY DEF Order
    <2>1. Attending
      BY <1>5, AttendsStill
    <2>2. toChip \in Seq(Nat) /\ Len(longs) \in Nat /\ (chip # "command" => longs = <<>>)
      BY <2>1, LenProperties DEF Ready
    <2>3. PICK m \in Nat : Consumed(m)
      BY <1>5, <2>1, <2>2, ChipConsumes
    <2>4. Told' = Told
      BY <2>1, <2>2, <2>3, GoneIs, ConsumedIs
    <2>5. UNCHANGED <<host, bpc, dlbuf, n>>
      BY <1>5 DEF ChipStep, Stray, Lost, job, locals
    <2>6. Unsent' = Unsent /\ Longs(dlbuf)' = Longs(dlbuf)
      BY <2>5 DEF Unsent, Longs
    <2>7. QED
      BY <2>1, <2>4, <2>5, <2>6 DEF Order
  <1>6. QED
    <2>1. ASSUME NEW buf, NEW d, ploadbuf(buf, d) PROVE bpc' = "reset"
      BY <2>1 DEF ploadbuf
    <2>2. GoesOn \/ WaitForInitialAck => bpc' \in {"reset", "idle", "connect"}
      BY DEF GoesOn, WaitForInitialAck
    <2>3. QED
      BY <1>1, <1>2, <1>3, <1>4, <1>5, <2>1, <2>2, StepKinds

-----------------------------------------------------------------------------
(* What the chip has of the program P that was sent with the command k.    *)
Carries(P, k) ==
  /\ Attending => Received(P, k) /\ OnWire(P, k) /\ (chip # "command" => longs = <<>>)
  /\ chip \in {"run", "program"} => k = 1 /\ ram = P

LEMMA CarriesKept ==
  ASSUME NEW P, NEW k, Carries(P, k), UNCHANGED <<toChip, chip, answered, longs, garbled>>
  PROVE  Carries(P, k)'
  <1>1. Attending' = Attending /\ Gone' = Gone /\ ram' = ram /\ Received(P, k)' = Received(P, k)
    BY DEF Attending, Gone, ram, Received
  <1>2. OnWire(P, k)' = OnWire(P, k)
    BY <1>1 DEF OnWire, Spot
  <1>3. QED
    BY <1>1, <1>2 DEF Carries

LEMMA CarriesReset ==
  ASSUME NEW P, IsUpload(P), NEW k, hwreset
  PROVE  Carries(P, k)' /\ eeprom' = eeprom
  <1>1. longs' = <<>> /\ toChip' = <<>> /\ chip' \in {"listen", "off"} /\ eeprom' = eeprom
    BY DEF hwreset
  <1>2. Longs(P) \in Nat
    BY SpotIs
  <1>3. Received(P, k)'
    <2>1. <<>> \in Seq(Quad) /\ Len(<<>>) = 0
      BY EmptySeq
    <2>2. QED
      BY <1>1, <1>2, <2>1 DEF Received
  <1>4. OnWire(P, k)'
    <2>1. <<>> \in Seq(Nat) /\ Len(<<>>) = 0
      BY EmptySeq
    <2>2. Len(toChip') = 0
      BY <1>1, <2>1
    <2>3. ASSUME NEW e PROVE e \notin 1..Len(toChip')
      BY <2>2
    <2>4. QED
      BY <1>1, <2>1, <2>3 DEF OnWire
  <1>5. QED
    BY <1>1, <1>3, <1>4 DEF Carries

LEMMA CarriesHost ==
  ASSUME NEW P, IsUpload(P), NEW k \in {1, 2}, host = "loader", Controlled, Counted, Order, Carries(P, k),
         P = dlbuf, k = type, BootStep, ~hwreset
  PROVE  Carries(P, k)' /\ eeprom' = eeprom
  <1>1. chipVars' = chipVars
    BY DEF BootStep, hwreset, SendMagic, Drain, SendTiming, FirstBit,
       Compare, getBit, Resync, VersionBit, findprop, UploadHeader, UploadData, AskForAck, getAck, portHandler, sendlong, tx
  <1>2. UNCHANGED <<chip, answered, longs, garbled, eeprom>>
    BY <1>1 DEF chipVars
  <1>3. Attending' = Attending /\ Gone' = Gone /\ ram' = ram /\ Received(P, k)' = Received(P, k)
    BY <1>2 DEF Attending, Gone, ram, Received
  <1>4. CASE ~Attending
    BY <1>2, <1>3, <1>4 DEF Carries
  <1>5. CASE toChip' = toChip
    BY <1>2, <1>5, CarriesKept
  <1>6. CASE Attending /\ toChip' # toChip
    <2>1. Received(P, k) /\ OnWire(P, k) /\ (chip # "command" => longs = <<>>)
      BY <1>6 DEF Carries
    <2>2. Ready
      BY <2>1 DEF Ready, Received, OnWire
    <2>3. PICK q \in Seq(Nat) : toChip' = toChip \o q /\ Says(P, k, q)
      BY <1>6, <2>2, HostSays
    <2>4. Gone \in Nat /\ Told \in Nat
      <3>1. Gone \in Nat
        BY <1>6, <2>2, GoneIs, LenProperties DEF Ready
      <3>2. QED
        BY <1>3, <2>2, <3>1, ToldGrows DEF Ready
    <2>5. Follows(P, k, q)
      <3>1. CASE Told + Len(q) <= Said \/ Told >= Said + LONG * Longs(P)
        BY <2>4, <3>1, OthersFollow
      <3>2. CASE \E j \in 1..Longs(P) : Told = Said + LONG * (j - 1) /\ q = makelong(Nth(P, k, j))
        <4>1. PICK j \in 1..Longs(P) : Told = Said + LONG * (j - 1) /\ q = makelong(Nth(P, k, j))
          BY <3>2
        <4>2. QED
          BY <2>4, <4>1, LongFollows
      <3>3. QED
        BY <2>3, <3>1, <3>2 DEF Says
    <2>6. OnWire(P, k)'
      BY <1>3, <2>1, <2>3, <2>4, <2>5, Grows
    <2>7. QED
      BY <1>2, <1>3, <2>1, <2>6 DEF Carries
  <1>7. QED
    BY <1>2, <1>4, <1>5, <1>6

LEMMA CarriesChip ==
  ASSUME NEW P, IsUpload(P), NEW k \in {1, 2}, Counted, Carries(P, k), ChipStep \/ Stray \/ Lost
  PROVE  Carries(P, k)' /\ (eeprom' = eeprom \/ (k = 2 /\ eeprom' = P))
  <1>1. CASE ChipStep /\ ChipCheck
    <2>1. /\ chip = "command" /\ whole /\ longs' = longs
          /\ chip' \in {"run", "off"} /\ (chip' = "run" => ~garbled /\ number(longs[1]) = 1)
          /\ eeprom' = eeprom \/ (~garbled /\ number(longs[1]) = 2 /\ eeprom' = ram)
      <3> DEFINE good == ~garbled /\ sum(ram) = TARGET_CHECKSUM
      <3>1. /\ chip = "command" /\ whole /\ longs' = longs
            /\ chip' = IF good /\ number(longs[1]) = 1 THEN "run" ELSE "off"
            /\ eeprom' = IF good /\ number(longs[1]) = 2 THEN ram ELSE eeprom
        BY <1>1 DEF ChipCheck
      <3>2. good => ~garbled
        OBVIOUS
      <3> HIDE DEF good
      <3>3. QED
        BY <3>1, <3>2
    <2>2. ~garbled => ram = P /\ number(longs[1]) = k
      <3> SUFFICES ASSUME ~garbled PROVE ram = P /\ number(longs[1]) = k
        OBVIOUS
      <3>1. Received(P, k)
        BY <2>1 DEF Carries, Attending
      <3>2. QED
        BY <2>1, <3>1, ReceivedIs
    <2>3. ~Attending' /\ ram' = ram
      BY <2>1 DEF Attending, ram
    <2>4. QED
      BY <2>1, <2>2, <2>3 DEF Carries
  <1>2. CASE (ChipStep /\ ~ChipCheck) \/ Stray \/ Lost
    <2>1. eeprom' = eeprom
      BY <1>2 DEF ChipStep, ChipListen, ChipAnswer, ChipLong, ProgramStarts, Unheard, Stray, Lost, chipVars
    <2>2. chip' \in {"run", "program"} => chip \in {"run", "program"} /\ longs' = longs
      BY <1>2 DEF ChipStep, ChipListen, ChipAnswer, ChipLong, ProgramStarts, Unheard, Stray, Lost, chipVars
    <2>3. chip' \in {"run", "program"} => k = 1 /\ ram' = P
      BY <2>2 DEF Carries, ram
    <2>4. CASE ~Attending'
      BY <2>1, <2>3, <2>4 DEF Carries
    <2>5. CASE Attending'
      <3>1. Attending
        BY <1>2, <2>5, AttendsStill
      <3>2. Received(P, k) /\ OnWire(P, k) /\ (chip # "command" => longs = <<>>)
        BY <3>1 DEF Carries
      <3>3. toChip \in Seq(Nat) /\ longs \in Seq(Quad) /\ Len(longs) \in Nat /\ Gone \in Nat
        <4>1. toChip \in Seq(Nat) /\ longs \in Seq(Quad)
          BY <3>2 DEF Received, OnWire
        <4>2. QED
          BY <3>1, <4>1, GoneIs, LenProperties
      <3>4. /\ \E m \in Nat : Consumed(m)
            /\ longs' = longs \/ ChipLong
            /\ chip' # "command" => longs' = <<>>
        BY <1>2, <2>5, <3>1, <3>2, <3>3, ChipConsumes
      <3>5. OnWire(P, k)'
        <4>1. PICK m \in Nat : Consumed(m)
          BY <3>4
        <4>2. QED
          BY <3>2, <3>3, <4>1, Flows DEF Consumed
      <3>6. Received(P, k)'
        <4>1. CASE longs' = longs
          BY <3>2, <4>1 DEF Received
        <4>2. CASE ChipLong
          <5> DEFINE c == Longs(P)
                     l == Len(longs)
                     x == decoded(SubSeq(toChip, 1, LONG))
          <5>1. chip = "command" /\ ~whole /\ Len(toChip) >= LONG /\ longs' = Append(longs, x)
            BY <4>2 DEF ChipLong
          <5>2. l + 1 \in 1..c /\ x = Nth(P, k, l + 1)
            BY <3>2, <5>1, LongComes
          <5>3. x \in Quad
            BY <5>2, NthIs
          <5> HIDE DEF x
          <5>4. /\ longs' \in Seq(Quad) /\ Len(longs') = l + 1 /\ longs'[l + 1] = x
                /\ \A i \in 1..l : longs'[i] = longs[i]
            BY <3>3, <5>1, <5>3, AddedIs
          <5>5. c \in Nat /\ l \in Nat
            BY <3>3, SpotIs
          <5>6. \A i \in 1..l : longs[i] = Nth(P, k, i)
            BY <3>2 DEF Received
          <5> DEFINE t == longs'
          <5> HIDE DEF l, c, t
          <5>7. Len(t) <= c /\ \A i \in 1..Len(t) : t[i] = Nth(P, k, i)
            <6>1. \A i \in 1..l + 1 : i = l + 1 \/ i \in 1..l
              BY <5>5
            <6>2. Len(t) = l + 1 /\ t[l + 1] = x /\ \A i \in 1..l : t[i] = longs[i]
              BY <5>4 DEF t
            <6>3. QED
              BY <5>2, <5>5, <5>6, <6>1, <6>2
          <5>8. QED
            BY <5>4, <5>7 DEF Received, t, c
        <4>3. QED
          BY <3>4, <4>1, <4>2
      <3>7. QED
        BY <2>1, <2>3, <3>4, <3>5, <3>6 DEF Carries
    <2>6. QED
      BY <2>4, <2>5
  <1>3. QED
    BY <1>1, <1>2

(* What was sent last, and the command it was sent with: after a new       *)
(* program is chosen the old one, the helper, until the chip is reset.     *)
sent    == IF bpc = "reset" THEN 1 ELSE type
package == IF sent = 1 THEN Helper ELSE Loader
Uploaded ==
  IF host = "ide" THEN eeprom = <<>>
  ELSE /\ type # 0 => Carries(package, sent)
       /\ eeprom # <<>> => type = 2 /\ eeprom = Loader

LEMMA PackageIs ==
  ASSUME Stages, BoardsAreRead, Jobs, host = "loader", type # 0
  PROVE  /\ type \in {1, 2} /\ sent \in {1, 2} /\ xpc \in Ports
         /\ IsUpload(Helper) /\ IsUpload(package) /\ IsUpload(dlbuf)
         /\ bpc # "reset" => sent = type /\ package = dlbuf
  <1>1. /\ type \in {1, 2} /\ parsing = "done" /\ GetBoardConfig(task.board) # 0 /\ task.option # "none" /\ task \in Tasks
        /\ type = 1 => dlbuf = Helper
        /\ type = 2 => dlbuf = Loader /\ (cached \/ ImageFits)
        /\ xpc \notin {"config", "start", "compile"}
    BY DEF Jobs, Stages
  <1>2. task.command # "edit"
    BY <1>1, TasksAssumption
  <1>3. IsBoard(config)
    BY <1>1, <1>2, ConfigIs DEF BoardsAreRead
  <1>4. IsUpload(Helper) /\ (type = 2 => IsUpload(Loader))
    BY <1>1, <1>3, Uploads
  <1>5. sent \in {1, 2} /\ (sent = 2 => type = 2)
    BY <1>1 DEF sent
  <1>6. xpc \in Ports
    BY <1>1 DEF Stages, Ports
  <1>7. bpc # "reset" => sent = type /\ package = dlbuf
    BY <1>1 DEF sent, package
  <1>8. QED
    BY <1>1, <1>4, <1>5, <1>6, <1>7 DEF package

LEMMA UploadedStep ==
  ASSUME Stages, BoardsAreRead, Jobs, Jobs', Controlled, Counted, RingLasts, Order, Uploaded, [Next]_vars
  PROVE  Uploaded'
  <1>0. host' = host /\ host \in {"ide", "loader"}
    BY JobSteps DEF Stages
  <1>1. CASE host = "ide"
    <2>1. longs = <<>> /\ eeprom = <<>>
      BY <1>1 DEF RingLasts, Uploaded
    <2>2. ~whole
      BY <2>1 DEF whole
    <2>3. CASE UNCHANGED bootVars \/ GoesOn \/ \E buf, d : ploadbuf(buf, d)
      BY <1>0, <1>1, <2>1, <2>3 DEF bootVars, chipVars, GoesOn, Passed, ploadbuf, Uploaded
    <2>4. CASE WaitForInitialAck
      BY <1>0, <1>1, <2>1, <2>4 DEF WaitForInitialAck, chipVars, Uploaded
    <2>5. CASE BootStep
      <3>1. eeprom' = eeprom
        BY <2>5 DEF chipVars, BootStep, hwreset, SendMagic, Drain, SendTiming, FirstBit,
           Compare, getBit, Resync, VersionBit, findprop, UploadHeader, UploadData, AskForAck, getAck, portHandler, sendlong, tx
      <3>2. QED
        BY <1>0, <1>1, <2>1, <3>1 DEF Uploaded
    <2>6. CASE ChipStep \/ Stray \/ Lost
      <3>1. eeprom' = eeprom
        BY <2>2, <2>6 DEF ChipStep, ChipListen, ChipAnswer, ChipLong, ChipCheck, ProgramStarts, Unheard, Stray, Lost, chipVars
      <3>2. QED
        BY <1>0, <1>1, <2>1, <3>1 DEF Uploaded
    <2>7. QED
      BY <2>3, <2>4, <2>5, <2>6, StepKinds
  <1>2. ASSUME host = "loader", type' = 0 PROVE Uploaded'
    <2>1. eeprom' = <<>>
      BY <1>0, <1>2 DEF Jobs
    <2>2. QED
      BY <1>0, <1>2, <2>1 DEF Uploaded
  <1>3. CASE host = "loader" /\ type' # 0 /\ (UNCHANGED bootVars \/ GoesOn \/ WaitForInitialAck \/ BootStep \/ ChipStep \/ Stray \/ Lost)
    <2>0. UNCHANGED <<dlbuf, type>>
      <3>1. BootStep => UNCHANGED job
        BY BootStepKeeps
      <3>2. QED
        BY <1>3, <3>1 DEF bootVars, job, GoesOn, Passed, WaitForInitialAck, ChipStep, Stray, Lost
    <2>1. type # 0
      BY <1>3, <2>0
    <2>2. /\ type \in {1, 2} /\ sent \in {1, 2} /\ xpc \in Ports /\ IsUpload(package) /\ IsUpload(dlbuf) /\ IsUpload(Helper)
          /\ bpc # "reset" => sent = type /\ package = dlbuf
      BY <1>3, <2>1, PackageIs
    <2>3. Helper' = Helper /\ Loader' = Loader
      BY <2>2, Settled, ProgramsKept
    <2>4. Carries(package, sent) /\ (eeprom # <<>> => type = 2 /\ eeprom = Loader)
      BY <1>3, <2>1 DEF Uploaded
    <2> DEFINE Goal == Carries(package, sent)' /\ (eeprom' = eeprom \/ (sent = 2 /\ eeprom' = package))
    <2>5. Goal => Uploaded'
      <3> SUFFICES ASSUME Goal PROVE Uploaded'
        OBVIOUS
      <3>1. sent = 2 => type = 2 /\ package = Loader
        BY <2>2 DEF sent, package
      <3>2. eeprom' # <<>> => type' = 2 /\ eeprom' = Loader'
        BY <2>0, <2>3, <2>4, <3>1
      <3>3. QED
        BY <1>0, <1>3, <3>2 DEF Uploaded
    <2>6. ASSUME (bpc' = "reset") = (bpc = "reset") PROVE sent' = sent /\ package' = package
      <3>1. sent' = sent
        BY <2>0, <2>6 DEF sent
      <3>2. QED
        BY <2>3, <3>1 DEF package
    <2>7. PICK P : P = package
      OBVIOUS
    <2>8. PICK k \in {1, 2} : k = sent
      BY <2>2
    <2>9. IsUpload(P) /\ Carries(P, k)
      BY <2>2, <2>4, <2>7, <2>8
    <2>10. ASSUME Carries(P, k)', sent' = sent, package' = package, eeprom' = eeprom \/ (k = 2 /\ eeprom' = P) PROVE Goal
      <3>1. P = package' /\ k = sent'
        BY <2>7, <2>8, <2>10
      <3>2. QED
        BY <2>7, <2>8, <2>10, <3>1
    <2> HIDE DEF Goal
    <2>11. CASE UNCHANGED <<toChip, chipVars>> /\ (bpc' = "reset") = (bpc = "reset")
      <3>1. UNCHANGED <<toChip, chip, answered, longs, garbled, eeprom>>
        BY <2>11 DEF chipVars
      <3>2. Carries(P, k)'
        BY <2>9, <3>1, CarriesKept
      <3>3. QED
        BY <2>5, <2>6, <2>10, <2>11, <3>1, <3>2
    <2>12. CASE BootStep /\ hwreset
      <3>1. PICK Q : Q = package'
        OBVIOUS
      <3>2. PICK h : h = sent'
        OBVIOUS
      <3>3. bpc' # "reset"
        BY <2>12 DEF hwreset
      <3>4. IsUpload(Q)
        <4>1. sent' = type /\ (type = 1 => dlbuf = Helper) /\ (type = 2 => dlbuf = Loader)
          BY <1>3, <2>0, <2>1, <2>2, <3>3 DEF sent, Jobs
        <4>2. package' = dlbuf
          BY <2>2, <2>3, <4>1 DEF package
        <4>3. QED
          BY <2>2, <3>1, <4>2
      <3>5. Carries(Q, h)' /\ eeprom' = eeprom
        BY <2>12, <3>4, CarriesReset
      <3>6. QED
        BY <2>5, <3>1, <3>2, <3>5 DEF Goal
    <2>13. CASE BootStep /\ ~hwreset
      <3>1. bpc # "reset" /\ bpc' # "reset"
        BY <2>13 DEF BootStep, hwreset, SendMagic, Drain, SendTiming, FirstBit,
           Compare, getBit, Resync, VersionBit, findprop, UploadHeader, UploadData, AskForAck, getAck, portHandler, sendlong, tx
      <3>2. Carries(P, k)' /\ eeprom' = eeprom
        BY <1>3, <2>2, <2>7, <2>8, <2>9, <2>13, <3>1, CarriesHost
      <3>3. QED
        BY <2>5, <2>6, <2>10, <3>1, <3>2
    <2>14. CASE ChipStep \/ Stray \/ Lost
      <3>1. Carries(P, k)' /\ (eeprom' = eeprom \/ (k = 2 /\ eeprom' = P))
        BY <2>9, <2>14, CarriesChip
      <3>2. bpc' = bpc
        BY <2>14 DEF ChipStep, Stray, Lost
      <3>3. QED
        BY <2>5, <2>6, <2>10, <3>1, <3>2
    <2>15. CASE UNCHANGED bootVars
      BY <2>11, <2>15 DEF bootVars
    <2>16. CASE GoesOn \/ WaitForInitialAck
      <3>1. UNCHANGED <<toChip, chipVars>> /\ bpc' # "reset" /\ bpc # "reset"
        <4>1. CASE GoesOn
          <5>1. bpc' # "reset"
            BY <1>3, <4>1 DEF GoesOn
          <5>2. bpc # "reset"
            <6>1. CASE bpc = "loaded" \/ xpc = "boot"
              BY <1>3, <4>1, <6>1 DEF GoesOn
            <6>2. CASE xpc = "connected"
              BY <1>3, <6>2 DEF Jobs
            <6>3. QED
              BY <1>3, <4>1, <6>1, <6>2 DEF GoesOn
          <5>3. QED
            BY <4>1, <5>1, <5>2 DEF GoesOn, Passed
        <4>2. CASE WaitForInitialAck
          BY <4>2 DEF WaitForInitialAck, exit
        <4>3. QED
          BY <2>16, <4>1, <4>2
      <3>2. QED
        BY <2>11, <3>1
    <2>17. QED
      BY <1>3, <2>12, <2>13, <2>14, <2>15, <2>16
  <1>4. CASE host = "loader" /\ Programs /\ xpc \in {"load", "write"} /\ xpc' = "boot" /\ \E buf, d : ploadbuf(buf, d)
    <2>1. UNCHANGED <<toChip, chip, answered, longs, garbled, eeprom>> /\ bpc' = "reset"
      BY <1>4 DEF ploadbuf, chipVars
    <2>2. type \in {0, 1} /\ (type = 0 => chip = "off" /\ eeprom = <<>>) /\ bpc = "idle"
      BY <1>4 DEF Jobs
    <2>3. eeprom' = <<>>
      <3>1. eeprom = <<>>
        BY <1>4, <2>2 DEF Uploaded
      <3>2. QED
        BY <2>1, <3>1
    <2>4. Helper' = Helper
      <3>1. xpc \in Ports
        BY <1>4 DEF Ports
      <3>2. QED
        BY <3>1, Settled, ProgramsKept
    <2>5. PICK P : P = Helper
      OBVIOUS
    <2>6. Carries(P, 1)
      <3>1. CASE type = 0
        BY <2>2, <3>1 DEF Carries, Attending
      <3>2. CASE type = 1
        <4>1. sent = 1 /\ package = Helper /\ Carries(package, sent)
          BY <1>4, <2>2, <3>2 DEF sent, package, Uploaded
        <4>2. QED
          BY <2>5, <4>1
      <3>3. QED
        BY <2>2, <3>1, <3>2
    <2>7. Carries(P, 1)'
      BY <2>1, <2>6, CarriesKept
    <2>8. sent' = 1 /\ package' = P
      BY <2>1, <2>4, <2>5 DEF sent, package
    <2>9. Carries(package, sent)'
      BY <2>7, <2>8
    <2>10. QED
      BY <1>0, <1>4, <2>3, <2>9 DEF Uploaded
  <1>5. QED
    BY <1>0, <1>1, <1>2, <1>3, <1>4, StepKinds

-----------------------------------------------------------------------------
(* What the chip answers when nothing disturbs the line.                   *)
Calls == (chip = "run" /\ toHost = <<>>) \/ (chip = "program" /\ toHost = <<ACK>>)
Acked ==
  \/ type = 1 /\ chip = "run" /\ toHost = <<254>>
  \/ type = 1 /\ chip = "program" /\ toHost = <<254, ACK>>
  \/ type = 2 /\ eeprom = dlbuf /\ chip = "off" /\ toHost = <<254>>
Checking == chip = "command" /\ toHost = <<>> /\ Told = (Said + LONG * Longs(dlbuf)) + 1
Answers ==
  host = "loader" /\ ~disturbed =>
    /\ ~garbled
    /\ bpc \in {"count", "data", "verify", "ack", "loaded", "connect"} => device = "propeller"
    /\ bpc \in {"count", "data", "verify"} => chip = "command" /\ toHost = <<>>
    /\ bpc = "verify" => Told = Said + LONG * Longs(dlbuf)
    /\ bpc = "ack" => Acked \/ Checking
    /\ bpc = "loaded" => IF type = 1 THEN Calls ELSE eeprom = dlbuf
    /\ bpc = "connect" => IF xpc = "connected" THEN chip = "program" ELSE Calls

(* Where a chip in the middle of the upload is.                            *)
Sums(l, c, s) ==
  /\ c \in Nat /\ c >= 2 /\ l \in 0..c /\ s \in Nat /\ Len(toChip) \in Nat
  /\ Told = (s + 11 * l) + Len(toChip) /\ Gone = s + 11 * l
  /\ whole <=> l = c
  /\ whole => ram = dlbuf /\ number(longs[1]) = type
LEMMA UploadGoesOn ==
  ASSUME Stages, BoardsAreRead, Jobs, Uploaded, host = "loader", bpc \notin {"idle", "reset"}, chip = "command", ~garbled
  PROVE  /\ type \in {1, 2} /\ IsUpload(dlbuf) /\ Attending /\ Ready /\ Carries(dlbuf, type)
         /\ Sums(Len(longs), Longs(dlbuf), Said)
  <1>1. type # 0
    BY DEF Jobs
  <1>2. type \in {1, 2} /\ IsUpload(dlbuf) /\ sent = type /\ package = dlbuf
    BY <1>1, PackageIs
  <1>3. Attending
    BY DEF Attending
  <1>4. Carries(package, sent)
    BY <1>1 DEF Uploaded
  <1>5. PICK P : P = dlbuf
    OBVIOUS
  <1>6. PICK k \in {1, 2} : k = type
    BY <1>2
  <1>7. IsUpload(P) /\ Carries(P, k)
    BY <1>2, <1>4, <1>5, <1>6
  <1>8. Received(P, k) /\ OnWire(P, k) /\ Ready
    BY <1>3, <1>7 DEF Carries, Ready, Received, OnWire
  <1> DEFINE l == Len(longs)
             c == Longs(P)
             s == Said
  <1>9. l \in 0..c /\ (whole <=> l = c) /\ (whole => ram = P /\ number(longs[1]) = k)
    BY <1>7, <1>8, ReceivedIs
  <1>10. c \in Nat /\ c >= 2
    <2>1. Divides(P, c)
      BY <1>7, LongsAre
    <2> HIDE DEF c
    <2>2. QED
      BY <2>1 DEF Divides
  <1>11. s \in Nat /\ Len(toChip) \in Nat
    BY <1>8, BootFacts, LenProperties DEF Ready
  <1>12. Gone = s + 11 * l
    BY DEF Gone, LONG
  <1>13. Told = (s + 11 * l) + Len(toChip)
    BY <1>12 DEF Told
  <1> HIDE DEF l, c, s
  <1>14. Sums(l, c, s)
    BY <1>5, <1>6, <1>9, <1>10, <1>11, <1>12, <1>13 DEF Sums
  <1>15. QED
    BY <1>2, <1>3, <1>4, <1>5, <1>8, <1>14 DEF l, c, s

(* The check of the program succeeds.                                      *)
LEMMA CheckSucceeds ==
  ASSUME IsUpload(dlbuf), type \in {1, 2}, ~garbled, chip = "command", toHost = <<>>,
         whole => ram = dlbuf /\ number(longs[1]) = type, ChipCheck, UNCHANGED <<type, dlbuf>>
  PROVE  Acked'
  <1>1. whole
    BY DEF ChipCheck
  <1>2. ram = dlbuf /\ number(longs[1]) = type
    BY <1>1
  <1>3. sum(ram) = TARGET_CHECKSUM
    BY <1>2 DEF IsUpload
  <1> DEFINE good == ~garbled /\ sum(ram) = TARGET_CHECKSUM
  <1>4. /\ toHost' = Append(toHost, bitbyte(IF good THEN 0 ELSE 1))
        /\ chip' = (IF good /\ number(longs[1]) = 1 THEN "run" ELSE "off")
        /\ eeprom' = (IF good /\ number(longs[1]) = 2 THEN ram ELSE eeprom)
    BY DEF ChipCheck
  <1>5. good
    BY <1>3
  <1> HIDE DEF good
  <1>6. toHost' = <<254>>
    BY <1>4, <1>5 DEF bitbyte
  <1>7. type = 1 => chip' = "run"
    BY <1>2, <1>4, <1>5
  <1>8. type = 2 => chip' = "off" /\ eeprom' = dlbuf
    BY <1>2, <1>4, <1>5
  <1>9. QED
    BY <1>6, <1>7, <1>8 DEF Acked

(* A chip that was found waits for the command.                            *)
LEMMA FoundWaits ==
  ASSUME host = "loader", ~disturbed, Controlled, Counted, Lines, InStep, Astray, bpc = "found"
  PROVE  device = "propeller" /\ chip = "command" /\ toHost = <<>>
  <1>1. device = "propeller"
    BY DEF Astray
  <1>2. ChipHas /\ HostHas
    BY <1>1 DEF InStep
  <1>3. HandshakeBits \in Nat \ {0} /\ VersionBits \in Nat \ {0}
    BY BootFacts
  <1>4. Bits \in Nat /\ Bits >= 1 /\ Heard = Bits /\ Bits = HandshakeBits + VersionBits
    BY <1>3 DEF Bits, Heard
  <1>5. toHost \in Seq(Nat) /\ Len(toHost) \in Nat
    BY LenProperties DEF Lines, Early
  <1>6. waiting = 0
    BY DEF Lines, waiting
  <1>7. unread = Len(toHost)
    BY <1>5, <1>6 DEF unread
  <1>8. Heard + unread = answered
    BY <1>2 DEF HostHas, Listening, Talking
  <1>9. answered = Bits + Len(toHost)
    BY <1>4, <1>7, <1>8
  <1>10. chip # "listen" /\ chip # "answer"
    <2>1. chip # "listen"
      BY <1>4, <1>5, <1>9 DEF Counted
    <2>2. chip # "answer"
      <3> SUFFICES ASSUME chip = "answer" PROVE FALSE
        OBVIOUS
      <3>1. answered <= Bits - 1
        BY <1>3, <1>4 DEF Counted
      <3>2. QED
        BY <1>4, <1>5, <1>9, <3>1
    <2>3. QED
      BY <2>1, <2>2
  <1>11. chip = "command" /\ answered = Bits
    BY <1>2, <1>10 DEF ChipHas, Talking
  <1>12. toHost = <<>>
    <2>1. Len(toHost) = 0
      BY <1>4, <1>5, <1>9, <1>11
    <2>2. QED
      BY <1>5, <2>1, EmptySeq
  <1>13. QED
    BY <1>1, <1>11, <1>12

(* While it checks, it is about to say so.                                 *)
LEMMA CheckResponds ==
  ASSUME NEW l, NEW c, Sums(l, c, Said), Checking, Longs(dlbuf) = c
  PROVE  Responding
  <1> DEFINE s == Said
             t == Len(toChip)
  <1>1. c \in Nat /\ l \in 0..c /\ s \in Nat /\ t \in Nat /\ (whole <=> l = c)
    BY DEF Sums
  <1>2. (s + 11 * l) + t = (s + 11 * c) + 1
    BY DEF Sums, Checking, LONG
  <1> HIDE DEF s, t
  <1>3. t = 11 * (c - l) + 1
    BY <1>1, <1>2
  <1>4. l # c => t >= 11
    BY <1>1, <1>3
  <1>5. l = c => t >= 1
    BY <1>1, <1>3
  <1>6. QED
    BY <1>1, <1>4, <1>5 DEF Responding, Checking, LONG, t

(* Before the loader asks for it, the chip has nothing to check.           *)
LEMMA NotYetChecked ==
  ASSUME NEW l, NEW c, Sums(l, c, Said), Longs(dlbuf) = c, IsUpload(dlbuf), Counted, Order, Ready, host = "loader", Attending,
         bpc \in {"count", "data"} \/ Told = Said + LONG * c, ChipCheck
  PROVE  FALSE
  <1> DEFINE s == Said
             t == Len(toChip)
             w == Told
  <1>1. c \in Nat /\ c >= 2 /\ l \in 0..c /\ s \in Nat /\ t \in Nat /\ (whole <=> l = c) /\ w = (s + 11 * l) + t
    BY DEF Sums
  <1>2. whole /\ toChip # <<>>
    BY DEF ChipCheck
  <1>3. t # 0
    <2>1. toChip \in Seq(Nat)
      BY DEF Ready
    <2>2. QED
      BY <1>2, <2>1, EmptySeq
  <1>4. Len(dlbuf) = 4 * (c - 2)
    <2>1. Divides(dlbuf, Longs(dlbuf))
      BY LongsAre
    <2>2. QED
      BY <2>1 DEF Divides
  <1>5. n \in Nat
    BY DEF Counted
  <1> HIDE DEF s, t
  <1>6. w <= s + 11 * c
    <2>1. CASE bpc = "count"
      <3>1. w = s + 11
        BY <2>1 DEF Order, LONG, s
      <3> HIDE DEF w
      <3>2. QED
        BY <1>1, <3>1
    <2>2. CASE bpc = "data"
      <3> DEFINE h == n \div 4
      <3>1. n % 4 = 0 /\ n <= Len(dlbuf) /\ w = s + 11 * (2 + h)
        BY <2>2 DEF Order, LONG, s
      <3>2. h \in Nat /\ n = 4 * h
        BY <1>5, <3>1
      <3> HIDE DEF h, w
      <3>3. h <= c - 2
        BY <1>1, <1>4, <3>1, <3>2
      <3>4. QED
        BY <1>1, <3>1, <3>2, <3>3
    <2>3. CASE Told = Said + LONG * c
      <3>1. w = s + 11 * c
        BY <2>3 DEF LONG, s
      <3> HIDE DEF w
      <3>2. QED
        BY <1>1, <3>1
    <2>4. QED
      BY <2>1, <2>2, <2>3
  <1> HIDE DEF w
  <1>7. QED
    BY <1>1, <1>2, <1>3, <1>6

(* The chip alone.                                                         *)
LEMMA AnswersChip ==
  ASSUME Stages, BoardsAreRead, Jobs, Controlled, Counted, Order, Uploaded, Answers, host = "loader", ~disturbed', ~disturbed,
         ChipStep, xpc' = xpc
  PROVE  Answers'
  <1>1. UNCHANGED <<host, device, bpc, type, dlbuf>>
    BY DEF ChipStep, job
  <1>2. /\ ~garbled
        /\ bpc \in {"count", "data", "verify", "ack", "loaded", "connect"} => device = "propeller"
        /\ bpc \in {"count", "data", "verify"} => chip = "command" /\ toHost = <<>>
        /\ bpc = "verify" => Told = Said + LONG * Longs(dlbuf)
        /\ bpc = "ack" => Acked \/ Checking
        /\ bpc = "loaded" => IF type = 1 THEN Calls ELSE eeprom = dlbuf
        /\ bpc = "connect" => IF xpc = "connected" THEN chip = "program" ELSE Calls
    BY DEF Answers
  <1>3. ~garbled'
    BY <1>2 DEF ChipStep, ChipListen, ChipAnswer, ChipLong, ChipCheck, ProgramStarts, Unheard, chipVars
  <1>4. Longs(dlbuf)' = Longs(dlbuf)
    BY <1>1 DEF Longs
  <1>5. chip = "program" /\ device = "propeller" => chip' = "program" /\ toHost' = toHost /\ eeprom' = eeprom
    BY DEF ChipStep, ChipListen, ChipAnswer, ChipLong, ChipCheck, ProgramStarts, Unheard, chipVars
  <1>6. chip = "off" /\ device = "propeller" => chip' = "off" /\ toHost' = toHost /\ eeprom' = eeprom
    BY DEF ChipStep, ChipListen, ChipAnswer, ChipLong, ChipCheck, ProgramStarts, Unheard, chipVars
  <1>7. chip = "run" => chip' = "program" /\ toHost' = Append(toHost, ACK) /\ eeprom' = eeprom
    BY DEF ChipStep, ChipListen, ChipAnswer, ChipLong, ChipCheck, ProgramStarts, Unheard, chipVars
  <1>8. ASSUME bpc \in {"loaded", "connect"}, Calls PROVE Calls' /\ chip' \in {"run", "program"}
    <2>1. CASE chip = "run" /\ toHost = <<>>
      <3>1. chip' = "program" /\ toHost' = Append(<<>>, ACK)
        BY <1>7, <2>1
      <3>2. Append(<<>>, ACK) = <<ACK>>
        OBVIOUS
      <3>3. QED
        BY <3>1, <3>2 DEF Calls
    <2>2. CASE chip = "program" /\ toHost = <<ACK>>
      BY <1>2, <1>5, <1>8, <2>2 DEF Calls
    <2>3. QED
      BY <1>8, <2>1, <2>2 DEF Calls
  <1>9. ASSUME bpc = "ack", Acked PROVE Acked'
    <2>1. device = "propeller"
      BY <1>2, <1>9
    <2>2. CASE type = 1 /\ chip = "run" /\ toHost = <<254>>
      BY <1>1, <1>7, <2>2 DEF Acked
    <2>3. CASE type = 1 /\ chip = "program" /\ toHost = <<254, ACK>>
      BY <1>1, <1>5, <2>1, <2>3 DEF Acked, ACK
    <2>4. CASE type = 2 /\ eeprom = dlbuf /\ chip = "off" /\ toHost = <<254>>
      BY <1>1, <1>6, <2>1, <2>4 DEF Acked
    <2>5. QED
      BY <1>9, <2>2, <2>3, <2>4 DEF Acked
  <1>10. ASSUME bpc \in {"count", "data", "verify"} \/ (bpc = "ack" /\ Checking)
         PROVE  \/ chip' = "command" /\ toHost' = <<>> /\ Told' = Told
                \/ bpc = "ack" /\ Acked'
    <2>1. chip = "command" /\ toHost = <<>> /\ bpc \notin {"idle", "reset"}
      BY <1>2, <1>10 DEF Checking
    <2>2. /\ type \in {1, 2} /\ IsUpload(dlbuf) /\ Attending /\ Ready
          /\ Sums(Len(longs), Longs(dlbuf), Said)
      BY <1>2, <2>1, UploadGoesOn
    <2>3. whole => ram = dlbuf /\ number(longs[1]) = type
      BY <2>2 DEF Sums
    <2>4. ChipLong \/ ChipCheck
      BY <2>1 DEF ChipStep, ChipListen, ChipAnswer, ProgramStarts, Unheard
    <2>5. CASE ChipLong
      <3>1. chip' = "command" /\ toHost' = <<>>
        BY <2>1, <2>5 DEF ChipLong
      <3>2. Attending'
        BY <1>3, <3>1 DEF Attending
      <3>3. toChip \in Seq(Nat) /\ Len(longs) \in Nat /\ (chip # "command" => longs = <<>>)
        BY <2>2, LenProperties DEF Ready
      <3>4. PICK m \in Nat : Consumed(m)
        BY <2>2, <3>2, <3>3, ChipConsumes
      <3>5. Told' = Told
        BY <2>2, <3>3, <3>4, GoneIs, ConsumedIs
      <3>6. QED
        BY <3>1, <3>5
    <2>6. CASE ChipCheck
      <3>1. bpc = "ack"
        <4> SUFFICES ASSUME bpc # "ack" PROVE FALSE
          OBVIOUS
        <4>1. bpc \in {"count", "data"} \/ Told = Said + LONG * Longs(dlbuf)
          BY <1>2, <1>10
        <4>2. QED
          BY <2>2, <2>6, <4>1, NotYetChecked
      <3>2. Acked'
        BY <1>1, <1>2, <2>1, <2>2, <2>3, <2>6, CheckSucceeds
      <3>3. QED
        BY <3>1, <3>2
    <2>7. QED
      BY <2>4, <2>5, <2>6
  <1>11. ASSUME bpc = "loaded", type # 1, eeprom = dlbuf PROVE eeprom' = dlbuf'
    <2>1. type = 2 /\ type # 0 /\ bpc # "reset"
      BY <1>11 DEF Jobs
    <2>2. IsUpload(dlbuf) /\ sent = type /\ package = dlbuf /\ Carries(package, sent)
      BY <2>1, PackageIs DEF Uploaded
    <2>3. PICK P : P = dlbuf
      OBVIOUS
    <2>4. IsUpload(P) /\ Carries(P, 2)
      BY <2>1, <2>2, <2>3
    <2>5. eeprom' = eeprom \/ eeprom' = P
      <3>1. 2 \in {1, 2}
        OBVIOUS
      <3>2. QED
        BY <2>4, <3>1, CarriesChip
    <2>6. QED
      BY <1>1, <1>11, <2>3, <2>5
  <1>12. bpc = "ack" => (Acked \/ Checking)'
    <2> SUFFICES ASSUME bpc = "ack" PROVE (Acked \/ Checking)'
      OBVIOUS
    <2>1. CASE Acked
      BY <1>9, <2>1
    <2>2. CASE Checking
      <3>1. Acked' \/ (chip' = "command" /\ toHost' = <<>> /\ Told' = Told)
        BY <1>10, <2>2
      <3>2. Told = (Said + LONG * Longs(dlbuf)) + 1
        BY <2>2 DEF Checking
      <3>3. QED
        BY <1>4, <3>1, <3>2 DEF Checking
    <2>3. QED
      BY <1>2, <2>1, <2>2
  <1>13. /\ bpc \in {"count", "data", "verify"} => chip' = "command" /\ toHost' = <<>>
         /\ bpc = "verify" => Told' = Said + LONG * Longs(dlbuf)
    BY <1>2, <1>10
  <1>14. bpc = "loaded" => IF type = 1 THEN Calls' ELSE eeprom' = dlbuf'
    BY <1>2, <1>8, <1>11
  <1>15. bpc = "connect" => IF xpc = "connected" THEN chip' = "program" ELSE Calls'
    BY <1>2, <1>5, <1>8
  <1>16. QED
    BY <1>1, <1>2, <1>3, <1>4, <1>12, <1>13, <1>14, <1>15 DEF Answers

(* The host alone.                                                         *)
LEMMA AnswersHost ==
  ASSUME Stages, BoardsAreRead, Jobs, Controlled, Counted, Lines, InStep, Astray, Order, Uploaded, Answers, host = "loader",
         ~disturbed', ~disturbed, BootStep
  PROVE  Answers'
  <1>1. UNCHANGED <<host, device, type, dlbuf>>
    BY BootStepKeeps DEF job
  <1>2. /\ ~garbled
        /\ bpc \in {"count", "data", "verify", "ack", "loaded", "connect"} => device = "propeller"
        /\ bpc \in {"count", "data", "verify"} => chip = "command" /\ toHost = <<>>
        /\ bpc = "verify" => Told = Said + LONG * Longs(dlbuf)
        /\ bpc = "ack" => Acked \/ Checking
        /\ bpc = "loaded" => IF type = 1 THEN Calls ELSE eeprom = dlbuf
    BY DEF Answers
  <1>3. CASE hwreset
    <2>1. garbled' = FALSE /\ bpc' \in {"magic", "failed"}
      BY <1>3 DEF hwreset
    <2>2. QED
      BY <2>1 DEF Answers
  <1>4. ASSUME ~hwreset PROVE UNCHANGED <<chip, eeprom, garbled, longs>> /\ Gone' = Gone /\ chipVars' = chipVars
    <2>1. chipVars' = chipVars
      BY <1>4 DEF BootStep, hwreset, SendMagic, Drain, SendTiming, FirstBit,
         Compare, getBit, Resync, VersionBit, findprop, UploadHeader, UploadData, AskForAck, getAck, portHandler, sendlong, tx
    <2>2. QED
      BY <2>1 DEF chipVars, Gone
  <1>5. CASE SendMagic \/ Drain \/ SendTiming \/ FirstBit \/ Compare \/ getBit \/ Resync \/ VersionBit \/ findprop
    <2>1. bpc' \in Early \cup {"failed"} /\ garbled' = garbled
      BY <1>5 DEF SendMagic, Drain, SendTiming, FirstBit, Compare, getBit, Resync, VersionBit, findprop, tx, Early, chipVars
    <2>2. QED
      BY <1>2, <2>1 DEF Answers, Early
  <1>6. CASE UploadHeader
    <2>1. /\ bpc \in {"found", "count"} /\ bpc' \in {"count", "data", "failed"} /\ toHost' = toHost /\ UNCHANGED <<chip, garbled>>
      BY <1>6 DEF UploadHeader, sendlong, tx, chipVars
    <2>2. device = "propeller" /\ chip = "command" /\ toHost = <<>>
      <3>1. CASE bpc = "found"
        BY <3>1, FoundWaits
      <3>2. CASE bpc = "count"
        BY <1>2, <3>2
      <3>3. QED
        BY <2>1, <3>1, <3>2
    <2>3. QED
      BY <1>1, <1>2, <2>1, <2>2 DEF Answers
  <1>7. CASE UploadData
    <2>1. /\ bpc = "data" /\ bpc' \in {"data", "verify", "failed"} /\ toHost' = toHost /\ UNCHANGED <<chip, garbled>>
          /\ bpc' = "verify" => n >= Len(dlbuf) /\ toChip' = toChip
      BY <1>7 DEF UploadData, sendlong, tx, chipVars
    <2>2. device = "propeller" /\ chip = "command" /\ toHost = <<>>
      BY <1>2, <2>1
    <2>3. ASSUME bpc' = "verify" PROVE Told' = Said + LONG * Longs(dlbuf)
      <3>1. ~hwreset
        BY <2>1 DEF hwreset
      <3>2. Told' = Told
        BY <1>4, <2>1, <2>3, <3>1 DEF Told
      <3>3. IsUpload(dlbuf) /\ Attending
        BY <1>2, <2>1, <2>2, UploadGoesOn
      <3> DEFINE c == Longs(dlbuf)
                 d == Len(dlbuf)
                 h == n \div 4
                 s == Said
      <3>4. c \in Nat /\ c >= 2 /\ d = 4 * (c - 2)
        <4>1. Divides(dlbuf, c)
          BY <3>3, LongsAre
        <4> HIDE DEF c
        <4>2. QED
          BY <4>1 DEF Divides
      <3>5. n % 4 = 0 /\ n <= d /\ Told = s + 11 * (2 + h) /\ n \in Nat
        BY <2>1, <3>3 DEF Order, LONG, Counted
      <3>6. n >= d
        BY <2>1, <2>3
      <3> HIDE DEF c, d, s
      <3>7. n = 4 * (c - 2)
        BY <3>4, <3>5, <3>6
      <3>8. h = c - 2
        BY <3>4, <3>7
      <3> HIDE DEF h
      <3>9. 2 + h = c
        BY <3>4, <3>8
      <3>10. Told = s + 11 * c
        BY <3>5, <3>9
      <3>11. QED
        BY <3>2, <3>10 DEF s, c, LONG
    <2>4. Longs(dlbuf)' = Longs(dlbuf)
      BY <1>1 DEF Longs
    <2>5. QED
      BY <1>1, <1>2, <2>1, <2>2, <2>3, <2>4 DEF Answers
  <1>8. CASE AskForAck
    <2>1. /\ bpc = "verify" /\ bpc' = "ack" /\ toHost' = toHost /\ UNCHANGED <<chip, garbled>> /\ toChip' = Append(toChip, F9)
      BY <1>8 DEF AskForAck, chipVars
    <2>2. device = "propeller" /\ chip = "command" /\ toHost = <<>> /\ Told = Said + LONG * Longs(dlbuf)
      BY <1>2, <2>1
    <2>3. Ready /\ Attending
      BY <1>2, <2>1, <2>2, UploadGoesOn
    <2>4. Told' = Told + 1
      <3> DEFINE q == <<F9>>
      <3>1. q \in Seq(Nat) /\ Len(q) = 1
        BY DEF F9
      <3>2. toChip' = toChip \o q
        <4>1. F9 \in Nat /\ toChip \in Seq(Nat)
          BY <2>3 DEF F9, Ready
        <4>2. QED
          BY <2>1, <4>1, AppendIsConcat
      <3> HIDE DEF q
      <3>3. Gone \in Nat /\ toChip \in Seq(Nat)
        BY <2>3, GoneIs, LenProperties DEF Ready
      <3>4. Gone' = Gone
        BY <1>4, <2>1 DEF hwreset
      <3>5. QED
        BY <3>1, <3>2, <3>3, <3>4, ToldGrows
    <2>5. Longs(dlbuf)' = Longs(dlbuf)
      BY <1>1 DEF Longs
    <2>6. Checking'
      BY <2>1, <2>2, <2>4, <2>5 DEF Checking
    <2>7. QED
      BY <1>1, <1>2, <2>1, <2>2, <2>6 DEF Answers
  <1>9. CASE getAck
    <2>1. bpc = "ack" /\ device = "propeller" /\ (Acked \/ Checking) /\ UNCHANGED <<chip, garbled, eeprom>>
      BY <1>2, <1>9 DEF getAck, chipVars
    <2>2. ~rx_gives_up(TRUE)
      <3> SUFFICES ASSUME rx_gives_up(TRUE) PROVE FALSE
        OBVIOUS
      <3>1. ~Arriving /\ ~Responding
        BY DEF rx_gives_up
      <3>2. toHost = <<>>
        BY <3>1 DEF Arriving
      <3>3. ~Acked
        BY <3>2 DEF Acked
      <3>4. Checking
        BY <2>1, <3>3
      <3>5. Sums(Len(longs), Longs(dlbuf), Said)
        BY <1>2, <2>1, <3>4, UploadGoesOn DEF Checking
      <3>6. Responding
        BY <3>4, <3>5, CheckResponds
      <3>7. QED
        BY <3>1, <3>6
    <2>3. bpc' = "loaded" /\ heard(1)
      BY <1>9, <2>2 DEF getAck, GotBit
    <2>4. toHost # <<>> /\ toHost' = from(toHost, 2)
      BY <2>3 DEF heard
    <2>5. Acked
      BY <2>1, <2>4 DEF Checking
    <2>6. type = 1 => Calls'
      <3>1. CASE chip = "run" /\ toHost = <<254>>
        <4>1. from(<<254>>, 2) = <<>>
          BY DEF from
        <4>2. QED
          BY <2>1, <2>4, <3>1, <4>1 DEF Calls
      <3>2. CASE chip = "program" /\ toHost = <<254, ACK>>
        <4> DEFINE l == <<254, ACK>>
                   one == <<ACK>>
        <4>3. ACK \in Nat /\ 254 \in Nat
          BY DEF ACK
        <4>4. l \in Seq(Nat) /\ Len(l) = 2 /\ l[2] = ACK
          BY <4>3
        <4>5. one \in Seq(Nat) /\ Len(one) = 1 /\ one[1] = ACK
          BY <4>3
        <4> HIDE DEF l, one
        <4>6. from(l, 2) \in Seq(Nat) /\ Len(from(l, 2)) = 1 /\ from(l, 2)[1] = l[2]
          <5>1. \A i \in Nat \ {0} : /\ from(l, i) \in Seq(Nat)
                                     /\ Len(from(l, i)) = IF i <= Len(l) THEN Len(l) - i + 1 ELSE 0
                                     /\ \A k \in 1..Len(l) - i + 1 : from(l, i)[k] = l[i + k - 1]
            BY <4>4, FromIs
          <5>2. PICK i \in Nat \ {0} : i = 2
            OBVIOUS
          <5>3. Len(l) - i + 1 = 1 /\ i + 1 - 1 = 2 /\ i <= Len(l)
            BY <4>4, <5>2
          <5> DEFINE m == from(l, i)
          <5>6. /\ m \in Seq(Nat) /\ (i <= Len(l) => Len(m) = Len(l) - i + 1)
                /\ \A k \in 1..Len(l) - i + 1 : m[k] = l[i + k - 1]
            BY <5>1
          <5> HIDE DEF m
          <5>7. m[1] = l[i + 1 - 1]
            <6>1. 1 \in 1..Len(l) - i + 1
              BY <5>3
            <6>2. QED
              BY <5>6, <6>1
          <5>4. m \in Seq(Nat) /\ Len(m) = 1 /\ m[1] = l[2]
            BY <5>3, <5>6, <5>7
          <5>5. QED
            BY <5>2, <5>4 DEF m
        <4>7. \A k \in 1..1 : from(l, 2)[k] = one[k]
          BY <4>4, <4>5, <4>6
        <4>8. from(l, 2) = one
          BY <4>5, <4>6, <4>7, SeqEqual
        <4>1. from(<<254, ACK>>, 2) = <<ACK>>
          BY <4>8 DEF l, one
        <4>2. QED
          BY <2>1, <2>4, <3>2, <4>1 DEF Calls
      <3>3. QED
        BY <2>5, <3>1, <3>2 DEF Acked
    <2>7. type # 1 => eeprom' = dlbuf'
      BY <1>1, <2>1, <2>5 DEF Acked
    <2>8. QED
      BY <1>1, <1>2, <2>1, <2>3, <2>6, <2>7 DEF Answers
  <1>10. ~portHandler
    BY DEF portHandler
  <1>11. QED
    BY <1>3, <1>5, <1>6, <1>7, <1>8, <1>9, <1>10 DEF BootStep

LEMMA AnswersStep ==
  ASSUME Stages, BoardsAreRead, Jobs, Controlled, Counted, Lines, InStep, Astray, Order, Uploaded, Answers, [Next]_vars
  PROVE  Answers'
  <1>1. disturbed => disturbed'
    BY FaultKinds
  <1>2. host' = host /\ device' = device
    BY JobSteps
  <1> SUFFICES ASSUME host = "loader", ~disturbed, ~disturbed' PROVE Answers'
    BY <1>1, <1>2 DEF Answers
  <1>3. /\ ~garbled
        /\ bpc \in {"count", "data", "verify", "ack", "loaded", "connect"} => device = "propeller"
        /\ bpc \in {"count", "data", "verify"} => chip = "command" /\ toHost = <<>>
        /\ bpc = "verify" => Told = Said + LONG * Longs(dlbuf)
        /\ bpc = "ack" => Acked \/ Checking
        /\ bpc = "loaded" => IF type = 1 THEN Calls ELSE eeprom = dlbuf
        /\ bpc = "connect" => IF xpc = "connected" THEN chip = "program" ELSE Calls
    BY DEF Answers
  <1>4. CASE UNCHANGED bootVars /\ (xpc' = xpc \/ (xpc \in Elsewhere /\ xpc' \in Elsewhere \cup {"exit"}))
    <2>1. UNCHANGED <<host, device, dlbuf, type, toChip, toHost, chip, answered, longs, garbled, eeprom, bpc>>
      BY <1>4 DEF bootVars, job, chipVars
    <2>2. bpc = "connect" => xpc' = xpc
      BY <1>4 DEF Jobs, Elsewhere
    <2>3. Told' = Told /\ Longs(dlbuf)' = Longs(dlbuf)
      BY <2>1 DEF Told, Gone, Longs
    <2>4. Acked' = Acked /\ Checking' = Checking /\ Calls' = Calls
      BY <2>1, <2>3 DEF Acked, Checking, Calls
    <2>5. QED
      BY <1>3, <2>1, <2>2, <2>3, <2>4 DEF Answers
  <1>5. CASE \E buf, d : ploadbuf(buf, d)
    <2>1. garbled' = garbled /\ bpc' = "reset"
      BY <1>5 DEF ploadbuf, chipVars
    <2>2. QED
      BY <1>3, <2>1 DEF Answers
  <1>6. CASE GoesOn
    <2>1. UNCHANGED <<type, toHost, chip, garbled>>
      BY <1>6 DEF GoesOn, Passed, job, chipVars
    <2>2. Calls' = Calls
      BY <2>1 DEF Calls
    <2>3. bpc' \in {"idle"} \/ (bpc = "loaded" /\ type = 1 /\ bpc' = "connect" /\ xpc' = "boot")
      BY <1>6 DEF GoesOn
    <2>4. QED
      BY <1>2, <1>3, <2>1, <2>2, <2>3 DEF Answers
  <1>7. CASE WaitForInitialAck
    <2>1. xpc = "boot" /\ bpc = "connect" /\ UNCHANGED <<chip, garbled>>
      BY <1>7 DEF WaitForInitialAck, chipVars
    <2>2. device = "propeller" /\ Calls
      BY <1>3, <2>1
    <2>3. (bpc' = "connect" /\ xpc' = "connected" /\ heard(1)) \/ bpc' = "idle"
      BY <1>7 DEF WaitForInitialAck
    <2>4. heard(1) => chip = "program"
      BY <2>2 DEF heard, Calls
    <2>5. QED
      BY <1>2, <1>3, <2>1, <2>2, <2>3, <2>4 DEF Answers
  <1>8. CASE BootStep
    BY <1>8, AnswersHost
  <1>9. CASE ChipStep /\ xpc' = xpc
    BY <1>9, AnswersChip
  <1>10. CASE Stray
    <2>1. bpc = "drain" /\ bpc' = bpc /\ garbled' = garbled
      BY <1>10 DEF Stray, chipVars
    <2>2. QED
      BY <1>3, <2>1 DEF Answers
  <1>11. ~Lost
    BY DEF Lost
  <1>12. QED
    BY <1>4, <1>5, <1>6, <1>7, <1>8, <1>9, <1>10, <1>11, StepKinds

-----------------------------------------------------------------------------
(* The whole of the upload.                                                *)
Upload == Jobs /\ Order /\ Uploaded /\ Answers

LEMMA UploadBegins == Init => Upload
  <1> SUFFICES ASSUME Init PROVE Upload
    OBVIOUS
  <1>1. /\ host \in {"loader", "ide"} /\ (host = "loader" => xpc = "config") /\ type = 0 /\ dlbuf = <<>>
        /\ chip = "off" /\ bpc = "idle" /\ eeprom = <<>> /\ ~garbled
    BY DEF Init, BootInit
  <1>2. ~Attending
    BY <1>1 DEF Attending
  <1>3. Jobs
    BY <1>1 DEF Jobs
  <1>4. Order
    BY <1>2 DEF Order
  <1>5. Uploaded
    BY <1>1 DEF Uploaded
  <1>6. Answers
    BY <1>1 DEF Answers
  <1>7. QED
    BY <1>3, <1>4, <1>5, <1>6 DEF Upload

LEMMA ReadyToSend ==
  ASSUME Stages, BoardsAreRead, Jobs, Uploaded, host = "loader", Attending
  PROVE  Ready /\ IsUpload(dlbuf) /\ type \in {1, 2}
  <1>1. chip # "off"
    BY DEF Attending
  <1>2. type # 0
    BY <1>1 DEF Jobs
  <1>3. type \in {1, 2} /\ IsUpload(dlbuf)
    BY <1>2, PackageIs
  <1>4. Received(package, sent) /\ OnWire(package, sent) /\ (chip # "command" => longs = <<>>)
    BY <1>2 DEF Uploaded, Carries
  <1>5. Ready
    BY <1>4 DEF Ready, Received, OnWire
  <1>6. QED
    BY <1>3, <1>5

LEMMA UploadHolds == Spec => []Upload
  <1>1. Stages /\ BoardsAreRead /\ Compiles /\ Search /\ Upload /\ [Next]_vars => Upload'
    <2> SUFFICES ASSUME Stages, BoardsAreRead, Compiles, Search, Upload, [Next]_vars PROVE Upload'
      OBVIOUS
    <2>1. Controlled /\ Counted /\ Lines /\ RingLasts /\ InStep /\ Astray
      BY DEF Search
    <2>2. Jobs /\ Order /\ Uploaded /\ Answers
      BY DEF Upload
    <2>3. Jobs'
      BY <2>2, JobsStep
    <2>4. Order'
      <3>1. CASE host = "loader"
        <4>1. Attending => Ready /\ IsUpload(dlbuf) /\ type \in {1, 2}
          BY <2>2, <3>1, ReadyToSend
        <4>2. QED
          BY <2>1, <2>2, <3>1, <4>1, OrderStep
      <3>2. CASE host # "loader"
        <4>1. host' # "loader"
          BY <3>2, JobSteps
        <4>2. QED
          BY <4>1 DEF Order
      <3>3. QED
        BY <3>1, <3>2
    <2>5. Uploaded'
      BY <2>1, <2>2, <2>3, UploadedStep
    <2>6. Answers'
      BY <2>1, <2>2, AnswersStep
    <2>7. QED
      BY <2>3, <2>4, <2>5, <2>6 DEF Upload
  <1>2. QED
    BY <1>1, UploadBegins, StagesHold, BoardsReadHold, CompilesHolds, SearchHolds, PTL DEF Spec

(* The helper that runs, and the loader in the EEPROM, are those that the  *)
(* program made for the board that was asked for.                          *)
LEMMA ForThisBoard ==
  ASSUME Stages, BoardsAreRead, Jobs, Uploaded, ConfigurationIsAsDescribed, host = "loader", type # 0
  PROVE  /\ HelperFits(Helper)
         /\ type = 2 => LoaderFits(Loader)
         /\ chip \in {"run", "program"} => ram = Helper
  <1>1. /\ task \in Tasks /\ parsing = "done" /\ GetBoardConfig(task.board) # 0 /\ task.option # "none"
        /\ type = 2 => cached \/ ImageFits
    BY DEF Stages, Jobs
  <1>2. task.command \in {"xbcom", "xload"} /\ task.boards # <<>>
    BY <1>1, TasksAssumption
  <1>3. ~saved
    BY <1>2 DEF Stages
  <1>4. AsDescribed
    BY <1>1, <1>2, <1>3, DescribedIs
  <1>5. IsBoard(config)
    BY <1>1, <1>2, ConfigIs DEF BoardsAreRead
  <1>6. HelperFits(Helper)
    BY <1>4, <1>5, HelperIsForTheBoard
  <1>7. type = 2 => LoaderFits(Loader)
    BY <1>1, <1>4, <1>5, LoaderIsForTheBoard
  <1>8. chip \in {"run", "program"} => ram = Helper
    BY DEF Uploaded, Carries, package
  <1>9. QED
    BY <1>6, <1>7, <1>8

(* Whatever is compiled or loaded, on whatever line: if the configuration  *)
(* was read as it is written, the chip runs only the serial helper made    *)
(* for the clock, the pins and the baud rate of the board that was asked   *)
(* for, its EEPROM holds only the flash loader, or the hub loader with all *)
(* of the image, made for this board; and unless the line failed, a helper *)
(* that is told to run answers, and an EEPROM that is reported written has *)
(* the bytes that were sent (ploadbuf and upload of PLoadLib.c, and the    *)
(* patches of db_loader.c).                                                *)
THEOREM ProgramReachesTheBoard == Spec /\ []ConfigurationIsAsDescribed => []ProgramIsForTheBoard
  <1>1. Stages /\ BoardsAreRead /\ Search /\ Upload /\ ConfigurationIsAsDescribed => ProgramIsForTheBoard
    <2> SUFFICES ASSUME Stages, BoardsAreRead, Search, Upload, ConfigurationIsAsDescribed PROVE ProgramIsForTheBoard
      OBVIOUS
    <2>1. Controlled /\ RingLasts /\ Jobs /\ Uploaded /\ Answers
      BY DEF Search, Upload
    <2>2. CASE host = "ide"
      <3>1. chip \notin {"run", "program"} /\ eeprom = <<>>
        BY <2>1, <2>2 DEF RingLasts, Uploaded
      <3>2. xpc # "connected" /\ bpc # "loaded"
        BY <2>1, <2>2 DEF Controlled, Early
      <3>3. QED
        BY <3>1, <3>2 DEF ProgramIsForTheBoard
    <2>3. CASE host = "loader"
      <3>1. type = 0 => chip = "off" /\ eeprom = <<>>
        BY <2>1, <2>3 DEF Jobs
      <3>2. chip \in {"run", "program"} => HelperFits(ram)
        <4> SUFFICES ASSUME chip \in {"run", "program"} PROVE HelperFits(ram)
          OBVIOUS
        <4>1. ram = Helper /\ HelperFits(Helper)
          BY <2>1, <2>3, <3>1, ForThisBoard
        <4>2. PICK p : p = Helper
          OBVIOUS
        <4>3. QED
          BY <4>1
      <3>3. eeprom # <<>> => LoaderFits(eeprom)
        <4> SUFFICES ASSUME eeprom # <<>> PROVE LoaderFits(eeprom)
          OBVIOUS
        <4>1. type = 2 /\ eeprom = Loader
          BY <2>1, <2>3 DEF Uploaded
        <4>2. LoaderFits(Loader)
          BY <2>1, <2>3, <4>1, ForThisBoard
        <4>3. QED
          BY <4>1, <4>2
      <3>4. xpc = "connected" => chip = "program" \/ disturbed
        BY <2>1, <2>3 DEF Jobs, Answers
      <3>5. bpc = "loaded" /\ ~disturbed => IF type = 1 THEN chip \in {"run", "program"} ELSE eeprom = dlbuf
        BY <2>1, <2>3 DEF Answers, Calls
      <3>6. QED
        BY <3>2, <3>3, <3>4, <3>5 DEF ProgramIsForTheBoard
    <2>4. QED
      BY <2>2, <2>3 DEF Stages
  <1>2. QED
    BY <1>1, StagesHold, BoardsReadHold, SearchHolds, UploadHolds, PTL
=============================================================================
