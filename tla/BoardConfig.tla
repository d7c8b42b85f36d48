----------------------------- MODULE BoardConfig -----------------------------
(***************************************************************************)
(* The board configuration file (src/common/db_config.c): its lines, the   *)
(* numeric expressions in them and the boards they describe.  The text is  *)
(* a sequence of pieces: "sp" is a space, "nl" the end of a line, the      *)
(* punctuation and the operators are pieces, and so is a whole word or     *)
(* number.  A string is the sequence of its pieces.                        *)
(***************************************************************************)
EXTENDS Integers, SequencesExt

CONSTANTS
  Number,        \* the numbers: piece to value, after k and m have multiplied it
  MaxLine,       \* pieces in a line buffer; MAXLINE characters in the code
  StackValues    \* what an uninitialized integer may hold

VARIABLES
  text,          \* what is left of the file
  boardConfigs,  \* the boards so far, oldest first; the last one is still open
  iValue,        \* the number parsed last, in all of the file
  parsing        \* lines, done, or error

configVars == <<text, boardConfigs, iValue, parsing>>

configSymbols ==
  [s \in {"RCFAST", "RCSLOW", "XINPUT", "XTAL1", "XTAL2", "XTAL3", "PLL1X", "PLL2X", "PLL4X", "PLL8X", "PLL16X", "K", "M"} |->
     CASE s = "RCFAST" -> 0  [] s = "RCSLOW" -> 1  [] s = "XINPUT" -> 32 [] s = "XTAL1" -> 40 [] s = "XTAL2" -> 48
       [] s = "XTAL3" -> 56  [] s = "PLL1X" -> 67  [] s = "PLL2X" -> 68  [] s = "PLL4X" -> 69 [] s = "PLL8X" -> 70
       [] s = "PLL16X" -> 71 [] s = "K" -> 1024 [] s = "M" -> 1024 * 1024]

ByteTags    == {"clkmode", "rxpin", "txpin", "tvpin"}
NumericTags == ByteTags \cup {"clkfreq", "baudrate", "cache-size", "cache-param1", "cache-param2"}
StringTags  == {"cache-driver", "text", "data"}
SectionTags == {"flash-size", "ram-size"}
Operators   == {"+", "-", "*", "/", "%", "&", "|"}
Punctuation == {"#", "[", "]", ":"}
NULL        == <<>>
HUB_BASE   == 0
RAM_BASE   == 2
FLASH_BASE == 3
HUB_SIZE   == 32768

NewSection(name, base, size) == [name |-> <<name>>, base |-> base, size |-> size]
NewBoardConfig(name) ==
  [name |-> name, num |-> [t \in NumericTags |-> 0], str |-> [t \in StringTags |-> NULL], sections |-> <<>>]

ASSUME NumbersAssumption ==
  Number \in [DOMAIN Number -> Int] /\ StackValues \subseteq Int /\ MaxLine \in Nat \ {0}

ConfigInit(file) ==
  /\ text = file
  /\ boardConfigs = <<>>
  /\ iValue \in StackValues
  /\ parsing = "lines"
-----------------------------------------------------------------------------
(* Tokens. *)

from(l, i) == SubSeq(l, i, Len(l))
at(l) == IF l = <<>> THEN "end" ELSE Head(l)
until(l, Test(_)) == LET n == SelectInSeq(l, Test) IN IF n = 0 THEN Len(l) + 1 ELSE n

SkipSpaces(l) ==
  LET s == from(l, until(l, LAMBDA p : p # "sp"))
  IN  IF at(s) = "#" THEN from(s, until(s, LAMBDA p : p = "nl")) ELSE s

NextToken(l, termSet) ==
  LET s == SkipSpaces(l)
      n == until(s, LAMBDA p : p \in termSet \cup {"sp", "nl"})
  IN  [token |-> SubSeq(s, 1, n - 1), term |-> at(from(s, n)), rest |-> from(s, n + 1)]

(* The token t is followed by p, with or without spaces between them; the  *)
(* line behind p. *)
followed(t, p) == t.term = p \/ at(SkipSpaces(t.rest)) = p
behind(t, p) == IF t.term = p THEN t.rest ELSE from(SkipSpaces(t.rest), 2)

-----------------------------------------------------------------------------
(* Numeric expressions, from the left to the right. *)

(* The bits of an int that are set, and the int they make. *)
bits(v) == {i \in 0..30 : (v \div 2^i) % 2 = 1} \cup (IF v < 0 THEN {31} ELSE {})
int(S) ==
  LET sum[i \in 0..31] ==
        IF i = 0 THEN IF 31 \in S THEN (-2) * 2^30 ELSE 0
        ELSE sum[i - 1] + (IF i - 1 \in S THEN 2^(i - 1) ELSE 0)
  IN  sum[31]

(* Division is towards zero. *)
abs(v) == IF v < 0 THEN -v ELSE v
quotient(left, right) ==
  LET q == abs(left) \div abs(right) IN IF (left < 0) = (right < 0) THEN q ELSE -q

DoOp(op, left, right) ==
  CASE op = "none" -> right
    [] op = "+" -> left + right
    [] op = "-" -> left - right
    [] op = "*" -> left * right
    [] op = "/" -> quotient(left, right)
    [] op = "%" -> left - right * quotient(left, right)
    [] op = "&" -> int(bits(left) \cap bits(right))
    [] op = "|" -> int(bits(left) \cup bits(right))

(* A slip: the operator before a number or a symbol is left aside. *)
operand_alone(e, v) == [e EXCEPT !.value = v, !.op = "none"]
(* A division by zero ends the program, as an error does. *)
operand(e, v) ==
  IF e.op \in {"/", "%"} /\ v = 0 THEN [e EXCEPT !.ok = FALSE]
  ELSE [e EXCEPT !.value = DoOp(e.op, @, v), !.op = "none"]

(* A word that is no symbol changes nothing: the pointer that is tested    *)
(* behind the search is never NULL. *)
item(e, p) ==
  IF p \in DOMAIN Number THEN operand(e, Number[p])
  ELSE IF p \in DOMAIN configSymbols THEN operand(e, configSymbols[p])
  ELSE IF p \in Operators THEN [e EXCEPT !.op = p]
  ELSE [e EXCEPT !.ok = p \notin Punctuation /\ @]

ParseNumericExpr(token) ==
  LET e[k \in 0..Len(token)] ==
        IF k = 0 THEN [value |-> iValue, op |-> "none", ok |-> TRUE] ELSE item(e[k - 1], token[k])
  IN  e[Len(token)]
-----------------------------------------------------------------------------
(* Lines. *)

(* Every board ends with the hub section, when the next one begins or the  *)
(* file is at its end. *)
closed(boards) ==
  IF boards = <<>> THEN boards
  ELSE [boards EXCEPT ![Len(boards)].sections = Append(@, NewSection("hub", HUB_BASE, HUB_SIZE))]

BoardTag(l) ==
  \E t \in {NextToken(Tail(l), {"]"})} :
      IF t.token # NULL /\ followed(t, "]") /\ at(SkipSpaces(behind(t, "]"))) = "nl"
        THEN boardConfigs' = Append(closed(boardConfigs), NewBoardConfig(t.token)) /\ UNCHANGED <<iValue, parsing>>
        ELSE parsing' = "error" /\ UNCHANGED <<boardConfigs, iValue>>

(* What tag: value does to the board that is open; v is what the value     *)
(* is worth as a number.  The clock mode and the pins are bytes. *)
setting(config, tag, value, v) ==
  CASE tag \in ByteTags    -> [config EXCEPT !.num[tag] = v % 256]
    [] tag \in NumericTags \ ByteTags -> [config EXCEPT !.num[tag] = v]
    [] tag \in StringTags  -> [config EXCEPT !.str[tag] = value]
    [] tag = "flash-size"  -> [config EXCEPT !.sections = Append(@, NewSection("flash", FLASH_BASE, v))]
    [] tag = "ram-size"    -> [config EXCEPT !.sections = Append(@, NewSection("ram", RAM_BASE, v))]

Pair(l) ==
  \E t \in {NextToken(l, {":"})} : \E v \in {NextToken(behind(t, ":"), {})} :
  \E tag \in {at(t.token)} : \E e \in {ParseNumericExpr(v.token)} :
      IF /\ boardConfigs # <<>>
         /\ t.token # NULL /\ followed(t, ":")
         /\ v.token # NULL /\ followed(v, "nl")
         /\ Len(t.token) = 1 /\ tag \in NumericTags \cup StringTags \cup SectionTags
         /\ tag \in StringTags \/ e.ok
        THEN /\ boardConfigs' = [boardConfigs EXCEPT ![Len(boardConfigs)] = setting(@, tag, v.token, e.value)]
             /\ iValue' = IF tag \in StringTags THEN iValue ELSE e.value
             /\ UNCHANGED parsing
        ELSE parsing' = "error" /\ UNCHANGED <<boardConfigs, iValue>>

(* fgets: up to the end of the line, or what the buffer holds. *)
fgets == SubSeq(text, 1, Min({until(text, LAMBDA p : p = "nl"), Len(text), MaxLine - 1}))

(* Quantifiers over one value name it, so that it is computed once. *)
ParseLine ==
  /\ parsing = "lines" /\ text # <<>>
  /\ text' = from(text, Len(fgets) + 1)
  /\ \E l \in {SkipSpaces(fgets)} :
     CASE at(l) = "nl" -> UNCHANGED <<boardConfigs, iValue, parsing>>
       [] at(l) = "["  -> BoardTag(l)
       [] OTHER        -> Pair(l)

EndOfConfiguration ==
  /\ parsing = "lines" /\ text = <<>>
  /\ boardConfigs' = closed(boardConfigs)
  /\ parsing' = "done"
  /\ UNCHANGED <<text, iValue>>

ParseConfigurationFile == ParseLine \/ EndOfConfiguration

(* The first one of that name; 0 is none. *)
GetBoardConfig(name) == SelectInSeq(boardConfigs, LAMBDA b : b.name = name)
GetSection(config, name) == SelectInSeq(config.sections, LAMBDA s : s.name = name)
=============================================================================
