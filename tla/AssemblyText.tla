---------------------------- MODULE AssemblyText ----------------------------
(***************************************************************************)
(* Programs for the assembler, as what they mean and as they are written,  *)
(* and what the bytes written for them have to say.                        *)
(*                                                                         *)
(* A line is [label, cond, op, dst, imm, src, effects], an operand         *)
(* a number, a register or label, or an operator with its operands. A line *)
(* of an ASM block is [name, n, asm]: an opcode, its constant or none, and *)
(* for NATIVE the line behind it or none.                                  *)
(***************************************************************************)
EXTENDS Assembler

number(n, text) == [o |-> "number", n |-> n, s |-> text]
named(text) == [o |-> "name", n |-> 0, s |-> text]
unary(o, x) == [o |-> o, x |-> x]
binary(o, x, y) == [o |-> o, x |-> x, y |-> y]

(* Writing: parentheses only where the binding of the operators asks for them. *)
sign(o) == CASE o = "T_SHL" -> <<"<", "<">> [] o = "T_SHR" -> <<">", ">">> [] OTHER -> <<o>>
binding(e) ==
  IF "x" \notin DOMAIN e THEN 8 ELSE IF "y" \notin DOMAIN e THEN 7
  ELSE CASE e.o \in {"*", "/", "%"} -> 6 [] e.o \in {"+", "-"} -> 5 [] e.o \in {"T_SHL", "T_SHR"} -> 4
         [] e.o = "&" -> 3 [] e.o = "|" -> 2
RECURSIVE Written(_)
Written(e) ==
  LET inside(f, least) == IF binding(f) < least THEN <<"(">> \o Written(f) \o <<")">> ELSE Written(f) IN
  CASE binding(e) = 8 -> e.s
    [] binding(e) = 7 -> <<e.o>> \o inside(e.x, 8)
    [] OTHER -> inside(e.x, binding(e)) \o sign(e.o) \o inside(e.y, binding(e) + 1)
RECURSIVE listed_effects(_)
listed_effects(es) == IF es = <<>> THEN <<>> ELSE IF Len(es) = 1 THEN <<es[1]>> ELSE <<es[1], ",">> \o listed_effects(Tail(es))
kind(m) ==
  CASE m.op \in {"nop", "ret"} -> "NONE"
    [] m.op = "jmp" -> "SRC"
    [] m.op \in {"clkset", "cogid", "coginit", "cogstop", "locknew", "lockret", "lockset", "lockclr"} -> "DST"
    [] OTHER -> "BOTH"
Line(m) ==
  LET src == (IF m.imm THEN <<"#">> ELSE <<>>) \o Written(m.src)
      what == CASE kind(m) = "NONE" -> <<>> [] kind(m) = "DST" -> Written(m.dst) [] kind(m) = "SRC" -> src
                [] kind(m) = "BOTH" -> Written(m.dst) \o <<",">> \o src
  IN  m.label \o (IF m.label # <<>> THEN <<" ">> ELSE <<>>)
      \o (IF m.op = "" THEN <<>>
          ELSE (IF m.cond # "" THEN <<m.cond, " ">> ELSE <<>>) \o <<m.op, " ">> \o what \o <<" ">> \o listed_effects(m.effects))
      \o <<"\n">>
Pasm(p) == [driver |-> "pasm", meant |-> p, lines |-> [i \in DOMAIN p |-> Line(p[i])]]
AsmLineText(m) ==
  <<m.name, " ">> \o (IF m.asm # <<>> THEN Front(Line(m.asm[1])) ELSE m.n) \o <<"\n">>
Asm(p) == [driver |-> "ASM", meant |-> p, lines |-> Append([i \in DOMAIN p |-> AsmLineText(p[i])], <<"END", " ", "ASM", "\n">>)]
Refused(driver, lines) == [driver |-> driver, meant |-> <<>>, lines |-> lines]

(* What the names of a program stand for: a label for the number of        *)
(* instructions before its line. Local labels belong to the global label   *)
(* before them.                                                            *)
local(s) == s # <<>> /\ s[1] = ":"
instructions(p, i) == Cardinality({j \in 1..(i - 1) : p[j].op # ""})
scope(p, i) == Max({0} \cup {j \in 1..i : p[j].label # <<>> /\ ~local(p[j].label)})
labels(p, s, i) == {j \in 1..i : p[j].label = s /\ (local(s) => scope(p, j) = scope(p, i))}
register(s) == {k \in DOMAIN InitialGlobals : InitialGlobals[k].name = s}
RECURSIVE Value(_, _, _), Known(_, _, _)
Value(e, p, i) ==
  CASE binding(e) = 8 ->
         IF e.o = "number" THEN e.n
         ELSE IF register(e.s) # {} THEN InitialGlobals[Min(register(e.s))].value
         ELSE instructions(p, Min(labels(p, e.s, i)))
    [] binding(e) = 7 -> (CASE e.o = "+" -> Value(e.x, p, i) [] e.o = "-" -> -Value(e.x, p, i) [] e.o = "~" -> -1 - Value(e.x, p, i))
    [] OTHER -> apply(e.o, Value(e.x, p, i), Value(e.y, p, i))
Known(e, p, i) ==
  CASE binding(e) = 8 -> e.o = "number" \/ register(e.s) # {} \/ labels(p, e.s, i) # {}
    [] binding(e) = 7 -> Known(e.x, p, i)
    [] OTHER -> Known(e.x, p, i) /\ Known(e.y, p, i)

(* A program as the assembler can take it: names are defined before they   *)
(* are used, once, and local ones below a global one.                      *)
BackwardOnly(p) ==
  \A i \in DOMAIN p :
    /\ p[i].op # "" => Known(p[i].dst, p, i) /\ Known(p[i].src, p, i)
    /\ p[i].label # <<>> => labels(p, p[i].label, i) = {i}
    /\ local(p[i].label) => scope(p, i) # 0

(* The conditions by what they say of C and Z; the field has a bit for     *)
(* each of the four cases. *)
on(a, C, Z) == CASE a = "c" -> C = 1 [] a = "nc" -> C = 0 [] a = "z" -> Z = 1 [] a = "nz" -> Z = 0
flags == {<<C, Z>> : C, Z \in 0..1}
Pairs2 == {<<a, b>> : a \in {"c", "nc"}, b \in {"z", "nz"}} \cup {<<b, a>> : a \in {"c", "nc"}, b \in {"z", "nz"}}
Said(cond) ==
  CASE cond = "if_always" -> flags
    [] cond = "if_never" -> {}
    [] cond \in {"if_e", "if_z"} -> {f \in flags : f[2] = 1}
    [] cond \in {"if_ne", "if_nz"} -> {f \in flags : f[2] = 0}
    [] cond \in {"if_b", "if_c"} -> {f \in flags : f[1] = 1}
    [] cond \in {"if_ae", "if_nc"} -> {f \in flags : f[1] = 0}
    [] cond = "if_a" -> {<<0, 0>>}
    [] cond = "if_be" -> flags \ {<<0, 0>>}
    [] cond \in {"if_c_eq_z", "if_z_eq_c"} -> {f \in flags : f[1] = f[2]}
    [] cond \in {"if_c_ne_z", "if_z_ne_c"} -> {f \in flags : f[1] # f[2]}
    [] OTHER -> {f \in flags : \E ab \in Pairs2 :
                   \/ cond = "if_" \o ab[1] \o "_and_" \o ab[2] /\ on(ab[1], f[1], f[2]) /\ on(ab[2], f[1], f[2])
                   \/ cond = "if_" \o ab[1] \o "_or_" \o ab[2] /\ (on(ab[1], f[1], f[2]) \/ on(ab[2], f[1], f[2]))}
Truth(cond) == SumSet({2 ^ (2 * f[1] + f[2]) : f \in Said(cond)})

(* What the assembler writes for the line m of the program p. *)
Holds(w, p, i) ==
  LET m == p[i]
      t == opcodeDefs[<<m.op>>].template
      last(names, otherwise) ==      \* of the effects named the last counts
        LET ks == {k \in DOMAIN m.effects : m.effects[k] \in names} IN IF ks = {} THEN otherwise ELSE m.effects[Max(ks)]
      flag(name) == IF name \in {m.effects[k] : k \in DOMAIN m.effects} THEN 1 ELSE 0
  IN  /\ w[1] \div 4 = t.op
      /\ (w[1] \div 2) % 2 = flag("wz") /\ w[1] % 2 = flag("wc")
      /\ w[2] \div 128 = (IF last({"wr", "nr"}, "") = "" THEN t.r ELSE IF last({"wr", "nr"}, "") = "wr" THEN 1 ELSE 0)
      /\ (w[2] \div 64) % 2 = (IF kind(m) \in {"BOTH", "SRC"} /\ m.imm THEN 1 ELSE t.i)
      /\ (w[2] \div 4) % 16 = (IF m.cond = "" THEN t.cond ELSE Truth(m.cond))
      /\ (w[2] % 4) * 128 + w[3] \div 2 = (IF kind(m) \in {"BOTH", "DST"} THEN Value(m.dst, p, i) % 512 ELSE t.dst)
      /\ (w[3] % 2) * 256 + w[4] = (IF kind(m) \in {"BOTH", "SRC"} THEN Value(m.src, p, i) % 512 ELSE t.src)

(***************************************************************************)
(* Every word pasm prints is the instruction that was written: opcode,     *)
(* condition, flags, and operands computed with the precedence of the      *)
(* operators and the addresses of the labels, a local label being that of  *)
(* its scope. Nothing else is refused than what is no instruction.         *)
(***************************************************************************)
WordsAsWritten ==
  LET p == source.meant
      instr == SelectSeq([i \in DOMAIN p |-> i], LAMBDA i : p[i].op # "")
  IN  (source.driver = "pasm" /\ phase # "assemble") =>
        /\ (phase = "error") = (p = <<>>)
        /\ (p # <<>> /\ BackwardOnly(p)) =>
              /\ Len(out) = 4 * Len(instr)
              /\ \A k \in DOMAIN instr : Holds(SubSeq(out, 4 * k - 3, 4 * k), p, instr[k])

(***************************************************************************)
(* The disassembler lists for the code of an ASM block the instructions    *)
(* that were written, with their operands cut to their size.               *)
(***************************************************************************)
signed_byte(n) == IF n % 256 > 127 THEN (n % 256) - 256 ELSE n % 256
Constant(m) == FoldLeft(LAMBDA v, ch : v * 10 + B!Digits[ch], 0, SelectSeq(m.n, LAMBDA ch : ch # "-"))
               * (IF m.n # <<>> /\ m.n[1] = "-" THEN -1 ELSE 1)
ListedAs(d, m) ==
  /\ d.name = IF m.name = "RETURNX" THEN "RETURN" ELSE m.name
  /\ IF m.asm # <<>> THEN Holds(d.operand, m.asm, 1)
     ELSE CASE fmt(d.name) = "NONE" -> d.operand = <<>>
            [] fmt(d.name) = "BYTE" -> d.operand = <<Constant(m) % 256>>
            [] fmt(d.name) = "SBYTE" -> d.operand = <<signed_byte(Constant(m))>>
            [] OTHER -> /\ \A i \in 2..4 : d.operand[i] = (Constant(m) \div 256 ^ (4 - i)) % 256
                        /\ d.operand[1] = IF Constant(m) < 0 THEN 255 ELSE 0
DisassemblesAsWritten ==
  LET p == source.meant IN
  (source.driver = "ASM" /\ phase # "assemble") =>
     /\ (phase = "error") = (p = <<>>)
     /\ p # <<>> => /\ Len(DecodeFunction(out)) = Len(p)
                    /\ \A k \in DOMAIN p : ListedAs(DecodeFunction(out)[k], p[k])
==============================================================================
