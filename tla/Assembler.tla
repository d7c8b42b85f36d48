------------------------------ MODULE Assembler ------------------------------
(***************************************************************************)
(* The assembler of cog instructions, with its two drivers: pasm, which    *)
(* reads a file twice and prints a word for every instruction, and the     *)
(* ASM block of the compiler, whose lines are instructions of the virtual  *)
(* machine; a NATIVE one has the assembler read the rest of its line.      *)
(***************************************************************************)
EXTENDS Integers, SequencesExt, Bitwise

CONSTANTS
  Sources,          \* of [driver |-> "pasm" or "ASM", lines |-> sequence of sequences of characters]
  AsmChars,         \* the characters of a word of the assembler
  BasicChars,       \* and of the compiler
  MaxToken

VARIABLES
  source,
  next,      \* the line to be read
  pass,      \* 1 or 2; an ASM block is looked at when the compiler generates code
  c,         \* the context of the assembler
  out,       \* the bytes written
  phase      \* "assemble", "done" or "error"

vars == <<source, next, pass, c, out, phase>>

asmktab == [w \in {} |-> ""]
BasicWords == [w \in {<<k>> : k \in {"END", "ASM", "NOT", "REM", "RETURN"}} |->
                 CASE w = <<"END">> -> "T_END" [] w = <<"ASM">> -> "T_ASM" [] w = <<"NOT">> -> "T_NOT"
                   [] w = <<"REM">> -> "T_REM" [] w = <<"RETURN">> -> "T_RETURN"]
A == INSTANCE Lexer WITH Keywords <- asmktab, Pairs <- asmktab, IdentifierChars <- AsmChars
B == INSTANCE Lexer WITH Keywords <- BasicWords, Pairs <- [T_END |-> [T_ASM |-> "T_END_ASM"]], IdentifierChars <- BasicChars

-----------------------------------------------------------------------------
(* The tables: opcodes by number, without and with a result. *)
Numbered ==
  <<<<"wrbyte", "rdbyte">>, <<"wrword", "rdword">>, <<"wrlong", "rdlong">>, <<"hubop", "">>,
    <<"", "mul">>, <<"", "muls">>, <<"", "enc">>, <<"", "ones">>, <<"", "ror">>, <<"", "rol">>, <<"", "shr">>,
    <<"", "shl">>, <<"", "rcr">>, <<"", "rcl">>, <<"", "sar">>, <<"", "rev">>, <<"", "mins">>, <<"", "maxs">>,
    <<"", "min">>, <<"", "max">>, <<"", "movs">>, <<"", "movd">>, <<"", "movi">>, <<"jmp", "jmpret">>,
    <<"test", "and">>, <<"testn", "andn">>, <<"", "or">>, <<"", "xor">>, <<"", "muxc">>, <<"", "muxnc">>,
    <<"", "muxz">>, <<"", "muxnz">>, <<"", "add">>, <<"cmp", "sub">>, <<"", "addabs">>, <<"", "subabs">>,
    <<"", "sumc">>, <<"", "sumnc">>, <<"", "sumz">>, <<"", "sumnz">>, <<"", "mov">>, <<"", "neg">>, <<"", "abs">>,
    <<"", "absneg">>, <<"", "negc">>, <<"", "negnc">>, <<"", "negz">>, <<"", "negnz">>, <<"cmps", "">>,
    <<"cmpsx", "">>, <<"", "addx">>, <<"", "subx">>, <<"", "adds">>, <<"", "subs">>, <<"", "addsx">>, <<"", "subsx">>,
    <<"", "cmpsub">>, <<"", "djnz">>, <<"tjnz", "">>, <<"tjz", "">>, <<"waitpeq", "">>, <<"waitpne", "">>,
    <<"waitcnt", "">>, <<"waitvid", "">>>>
HubOps == <<<<"clkset", 0>>, <<"cogid", 1>>, <<"coginit", 0>>, <<"cogstop", 0>>, <<"locknew", 1>>, <<"lockret", 0>>,
            <<"lockset", 0>>, <<"lockclr", 0>>>>      \* each with its result bit
template(o, r, i, cond, src) == [op |-> o, z |-> 0, c |-> 0, r |-> r, i |-> i, cond |-> cond, dst |-> 0, src |-> src]
opdef(operands, inst) == [operands |-> operands, template |-> inst]
opcodeDefs ==
  [w \in {<<Numbered[n][r + 1]>> : n \in DOMAIN Numbered, r \in 0..1} \ {<<"">>} |->
     LET n == CHOOSE n \in DOMAIN Numbered : \E r \in 0..1 : Numbered[n][r + 1] = w[1]
         r == CHOOSE r \in 0..1 : Numbered[n][r + 1] = w[1]
     IN  opdef(IF w = <<"jmp">> THEN "SRC" ELSE "BOTH", template(n - 1, r, 0, 15, 0))]
  @@ [w \in {<<HubOps[n][1]>> : n \in DOMAIN HubOps} |->
        LET n == CHOOSE n \in DOMAIN HubOps : HubOps[n][1] = w[1] IN
        opdef("DST", template(3, HubOps[n][2], 1, 15, n - 1))]
  @@ (<<"nop">> :> opdef("NONE", template(0, 0, 0, 0, 0)))
  @@ (<<"call">> :> opdef("CALL", template(23, 1, 0, 15, 0)))
  @@ (<<"ret">> :> opdef("NONE", template(23, 0, 1, 15, 0)))
(* The conditions by value, then the effects: [field, value]. *)
Conditions ==
  <<{"if_never"}, {"if_a", "if_nc_and_nz", "if_nz_and_nc", "if_nc_or_nz"}, {"if_nc_and_z", "if_z_and_nc"},
    {"if_ae", "if_nc"}, {"if_c_and_nz", "if_nz_and_c"}, {"if_ne", "if_nz"}, {"if_c_ne_z", "if_z_ne_c"},
    {"if_nz_or_nc"}, {"if_c_and_z", "if_z_and_c"}, {"if_c_eq_z", "if_z_eq_c"}, {"if_e", "if_z"},
    {"if_nc_or_z", "if_z_or_nc"}, {"if_b", "if_c"}, {"if_c_or_nz", "if_nz_or_c"},
    {"if_be", "if_c_or_z", "if_z_or_c"}, {"if_always"}>>
fieldDefs ==
  [w \in {<<k>> : k \in UNION {Conditions[n] : n \in DOMAIN Conditions}} |->
     [field |-> "cond", value |-> (CHOOSE n \in DOMAIN Conditions : w[1] \in Conditions[n]) - 1]]
  @@ (<<"wz">> :> [field |-> "z", value |-> 1]) @@ (<<"wc">> :> [field |-> "c", value |-> 1])
  @@ (<<"wr">> :> [field |-> "r", value |-> 1]) @@ (<<"nr">> :> [field |-> "r", value |-> 0])

-----------------------------------------------------------------------------
(* The context: the lexer, whether its token is saved, the symbols, the    *)
(* location counter, the value of an expression, the instruction so far.   *)
symbol(name, value) == [name |-> name, value |-> value]
InitialGlobals ==
  <<symbol(<<"t1">>, 1), symbol(<<"t2">>, 2), symbol(<<"t3">>, 3), symbol(<<"t4">>, 4), symbol(<<"tos">>, 5), symbol(<<"base">>, 6)>>
  \o [n \in 1..16 |-> symbol(<<<<"par", "cnt", "ina", "inb", "outa", "outb", "dira", "dirb", "ctra", "ctrb",
                                 "frqa", "frqb", "phsa", "phsb", "vcfg", "vscl">>[n]>>, 495 + n)]
context == [l |-> A!Lexer(<<>>, FALSE), saved |-> FALSE, globals |-> InitialGlobals, locals |-> <<>>,
            lc |-> 0, value |-> 0, inst |-> template(0, 0, 0, 0, 0), words |-> <<>>]
failed(d) == d.l.t = "error"
fail(d) == [d EXCEPT !.l.t = "error"]
GetToken(d) ==
  IF failed(d) THEN d ELSE IF d.saved THEN [d EXCEPT !.saved = FALSE] ELSE [d EXCEPT !.l = A!NextToken(@)]
SaveToken(d) == [d EXCEPT !.saved = TRUE]
one_of(n, ts) == IF n.l.t \in ts THEN n ELSE fail(n)
FRequire(d, t) == one_of(GetToken(d), {t})
GetIdentifier(d) == one_of(GetToken(d), {"T_EOL", "T_IDENTIFIER"})

AddSymbol_kept(d, name, value) ==      \* (a variant) local names live on
  IF name[1] = ":" THEN [d EXCEPT !.locals = Append(@, symbol(name, value))]
  ELSE [d EXCEPT !.globals = Append(@, symbol(name, value))]
AddSymbol(d, name, value) ==
  IF name[1] = ":" THEN [d EXCEPT !.locals = Append(@, symbol(name, value))]
  ELSE [d EXCEPT !.locals = <<>>, !.globals = Append(@, symbol(name, value))]
FindSymbol(d, name) == SelectSeq(d.locals \o d.globals, LAMBDA s : s.name = name)

(* Values are exact as long as they fit into 16 bits. *)
Operators == <<{"^"}, {"|"}, {"&"}, {"T_SHL", "T_SHR"}, {"+", "-"}, {"*", "/", "%"}>>
magnitude(v) == IF v < 0 THEN -v ELSE v
divide(v, w) == IF (v < 0) = (w < 0) THEN magnitude(v) \div magnitude(w) ELSE -(magnitude(v) \div magnitude(w))
signed16(v) == IF v >= 32768 THEN v - 65536 ELSE v
apply(t, v, w) ==
  CASE t = "^" -> w
    [] t = "|" -> signed16((v % 65536) | (w % 65536))
    [] t = "&" -> signed16((v % 65536) & (w % 65536))
    [] t = "T_SHL" -> v * 2 ^ w
    [] t = "T_SHR" -> v \div 2 ^ w
    [] t = "+" -> v + w
    [] t = "-" -> v - w
    [] t = "*" -> v * w
    [] t = "/" -> divide(v, w)
    [] t = "%" -> v - w * divide(v, w)
applied(o, d, e) == IF failed(e) THEN e ELSE [e EXCEPT !.value = apply(o, d.value, @)]
signed(o, d) ==
  CASE o = "-" -> [d EXCEPT !.value = -@] [] o = "~" -> [d EXCEPT !.value = -1 - @] [] OTHER -> d
known(t, found) ==
  IF found = <<>> THEN [AddSymbol(t, t.l.s, 0) EXCEPT !.value = 0] ELSE [t EXCEPT !.value = found[1].value]

(* Where an operator takes one argument more than its name says, t has     *)
(* read the token behind d. *)
RECURSIVE ParseExpr(_, _), operators_behind(_, _), more(_, _, _), unary_of(_), primary_of(_)
more(d, t, level) ==
  IF t.l.t \in Operators[level] THEN operators_behind(applied(t.l.t, d, ParseExpr(t, level + 1)), level) ELSE SaveToken(t)
operators_behind(d, level) == more(d, GetToken(d), level)
primary_of(t) ==
  CASE t.l.t = "("        -> FRequire(ParseExpr(t, 1), ")")
    [] t.l.t = "T_NUMBER" -> [t EXCEPT !.value = t.l.n]
    [] t.l.t = "T_IDENTIFIER" -> known(t, FindSymbol(t, t.l.s))
    [] OTHER              -> fail(t)
ParsePrimary(d) == primary_of(GetToken(d))
unary_of(t) == signed(t.l.t, ParsePrimary(IF t.l.t \in {"+", "-", "~"} THEN t ELSE SaveToken(t)))
ParseExpr7(d) == unary_of(GetToken(d))
ParseExpr(d, level) == IF level > Len(Operators) THEN ParseExpr7(d) ELSE operators_behind(ParseExpr(d, level + 1), level)

-----------------------------------------------------------------------------
(* A line: label, condition, opcode, operands, effects. *)
set(d, field, value) == IF failed(d) THEN d ELSE [d EXCEPT !.inst[field] = value]
set_to(d, field) == set(d, field, d.value % 512)
destination(d) == set_to(ParseExpr(d, 1), "dst")
immediate(t) == IF t.l.t = "#" THEN set(t, "i", 1) ELSE SaveToken(t)
source_operand(d) == set_to(ParseExpr(immediate(GetToken(d)), 1), "src")
operands(d, kind) ==
  CASE kind = "NONE" -> d
    [] kind \in {"BOTH", "SRC"} -> source_operand(IF kind = "SRC" THEN d ELSE FRequire(destination(d), ","))
    [] kind = "DST"  -> destination(d)
    [] kind = "CALL" -> FRequire(FRequire(d, "#"), "T_IDENTIFIER")
effect(t) == set(t, fieldDefs[t.l.s].field, fieldDefs[t.l.s].value)
RECURSIVE effects(_), effects_of(_), effects_behind(_)
effects_behind(t) == CASE t.l.t = "," -> effects(t) [] t.l.t = "T_EOL" -> t [] OTHER -> fail(t)
effects_of(t) ==
  IF t.l.t # "T_IDENTIFIER" THEN t
  ELSE IF t.l.s \notin DOMAIN fieldDefs \/ fieldDefs[t.l.s].field = "cond" THEN fail(t)
  ELSE effects_behind(GetToken(effect(t)))
effects(d) == effects_of(GetIdentifier(d))

(* The bytes of an instruction, the highest first. *)
bytes(inst) ==
  <<inst.op * 4 + inst.z * 2 + inst.c, inst.r * 128 + inst.i * 64 + inst.cond * 4 + inst.dst \div 128,
    (inst.dst % 128) * 2 + inst.src \div 256, inst.src % 256>>
emitted(d, p) ==
  IF failed(d) THEN d ELSE [d EXCEPT !.lc = @ + 1, !.words = IF p = 2 THEN @ \o bytes(d.inst) ELSE @]
instruction(d, p, cond) ==      \* d has just read the opcode
  LET def == opcodeDefs[d.l.s]
      start == IF cond = <<>> THEN def.template ELSE [def.template EXCEPT !.cond = fieldDefs[cond].value]
  IN  emitted(effects(operands([d EXCEPT !.inst = start], def.operands)), p)
opcode(d) == d.l.t = "T_IDENTIFIER" /\ d.l.s \in DOMAIN opcodeDefs
is_condition(d) == d.l.s \in DOMAIN fieldDefs /\ fieldDefs[d.l.s].field = "cond"
is_label(d) == d.l.t = "T_IDENTIFIER" /\ ~opcode(d) /\ d.l.s \notin DOMAIN fieldDefs
statement(d, t, p) ==      \* t is d, or has read the opcode behind a condition
  IF opcode(t) /\ (opcode(d) \/ is_condition(d)) THEN instruction(t, p, IF opcode(d) THEN <<>> ELSE d.l.s) ELSE fail(t)
unlabelled(d, p) ==
  IF failed(d) \/ d.l.t = "T_EOL" THEN d ELSE statement(d, IF opcode(d) THEN d ELSE GetIdentifier(d), p)
after_label(d) == IF is_label(d) THEN GetIdentifier(AddSymbol(d, d.l.s, d.lc)) ELSE d
ParseLine(d, line, p) ==
  unlabelled(after_label(GetIdentifier([d EXCEPT !.l = A!Lexer(line, d.l.inComment), !.saved = FALSE])), p)

-----------------------------------------------------------------------------
(* The ASM block: the opcodes of the virtual machine by number. *)
OpcodeTable ==
  <<"HALT", "BRT", "BRTSC", "BRF", "BRFSC", "BR", "NOT", "NEG", "ADD", "SUB", "MUL", "DIV", "REM", "BNOT", "BAND", "BOR",
    "BXOR", "SHL", "SHR", "LT", "LE", "EQ", "NE", "GE", "GT", "LIT", "SLIT", "LOAD", "LOADB", "STORE", "STOREB", "LREF",
    "LSET", "INDEX", "PUSHJ", "POPJ", "CLEAN", "FRAME", "RETURN", "RETURNZ", "DROP", "DUP", "NATIVE", "TRAP">>
fmt(name) ==
  CASE name \in {"BRT", "BRTSC", "BRF", "BRFSC", "BR"} -> "BR"
    [] name = "LIT" -> "WORD"
    [] name = "NATIVE" -> "NATIVE"
    [] name \in {"FRAME", "CLEAN", "TRAP"} -> "BYTE"
    [] name \in {"SLIT", "LREF", "LSET"} -> "SBYTE"
    [] OTHER -> "NONE"
Opcode(name) == {n \in DOMAIN OpcodeTable : OpcodeTable[n] = name \/ (name = "RETURNX" /\ OpcodeTable[n] = "RETURN")}

putcword_low(n) == [i \in 1..4 |-> (n \div 256 ^ (i - 1)) % 256]      \* (a variant) the lowest byte first
putcword(n) == <<(n \div 16777216) % 256, (n \div 65536) % 256, (n \div 256) % 256, n % 256>>

PasmAssemble1(line) ==
  FoldLeft(LAMBDA d, p : IF failed(d) THEN d ELSE ParseLine([d EXCEPT !.lc = 0], line, p), context, <<1, 2>>)
(* A constant: here a number with or without a sign. *)
negative(u) == IF u.t = "T_NUMBER" THEN [u EXCEPT !.n = -@] ELSE B!ParseError(u)
constant_of(t) ==
  CASE t.t = "T_NUMBER" -> t [] t.t = "-" -> negative(B!NextToken(t)) [] OTHER -> B!ParseError(t)
ParseIntegerConstant(l) == constant_of(B!NextToken(l))
Undefined == <<-1, -1, -1, -1>>      \* the word of a line without an instruction is not initialized
result(ok, code, l) == [ok |-> ok, code |-> code, l |-> l]
ended(r, t) == IF r.ok /\ t.t = "T_EOL" THEN [r EXCEPT !.l = t] ELSE result(FALSE, <<>>, r.l)
assembled(r) == ended(r, B!NextToken(r.l))      \* the line must have come to its end
constant_code(f, opc, l) ==
  result(l.t # "error", <<opc>> \o IF f \in {"BYTE", "SBYTE"} THEN <<l.n % 256>> ELSE putcword(l.n), l)
native_code(opc, d, l) ==
  result(~failed(d), <<opc>> \o IF d.words = <<>> THEN Undefined ELSE d.words, [l EXCEPT !.at = Len(l.buf) + 1])
Assemble(l) ==      \* l has just read the name
  LET f == fmt(l.s[1])
      n == Opcode(l.s[1])
      opc == (CHOOSE k \in n : TRUE) - 1
      here == SelectInSubSeq(l.buf, l.at, Len(l.buf), LAMBDA ch : ch \notin {" ", "\n"})
  IN  IF Len(l.s) # 1 \/ n = {} \/ f = "BR" THEN result(FALSE, <<>>, l)
      ELSE assembled(IF f = "NONE" THEN result(TRUE, <<opc>>, l)
                     ELSE IF f = "NATIVE" /\ ~(here # 0 /\ l.buf[here] \in B!digits(10))
                     THEN native_code(opc, PasmAssemble1(SubSeq(l.buf, l.at, Len(l.buf))), l)
                     ELSE constant_code(f, opc, ParseIntegerConstant(l)))

(* What the disassembler lists: name and operand. *)
RECURSIVE DecodeFunction(_)
DecodeFunction(code) ==
  LET name == OpcodeTable[code[1] + 1]
      listed(operand, n) == <<[name |-> name, operand |-> operand]>> \o DecodeFunction(SubSeq(code, n + 1, Len(code)))
  IN  IF code = <<>> THEN <<>>
      ELSE CASE fmt(name) = "NONE" -> listed(<<>>, 1)
             [] fmt(name) = "BYTE" -> listed(<<code[2]>>, 2)
             [] fmt(name) = "SBYTE" -> listed(<<IF code[2] > 127 THEN code[2] - 256 ELSE code[2]>>, 2)
             [] fmt(name) \in {"WORD", "NATIVE", "BR"} -> listed(SubSeq(code, 2, 5), 5)

-----------------------------------------------------------------------------
Init ==
  /\ source \in Sources
  /\ next = 1 /\ pass = 1 /\ c = context /\ out = <<>> /\ phase = "assemble"

line == source.lines[next]
PasmLine ==
  /\ source.driver = "pasm" /\ phase = "assemble" /\ next <= Len(source.lines)
  /\ \E n \in {ParseLine(c, line, pass)} :
       /\ c' = [n EXCEPT !.words = <<>>] /\ out' = out \o n.words
       /\ phase' = IF failed(n) THEN "error" ELSE phase
  /\ next' = next + 1
  /\ UNCHANGED <<source, pass>>
EndOfPass ==
  /\ source.driver = "pasm" /\ phase = "assemble" /\ next > Len(source.lines)
  /\ IF pass = 1 THEN pass' = 2 /\ next' = 1 /\ c' = [c EXCEPT !.lc = 0] /\ UNCHANGED phase
     ELSE phase' = "done" /\ UNCHANGED <<pass, next, c>>
  /\ UNCHANGED <<source, out>>
AsmLine ==      \* an iteration of the loop of ParseAsm
  LET to(l, code, what) ==
        c' = [c EXCEPT !.l.inComment = l.inComment] /\ out' = out \o code /\ phase' = what /\ next' = next + 1
  IN  /\ source.driver = "ASM" /\ phase = "assemble" /\ next <= Len(source.lines)
      /\ \E t \in {B!NextToken(B!Lexer(line, c.l.inComment))} :
           \/ t.t = "T_END_ASM" /\ to(t, <<>>, IF B!NextToken(t).t = "T_EOL" THEN "done" ELSE "error")
           \/ t.t = "T_EOL" /\ to(t, <<>>, phase)
           \/ t.t \notin {"T_END_ASM", "T_EOL", "T_IDENTIFIER"} /\ to(t, <<>>, "error")
           \/ t.t = "T_IDENTIFIER" /\ \E n \in {Assemble(t)} : to(n.l, n.code, IF n.ok THEN phase ELSE "error")
      /\ UNCHANGED <<source, pass>>
EndOfFile ==
  /\ source.driver = "ASM" /\ phase = "assemble" /\ next > Len(source.lines)
  /\ phase' = "error" /\ UNCHANGED <<source, next, pass, c, out>>

Next == PasmLine \/ EndOfPass \/ AsmLine \/ EndOfFile
Spec == Init /\ [][Next]_vars
==============================================================================
