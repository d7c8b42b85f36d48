----------------------------- MODULE MCAssembler -----------------------------
(* Programs for the assembler: every opcode, condition and effect; trees   *)
(* of operators; labels and references to them; ASM blocks; and some that  *)
(* are no programs. *)
EXTENDS AssemblyText

Names == {"x", "y", "t2", "cnt", "vscl"}
MCAsmChars == Names \cup {"0", "1", "2", "a", "b", ":", "_"}
              \cup {w[1] : w \in DOMAIN opcodeDefs \cup DOMAIN fieldDefs}
MCBasicChars == {OpcodeTable[k] : k \in DOMAIN OpcodeTable} \cup {"RETURNX", "END", "ASM", "0", "1", "2", "x"}

one == number(1, <<"1">>)
two == number(2, <<"2">>)
Leaves == {two, number(12, <<"1", "_", "2">>), number(27, <<"0", "x", "1", "b">>), named(<<"cnt">>)}
sum == {binary(o, x, y) : o \in {"|", "&", "T_SHL", "T_SHR", "+", "-", "*", "/", "%"}, x, y \in {two, number(12, <<"1", "2">>)}}
Trees == sum \cup {unary(o, x) : o \in {"+", "-", "~"}, x \in Leaves}
         \cup {binary(o, x, y) : o \in {"|", "&", "T_SHR", "-", "*", "/"}, x \in sum, y \in {two}}
         \cup {binary(o, x, y) : o \in {"|", "&", "-", "*"}, x \in {two}, y \in sum}
         \cup {binary("-", x, unary("-", y)) : x, y \in Leaves}

plain == [label |-> <<>>, cond |-> "", op |-> "mov", dst |-> named(<<"t2">>), imm |-> FALSE, src |-> one, effects |-> <<>>]
Ops == {w[1] : w \in DOMAIN opcodeDefs} \ {"call"}
Conds == {w[1] : w \in {v \in DOMAIN fieldDefs : fieldDefs[v].field = "cond"}} \ {"if_nc_or_nz"}
Instructions ==
  {[plain EXCEPT !.op = o, !.imm = i, !.cond = k, !.effects = e] :
     o \in Ops, i \in BOOLEAN, k \in {"", "if_z"}, e \in {<<>>, <<"wz">>, <<"wc", "nr">>, <<"wz", "wr", "wc">>}}
  \cup {[plain EXCEPT !.cond = k] : k \in Conds}
Expressions == {[plain EXCEPT !.src = e] : e \in Trees \cup Leaves} \cup {[plain EXCEPT !.dst = e] : e \in sum}

(* One to three lines with labels, the last of them an instruction. *)
label(s) == [plain EXCEPT !.label = s, !.op = ""]
to(s, at) == [plain EXCEPT !.label = at, !.op = "jmp", !.imm = TRUE, !.src = named(s)]
labelled == {label(<<"x">>), label(<<":", "x">>), label(<<"y">>), plain, to(<<"x">>, <<>>), to(<<":", "x">>, <<>>),
             to(<<":", "x">>, <<":", "x">>), to(<<":", "y">>, <<"y">>), to(<<"x">>, <<"y">>)}
Loops == UNION {[1..n -> labelled] : n \in 2..4} \cup
         {<<label(<<"x">>), plain, to(<<":", "x">>, <<":", "x">>), label(<<"y">>), plain, to(<<":", "x">>, <<":", "x">>), to(<<"x">>, <<>>)>>}

no_constant(name) == [name |-> name, n |-> <<>>, asm |-> <<>>]
with(name, n) == [name |-> name, n |-> n, asm |-> <<>>]
native(m) == [name |-> "NATIVE", n |-> <<>>, asm |-> <<m>>]
Constants == {<<"2">>, <<"1", "2", "2">>, <<"1", "2", "1", "0", "1">>, <<"-", "2">>, <<"-", "1", "2", "2">>}
Plain == {no_constant(OpcodeTable[k]) : k \in {k \in DOMAIN OpcodeTable : fmt(OpcodeTable[k]) = "NONE"}}
         \ {no_constant(w) : w \in {"NOT", "REM", "RETURN"}}
Block == Plain \cup {no_constant("RETURNX")} \cup {with(w, n) : w \in {"LIT", "SLIT", "LREF", "FRAME", "TRAP"}, n \in Constants}
         \cup {with("NATIVE", <<"1", "2">>)} \cup {native(m) : m \in Expressions}
Blocks == {<<m>> : m \in Block} \cup {<<m, n>> : m \in Block \cap (Plain \cup {with("LIT", <<"-", "2">>), with("LREF", <<"2">>), native(plain)}),
                                            n \in {no_constant("DUP"), with("LIT", <<"2">>), native(plain)}}
NoPrograms ==
  {Refused("pasm", <<t>>) : t \in {<<"x", " ", "x", "\n">>, <<"wz", " ", "mov", " ", "1", ",", "1", "\n">>, <<"mov", " ", "1", "\n">>,
                                  <<"mov", " ", "1", ",", "*", "\n">>, <<"nop", " ", "if_z", "\n">>, <<"mov", " ", "1", ",", "(", "1", "\n">>,
                                  <<"nop", " ", "wz", " ", "wc", "\n">>, <<"1", "\n">>, <<"call", " ", "#", "1", "\n">>}}
  \cup {Refused("ASM", t) : t \in {<<<<"DUP", "\n">>>>, <<<<"BR", " ", "1", "\n">>, <<"END", " ", "ASM", "\n">>>>, <<<<"NOT", "\n">>>>,
                                   <<<<"END", " ", "ASM", " ", "x", "\n">>>>, <<<<"x", "\n">>>>, <<<<"DUP", " ", "1", "\n">>>>,
                                   <<<<"LIT", " ", "x", "\n">>>>, <<<<"NATIVE", " ", "mov", "\n">>>>, <<<<"\n">>, <<"1", "\n">>>>}}

MCSources == {Pasm(<<m>>) : m \in Instructions \cup Expressions} \cup {Pasm(p) : p \in Loops}
             \cup {Asm(p) : p \in Blocks} \cup NoPrograms
==============================================================================
