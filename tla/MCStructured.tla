---------------------------- MODULE MCStructured ----------------------------
(* Bodies of functions, built from small statements.                       *)
EXTENDS StructuredProgram

L == {"a", "b"}
V == <<"i">>

ln(x) == <<[k |-> x]>>
for(from, to, step) == <<[k |-> "for", var |-> "i", from |-> from, to |-> to, step |-> step]>>
one(v) == [from |-> v, to |-> v, range |-> FALSE]
range(v, w) == [from |-> v, to |-> w, range |-> TRUE]
case(es) == <<[k |-> "case", entries |-> es]>>
label == <<[k |-> "label", name |-> "a"]>>
goto == <<[k |-> "goto", name |-> "a"]>>

(* Blocks around the lists of statements in B and C.                       *)
Ifs(B, C) ==
  {ln("if") \o b \o ln("endif") : b \in B}
  \cup {ln("if") \o b \o ln("else") \o c \o ln("endif") : b \in B, c \in C}
  \cup {ln("if") \o b \o ln("elseif") \o c \o ln("else") \o ln("mark") \o ln("endif") : b \in B, c \in C}
Loops(B) ==
  {ln(w[1]) \o b \o ln(w[2]) :
     b \in B, w \in {<<"do", "loop">>, <<"dowhile", "loop">>, <<"dountil", "loop">>,
                     <<"do", "loopwhile">>, <<"do", "loopuntil">>}}
Fors(B) == {for(f[1], f[2], f[3]) \o b \o ln("next") : b \in B, f \in {<<1, 2, 1>>, <<0, 3, 2>>, <<2, 1, 1>>}}
EntryLists == {<<one(1)>>, <<range(1, 1)>>, <<one(2), one(1)>>, <<range(2, 1), one(0)>>,
               <<range(1, 1), range(2, 2)>>, <<one(0), range(1, 2)>>}
Selects(B, C) ==
  {ln("select") \o ln("endselect")}
  \cup {ln("select") \o case(e) \o b \o ln("endselect") : b \in B, e \in EntryLists}
  \cup {ln("select") \o case(e) \o b \o case(<<one(0)>>) \o c \o ln("endselect") :
          b \in B, c \in C, e \in EntryLists}
  \cup {ln("select") \o ln("caseelse") \o c \o case(e) \o b \o ln("endselect") :
          b \in B, c \in C, e \in EntryLists}
Blocks(B, C) == Ifs(B, C) \cup Loops(B) \cup Fors(B) \cup Selects(B, C)

Mark == {ln("mark")}
Shallow == Blocks(Mark, Mark)
Flat == Blocks({<<>>} \cup Mark, Mark)
Deep == Blocks({b \o ln("mark") : b \in Shallow}, {<<>>})
Exits == Blocks({ln("return"), ln("call"), ln("mark") \o goto}, {goto \o ln("mark")})

Nested ==
  {b \o ln("mark") : b \in Flat \cup Deep}
  \cup {label \o ln("mark") \o b \o ln("mark") : b \in Exits}
  \cup {b \o ln("mark") \o label \o ln("mark") : b \in Exits}
  \cup {ln("mark") \o b \o ln("end") \o label : b \in Exits}

(* Any lines at all, most of them badly nested. *)
Lines == {ln(x) : x \in {"if", "elseif", "else", "endif", "select", "caseelse", "endselect", "next",
                         "do", "dowhile", "loop", "loopwhile"}}
         \cup {for(1, 1, 1), case(<<one(1)>>)}
Loose(n, lines) == UNION {{FoldLeft(LAMBDA s, x : s \o x, <<>>, c) : c \in [1 .. i -> lines]} : i \in 0 .. n}
Openers == {ln("if"), ln("select"), ln("do"), for(1, 1, 1)}

(* Nothing stands between SELECT and its first CASE. *)
CaseFirst(b) ==
  \A i \in 2 .. Len(b) : b[i - 1].k = "select" => b[i].k \in {"case", "caseelse", "endselect"}

Nest(n) == [i \in 1 .. 2 * n |-> [k |-> IF i <= n THEN "if" ELSE "endif"]]

(* Jumps between two labels, each of them defined once, behind each other  *)
(* and in any order; and jumps of which one has no label and another two.   *)
Jumps(n) ==
  UNION {[1 .. i -> {[k |-> "mark"]} \cup {[k |-> x, name |-> l] : x \in {"goto", "label"}, l \in L}] : i \in 1 .. n}
defined(b, l) == {i \in DOMAIN b : b[i].k = "label" /\ b[i].name = l}
Linked ==
  {b \in Jumps(6) : /\ \A i \in DOMAIN b : b[i].k = "goto" => Cardinality(defined(b, b[i].name)) = 1
                    /\ \A i \in 1 .. Len(b) - 1 : b[i].k = "mark" => b[i + 1].k # "mark"
                    /\ b[1].k = "mark" /\ \A l \in L : Cardinality(defined(b, l)) <= 1}
MCJumps ==
  {<<"def", b>> : b \in {c \in Jumps(4) : /\ \E i \in DOMAIN c : c[i].k = "goto" /\ defined(c, c[i].name) = {}
                                         /\ \E l \in L : Cardinality(defined(c, l)) > 1}}

Compiled ==
  Nested \cup Linked
  \cup {b \in Loose(3, Lines) : CaseFirst(b)}
  \cup {b \in {o \o c : o \in Openers, c \in Loose(3, Lines \ Openers)} : CaseFirst(b)}
  \cup {Nest(MaxBlocks - 1), Nest(MaxBlocks)}
InFunction == {"return", "call"}
MCBodies ==
  ({"def"} \X Compiled)
  \cup {<<"main", b>> : b \in {c \in Nested : \A i \in DOMAIN c : c[i].k \notin InFunction}}
=============================================================================
