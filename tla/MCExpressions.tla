---------------------------- MODULE MCExpressions ----------------------------
(* Programs made of small declarations, statements and expressions.        *)
EXTENDS ExpressionProgram

Sections == [data |-> 0, text |-> -32]
Strings == [s |-> <<1, 2>>, none |-> <<>>]

decl(x, array, size, type, section, style, init) ==
  [x |-> x, array |-> array, size |-> size, type |-> type, section |-> section,
   style |-> style, init |-> init, s |-> IF init = <<>> THEN "none" ELSE "s"]
var(x, n) == decl(x, FALSE, 0, "integer", "data", "scalar", <<n>>)
Standard ==
  <<<<var("x", 3), var("w", 30)>>,
    <<decl("a", TRUE, 2, "integer", "data", "list", <<2, 1>>)>>,
    <<decl("b", TRUE, 3, "byte", "data", "list", <<15, 2>>)>>>>

n(k) == <<number(k)>>
i(s) == <<id(s)>>
t(s) == <<T(s)>>
str == <<quoted("s")>>
in(e) == t("(") \o e \o t(")")
at_index(x, e) == i(x) \o in(e)
invoke(f, es) == i(f) \o in(Join(es, t(",")))
let_(p, e) == p \o t("=") \o e

(* Functions. *)
Difference ==      \* x counts the calls
  <<t("DEF") \o invoke("f", <<i("p"), i("q")>>),
    t("DIM") \o i("d") \o t("=") \o i("p") \o t("-") \o i("q"),
    let_(i("x"), i("x") \o t("+") \o n(1)),
    t("RETURN") \o i("d"),
    t("END DEF")>>
Swap ==
  <<t("DEF") \o invoke("g", <<i("v") \o in(<<>>), i("u") \o in(<<>>) \o t("AS") \o i("BYTE")>>),
    t("DIM") \o i("x") \o t("=") \o at_index("v", n(0)) \o t(",") \o i("y") \o t("=") \o i("x") \o t("+") \o n(1),
    let_(at_index("v", n(0)), at_index("u", n(1))),
    let_(at_index("u", n(1)), i("x")),
    t("RETURN") \o i("y"),
    t("END DEF")>>
Plain == <<t("DEF") \o i("h"), let_(i("x"), i("x") \o t("*") \o n(2)), t("END DEF")>>
Functions == Difference \o Swap \o Plain

program(ds, lines, library, vms) == [declarations |-> ds, lines |-> lines, library |-> library, vms |-> vms]
Both == {"xbasic_vm", "db_vmint"}
run(e, vms) == program(Standard, <<let_(i("y"), e)>>, FALSE, vms)
calling(lines) == program(Standard, Functions \o lines, FALSE, Both)

Ops == UNION {DOMAIN operators(k) : k \in 1 .. 10}
Triples == {<<i("x"), n(2), i("w")>>, <<n(3), n(2), n(1)>>, <<t("-") \o i("w"), at_index("b", n(0)), n(0)>>}
Operations ==
  {run(o[1] \o t(p[1]) \o o[2] \o t(p[2]) \o o[3], Both) : o \in Triples, p \in Ops \X Ops}
  \cup {run(i("x") \o t(p[1]) \o in(i("w") \o t(p[2]) \o at_index("a", n(1))), {"xbasic_vm"}) :
          p \in Ops \X {"OR", "AND", "-", "/", "^"}}
  \cup {run(t(u) \o e \o t(o) \o t(v) \o i("x"), {"xbasic_vm"}) :
          u \in {"-", "NOT", "~", "+"}, v \in {"-", "NOT"}, o \in {"AND", "-", "="},
          e \in {i("w"), n(0), at_index("b", n(1)), in(n(1) \o t("-") \o n(4))}}
Logic ==
  {run(a_[1] \o t(p[1]) \o a_[2] \o t(p[2]) \o a_[3] \o t(p[3]) \o a_[4], {"db_vmint"}) :
     a_ \in {<<n(0), i("x"), n(2), i("w")>>, <<i("x"), n(0), i("y"), n(4)>>}, p \in [1 .. 3 -> {"OR", "AND"}]}

Tokens == {id("x"), id("a"), id("h"), number(2), T("("), T(")"), T("-"), T(",")}
Loose(k) == UNION {[1 .. j -> Tokens] : j \in 0 .. k}
Loosely ==
  {program(Standard, Plain \o <<let_(i("y"), e)>>, FALSE, {"xbasic_vm"}) : e \in Loose(4)}
  \cup {program(Standard, Plain \o <<e>>, FALSE, {"xbasic_vm"}) : e \in {s \in Loose(3) : s # <<>>}}

Calls ==
  {calling(<<let_(i("y"), e)>>) :
     e \in {invoke("f", <<n(1), n(2)>>), invoke("f", <<n(1)>>), invoke("f", <<n(1), n(2), n(3)>>),
            i("f"), i("h"), i("h") \o t("+") \o i("x"), i("x") \o t("+") \o i("h") \o t("+") \o i("x"),
            invoke("f", <<i("h"), i("x")>>), invoke("f", <<i("x"), invoke("f", <<i("x"), i("h")>>)>>),
            n(0) \o t("AND") \o i("h") \o t("OR") \o i("x"), i("x") \o t("OR") \o i("h"),
            invoke("g", <<i("a"), i("b")>>), invoke("g", <<i("b"), i("a")>>), invoke("g", <<n(8), i("b")>>),
            invoke("g", <<i("a"), str>>), invoke("f", <<i("a"), n(1)>>), invoke("f", <<at_index("b", n(1)), n(1)>>),
            at_index("a", i("h")), at_index("a", i("x") \o t("-") \o n(2)),
            t("@") \o at_index("a", n(1)), t("@") \o i("x"), t("@") \o n(2), t("@") \o i("a"), i("a"),
            str \o in(n(1)), i("TRUE") \o t("-") \o i("FALSE"), t("-") \o i("TRUE"), in(i("a")) \o in(n(1))}}
  \cup {calling(<<let_(p, n(7))>>) :
          p \in {at_index("b", n(2)), at_index("a", i("h") \o t("+") \o n(1)), i("a"), i("f"), n(1), in(i("z")),
                 t("LET") \o i("z"), t("LET") \o at_index("b", n(0)), t("LET") \o n(2), i("TRUE"), str}}
  \cup {calling(<<invoke("f", <<n(1), n(1)>>), let_(i("y"), i("x")), i("h"), let_(i("h"), i("z"))>>)}
  \cup {program(Standard, <<t("DEF") \o i("k"), t("DIM") \o i("l") \o t("=") \o e, t("END DEF")>>
                            \o Difference \o <<let_(i("y"), i("k"))>>, FALSE, {"xbasic_vm"}) :
          e \in {n(1), i("x"), invoke("f", <<n(1), n(2)>>), i("l"), at_index("a", n(0)), i("x") \o t(",") \o i("l"), n(2) \o t(",") \o i("m")}}

Printed ==
  {program(Standard, Plain \o <<t("PRINT") \o e, let_(i("y"), i("x"))>>, l, {"xbasic_vm"}) : l \in BOOLEAN,
     e \in {<<>>, i("x"), str, i("b"), i("a"), i("h") \o t(",") \o n(5), i("x") \o t(";") \o str \o t(";"),
            t(",") \o i("x"), i("x") \o t(",") \o t(",") \o n(1), t("#") \o n(1) \o t(",") \o i("x"),
            t("#") \o i("h") \o t(",") \o i("x") \o t(";") \o i("h"), t("#") \o n(1), t("#") \o n(1) \o t(","),
            at_index("b", n(0)) \o t(";"), t("*")}}
Read ==
  {program(Standard, <<t("INPUT") \o e, let_(i("y"), i("x"))>>, l, {"xbasic_vm"}) : l \in BOOLEAN,
     e \in {<<>>, i("x"), i("x") \o t(",") \o at_index("b", i("x")), str \o t(";") \o i("w"), i("b") \o t(",") \o i("w"),
            t("#") \o n(2) \o t(",") \o i("x"), t("#") \o n(1) \o t(",") \o str \o t(";") \o at_index("a", n(0)),
            i("x") \o t(","), at_index("a", i("x"))}}

(* Declarations, two in a line. A variable without an initializer never    *)
(* stands behind one with an initializer. *)
Arrays_ ==
  {d \in {decl("c", TRUE, size, type, section, style, SubSeq(<<5, 17, 6, 3>>, 1, k)) :
            size \in 0 .. 4, type \in {"integer", "byte"}, section \in {"data", "text"},
            style \in {"none", "list", "lines"}, k \in 0 .. 4} :
     (d.style = "none") = (d.init = <<>>)}
  \cup {decl("c", TRUE, size, type, "data", "string", Strings["s"]) : size \in 0 .. 3, type \in {"integer", "byte"}}
Scalars == {var("e", 4), decl("e", FALSE, 0, "byte", "data", "none", <<>>), decl("e", FALSE, 0, "byte", "text", "scalar", <<20>>),
            decl("e", FALSE, 0, "integer", "nowhere", "none", <<>>), var("x", 1), var("TRUE", 1)}
Declared ==
  {program(<<<<var("x", 3)>>, <<d>>, <<var("y", 9)>>>>, <<let_(i("z"), i("y") \o t("+") \o i("z"))>>, FALSE, {"xbasic_vm"}) :
     d \in Arrays_}
  \cup {program(<<<<var("x", 3)>>, <<d, e>>>>, <<let_(i("z"), i("e") \o t("+") \o i("z"))>>, FALSE, {"xbasic_vm"}) :
          d \in {decl("c", TRUE, 3, "byte", "data", "none", <<>>), decl("c", TRUE, 0, "integer", "data", "list", <<1>>)},
          e \in Scalars}
Constants ==
  {program(Standard, <<t("DEF") \o i(x) \o t("=") \o e, let_(i("y"), i(x) \o t("*") \o i("x"))>>, FALSE, {"xbasic_vm"}) :
     x \in {"k", "x"}, e \in {n(2), n(2) \o t("*") \o n(3), str, i("w"), i("TRUE")}}

MCPrograms == Operations \cup Logic \cup Loosely \cup Calls \cup Printed \cup Read \cup Declared \cup Constants
=============================================================================
