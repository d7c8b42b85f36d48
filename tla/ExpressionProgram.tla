-------------------------- MODULE ExpressionProgram --------------------------
(***************************************************************************)
(* What declarations and expressions mean, beside what becomes of them.    *)
(* The meaning of an expression is read off its tokens by cutting them at  *)
(* the operator that binds least; it knows nothing of the parser, the tree *)
(* or the machine's stack, and only looks up where a variable was put.     *)
(*                                                                         *)
(* A program has lines of declarations, told abstractly, then functions,   *)
(* then its main code. PRINT and INPUT call library functions that write   *)
(* their number and their arguments; inputInt reads.                       *)
(***************************************************************************)
EXTENDS ExpressionCode

CONSTANT
  Programs    \* [declarations, lines, library, vms]: lines of declarations, other lines, whether
              \* there is a library, and the machines that run the program

VARIABLES
  declarations,
  io          \* what the library wrote and read, in order

vars == <<machine, source, next, phase, c, declarations, io>>

-----------------------------------------------------------------------------
(* The library.                                                            *)

Library == <<"printInt", "printStr", "printTab", "printNL", "inputGetLine", "inputInt", "inputStr">>
ParamsOf(h) ==
  CASE Library[h] = "printInt" -> <<"integer", "integer">>
    [] Library[h] \in {"printStr", "inputStr"} -> <<"integer", "byte pointer">>
    [] OTHER -> <<"integer">>
put(cells) == cells \o opcode("OP_TRAP") \o operand(TRAP_PutChar)
BodyOf(h) ==
  opcode("OP_FRAME") \o operand(F_SIZE)
    \o put(opcode("OP_SLIT") \o operand(h))
    \o FlattenSeq([i \in DOMAIN ParamsOf(h) |-> put(opcode("OP_LREF") \o operand(i - 1))])
    \o IF Library[h] = "inputInt" THEN opcode("OP_TRAP") \o operand(TRAP_GetChar) \o opcode("OP_RETURN")
       ELSE opcode("OP_RETURNZ")
Bodies == [h \in DOMAIN Library |-> BodyOf(h)]
AddressOf(h) == Len(FlattenSeq(SubSeq(Bodies, 1, h - 1)))
WithLibrary ==
  [Start EXCEPT !.globals = [x \in ToSet(Library) |->
     LET h == CHOOSE i \in DOMAIN Library : Library[i] = x
     IN  [handler(ParamsOf(h)) EXCEPT !.v = AddressOf(h)]] @@ @]

-----------------------------------------------------------------------------
(* Declarations: [x, array, size, type, section, init, style], where init  *)
(* is a sequence of numbers, or with style "string" the string it spells.  *)

number(n) == [t |-> "NUMBER", n |-> n, s |-> ""]
id(x) == [t |-> "NAME", n |-> 0, s |-> x]
quoted(s) == [t |-> "STRING", n |-> 0, s |-> s]
Join(parts, separator) ==
  FlattenSeq([i \in DOMAIN parts |-> IF i = 1 THEN parts[i] ELSE separator \o parts[i]])

declarator(d) ==
  LET values == [i \in DOMAIN d.init |-> <<number(d.init[i])>>] IN
  <<id(d.x)>>
    \o (IF ~d.array THEN <<>> ELSE IF d.size = 0 THEN <<T("("), T(")")>> ELSE <<T("("), number(d.size), T(")")>>)
    \o (IF d.type = "byte" THEN <<T("AS"), id("BYTE")>> ELSE <<>>)
    \o (IF d.section = "data" THEN <<>> ELSE <<T("IN"), quoted(d.section)>>)
    \o CASE d.style = "none"   -> <<>>
         [] d.style = "scalar" -> <<T("=")>> \o values[1]
         [] d.style = "list"   -> <<T("="), T("{")>> \o Join(values, <<T(",")>>) \o <<T("}")>>
         [] d.style = "lines"  -> <<T("="), T("{"), EOL>> \o Join(values, <<EOL, EOL>>) \o <<EOL, T("}")>>
         [] d.style = "string" -> <<T("="), quoted(d.s)>>
dim_line(ds) == <<T("DIM")>> \o Join([i \in DOMAIN ds |-> declarator(ds[i])], <<T(",")>>)

elements(d) ==
  IF ~d.array THEN IF d.style = "none" THEN <<0>> ELSE d.init
  ELSE d.init \o [i \in 1 .. (IF d.size > Len(d.init) THEN d.size - Len(d.init) ELSE 0) |-> 0]
(* An array that fills the buffer to the last byte is too large if it has  *)
(* initializers.                                                           *)
acceptable(d, before) ==
  /\ d.section \in DOMAIN Base
  /\ d.x \notin {e.x : e \in before} \cup {"TRUE", "FALSE"} \cup DOMAIN WithLibrary.globals
  /\ d.array =>
       /\ d.style = "none" => d.size > 0 /\ ValueSize(d.type \o " array", d.size) * WordSize <= MaxData
       /\ d.style # "none" => Len(elements(d)) * ValueByteSize(d.type) < MaxData
       /\ d.size > 0 => Len(d.init) <= d.size
fine_line(ds, earlier) ==
  \A k \in DOMAIN ds : acceptable(ds[k], ToSet(earlier \o SubSeq(ds, 1, k - 1)))
fine_declarations(i) == fine_line(declarations[i], FlattenSeq(SubSeq(declarations, 1, i - 1)))

-----------------------------------------------------------------------------
(* The form of a sequence of tokens: the operator and its operands, or the *)
(* primary that it is.                                                     *)

Precedence == <<{"OR"}, {"AND"}, {"^"}, {"|"}, {"&"}, {"=", "<>"}, {"<", "<=", ">=", ">"}, {"<<", ">>"},
                {"+", "-"}, {"*", "/", "MOD"}>>
depth(ts, i) ==
  FoldLeft(LAMBDA n, t : IF t.t = "(" THEN n + 1 ELSE IF t.t = ")" THEN n - 1 ELSE n, 0, SubSeq(ts, 1, i))
ends_operand(t) == t.t \in {"NUMBER", "STRING", "NAME", ")"}
cuts(ts, n) == {i \in 2 .. Len(ts) - 1 : ts[i].t \in Precedence[n] /\ depth(ts, i) = 0 /\ ends_operand(ts[i - 1])}
split(ts, t) ==      \* the parts between the ts[i].t = t that are in no parentheses
  LET at0 == {i \in DOMAIN ts : ts[i].t = t /\ depth(ts, i) = 0}
      ends == SetToSortSeq(at0 \cup {Len(ts) + 1}, <)
  IN  [k \in DOMAIN ends |-> SubSeq(ts, IF k = 1 THEN 1 ELSE ends[k - 1] + 1, ends[k] - 1)]
shape(f, op_, parts) == [f |-> f, op |-> op_, parts |-> parts]
binary_at(ts, i) == shape("binary", ts[i].t, <<SubSeq(ts, 1, i - 1), SubSeq(ts, i + 1, Len(ts))>>)
bracketed(ts, j) ==
  LET inner == SubSeq(ts, j + 1, Len(ts) - 1) IN
  IF j = 1 THEN shape("paren", "", <<inner>>) ELSE shape("apply", "", <<SubSeq(ts, 1, j - 1)>> \o split(inner, ","))
form(ts) ==
  LET levels == {n \in DOMAIN Precedence : cuts(ts, n) # {}}
      brackets == {j \in DOMAIN ts : ts[j].t = "(" /\ depth(ts, j) = 1}
  IN  IF ts = <<>> THEN shape("bad", "", <<>>)
      ELSE IF levels # {} THEN binary_at(ts, Max(cuts(ts, Min(levels))))
      ELSE IF ts[1].t \in {"+", "-", "NOT", "~", "@"} THEN shape("unary", ts[1].t, <<Tail(ts)>>)
      ELSE IF Len(ts) = 1 /\ ends_operand(ts[1]) THEN shape(ts[1].t, ts[1].s, <<>>)
      ELSE IF ts[Len(ts)].t # ")" \/ depth(ts, Len(ts)) # 0 \/ brackets = {} THEN shape("bad", "", <<>>)
      ELSE bracketed(ts, Max(brackets))
Primaries == {"NUMBER", "STRING", "NAME", "paren", "apply"}

-----------------------------------------------------------------------------
(* Types. In sc are the types of the arguments and locals in scope.        *)

kind_of(x, sc) ==
  IF x \in DOMAIN sc THEN "variable"
  ELSE IF x \notin DOMAIN c.globals THEN "variable"
  ELSE IF c.globals[x].class = "global" THEN "variable"
  ELSE IF c.globals[x].type \in {"function", "string"} THEN c.globals[x].type
  ELSE IF c.globals[x].type \in DOMAIN Arrays THEN "array" ELSE "number"
name_type(x, sc) ==
  IF x \in DOMAIN sc THEN sc[x]
  ELSE IF x \notin DOMAIN c.globals THEN "integer"
  ELSE CASE kind_of(x, sc) = "string"   -> "byte pointer"
         [] kind_of(x, sc) = "function" -> IF c.globals[x].params = <<>> THEN "integer" ELSE "bad"
         [] kind_of(x, sc) = "array"    -> ArrayTypeToPointerType(c.globals[x].type)
         [] OTHER                       -> c.globals[x].type

calls(f, sc) == f.parts[1][1].t = "NAME" /\ Len(f.parts[1]) = 1 /\ kind_of(f.parts[1][1].s, sc) = "function"

Operator ==
  [x \in {"^", "|", "&", "=", "<>", "<", "<=", ">=", ">", "<<", ">>", "+", "-", "*", "/", "MOD"} |->
     CASE x = "^" -> "OP_BXOR" [] x = "|" -> "OP_BOR" [] x = "&" -> "OP_BAND"
       [] x = "=" -> "OP_EQ" [] x = "<>" -> "OP_NE"
       [] x = "<" -> "OP_LT" [] x = "<=" -> "OP_LE" [] x = ">=" -> "OP_GE" [] x = ">" -> "OP_GT"
       [] x = "<<" -> "OP_SHL" [] x = ">>" -> "OP_SHR"
       [] x = "+" -> "OP_ADD" [] x = "-" -> "OP_SUB"
       [] x = "*" -> "OP_MUL" [] x = "/" -> "OP_DIV" [] x = "MOD" -> "OP_REM"]
sign(o, v) ==
  CASE o = "+" -> v [] o = "-" -> signed(-v) [] o = "~" -> -1 - v [] o = "NOT" -> truth(v = 0)

RECURSIVE literal(_, _), constant(_), place(_, _), type_of(_, _)
(* What is computed when the program is compiled, by the rules of C.       *)
literal_form(f, sc) ==
  CASE f.f = "NUMBER" -> TRUE
    [] f.f = "NAME"   -> kind_of(f.op, sc) = "number"
    [] f.f \in {"paren", "unary", "binary"} ->
         f.op \notin {"@", "OR", "AND"} /\ \A i \in DOMAIN f.parts : literal(f.parts[i], sc)
    [] OTHER          -> FALSE
literal(ts, sc) == literal_form(form(ts), sc)
constant_form(ts, f, v) ==      \* v has the values of the parts
  CASE f.f = "NUMBER" -> ts[1].n
    [] f.f = "NAME"   -> c.globals[f.op].v
    [] f.f = "paren"  -> v[1]
    [] f.f = "unary"  -> sign(f.op, v[1])
    [] f.f = "binary" -> db_vmint(Operator[f.op], v[1], v[2])
values_of(ts, f) == constant_form(ts, f, [i \in DOMAIN f.parts |-> constant(f.parts[i])])
constant(ts) == values_of(ts, form(ts))
place_form(f, sc) ==
  CASE f.f = "NAME"  -> kind_of(f.op, sc) = "variable"
    [] f.f = "apply" -> ~calls(f, sc)
    [] f.f = "paren" -> place(f.parts[1], sc)
    [] OTHER         -> FALSE
place(ts, sc) == place_form(form(ts), sc)

scalar(t) == t \in {"integer", "byte"}
passes(t, p) == (RValueType(t) = RValueType(p) /\ (scalar(p) => scalar(t))) \/ (scalar(t) /\ scalar(p))
type_form(f, t, sc) ==      \* t has the types of the parts
  LET params == c.globals[f.parts[1][1].s].params
      zero_divided == /\ f.op \in {"/", "MOD"} /\ \A i \in 1 .. 2 : literal(f.parts[i], sc)
                      /\ constant(f.parts[2]) = 0
  IN  CASE f.f = "NUMBER" -> "integer"
        [] f.f = "STRING" -> "byte pointer"
        [] f.f = "NAME"   -> name_type(f.op, sc)
        [] f.f = "paren"  -> t[1]
        [] f.f = "unary"  ->
             IF form(f.parts[1]).f \notin Primaries \/ t[1] = "bad" THEN "bad"
             ELSE IF f.op = "+" THEN t[1]
             ELSE IF f.op = "@" THEN IF IsPointer(t[1]) \/ place(f.parts[1], sc) THEN "integer" ELSE "bad"
             ELSE IF t[1] = "integer" THEN "integer" ELSE "bad"
        [] f.f = "binary" ->
             IF "bad" \in {t[1], t[2]} \/ zero_divided THEN "bad"
             ELSE IF f.op \in {"OR", "AND"} \/ (scalar(t[1]) /\ scalar(t[2])) THEN "integer" ELSE "bad"
        [] f.f = "apply"  ->
             IF calls(f, sc)
             THEN IF Len(params) = Len(f.parts) - 1 /\ \A i \in DOMAIN params : passes(t[i + 1], params[i])
                  THEN "integer" ELSE "bad"
             ELSE IF IsPointer(t[1]) /\ form(f.parts[1]).f \in Primaries \ {"apply"}
                     /\ Len(f.parts) = 2 /\ t[2] # "bad"
             THEN RValueType(t[1]) ELSE "bad"
        [] OTHER -> "bad"
parts_typed(f, sc) == type_form(f, [i \in DOMAIN f.parts |-> type_of(f.parts[i], sc)], sc)
type_of(ts, sc) == parts_typed(form(ts), sc)

-----------------------------------------------------------------------------
(* What a line does: a sequence of acts.                                   *)

act(a, x, parts) == [a |-> a, x |-> x, parts |-> parts]
zero == <<number(0)>>
find(ts, t) ==
  LET is_at == {i \in DOMAIN ts : ts[i].t = t /\ depth(ts, i) = 0} IN
  IF is_at = {} THEN 0 ELSE CHOOSE i \in is_at : \A j \in is_at : i <= j
worth(ts) == act("value", "", <<ts>>)
assignment(ts) ==
  LET i == find(ts, "=") IN
  <<worth(SubSeq(ts, i + 1, Len(ts))), act("keep", "", <<SubSeq(ts, 1, i - 1)>>)>>

(* PRINT and INPUT: the device, then what stands behind it. *)
has_device(ts) == ts # <<>> /\ ts[1].t = "#"
device_of(ts) == IF has_device(ts) THEN SubSeq(ts, 2, find(ts, ",") - 1) ELSE zero
items(ts) == IF has_device(ts) THEN SubSeq(ts, find(ts, ",") + 1, Len(ts)) ELSE ts
handle(h, parts) == act("handle", h, parts)
print_acts(ts, sc) ==
  LET dev == device_of(ts)
      body == items(ts)
      item(ps) == IF ps = <<>> THEN <<>>
                  ELSE <<handle(IF IsPointer(type_of(ps, sc)) THEN "printStr" ELSE "printInt", <<dev, ps>>)>>
      tabs == split(body, ",")
      fields == [i \in DOMAIN tabs |->
                   LET parts == split(tabs[i], ";") IN
                   FlattenSeq([k \in DOMAIN parts |-> item(parts[k])])
                     \o IF i < Len(tabs) THEN <<handle("printTab", <<dev>>)>> ELSE <<>>]
      open_ended == body # <<>> /\ body[Len(body)].t \in {",", ";"}
  IN  FlattenSeq(fields) \o IF open_ended THEN <<>> ELSE <<handle("printNL", <<dev>>)>>
input_acts(ts, sc) ==
  LET dev == device_of(ts)
      prompt == find(items(ts), ";")
      names == SubSeq(items(ts), prompt + 1, Len(items(ts)))
      variables == IF names = <<>> THEN <<>> ELSE split(names, ",")
  IN  (IF prompt = 0 THEN <<>> ELSE <<handle("printStr", <<dev, SubSeq(items(ts), 1, prompt - 1)>>)>>)
        \o <<handle("inputGetLine", <<dev>>)>>
        \o FlattenSeq([i \in DOMAIN variables |->
              IF IsPointer(type_of(variables[i], sc)) THEN <<handle("inputStr", <<dev, variables[i]>>)>>
              ELSE <<handle("inputInt", <<dev>>), act("number", "", <<variables[i]>>)>>])

dim_acts(ts) ==
  LET ds == split(Tail(ts), ",") IN
  FlattenSeq([i \in DOMAIN ds |-> <<worth(IF Len(ds[i]) = 1 THEN zero ELSE SubSeq(ds[i], 3, Len(ds[i]))),
                                    act("dim", ds[i][1].s, <<>>)>>])
acts(ts, sc) ==
  CASE ts[1].t = "DEF"    -> <<>>
    [] ts[1].t = "PRINT"  -> print_acts(Tail(ts), sc)
    [] ts[1].t = "INPUT"  -> input_acts(Tail(ts), sc)
    [] ts[1].t = "RETURN" -> <<worth(IF Len(ts) = 1 THEN zero ELSE Tail(ts)), act("return", "", <<>>)>>
    [] ts[1].t = "LET"    -> assignment(Tail(ts))
    [] ts[1].t = "DIM"    -> dim_acts(ts)
    [] OTHER -> IF find(ts, "=") = 0 THEN <<act("do", "", <<ts>>)>> ELSE assignment(ts)

(* Functions: the line of a DEF and its parameters; what is in scope at a  *)
(* line.                                                                   *)
is_constant(i) == Len(source[i]) > 2 /\ source[i][3].t = "="
Def_lines == {i \in DOMAIN source : source[i][1].t = "DEF" /\ ~is_constant(i)}
def_of(x) == CHOOSE i \in Def_lines : source[i][2].s = x
end_of(i) == CHOOSE j \in DOMAIN source : source[j][1].t = "END DEF" /\ j > i
                                          /\ \A l \in i .. j - 1 : source[l][1].t # "END DEF"
parameters(i) ==
  IF Len(source[i]) < 5 THEN <<>>
  ELSE LET ps == split(SubSeq(source[i], 4, Len(source[i]) - 1), ",") IN
       [k \in DOMAIN ps |-> [x |-> ps[k][1].s,
                             type |-> (IF ps[k][Len(ps[k])].s = "BYTE" THEN "byte" ELSE "integer")
                                        \o IF Len(ps[k]) > 1 /\ ps[k][2].t = "(" THEN " pointer" ELSE ""]]
within(i) == {j \in Def_lines : j < i /\ i <= end_of(j)}
(* The locals of the function around line i that are declared before the   *)
(* k-th act of that line, and the types of all that is in scope there.     *)
locals(i, k) ==
  LET f == CHOOSE j \in within(i) : TRUE
      dims(l) == IF source[l][1].t = "DIM" THEN dim_acts(source[l]) ELSE <<>>
      names(as) == {a.x : a \in {b \in ToSet(as) : b.a = "dim"}}
  IN  UNION {names(dims(l)) : l \in f + 1 .. i - 1} \cup names(SubSeq(dims(i), 1, Min({k - 1, Len(dims(i))})))
types_of(dims, ps) ==
  [x \in dims \cup {p.x : p \in ToSet(ps)} |->
     IF x \in dims THEN "integer" ELSE (CHOOSE p \in ToSet(ps) : p.x = x).type]
scope(i, k) ==
  IF within(i) = {} THEN <<>> ELSE types_of(locals(i, k), parameters(CHOOSE j \in within(i) : TRUE))

-----------------------------------------------------------------------------
(* Well-formed lines.                                                      *)

fine(ts, sc) == type_of(ts, sc) # "bad"
fine_act(a, sc, before) ==
  LET primary == form(a.parts[1]).f \in Primaries
      given == type_of(a.parts[Len(a.parts)], sc)
  IN  /\ \A p \in ToSet(a.parts) : fine(p, sc)
      /\ a.a \in {"do", "keep", "number"} => primary
      /\ a.a \in {"keep", "number"} => place(a.parts[1], sc)
      /\ a.a = "number" => scalar(given)
      /\ a.a = "dim" => a.x \notin before
      /\ a.a = "handle" => /\ a.x \in DOMAIN c.globals
                           /\ a.x = "printInt" => scalar(given)
                           /\ a.x = "printStr" => given = "byte pointer"
(* The name of a DEF is new; a constant is a number or a string.            *)
fine_def(i) ==
  LET x == source[i][2].s
      e == SubSeq(source[i], 4, Len(source[i]))
      named(j) == source[j][1].t = "DEF" /\ source[j][2].s = x
      string == form(e).f = "STRING" \/ (form(e).f = "NAME" /\ kind_of(form(e).op, <<>>) = "string")
  IN  /\ x \notin {"TRUE", "FALSE"} \cup {d.x : d \in ToSet(FlattenSeq(declarations))}
      /\ \A j \in 1 .. i - 1 : ~named(j)
      /\ is_constant(i) => (literal(e, <<>>) /\ fine(e, <<>>)) \/ string
fine_statement(i) ==
  IF source[i][1].t = "DEF" THEN fine_def(i)
  ELSE source[i][1].t = "END DEF" \/
     \E as \in {acts(source[i], scope(i, 1))} : \A k \in DOMAIN as : fine_act(as[k], scope(i, k), locals(i, k))
fine_source(i) == IF i \in DOMAIN declarations THEN fine_declarations(i) ELSE fine_statement(i)

-----------------------------------------------------------------------------
(* Values. An environment e has the variables of the function, memory, the *)
(* last value, what was written and read, what there is to read, and what  *)
(* stopped it.                                                             *)

RECURSIVE bare(_), value(_, _), exec(_, _, _)
then(e, v) == [e EXCEPT !.v = v]
inside_brackets(ts, f) == IF f.f = "paren" THEN bare(f.parts[1]) ELSE ts
bare(ts) == inside_brackets(ts, form(ts))

(* One part after the other, each in the environment the one before left;  *)
(* OR and AND skip the second where the first decides.                     *)
skipped(o, r) ==
  \/ r.e.stop # ""
  \/ r.vs # <<>> /\ ((o = "OR" /\ r.e.v # 0) \/ (o = "AND" /\ r.e.v = 0))
with_value(e, vs) == [e |-> e, vs |-> Append(vs, e.v)]
evaluated(o, parts, e) ==
  FoldLeft(LAMBDA r, p : IF skipped(o, r) THEN r ELSE with_value(value(p, r.e), r.vs), [e |-> e, vs |-> <<>>], parts)

is_address(f, sc) == f.op = "@" /\ ~IsPointer(type_of(f.parts[1], sc))
callee(f, sc) ==
  IF f.f = "NAME" THEN IF kind_of(f.op, sc) = "function" THEN f.op ELSE ""
  ELSE IF f.f = "apply" /\ calls(f, sc) THEN f.parts[1][1].s ELSE ""
(* What is computed first. Arguments are computed from the last to the     *)
(* first.                                                                  *)
operands(f, sc) ==
  IF f.f = "apply" /\ calls(f, sc) THEN Reverse(Tail(f.parts))
  ELSE IF is_address(f, sc) THEN form(bare(f.parts[1])).parts ELSE f.parts
(* The place f, where vs are the values of its parts. *)
address(f, e, vs) ==
  IF f.f = "NAME" THEN c.globals[f.op].v
  ELSE signed(vs[1] + vs[2] * IF RValueType(type_of(f.parts[1], e.sc)) = "byte" THEN 1 ELSE WordSize)

apply(ts, o, a, b, e) ==
  LET divides == o \in {"OP_DIV", "OP_REM"} IN
  IF literal(ts, e.sc) THEN then(e, db_vmint(o, a, b))
  ELSE IF divides /\ vm = "xbasic_vm" /\ b = 0 THEN [e EXCEPT !.stop = "STS_DivideZero"]
  ELSE then(e, IF vm = "xbasic_vm" THEN xbasic_vm(o, a, b) ELSE db_vmint(o, a, b))
name_value(x, kind, e) ==
  CASE kind = "string"   -> c.strings[c.globals[x].s]
    [] kind = "variable" -> IF x \in DOMAIN e.vars THEN e.vars[x] ELSE e.mem[c.globals[x].v]
    [] OTHER             -> c.globals[x].v

out(e, vs) == [e EXCEPT !.v = 0, !.io = @ \o [i \in DOMAIN vs |-> <<"out", vs[i]>>]]
read_one(e) ==
  IF e.ins = <<>> THEN [e EXCEPT !.stop = "waiting"]
  ELSE [e EXCEPT !.v = e.ins[1], !.ins = Tail(@), !.io = Append(@, <<"in", e.ins[1]>>)]
written(x, e) == IF x = "inputInt" THEN read_one(e) ELSE e
library_function(x, e, vs) == written(x, out(e, <<CHOOSE h \in DOMAIN Library : Library[h] = x>> \o vs))
returned(r, e) ==
  [r EXCEPT !.vars = e.vars, !.sc = e.sc, !.v = IF r.stop = "returned" THEN @ ELSE 0,
            !.stop = IF @ = "returned" THEN "" ELSE @]
bound(ps, e, vs) ==
  [e EXCEPT !.vars = [y \in {p.x : p \in ToSet(ps)} |-> vs[CHOOSE i \in DOMAIN ps : ps[i].x = y]]]
run_function(f, e, vs) == returned(exec(f + 1, end_of(f), bound(parameters(f), e, vs)), e)
call(x, e, vs) == IF x \in ToSet(Library) THEN library_function(x, e, vs) ELSE run_function(def_of(x), e, vs)

combined(ts, f, e, vs) ==
  CASE f.f = "NUMBER"           -> then(e, ts[1].n)
    [] f.f = "STRING"           -> then(e, c.strings[f.op])
    [] callee(f, e.sc) # ""     -> call(callee(f, e.sc), e, Reverse(vs))
    [] f.f = "NAME" /\ callee(f, e.sc) = ""  -> then(e, name_value(f.op, kind_of(f.op, e.sc), e))
    [] f.f = "apply" /\ callee(f, e.sc) = "" -> then(e, e.mem[address(f, e, vs)])
    [] f.f \in {"paren", "unary"} ->
         then(e, IF is_address(f, e.sc) THEN address(form(bare(f.parts[1])), e, vs)
                 ELSE sign(IF f.f = "paren" \/ f.op = "@" THEN "+" ELSE f.op, e.v))
    [] f.f = "binary" -> IF f.op \in {"OR", "AND"} THEN e ELSE apply(ts, Operator[f.op], vs[1], vs[2], e)
finished(ts, f, r) == IF r.e.stop # "" THEN r.e ELSE combined(ts, f, r.e, r.vs)
value_of(ts, f, e) == finished(ts, f, evaluated(f.op, operands(f, e.sc), e))
value(ts, e) == value_of(ts, form(ts), e)

(* An act: its parts, then what is done with their values or, where the    *)
(* act keeps it, with the value v of the act before.                       *)
keep_at(ts, f, v, e, vs) ==
  IF f.f = "NAME" /\ f.op \in DOMAIN e.vars THEN [e EXCEPT !.vars[f.op] = v]
  ELSE [e EXCEPT !.mem[address(f, e, vs)] =
          IF f.f = "apply" /\ type_of(ts, e.sc) = "byte" THEN v % 2 ^ ByteBits ELSE v]
keep(ts, v, e, vs) == keep_at(ts, form(ts), v, e, vs)
needed(a) ==
  CASE a.a = "handle"             -> Reverse(a.parts)
    [] a.a \in {"keep", "number"} -> form(bare(a.parts[1])).parts
    [] OTHER                      -> a.parts
performed(a, v, r) ==
  IF r.e.stop # "" THEN r.e
  ELSE CASE a.a = "handle"             -> library_function(a.x, r.e, Reverse(r.vs))
         [] a.a \in {"keep", "number"} -> keep(bare(a.parts[1]), v, r.e, r.vs)
         [] a.a = "return"             -> [r.e EXCEPT !.stop = "returned"]
         [] a.a = "dim"                -> [r.e EXCEPT !.vars = (a.x :> v) @@ @]
         [] OTHER                      -> r.e
do(a, e) == performed(a, e.v, evaluated("", needed(a), e))
do_line(as, i, e) == FoldLeft(LAMBDA d, k : do(as[k], [d EXCEPT !.sc = scope(i, k)]), e, [k \in DOMAIN as |-> k])
exec(i, end, e) ==
  IF i >= end \/ e.stop # "" THEN e ELSE exec(i + 1, end, do_line(acts(source[i], scope(i, 1)), i, e))

main_line == IF Def_lines = {} THEN Len(declarations) + 1
             ELSE 1 + end_of(CHOOSE i \in Def_lines : \A j \in Def_lines : j <= i)
Memory == [a \in -(Modulus \div 2) .. Modulus \div 2 - 1 |-> IF a \in DOMAIN c.image THEN c.image[a] ELSE 0]
outcome ==
  LET reads == SelectSeq(io, LAMBDA ev : ev[1] = "in") IN
  exec(main_line, Len(source) + 1,
       [vars |-> <<>>, sc |-> <<>>, mem |-> Memory, v |-> 0, io |-> <<>>, stop |-> "",
        ins |-> [i \in DOMAIN reads |-> reads[i][2]]])

-----------------------------------------------------------------------------
Init ==
  /\ \E p \in Programs :
       /\ declarations = p.declarations
       /\ source = [i \in DOMAIN p.declarations |-> dim_line(p.declarations[i])] \o p.lines
       /\ c = IF p.library THEN WithLibrary ELSE Start
       /\ code = IF p.library THEN FlattenSeq(Bodies) ELSE <<>>
       /\ vm \in p.vms
  /\ next = 1 /\ phase = "compile"
  /\ mem = <<>> /\ io = <<>>
  /\ Started(0)

(* The main code comes last, and then the machine starts. *)
EndMain ==
  LET cells == code_function_definition(c) IN
  /\ phase = "compile" /\ next = Len(source) + 1 /\ c.pass = 2
  /\ IF code_lvalue(c) THEN phase' = "run" /\ code' = code \o cells /\ pc' = Len(code) /\ mem' = Memory
     ELSE phase' = "error" /\ UNCHANGED <<code, pc, mem>>
  /\ UNCHANGED <<source, next, c, vm, tos, sp, fp, stack, status, trap>>

Compile == (Def \/ Dim \/ EndDef \/ Statement \/ EndPass \/ EndMain) /\ UNCHANGED <<declarations, io>>
Execute == phase = "run" /\ Instruction
Run ==
  /\ Execute
  /\ io' = IF ~at({"OP_TRAP"}) THEN io
           ELSE Append(io, IF imm = TRAP_GetChar THEN <<"in", tos'>> ELSE <<"out", tos>>)
  /\ UNCHANGED <<source, next, phase, c, declarations>>

Next == Compile \/ Run
Spec == Init /\ [][Next]_vars

-----------------------------------------------------------------------------
(* Properties.                                                             *)

(* The lines that have been taken or refused. *)
judged ==
  CASE phase = "run"     -> DOMAIN source
    [] phase = "error"   -> {i \in DOMAIN source : IF c.pass = 1 THEN i = next ELSE i <= next}
    [] OTHER             -> {}
(* The compiler takes the lines that are well formed and whose types fit,  *)
(* and no others: what ParseExpr and the generator refuse, and only that,  *)
(* has no meaning.                                                         *)
AcceptsGrammar == phase = "error" <=> \E i \in judged : ~fine_source(i)

(* Every variable has storage of its own, which holds its initial value    *)
(* when the program starts, elements without an initializer zero.          *)
DeclaresVariables ==
  phase = "run" =>
    \A d \in ToSet(FlattenSeq(declarations)) :
      LET es == elements(d)
          width == IF d.array THEN ValueByteSize(d.type) ELSE WordSize
      IN  \A i \in DOMAIN es :
            c.image[c.globals[d.x].v + (i - 1) * width] = IF d.array THEN element(es[i], d.type) ELSE es[i]

(* A program that stops has stored, written and read what its lines mean,  *)
(* in their order, and has left nothing on the stack. It stops early only  *)
(* where the machine divides by zero.                                      *)
StoresMeaning ==
  phase = "run" /\ ~running =>
    /\ \E o \in {outcome} : /\ o.mem = mem /\ o.io = io
                            /\ status = IF o.stop = "" THEN "STS_Halt" ELSE o.stop
    /\ status = "STS_Halt" => sp = StackSize /\ fp = StackSize
=============================================================================
