--------------------------- MODULE ExpressionCode ---------------------------
(***************************************************************************)
(* Expressions, declarations and the statements made of expressions: the   *)
(* parser, the types, the symbol tables and the code that is generated.    *)
(* The parser works on the tokens of a line; everything it keeps is in the *)
(* parse context c, which the operators below pass on. Of the three passes *)
(* the last two do the same with an expression and are one here, and a     *)
(* function is placed when its definition starts, which makes the fixups   *)
(* of Compiler.tla unnecessary.                                            *)
(***************************************************************************)
EXTENDS StackVM, SequencesExt

CONSTANTS
  Base,       \* the sections: name and address
  MaxData,    \* bytes of the buffer that holds the initializers of an array
  Text        \* the characters of each string

VARIABLES
  source,     \* the lines: sequences of tokens
  next,       \* the line that comes next
  phase,      \* "compile", "run", "error" or "crash"
  c           \* the parse context

T(t) == [t |-> t, n |-> 0, s |-> ""]
EOL == T("EOL")
tok(d) == IF d.ts = <<>> THEN EOL ELSE d.ts[1]
skip(d) == IF d.ts = <<>> THEN d ELSE [d EXCEPT !.ts = Tail(@)]
is(d, t) == tok(d).t = t
fail(d) == IF d.err = "" THEN [d EXCEPT !.err = "error"] ELSE d
require(d, ok) == IF ok THEN d ELSE fail(d)
FRequire(d, t) == IF is(d, t) THEN skip(d) ELSE fail(d)

(* A node of the parse tree. A result has the context and a node. *)
ast(k, type, v, s, kids) == [k |-> k, type |-> type, v |-> v, s |-> s, kids |-> kids]
result(d, node) == [c |-> d, node |-> node]
NoNode == ast("none", "integer", 0, "", <<>>)
failed(d) == result(fail(d), NoNode)
integer_lit(v) == ast("IntegerLit", "integer", v, "", <<>>)
IsIntegerLit(node) == node.k = "IntegerLit"

-----------------------------------------------------------------------------
(* Types.                                                                  *)

IsIntegerType(t) == t \in {"integer", "byte"}
Arrays == [t \in {"integer array", "byte array"} |-> IF t = "integer array" THEN "integer" ELSE "byte"]
Pointers == [t \in {"integer pointer", "byte pointer"} |-> IF t = "integer pointer" THEN "integer" ELSE "byte"]
IsPointer(t) == t \in DOMAIN Arrays \cup DOMAIN Pointers
RValueType(t) == IF t \in DOMAIN Arrays THEN Arrays[t] ELSE IF t \in DOMAIN Pointers THEN Pointers[t] ELSE t
ArrayTypeToPointerType(t) == IF t = "integer array" THEN "integer pointer" ELSE "byte pointer"

(* An array that meets a plain value of its element type leaves the code   *)
(* with a null pointer.                                                    *)
CompareTypes(t1, t2) ==
  IF RValueType(t1) = RValueType(t2)
  THEN IF IsPointer(t1) /\ ~IsPointer(t2) THEN "crash" ELSE "match"
  ELSE IF IsIntegerType(t1) /\ IsIntegerType(t2) THEN "match" ELSE "error"

ValueByteSize(t) == IF t = "byte" THEN 1 ELSE WordSize
ValueSize_down(t, size) ==      \* (a variant) rounds down
  IF t \in DOMAIN Arrays THEN (size * ValueByteSize(Arrays[t])) \div WordSize ELSE 1
words(bytes) == (bytes + WordSize - 1) \div WordSize
ValueSize(t, size) == IF t \in DOMAIN Arrays THEN words(size * ValueByteSize(Arrays[t])) ELSE 1

-----------------------------------------------------------------------------
(* Symbols.                                                                *)

symbol(class, type, v, s, params) == [class |-> class, type |-> type, v |-> v, s |-> s, params |-> params]
AddGlobal(d, x, sym) ==
  IF x \in DOMAIN d.globals THEN fail(d) ELSE [d EXCEPT !.globals = (x :> sym) @@ @]
AddLocal(d, x, offset) ==
  IF x \in DOMAIN d.locals THEN fail(d) ELSE [d EXCEPT !.locals = (x :> [type |-> "integer", v |-> offset]) @@ @]
AddFormalArgument(d, x, type) ==
  LET t == IF type \in DOMAIN Arrays THEN ArrayTypeToPointerType(type) ELSE type
  IN  IF x \in DOMAIN d.args THEN fail(d)
      ELSE [d EXCEPT !.args = (x :> [type |-> t, v |-> Len(d.params)]) @@ @, !.params = Append(@, t)]

(* The elements of a variable go to the end of a section. *)
WriteSection(d, sec, values, width, size) ==
  LET a == Base[sec] + d.offset[sec]
  IN  [d EXCEPT !.image = [i \in {a + (j - 1) * width : j \in DOMAIN values} |-> values[(i - a) \div width + 1]] @@ @,
                !.offset[sec] = @ + size * WordSize]
AddVariable(d, x, class, type, sec, values) ==
  WriteSection(AddGlobal(d, x, symbol(class, type, Base[sec] + d.offset[sec], "", <<>>)),
               sec, values, ValueByteSize(RValueType(type)), ValueSize(type, Len(values)))

local_ref(sym) == ast("LocalRef", sym.type, sym.v, "", <<>>)
global_ref(type, x) == ast("GlobalRef", type, 0, x, <<>>)
string_lit(s) == ast("StringLit", "byte array", 0, s, <<>>)
GetSymbolRef(d, x) ==
  LET g == d.globals[x] IN
  IF x \in DOMAIN d.locals THEN result(d, local_ref(d.locals[x]))
  ELSE IF x \in DOMAIN d.args THEN result(d, local_ref(d.args[x]))
  ELSE IF x \in DOMAIN d.globals
  THEN result(d, CASE g.class = "global"    -> global_ref(g.type, x)
                   [] g.type = "string"     -> string_lit(g.s)
                   [] g.type = "function"   -> ast("FunctionLit", g.type, 0, x, <<>>)
                   [] g.type \in DOMAIN Arrays -> ast("ArrayLit", ArrayTypeToPointerType(g.type), 0, x, <<>>)
                   [] g.type = "integer"    -> integer_lit(g.v))
  ELSE result(IF d.pass = 1 THEN d ELSE AddVariable(d, x, "global", "integer", "data", <<0>>),
              global_ref("integer", x))

(* A string goes to the text section, once. *)
AddString(d, s) ==
  IF s \in DOMAIN d.strings THEN d
  ELSE [WriteSection(d, "text", Append(Text[s], 0), 1, words(Len(Text[s]) + 1)) EXCEPT
          !.strings = (s :> Base["text"] + d.offset["text"]) @@ @]

-----------------------------------------------------------------------------
(* Expressions, from the operators that bind least to the primaries.       *)

MakeUnaryOpNode(r, o) ==
  IF IsIntegerLit(r.node) THEN [r EXCEPT !.node.v = signed(unary(o, @))]
  ELSE IF r.node.type = "integer" THEN result(r.c, ast("UnaryOp", "integer", 0, o, <<r.node>>))
  ELSE failed(r.c)
MakeBinaryOpNode(d, o, left, right) ==
  IF IsIntegerLit(left) /\ IsIntegerLit(right)
  THEN IF o \in {"OP_DIV", "OP_REM"} /\ right.v = 0 THEN failed(d)
       ELSE result(d, integer_lit(db_vmint(o, left.v, right.v)))
  ELSE IF IsIntegerType(left.type) /\ IsIntegerType(right.type)
  THEN result(d, ast("BinaryOp", "integer", 0, o, <<left, right>>))
  ELSE failed(d)

OR == 1
AND == 2
UNARY == 11
operators(n) ==
  CASE n = OR  -> [OR |-> "OP_BRTSC"]
    [] n = AND -> [AND |-> "OP_BRFSC"]
    [] n = 3 -> "^" :> "OP_BXOR"
    [] n = 4 -> "|" :> "OP_BOR"
    [] n = 5 -> "&" :> "OP_BAND"
    [] n = 6 -> "=" :> "OP_EQ" @@ "<>" :> "OP_NE"
    [] n = 7 -> "<" :> "OP_LT" @@ "<=" :> "OP_LE" @@ ">=" :> "OP_GE" @@ ">" :> "OP_GT"
    [] n = 8 -> "<<" :> "OP_SHL" @@ ">>" :> "OP_SHR"
    [] n = 9 -> "+" :> "OP_ADD" @@ "-" :> "OP_SUB"
    [] n = 10 -> "*" :> "OP_MUL" @@ "/" :> "OP_DIV" @@ "MOD" :> "OP_REM"
another(d, n) == tok(d).t \in DOMAIN operators(n)

RECURSIVE Parse(_, _), ParseList(_, _, _), ParseOperands(_, _), ParseArguments(_, _, _, _), ParsePrimary(_)
ParseExpr(d) == Parse(d, OR)

ParseList(r, n, entries) ==
  IF another(r.c, n) THEN ParseList(Parse(skip(r.c), AND), n, Append(entries, r.node))
  ELSE result(r.c, ast(IF n = OR THEN "Disjunction" ELSE "Conjunction", "integer", 0, "", Append(entries, r.node)))
operation(r, r2, n) == MakeBinaryOpNode(r2.c, operators(n)[tok(r.c).t], r.node, r2.node)
ParseOperands_right(r, n) ==    \* (a variant) binds to the right
  IF another(r.c, n) THEN operation(r, Parse(skip(r.c), n), n) ELSE r
ParseOperands(r, n) ==
  IF another(r.c, n) THEN ParseOperands(operation(r, Parse(skip(r.c), n + 1), n), n) ELSE r

unary_node(o, r) ==
  CASE o = "-"   -> MakeUnaryOpNode(r, "OP_NEG")
    [] o = "NOT" -> MakeUnaryOpNode(r, "OP_NOT")
    [] o = "~"   -> MakeUnaryOpNode(r, "OP_BNOT")
    [] o = "@"   -> result(r.c, ast("AddressOf", "integer", 0, "", <<r.node>>))
    [] OTHER     -> r
ParseExpr11(d) ==
  unary_node(tok(d).t, ParsePrimary(IF tok(d).t \in {"+", "-", "NOT", "~", "@"} THEN skip(d) ELSE d))
operators_behind(r, n) ==
  IF n \notin {OR, AND} THEN ParseOperands(r, n) ELSE IF another(r.c, n) THEN ParseList(r, n, <<>>) ELSE r
Parse(d, n) == IF n = UNARY THEN ParseExpr11(d) ELSE operators_behind(Parse(d, n + 1), n)

(* The arguments are pushed onto a list, so the last one comes first. *)
match(r, params) == IF params = <<>> THEN "error" ELSE CompareTypes(r.node.type, params[1])
checked(r, params) ==
  IF match(r, params) = "match" \/ r.c.err # "" THEN r.c ELSE [r.c EXCEPT !.err = match(r, params)]
argument(r, params, node) ==
  ParseArguments(checked(r, params), IF params = <<>> THEN <<>> ELSE Tail(params), [node EXCEPT !.kids = <<r.node>> \o @], ",")
ParseArguments_few(d, params, node, comma) ==   \* (a variant) does not miss an argument
  IF is(d, comma) /\ d.err = "" THEN argument(ParseExpr(skip(d)), params, node)
  ELSE result(IF comma = "," THEN FRequire(d, ")") ELSE d, node)
ParseArguments(d, params, node, comma) ==
  IF is(d, comma) /\ d.err = "" THEN argument(ParseExpr(skip(d)), params, node)
  ELSE result(require(IF comma = "," THEN FRequire(d, ")") ELSE d, params = <<>>), node)
ParseCall(d, node) ==
  ParseArguments(d, d.globals[node.s].params, ast("FunctionCall", "integer", 0, node.s, <<>>), "(")

closed(r) == [r EXCEPT !.c = FRequire(@, ")")]
element_of(node, r) == result(r.c, ast("ArrayRef", RValueType(node.type), 0, "", <<node, r.node>>))
ParseArrayReference(d, node) == element_of(node, closed(ParseExpr(d)))

ParseSimplePrimary(d) ==
  CASE is(d, "(")      -> closed(ParseExpr(skip(d)))
    [] is(d, "NUMBER") -> result(skip(d), integer_lit(tok(d).n))
    [] is(d, "STRING") -> result(AddString(skip(d), tok(d).s), string_lit(tok(d).s))
    [] is(d, "NAME")   -> GetSymbolRef(skip(d), tok(d).s)
    [] OTHER           -> failed(d)
primary_behind(r) ==
  IF r.node.type = "function" THEN ParseCall(r.c, r.node)
  ELSE IF IsPointer(r.node.type) /\ is(r.c, "(") THEN ParseArrayReference(skip(r.c), r.node)
  ELSE r
ParsePrimary(d) == primary_behind(ParseSimplePrimary(d))

-----------------------------------------------------------------------------
(* Declarations.                                                           *)

name(d) == IF is(d, "NAME") THEN tok(d).s ELSE ""

(* A variable and its type: [c, name, type, size].                         *)
fixed_size(r) == [c |-> require(FRequire(r.c, ")"), IsIntegerLit(r.node) /\ r.node.v > 0), size |-> r.node.v]
array_size(d) == IF is(d, ")") THEN [c |-> skip(d), size |-> 0] ELSE fixed_size(ParseExpr(d))
typed(x, array, sized) ==
  LET as == is(sized.c, "AS")
      word_ == name(skip(sized.c))
      byte == as /\ word_ = "BYTE"
  IN  [c |-> IF as THEN require(FRequire(skip(sized.c), "NAME"), word_ \in {"INTEGER", "BYTE"}) ELSE sized.c,
       name |-> x, size |-> sized.size,
       type |-> (IF byte THEN "byte" ELSE "integer") \o IF array THEN " array" ELSE ""]
ParseVariableDecl(d) ==
  LET start == FRequire(d, "NAME") IN
  typed(name(d), is(start, "("), IF is(start, "(") THEN array_size(skip(start)) ELSE [c |-> start, size |-> 0])

constant_only(r) == [r EXCEPT !.c = require(@, IsIntegerLit(r.node))]
ParseScalarInitializer(d) == constant_only(ParseExpr(d))

(* One more element in a buffer that is tested when it has been written. *)
element(v, t) == IF t = "byte" THEN v % 2 ^ ByteBits ELSE v
store(r, v, t, size) ==
  [c |-> require(r.c, (size = 0 \/ Len(r.values) < size)
                      /\ (Len(r.values) + 1) * ValueByteSize(t) < MaxData),
   values |-> Append(r.values, element(v, t))]

RECURSIVE initializer_lines(_, _, _), initializers(_, _, _)
initializer_lines(r, t, size) ==
  IF r.c.ts = <<>> THEN [r EXCEPT !.c = fail(@)]
  ELSE CASE is(r.c, "EOL") -> initializer_lines([r EXCEPT !.c = skip(@)], t, size)
         [] is(r.c, "}")   -> [r EXCEPT !.c = skip(@)]
         [] OTHER          -> initializers(r, t, size)
with_element(r, one, t, size) == store([r EXCEPT !.c = one.c], one.node.v, t, size)
behind_initializer(r, t, size) ==
  LET after == [r EXCEPT !.c = skip(@)] IN
  CASE r.c.err # "" -> r
    [] r.c.err = "" /\ is(r.c, "EOL") -> initializer_lines(after, t, size)
    [] r.c.err = "" /\ is(r.c, "}")   -> after
    [] r.c.err = "" /\ is(r.c, ",")   -> initializers(after, t, size)
    [] OTHER -> [r EXCEPT !.c = fail(@)]
initializers(r, t, size) == behind_initializer(with_element(r, ParseScalarInitializer(r.c), t, size), t, size)

characters(r, t, size) ==
  IF r.node.k # "StringLit" THEN [c |-> fail(r.c), values |-> <<>>]
  ELSE FoldLeft(LAMBDA e, v : store(e, v, t, size), [c |-> r.c, values |-> <<>>], Text[r.node.s])
padded(r, t, size) ==
  LET missing == IF size > Len(r.values) THEN size - Len(r.values) ELSE 0 IN
  IF r.c.err # "" THEN r ELSE FoldLeft(LAMBDA e, i : store(e, 0, t, size), r, [i \in 1 .. missing |-> i])
ParseArrayInitializers(d, t, size) ==
  padded(IF is(d, "{") THEN initializer_lines([c |-> skip(d), values |-> <<>>], t, size)
         ELSE characters(ParseExpr(d), t, size), t, size)
ClearArrayInitializers(d, t, size) ==
  [c |-> require(d, size > 0 /\ ValueSize(t, size) * WordSize <= MaxData),
   values |-> [i \in 1 .. size |-> 0]]

statement(d, k, kids) == [d EXCEPT !.nodes = Append(@, ast(k, "integer", 0, "", kids))]

(* The value of an initializer is kept for the variables behind it.        *)
RECURSIVE dim(_, _)
dim_next(d, value) == IF is(d, ",") THEN dim(skip(d), value) ELSE FRequire(d, "EOL")
local_variable(v, r) ==      \* r has the initializer, if there is one
  LET d == require(r.c, v.type = "integer")
      added == [AddLocal(d, v.name, -F_SIZE - d.localOffset - 1) EXCEPT !.localOffset = @ + 1]
  IN  IF d.pass = 1 \/ d.err # "" THEN d
      ELSE IF is(v.c, "=") THEN statement(added, "Let", <<GetSymbolRef(added, v.name).node, r.node>>)
      ELSE added
dim_local(v, value) ==
  dim_next(local_variable(v, IF is(v.c, "=") THEN ParseExpr(skip(v.c)) ELSE result(v.c, NoNode)), value)
initial(v, d, value) ==      \* [c, values]
  LET array == v.type \in DOMAIN Arrays
      only(r) == [c |-> r.c, values |-> <<r.node.v>>]
  IN  CASE array /\ is(d, "=")   -> ParseArrayInitializers(skip(d), Arrays[v.type], v.size)
        [] array /\ ~is(d, "=")  -> ClearArrayInitializers(d, v.type, v.size)
        [] ~array /\ is(d, "=")  -> only(ParseScalarInitializer(skip(d)))
        [] ~array /\ ~is(d, "=") -> [c |-> d, values |-> <<value>>]
global_variable(v, target, r, value) ==
  LET array == v.type \in DOMAIN Arrays IN
  dim_next(IF r.c.pass # 1 \/ r.c.err # "" THEN r.c
           ELSE AddVariable(r.c, v.name, IF array THEN "constant" ELSE "global", v.type, target, r.values),
           IF array THEN value ELSE r.values[1])
dim_global(v, value) ==
  LET target == IF is(v.c, "IN") THEN tok(skip(v.c)).s ELSE "data"
      d == IF is(v.c, "IN") THEN require(FRequire(skip(v.c), "STRING"), target \in DOMAIN Base) ELSE v.c
  IN  global_variable(v, target, initial(v, d, value), value)
declared(v, function, value) == IF function # "" THEN dim_local(v, value) ELSE dim_global(v, value)
dim(d, value) == declared(ParseVariableDecl(d), d.functionType, value)
ParseDim(d) == dim(d, 0)

constant_symbol(r, x) ==
  AddGlobal(require(r.c, r.node.k \in {"IntegerLit", "StringLit"}), x,
            IF IsIntegerLit(r.node) THEN symbol("constant", "integer", r.node.v, "", <<>>)
            ELSE symbol("constant", "string", 0, r.node.s, <<>>))
ParseConstantDef(d, x) == IF d.pass # 1 THEN d ELSE FRequire(constant_symbol(ParseExpr(d), x), "EOL")

RECURSIVE formal_arguments(_)
formal_argument(v) == AddFormalArgument(require(v.c, v.size = 0), v.name, v.type)
behind_argument(d) == IF is(d, ",") THEN formal_arguments(skip(d)) ELSE FRequire(d, ")")
formal_arguments(d) == behind_argument(formal_argument(ParseVariableDecl(d)))
with_arguments(d, x) ==
  [FRequire(d, "EOL") EXCEPT !.globals[x].params = d.params, !.argsOf = (x :> d.args) @@ @]
ParseFunctionDef_pass1(d, x) ==
  LET known == [AddGlobal(d, x, symbol("constant", "function", 0, "", <<>>)) EXCEPT
                  !.functionType = x, !.args = <<>>, !.params = <<>>]
  IN  IF known.err # "" THEN known
      ELSE with_arguments(IF ~is(d, "(") THEN known
                          ELSE IF is(skip(d), ")") THEN skip(skip(known))
                          ELSE formal_arguments(skip(known)), x)
ParseFunctionDef_pass23(d, x) ==
  [d EXCEPT !.functionType = x, !.args = d.argsOf[x], !.locals = <<>>, !.localOffset = 0,
            !.nodes = <<>>, !.globals[x].v = Len(code)]
ParseDef(d) ==
  LET x == name(d)
      after == FRequire(d, "NAME")
  IN  IF is(after, "=") THEN ParseConstantDef(skip(after), x)
      ELSE IF d.functionType # "" \/ after.err # "" THEN fail(after)
      ELSE IF d.pass = 1 THEN ParseFunctionDef_pass1(after, x) ELSE ParseFunctionDef_pass23(after, x)

-----------------------------------------------------------------------------
(* Statements.                                                             *)

let(r, value) == FRequire(statement(value.c, "Let", <<r.node, value.node>>), "EOL")
let_only(r) == IF is(r.c, "=") THEN let(r, ParseExpr(skip(r.c))) ELSE fail(r.c)
ParseLet(d) == let_only(ParsePrimary(d))
called(r) == statement(r.c, "Call", <<r.node>>)
let_or_call(r) == IF is(r.c, "=") THEN let(r, ParseExpr(skip(r.c))) ELSE FRequire(called(r), "EOL")
ParseImpliedLetOrFunctionCall(d) == let_or_call(ParsePrimary(d))

return(r) == FRequire(statement(r.c, "Return", <<r.node>>), "EOL")
ParseReturn(d) == IF is(d, "EOL") THEN statement(d, "Return", <<>>) ELSE return(ParseExpr(d))

(* The library functions that PRINT and INPUT call. *)
BuildHandlerFunctionCall(d, x, kids) ==
  IF x \notin DOMAIN d.globals \/ d.globals[x].type # "function" \/ Len(d.globals[x].params) # Len(kids)
  THEN failed(d) ELSE result(d, ast("FunctionCall", "integer", 0, x, Reverse(kids)))
BuildHandlerCall(d, x, kids) == called(BuildHandlerFunctionCall(d, x, kids))

behind_device(r) == [r EXCEPT !.c = FRequire(@, ",")]
device(d) == IF is(d, "#") THEN behind_device(ParseExpr(skip(d))) ELSE result(d, integer_lit(0))

RECURSIVE print_items(_, _, _), input_variables(_, _)
print_item(r, dev) ==
  IF IsPointer(r.node.type)
  THEN BuildHandlerCall(require(r.c, RValueType(r.node.type) = "byte"), "printStr", <<dev, r.node>>)
  ELSE BuildHandlerCall(require(r.c, IsIntegerType(r.node.type)), "printInt", <<dev, r.node>>)
print_items(d, dev, needNewline) ==
  IF is(d, "EOL") \/ d.err # "" THEN IF needNewline THEN BuildHandlerCall(d, "printNL", <<dev>>) ELSE d
  ELSE CASE is(d, ",") -> print_items(BuildHandlerCall(skip(d), "printTab", <<dev>>), dev, FALSE)
         [] is(d, ";") -> print_items(skip(d), dev, FALSE)
         [] OTHER      -> print_items(print_item(ParseExpr(d), dev), dev, TRUE)
print(dev) == print_items(dev.c, dev.node, TRUE)
ParsePrint(d) == print(device(d))

(* Whatever stands behind the variables of an INPUT is not looked at.      *)
input_variable(r, dev) ==
  LET read == BuildHandlerFunctionCall(r.c, "inputInt", <<dev>>) IN
  IF IsPointer(r.node.type) THEN BuildHandlerCall(r.c, "inputStr", <<dev, r.node>>)
  ELSE IF IsIntegerType(r.node.type) THEN statement(read.c, "Let", <<r.node, read.node>>)
  ELSE fail(r.c)
behind_variable(d, dev) == IF is(d, ",") /\ d.err = "" THEN input_variables(skip(d), dev) ELSE d
input_variables(d, dev) == behind_variable(input_variable(ParsePrimary(d), dev), dev)
prompted(r, dev) == FRequire(BuildHandlerCall(r.c, "printStr", <<dev, r.node>>), ";")
line_read(d, dev) == BuildHandlerCall(d, "inputGetLine", <<dev>>)
inputs(d, dev) == IF is(d, "NAME") THEN input_variables(d, dev) ELSE d
input(dev) ==
  inputs(line_read(IF is(dev.c, "STRING") THEN prompted(ParseExpr(dev.c), dev.node) ELSE dev.c, dev.node), dev.node)
ParseInput(d) == input(device(d))

-----------------------------------------------------------------------------
(* The generator. A place is where a value can be stored.                  *)

code_globalref(d, x) == opcode("OP_LIT") \o word(d.globals[x].v)
places == {"GlobalRef", "LocalRef", "ArrayRef"}

RECURSIVE code_rvalue(_, _), code_shortcircuit(_, _, _), lvalues(_)
code_arrayref(d, node) ==
  code_rvalue(d, node.kids[1]) \o code_rvalue(d, node.kids[2])
    \o opcode(IF RValueType(node.kids[1].type) = "byte" THEN "OP_ADD" ELSE "OP_INDEX")
code_local(o, node) == opcode(o) \o operand(node.v)
PV_REFERENCE(d, node) ==
  CASE node.k = "GlobalRef" -> code_globalref(d, node.s)
    [] node.k = "LocalRef"  -> <<>>
    [] node.k = "ArrayRef"  -> code_arrayref(d, node)
PV_LOAD(d, node) ==
  IF node.k = "LocalRef" THEN code_local("OP_LREF", node)
  ELSE PV_REFERENCE(d, node) \o opcode(IF node.k = "ArrayRef" /\ node.type = "byte" THEN "OP_LOADB" ELSE "OP_LOAD")
PV_STORE(d, node) ==
  IF node.k = "LocalRef" THEN code_local("OP_LSET", node)
  ELSE PV_REFERENCE(d, node) \o opcode(IF node.k = "ArrayRef" /\ node.type = "byte" THEN "OP_STOREB" ELSE "OP_STORE")

code_shortcircuit(d, o, entries) ==
  LET rest == code_shortcircuit(d, o, Tail(entries)) IN
  code_rvalue(d, entries[1])
    \o IF Len(entries) = 1 THEN <<>> ELSE opcode(o) \o word(Len(rest)) \o rest

code_rvalues(d, nodes) == FoldLeft(LAMBDA cells, n : cells \o code_rvalue(d, n), <<>>, nodes)
code_call(d, node) ==
  code_rvalues(d, node.kids) \o code_globalref(d, node.s) \o opcode("OP_PUSHJ")
    \o IF node.kids = <<>> THEN <<>> ELSE opcode("OP_CLEAN") \o operand(Len(node.kids))
code_addressof(d, node) ==
  IF node.type \in DOMAIN Pointers THEN code_rvalue(d, node) ELSE PV_REFERENCE(d, node)
code_literal(v) ==
  IF v \in -(2 ^ (ByteBits - 1)) .. 2 ^ (ByteBits - 1) - 1
  THEN opcode("OP_SLIT") \o operand(v) ELSE opcode("OP_LIT") \o word(v)

code_rvalue(d, node) ==
  CASE node.k \in places         -> PV_LOAD(d, node)
    [] node.k \in {"FunctionLit", "ArrayLit"} -> code_globalref(d, node.s)
    [] node.k = "StringLit"      -> opcode("OP_LIT") \o word(d.strings[node.s])
    [] node.k = "IntegerLit"     -> code_literal(node.v)
    [] node.k \in {"UnaryOp", "BinaryOp"} -> code_rvalues(d, node.kids) \o opcode(node.s)
    [] node.k = "FunctionCall"   -> code_call(d, node)
    [] node.k = "Disjunction"    -> code_shortcircuit(d, operators(OR)["OR"], node.kids)
    [] node.k = "Conjunction"    -> code_shortcircuit(d, operators(AND)["AND"], node.kids)
    [] node.k = "AddressOf"      -> code_addressof(d, node.kids[1])
    [] node.k = "Let"            -> code_rvalue(d, node.kids[2]) \o PV_STORE(d, node.kids[1])
    [] node.k = "Call"           -> code_rvalue(d, node.kids[1]) \o opcode("OP_DROP")
    [] node.k = "Return"         -> IF node.kids = <<>> THEN opcode("OP_RETURNZ")
                                    ELSE code_rvalue(d, node.kids[1]) \o opcode("OP_RETURN")

(* What code_lvalue is given in a tree.                                    *)
lvalues(node) ==
  (IF node.k = "Let" \/ (node.k = "AddressOf" /\ node.kids[1].type \notin DOMAIN Pointers)
   THEN {node.kids[1]} ELSE {})
  \cup UNION {lvalues(node.kids[i]) : i \in DOMAIN node.kids}
code_lvalue(d) == \A i \in DOMAIN d.nodes : \A n \in lvalues(d.nodes[i]) : n.k \in places

code_function_definition(d) ==
  IF d.functionType = "" THEN code_rvalues(d, d.nodes) \o opcode("OP_HALT")
  ELSE opcode("OP_FRAME") \o operand(F_SIZE + d.localOffset) \o code_rvalues(d, d.nodes) \o opcode("OP_RETURNZ")

-----------------------------------------------------------------------------
(* A pass, a line at a time.                                               *)

handler(params) == symbol("constant", "function", 0, "", params)
Start ==
  [ts |-> <<>>, err |-> "", pass |-> 1, functionType |-> "", nodes |-> <<>>,
   globals |-> [x \in {"TRUE", "FALSE"} |-> symbol("constant", "integer", IF x = "TRUE" THEN 1 ELSE 0, "", <<>>)],
   locals |-> <<>>, args |-> <<>>, argsOf |-> <<>>, params |-> <<>>, localOffset |-> 0,
   offset |-> [sec \in DOMAIN Base |-> 0], image |-> <<>>, strings |-> <<>>]

compiling == phase = "compile" /\ next <= Len(source)
unchanged == UNCHANGED <<source, vm, mem, pc, tos, sp, fp, stack, status, trap>>
go(d, cells) ==
  /\ IF d.err = "" THEN c' = [d EXCEPT !.ts = <<>>] /\ next' = next + 1 /\ UNCHANGED phase
     ELSE phase' = d.err /\ UNCHANGED <<c, next>>
  /\ code' = code \o cells
  /\ unchanged
line == [c EXCEPT !.ts = Tail(source[next])]
keyword(k) == compiling /\ source[next][1].t = k

Def == keyword("DEF") /\ go(ParseDef(line), <<>>)
Dim == keyword("DIM") /\ go(ParseDim(line), <<>>)

StoreCode(d) ==
  LET stored == require(d, code_lvalue(d)) IN
  go([stored EXCEPT !.functionType = "", !.locals = <<>>, !.args = <<>>, !.nodes = <<>>],
     IF stored.err = "" THEN code_function_definition(d) ELSE <<>>)
EndDef ==
  /\ keyword("END DEF")
  /\ IF c.functionType = "" THEN go(fail(c), <<>>)
     ELSE IF c.pass = 1 THEN go([c EXCEPT !.functionType = "", !.args = <<>>], <<>>)
     ELSE StoreCode(c)

Statement ==
  /\ compiling /\ source[next][1].t \notin {"DEF", "DIM", "END DEF"}
  /\ go(CASE c.pass = 1         -> c
          [] keyword("LET")     -> ParseLet(line)
          [] keyword("RETURN")  -> ParseReturn(line)
          [] keyword("PRINT")   -> ParsePrint(line)
          [] keyword("INPUT")   -> ParseInput(line)
          [] OTHER              -> ParseImpliedLetOrFunctionCall([c EXCEPT !.ts = source[next]]),
        <<>>)

EndPass ==
  /\ phase = "compile" /\ next = Len(source) + 1 /\ c.pass = 1
  /\ c' = [c EXCEPT !.pass = 2] /\ next' = 1
  /\ UNCHANGED <<phase, code>> /\ unchanged
=============================================================================
