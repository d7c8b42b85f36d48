--------------------------- MODULE StructuredCode ---------------------------
(***************************************************************************)
(* The statements of one function: the parser builds a tree with a stack   *)
(* of open blocks, the generator turns the tree into code, linking the     *)
(* branches it cannot place yet through their offset words, and a virtual  *)
(* machine runs the code.                                                  *)
(*                                                                         *)
(* Of the expressions only the place matters: a test and the selector of a *)
(* SELECT read a character, a bound or a case is a literal. A "mark" is an *)
(* ASM statement that puts the number of its line.                         *)
(***************************************************************************)
EXTENDS StackVM, SequencesExt

CONSTANTS
  Label,       \* names of labels
  Vars,        \* the control variables, in the order of their DIM
  MaxBlocks,   \* entries of the block stack
  Bodies,      \* what is compiled: "def", a function that main calls, or "main"
               \* itself, and its lines
  VMs          \* the machines that run the code

VARIABLES
  kind, body,
  phase,       \* "parse", "generate", "run" or "error"
  next,        \* the line that comes next
  tree,        \* the node of each line; 0 is the function
  blocks,      \* the open blocks: type, node and the list that grows
  labels       \* the label table: state, offset and fixups of each label

parser == <<kind, body, phase, next, tree, blocks, labels>>
here == body[next]

empty == [kind |-> "none", line |-> 0, body |-> <<>>, alt |-> <<>>]
StartFunction ==
  /\ phase = "parse" /\ next = 1
  /\ tree = [i \in 0 .. Len(body) |-> [empty EXCEPT !.kind = IF i = 0 THEN kind ELSE "none"]]
  /\ blocks = <<[type |-> "BLOCK_FUNCTION", node |-> 0, field |-> "body"]>>
  /\ labels = [l \in Label |-> [state |-> "LS_NONE", offset |-> 0, fixups |-> 0]]

-----------------------------------------------------------------------------
(* The parser, a line at a time.                                           *)

line(k) == phase = "parse" /\ next <= Len(body) /\ here.k = k
top == Last(blocks)
advance == next' = next + 1 /\ UNCHANGED <<kind, body>>
fail == phase' = "error" /\ UNCHANGED <<kind, body, next, tree, blocks, labels>>

node(k) == [empty EXCEPT !.kind = k, !.line = next]
NewParseTreeNode(k, block) ==
  [tree EXCEPT ![block.node] = [@ EXCEPT ![block.field] = Append(@, next)], ![next] = node(k)]
statement(k) ==
  tree' = NewParseTreeNode(k, top) /\ advance /\ UNCHANGED <<phase, blocks, labels>>
PushBlock(type, field, t, stack0) ==
  IF Len(stack0) = MaxBlocks THEN fail
  ELSE /\ blocks' = Append(stack0, [type |-> type, node |-> next, field |-> field])
       /\ tree' = t /\ advance /\ UNCHANGED <<phase, labels>>
open(k, type) == PushBlock(type, "body", NewParseTreeNode(k, top), blocks)
PopBlock == blocks' = Front(blocks) /\ advance /\ UNCHANGED <<phase, labels>>
close(types) ==
  IF top.type \in types THEN PopBlock /\ UNCHANGED tree ELSE fail

ParseAsm == line("mark") /\ statement("asm")
ParseImpliedLetOrFunctionCall == line("call") /\ statement("call")
ParseReturn == line("return") /\ statement("return")
ParseEnd == line("end") /\ statement("end")

ParseIf == line("if") /\ open("if", "BLOCK_IF")
ParseElseIf ==
  /\ line("elseif")
  /\ IF top.type = "BLOCK_IF"
     THEN /\ tree' = NewParseTreeNode("if", [top EXCEPT !.field = "alt"])
          /\ blocks' = Append(Front(blocks), [top EXCEPT !.node = next, !.field = "body"])
          /\ advance /\ UNCHANGED <<phase, labels>>
     ELSE fail
ParseElse_again ==
  /\ line("else")
  /\ IF top.type \in {"BLOCK_IF", "BLOCK_ELSE"}
     THEN /\ blocks' = Append(Front(blocks), [top EXCEPT !.type = "BLOCK_ELSE", !.field = "alt"])
          /\ advance /\ UNCHANGED <<phase, tree, labels>>
     ELSE fail
ParseElse ==
  /\ line("else")
  /\ IF top.type = "BLOCK_IF"
     THEN /\ blocks' = Append(Front(blocks), [top EXCEPT !.type = "BLOCK_ELSE", !.field = "alt"])
          /\ advance /\ UNCHANGED <<phase, tree, labels>>
     ELSE fail
ParseEndIf == line("endif") /\ close({"BLOCK_IF", "BLOCK_ELSE"})

(* A CASE closes the one before it. CASE ELSE is kept apart from the list. *)
outer == IF top.type = "BLOCK_CASE" THEN Front(blocks) ELSE blocks
ParseSelect == line("select") /\ open("select", "BLOCK_SELECT")
ParseCase ==
  /\ line("case")
  /\ IF Last(outer).type # "BLOCK_SELECT" THEN fail
     ELSE PushBlock("BLOCK_CASE", "body", NewParseTreeNode("case", Last(outer)), outer)
ParseCaseElse ==
  /\ line("caseelse")
  /\ IF Last(outer).type # "BLOCK_SELECT" \/ tree[Last(outer).node].alt # <<>> THEN fail
     ELSE PushBlock("BLOCK_CASE", "body",
                    NewParseTreeNode("caseelse", [Last(outer) EXCEPT !.field = "alt"]), outer)
ParseEndSelect ==
  /\ line("endselect")
  /\ IF Last(outer).type # "BLOCK_SELECT" THEN fail
     ELSE blocks' = Front(outer) /\ advance /\ UNCHANGED <<phase, tree, labels>>

ParseFor == line("for") /\ open("for", "BLOCK_FOR")
ParseNext == line("next") /\ close({"BLOCK_FOR"})

ParseDo == line("do") /\ open("loop", "BLOCK_DO")
ParseDoWhile == line("dowhile") /\ open("dowhile", "BLOCK_DO")
ParseDoUntil == line("dountil") /\ open("dountil", "BLOCK_DO")
ParseLoop == line("loop") /\ close({"BLOCK_DO"})
bottom_test(k) ==
  IF top.type = "BLOCK_DO" /\ tree[top.node].kind = "loop"
  THEN tree' = [tree EXCEPT ![top.node].kind = k] /\ PopBlock
  ELSE fail
ParseLoopWhile == line("loopwhile") /\ bottom_test("loopwhile")
ParseLoopUntil == line("loopuntil") /\ bottom_test("loopuntil")

(* A label that a GOTO has brought into the table stays LS_UNDEFINED.      *)
DefineLabel ==
  /\ line("label")
  /\ IF labels[here.name].state = "LS_DEFINED" THEN fail
     ELSE /\ labels' = [labels EXCEPT ![here.name].state =
                          IF @ = "LS_NONE" THEN "LS_DEFINED" ELSE @]
          /\ tree' = NewParseTreeNode("label", top)
          /\ advance /\ UNCHANGED <<phase, blocks>>
ParseGoto ==
  /\ line("goto")
  /\ labels' = [labels EXCEPT ![here.name].state = IF @ = "LS_NONE" THEN "LS_UNDEFINED" ELSE @]
  /\ tree' = NewParseTreeNode("goto", top)
  /\ advance /\ UNCHANGED <<phase, blocks>>

(* CheckLabels comes before code is generated, when nothing is linked. *)
CheckLabels == \A l \in Label : labels[l].fixups = 0
EndFunction ==
  /\ phase = "parse" /\ next = Len(body) + 1
  /\ IF top.type = "BLOCK_FUNCTION" /\ CheckLabels
     THEN /\ phase' = "generate" /\ blocks' = Front(blocks)
          /\ UNCHANGED <<kind, body, next, tree, labels>>
     ELSE fail

ParseStatement ==
  \/ ParseAsm \/ ParseImpliedLetOrFunctionCall \/ ParseReturn \/ ParseEnd
  \/ ParseIf \/ ParseElseIf \/ ParseElse \/ ParseEndIf
  \/ ParseSelect \/ ParseCase \/ ParseCaseElse \/ ParseEndSelect
  \/ ParseFor \/ ParseNext
  \/ ParseDo \/ ParseDoWhile \/ ParseDoUntil \/ ParseLoop \/ ParseLoopWhile \/ ParseLoopUntil
  \/ DefineLabel \/ ParseGoto

-----------------------------------------------------------------------------
(* The generator. Its state g: the code so far, the label table and the    *)
(* branches out of the SELECT statements it is in.                         *)

codeaddr(g) == Len(g.code)
rd_cword(cells, off) == cells[off + 1].arg
wr_cword(cells, off, w) == [cells EXCEPT ![off + 1].arg = w]

put(g, cells) == [g EXCEPT !.code = @ \o cells]
branch(g, o, chn) == put(g, opcode(o) \o word(chn))
branch_back(g, o, target) == branch(g, o, target - codeaddr(g) - 1 - WordSize)
link(g) == codeaddr(g) - WordSize        \* the word of the branch just made

(* The offset words on a chain, and what becomes of them. *)
chain(cells, head) ==
  LET from[o \in 0 .. Len(cells)] == IF o = 0 THEN <<>> ELSE <<o>> \o from[rd_cword(cells, o)]
  IN  from[head]
fixupbranch(g, chn) ==
  [g EXCEPT !.code = FoldLeft(LAMBDA cs, o : wr_cword(cs, o, codeaddr(g) - (o + WordSize)),
                              @, chain(@, chn))]
merge_lost(g, chn, chn2) ==
  [g EXCEPT !.select = Append(Front(@), [Last(@) EXCEPT !.nxt = IF chn2 = 0 THEN chn ELSE chn2])]
merge(g, chn, chn2) ==
  IF chn2 = 0 THEN [g EXCEPT !.select = Append(Front(@), [Last(@) EXCEPT !.nxt = chn])]
  ELSE [g EXCEPT !.code = wr_cword(@, Last(chain(@, chn2)), chn),
                 !.select = Append(Front(@), [Last(@) EXCEPT !.nxt = chn2])]

code_read == opcode("OP_TRAP") \o operand(TRAP_GetChar)
code_literal(v) == opcode("OP_SLIT") \o operand(v)
position(x) == CHOOSE i \in DOMAIN Vars : Vars[i] = x
code_local(o, x) == opcode(o) \o operand(-F_SIZE - (position(x) - 1) - 1)
code_global(o, x) == opcode("OP_LIT") \o word((position(x) - 1) * WordSize) \o opcode(o)
PV_LOAD(x) == IF kind = "def" THEN code_local("OP_LREF", x) ELSE code_global("OP_LOAD", x)
PV_STORE(x) == IF kind = "def" THEN code_local("OP_LSET", x) ELSE code_global("OP_STORE", x)

Harness == IF kind = "def" THEN WordSize + 4 ELSE 0      \* where the function begins
code_call == opcode("OP_LIT") \o word(Harness) \o opcode("OP_PUSHJ")

(* The tests of one CASE. st: the code, the link of a failed lower bound   *)
(* and the chain of the entries that lead to the body.                     *)
code_entry(st, entry, isLast) ==
  LET placed == fixupbranch(st.g, st.alt)
      lower == put(placed, opcode("OP_DUP") \o code_literal(entry.from))
      ranged == branch(put(lower, opcode("OP_GE")), "OP_BRF", 0)
      tested == IF entry.range
                THEN put(ranged, opcode("OP_DUP") \o code_literal(entry.to) \o opcode("OP_LE"))
                ELSE put(lower, opcode("OP_EQ"))
      alt == IF entry.range THEN link(ranged) ELSE 0
      more == branch(tested, "OP_BRT", st.body)
      out == branch(tested, "OP_BRF", Last(st.g.select).nxt)
  IN  IF isLast THEN [g |-> merge(out, link(out), alt), alt |-> alt, body |-> st.body]
      ELSE [g |-> more, alt |-> alt, body |-> link(more)]
code_entries(g, entries) ==
  FoldLeft(LAMBDA st, i : code_entry(st, entries[i], i = Len(entries)),
           [g |-> g, alt |-> 0, body |-> 0], [i \in DOMAIN entries |-> i])

RECURSIVE code_expr(_, _)
code_statement_list(g, nodes) == FoldLeft(LAMBDA h, n : code_expr(h, n), g, nodes)

code_if_statement(g, n) ==
  LET test == branch(put(g, code_read), "OP_BRF", 0)
      then == branch(code_statement_list(test, n.body), "OP_BR", 0)
      else == code_statement_list(fixupbranch(then, link(test)), n.alt)
  IN  fixupbranch(else, link(then))

code_case_statement_kept(g, n) ==
  LET placed == fixupbranch(g, Last(g.select).nxt)
      unlinked == [placed EXCEPT !.select = Append(Front(@), [Last(@) EXCEPT !.nxt = 0])]
      tests == code_entries(unlinked, body[n.line].entries)
      start == put(fixupbranch(tests.g, tests.body), opcode("OP_DROP"))
      end == branch(code_statement_list(start, n.body), "OP_BR", Last(start.select).end)
  IN  IF n.kind = "case"
      THEN [end EXCEPT !.select = Append(Front(@), [Last(@) EXCEPT !.end = link(end)])]
      ELSE code_statement_list(unlinked, n.body)
code_case_statement(g, n) ==
  LET placed == fixupbranch(g, Last(g.select).nxt)
      unlinked == [placed EXCEPT !.select = Append(Front(@), [Last(@) EXCEPT !.nxt = 0])]
      tests == code_entries(unlinked, body[n.line].entries)
      start == put(fixupbranch(tests.g, tests.body), opcode("OP_DROP"))
      end == branch(code_statement_list(start, n.body), "OP_BR", Last(start.select).end)
  IN  IF n.kind = "case"
      THEN [end EXCEPT !.select = Append(Front(@), [Last(@) EXCEPT !.end = link(end)])]
      ELSE code_statement_list(put(unlinked, opcode("OP_DROP")), n.body)

code_select_statement(g, n) ==
  LET pushed == [put(g, code_read) EXCEPT !.select = Append(@, [nxt |-> 0, end |-> 0])]
      cases == code_statement_list(pushed, n.body)
      none == put(fixupbranch(cases, Last(cases.select).nxt), opcode("OP_DROP"))
      all == IF n.alt # <<>> THEN code_expr(cases, n.alt[1]) ELSE none
  IN  [fixupbranch(all, Last(all.select).end) EXCEPT !.select = Front(@)]

code_for_statement_still(g, n) ==
  LET f == body[n.line]
      start == branch(put(g, code_literal(f.from)), "OP_BR", 0)
      loop == put(code_statement_list(start, n.body), PV_LOAD(f.var))
      test == put(fixupbranch(loop, link(start)),
                  opcode("OP_DUP") \o PV_STORE(f.var) \o code_literal(f.to) \o opcode("OP_LE"))
  IN  branch_back(test, "OP_BRT", codeaddr(start))
code_for_statement(g, n) ==
  LET f == body[n.line]
      start == branch(put(g, code_literal(f.from)), "OP_BR", 0)
      loop == put(code_statement_list(start, n.body),
                  PV_LOAD(f.var) \o code_literal(f.step) \o opcode("OP_ADD"))
      test == put(fixupbranch(loop, link(start)),
                  opcode("OP_DUP") \o PV_STORE(f.var) \o code_literal(f.to) \o opcode("OP_LE"))
  IN  branch_back(test, "OP_BRT", codeaddr(start))

top_tested(g, n, o) ==
  LET start == branch(g, "OP_BR", 0)
      loop == code_statement_list(start, n.body)
  IN  branch_back(put(fixupbranch(loop, link(start)), code_read), o, codeaddr(start))
code_do_while_statement(g, n) == top_tested(g, n, "OP_BRT")
code_do_until_statement(g, n) == top_tested(g, n, "OP_BRF")
code_loop_statement(g, n) == branch_back(code_statement_list(g, n.body), "OP_BR", codeaddr(g))
code_loop_while_statement(g, n) ==
  branch_back(put(code_statement_list(g, n.body), code_read), "OP_BRT", codeaddr(g))
code_loop_until_statement(g, n) ==
  branch_back(put(code_statement_list(g, n.body), code_read), "OP_BRF", codeaddr(g))

code_label_definition(g, n) ==
  LET l == body[n.line].name IN
  [fixupbranch(g, g.labels[l].fixups) EXCEPT
     !.labels[l] = [state |-> "LS_PLACED", offset |-> codeaddr(g), fixups |-> 0]]
code_goto_statement(g, n) ==
  LET l == body[n.line].name
      back == branch_back(g, "OP_BR", g.labels[l].offset)
      ahead == branch(g, "OP_BR", g.labels[l].fixups)
  IN  IF g.labels[l].state = "LS_PLACED" THEN back
      ELSE [ahead EXCEPT !.labels[l].fixups = link(ahead)]

code_expr(g, i) ==
  LET n == tree[i] IN
  CASE n.kind = "asm"       -> put(g, code_literal(i) \o opcode("OP_TRAP") \o operand(TRAP_PutChar))
    [] n.kind = "call"      -> put(g, code_call \o opcode("OP_DROP"))
    [] n.kind = "return"    -> put(g, opcode("OP_RETURNZ"))
    [] n.kind = "end"       -> put(g, opcode("OP_HALT"))
    [] n.kind = "if"        -> code_if_statement(g, n)
    [] n.kind = "select"    -> code_select_statement(g, n)
    [] n.kind \in {"case", "caseelse"} -> code_case_statement(g, n)
    [] n.kind = "for"       -> code_for_statement(g, n)
    [] n.kind = "dowhile"   -> code_do_while_statement(g, n)
    [] n.kind = "dountil"   -> code_do_until_statement(g, n)
    [] n.kind = "loop"      -> code_loop_statement(g, n)
    [] n.kind = "loopwhile" -> code_loop_while_statement(g, n)
    [] n.kind = "loopuntil" -> code_loop_until_statement(g, n)
    [] n.kind = "label"     -> code_label_definition(g, n)
    [] n.kind = "goto"      -> code_goto_statement(g, n)

code_function_definition ==
  LET g == [code |-> <<>>, labels |-> labels, select |-> <<>>]
      framed == put(g, opcode("OP_FRAME") \o operand(F_SIZE + Len(Vars)))
  IN  IF kind = "def" THEN put(code_statement_list(framed, tree[0].body), opcode("OP_RETURNZ"))
      ELSE put(code_statement_list(g, tree[0].body), opcode("OP_HALT"))

(* Generate, and StoreCode behind the code of a main program that calls    *)
(* the function.                                                           *)
Generate ==
  LET g == code_function_definition
      main == IF kind = "def" THEN code_call \o opcode("OP_DROP") \o opcode("OP_HALT") ELSE <<>>
  IN  /\ phase = "generate"
      /\ phase' = "run"
      /\ code' = main \o g.code
      /\ labels' = g.labels
      /\ UNCHANGED <<kind, body, next, tree, blocks, vm, mem, pc, tos, sp, fp, stack, status, trap>>
=============================================================================
