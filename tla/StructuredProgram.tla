-------------------------- MODULE StructuredProgram --------------------------
(***************************************************************************)
(* What the lines of a function mean, told from the lines alone, beside    *)
(* what becomes of them: the meaning takes a step whenever the machine     *)
(* reads or writes a character, and says what the machine does next.       *)
(***************************************************************************)
EXTENDS StructuredCode, FiniteSetsExt

CONSTANT Fuel    \* lines that pass without a character before the meaning is "none"

VARIABLE meaning    \* the frames of the source, and the event that comes next

vars == <<machine, parser, meaning>>

-----------------------------------------------------------------------------
(* The shape of the lines.                                                 *)

Opens == {"if", "select", "for", "do", "dowhile", "dountil"}
Closes(k) ==
  CASE k = "if" -> {"endif"}
    [] k = "select" -> {"endselect"}
    [] k = "for" -> {"next"}
    [] k = "do" -> {"loop", "loopwhile", "loopuntil"}
    [] k \in {"dowhile", "dountil"} -> {"loop"}
Ends == {"endif", "endselect", "next", "loop", "loopwhile", "loopuntil"}
k(i) == IF i \in DOMAIN body THEN body[i].k ELSE "none"

(* How many blocks opened at i or later are open after line j.             *)
depth(i, j) ==
  FoldLeft(LAMBDA d, s : IF s.k \in Opens THEN d + 1 ELSE IF s.k \in Ends THEN d - 1 ELSE d,
           0, SubSeq(body, i, j))
end(i) == Min({j \in i .. Len(body) : depth(i, j) = 0})
begin(j) == Max({i \in 1 .. j : k(i) \in Opens /\ depth(i, j) = 0})
clauses(i) ==
  {j \in i .. end(i) : depth(i, j) = 1 /\ k(j) \in {"elseif", "else", "case", "caseelse"}}
clause_block(j) == Max({i \in 1 .. j : k(i) \in {"if", "select"} /\ j \in clauses(i)})

(* A list of statements, with every block closed by its own end, ELSE last *)
(* in its IF and one CASE ELSE at most.                                    *)
RECURSIVE IsList(_, _)
IsBlock(i, j) ==
  /\ k(j) \in Closes(k(i))
  /\ LET cs == clauses(i)
         cuts == {i, j} \cup cs
         part(c) == IsList(c + 1, Min({d \in cuts : d > c}) - 1)
     IN  CASE k(i) = "if" ->
                /\ \A c \in cs : k(c) \in {"elseif", "else"}
                /\ \A c \in cs : k(c) = "else" => c = Max(cs)
                /\ \A c \in cuts \ {j} : part(c)
           [] k(i) = "select" ->
                /\ \A c \in cs : k(c) \in {"case", "caseelse"}
                /\ \A c, d \in cs : k(c) = "caseelse" /\ k(d) = "caseelse" => c = d
                /\ \A c \in cuts \ {j} : part(c)
           [] OTHER -> cs = {} /\ IsList(i + 1, j - 1)
IsList(i, j) ==
  \/ i > j
  \/ k(i) \notin Opens \cup Ends \cup {"elseif", "else", "case", "caseelse"} /\ IsList(i + 1, j)
  \/ /\ k(i) \in Opens
     /\ \E e \in i + 1 .. j : depth(i, e) = 0 /\ e = end(i) /\ IsBlock(i, e) /\ IsList(e + 1, j)

(* The clause of a SELECT that a value selects. *)
matches(c, v) ==
  \E e \in ToSet(body[c].entries) : IF e.range THEN e.from <= v /\ v <= e.to ELSE v = e.from
selected(i, v) ==
  LET hits == {c \in clauses(i) : k(c) = "case" /\ matches(c, v)}
      others == {c \in clauses(i) : k(c) = "caseelse"}
  IN  IF hits # {} THEN Min(hits) ELSE IF others # {} THEN Min(others) ELSE end(i)

-----------------------------------------------------------------------------
(* The meaning: frames of [at, env], the line that runs and the control    *)
(* variables. Lines that read or write nothing pass by themselves.         *)

event(e, i) == [kind |-> e, line |-> i]
start == [at |-> 1, env |-> [x \in ToSet(Vars) |-> 0]]
jump(fs, i) == Append(Front(fs), [Last(fs) EXCEPT !.at = i])
loop_test(fs, i, env) ==      \* FOR at line i, with the variable in env
  jump(Append(Front(fs), [Last(fs) EXCEPT !.env = env]),
       IF env[body[i].var] <= body[i].to THEN i + 1 ELSE end(i) + 1)

RECURSIVE settle(_, _)
settle(fs, fuel) ==
  LET f == Last(fs)
      i == f.at
      go(j) == settle(jump(fs, j), fuel - 1)
  IN  IF fs = <<>> THEN [frames |-> fs, next |-> event("halt", 0)]
      ELSE IF fuel = 0 THEN [frames |-> fs, next |-> event("none", 0)]
      ELSE IF i > Len(body)
      THEN IF kind = "main" THEN [frames |-> fs, next |-> event("halt", 0)]
           ELSE settle(Front(fs), fuel - 1)
      ELSE CASE k(i) = "mark" -> [frames |-> fs, next |-> event("put", i)]
             [] k(i) \in {"if", "select", "dowhile", "dountil", "loopwhile", "loopuntil"} ->
                  [frames |-> fs, next |-> event("get", i)]
             [] k(i) = "end" -> [frames |-> fs, next |-> event("halt", 0)]
             [] k(i) = "return" -> settle(Front(fs), fuel - 1)
             [] k(i) = "call" -> settle(Append(jump(fs, i + 1), start), fuel - 1)
             [] k(i) \in {"elseif", "else", "case", "caseelse"} -> go(end(clause_block(i)) + 1)
             [] k(i) = "for" ->
                  settle(loop_test(fs, i, [f.env EXCEPT ![body[i].var] = body[i].from]), fuel - 1)
             [] k(i) = "next" ->
                  LET b == begin(i) IN
                  settle(loop_test(fs, b, [f.env EXCEPT ![body[b].var] = @ + body[b].step]), fuel - 1)
             [] k(i) = "loop" -> go(IF k(begin(i)) = "do" THEN begin(i) + 1 ELSE begin(i))
             [] k(i) = "goto" -> go(CHOOSE j \in DOMAIN body : k(j) = "label" /\ body[j].name = body[i].name)
             [] OTHER -> go(i + 1)

(* Where a test that read v leads. A test of ELSE IF is the next one to    *)
(* read when the tests before it fail.                                     *)
after_test(fs, i, v) ==
  LET later == {c \in clauses(clause_block(i)) : c > i}
      failed == IF k(i) = "if" THEN clauses(i) ELSE later
      after == IF k(i) = "if" THEN end(i) ELSE end(clause_block(i))
  IN  CASE k(i) \in {"if", "elseif"} ->
             IF v # 0 THEN settle(jump(fs, i + 1), Fuel)
             ELSE IF failed = {} THEN settle(jump(fs, after + 1), Fuel)
             ELSE IF k(Min(failed)) = "elseif"
             THEN [frames |-> jump(fs, Min(failed)), next |-> event("get", Min(failed))]
             ELSE settle(jump(fs, Min(failed) + 1), Fuel)
        [] k(i) = "select" -> settle(jump(fs, selected(i, v) + 1), Fuel)
        [] k(i) \in {"dowhile", "dountil"} ->
             settle(jump(fs, IF (v # 0) = (k(i) = "dowhile") THEN i + 1 ELSE end(i) + 1), Fuel)
        [] k(i) \in {"loopwhile", "loopuntil"} ->
             settle(jump(fs, IF (v # 0) = (k(i) = "loopwhile") THEN begin(i) + 1 ELSE i + 1), Fuel)
        [] OTHER -> [frames |-> fs, next |-> event("none", 0)]

-----------------------------------------------------------------------------
Init ==
  /\ \E b \in Bodies : kind = b[1] /\ body = b[2]
  /\ vm \in VMs
  /\ phase = "parse" /\ next = 1
  /\ StartFunction
  /\ code = <<>> /\ mem = [a \in {(i - 1) * WordSize : i \in DOMAIN Vars} |-> 0]
  /\ Started(0)
  /\ meaning = [frames |-> <<>>, next |-> event("none", 0)]

Parse == (ParseStatement \/ EndFunction) /\ UNCHANGED <<machine, meaning>>
Translate == Generate /\ meaning' = settle(<<start>>, Fuel)
at_trap == phase = "run" /\ at({"OP_TRAP"})
Execute == phase = "run" /\ Instruction
Run ==
  /\ Execute
  /\ meaning' =
       IF ~at_trap \/ meaning.next.line = 0 THEN meaning
       ELSE IF imm = TRAP_GetChar THEN after_test(meaning.frames, meaning.next.line, tos')
       ELSE settle(jump(meaning.frames, meaning.next.line + 1), Fuel)
  /\ UNCHANGED parser

Next == Parse \/ Translate \/ Run
(* The machine keeps running; every Execute of a behaviour is a Run.       *)
Spec == Init /\ [][Next]_vars /\ WF_machine(Execute)

-----------------------------------------------------------------------------
(* Properties.                                                             *)

(* The parser accepts exactly the bodies whose blocks are nested, as far   *)
(* as they fit in its block stack: it closes the right block each time.    *)
around(j) == {i \in 1 .. j : k(i) \in Opens /\ end(i) > j}
TooDeep ==
  \E j \in DOMAIN body :
    1 + Cardinality(around(j))
      + Cardinality({i \in around(j) : k(i) = "select" /\ \E c \in clauses(i) : c <= j}) > MaxBlocks
AcceptsNestedBodies ==
  /\ Len(blocks) <= MaxBlocks
  /\ phase = "generate" => IsList(1, Len(body)) /\ ~TooDeep
  /\ phase = "error" => ~IsList(1, Len(body)) \/ TooDeep

(* When the machine reads or writes a character, or halts, that is what    *)
(* the source does next: every branch of every statement goes to the code  *)
(* of the line it has to.                                                  *)
FollowsTheSource ==
  phase = "run" /\ running =>
    /\ pc \in 0 .. Len(code) - 1 /\ op \in Opcodes
    /\ op = "OP_TRAP" /\ imm = TRAP_GetChar => meaning.next.kind = "get"
    /\ op = "OP_TRAP" /\ imm = TRAP_PutChar => meaning.next = event("put", tos)
    /\ op = "OP_HALT" => meaning.next.kind = "halt"

(* A statement leaves the stack as it found it, whichever way it is left:  *)
(* when a mark is written the stack holds its number and the frames.       *)
StatementsBalance ==
  at_trap /\ imm = TRAP_PutChar =>
    sp = (IF kind = "def" THEN fp - F_SIZE - Len(Vars) ELSE StackSize) - 1

(* The source never waits for the machine: as long as it has something to  *)
(* do next the machine gets there, unless calls exhaust the stack.         *)
GetsThere ==
  phase = "run" /\ running /\ meaning.next.kind # "none" ~> at({"OP_TRAP", "OP_HALT"}) \/ ~running

(* EndFunction makes sure that all referenced labels were defined, and     *)
(* DefineLabel that none is defined twice: the parser accepts no other     *)
(* body.                                                                   *)
definitions(l) == {i \in DOMAIN body : k(i) = "label" /\ body[i].name = l}
LabelsAreChecked ==
  phase = "generate" =>
    /\ \A i \in DOMAIN body : k(i) = "goto" => definitions(body[i].name) # {}
    /\ \A l \in Label : Cardinality(definitions(l)) <= 1
=============================================================================
