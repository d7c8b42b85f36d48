------------------------------ MODULE Compiler ------------------------------
(***************************************************************************)
(* The three passes of the compiler over a source program: definitions,    *)
(* dependencies, code.  It keeps its state in one parse context c, as the  *)
(* source does, and handles one line of the program per step.  Of a        *)
(* statement only the function, variable or string that it refers to is    *)
(* kept: it becomes an instruction and a word that must become the address *)
(* of what is meant, wherever that ends up.                                *)
(***************************************************************************)
EXTENDS Integers, Sequences, FiniteSets, SequencesExt

CONSTANTS
  Function, Variable, String,   \* names
  TextBase, DataBase,           \* addresses of the two sections
  Programs                      \* the programs that are compiled

VARIABLES
  program,   \* the lines of the source
  line,      \* the line to read next
  c          \* the parse context

vars == <<program, line, c>>

Global == Function \cup Variable
Name   == Global \cup String
NONE   == "none"
MAIN   == "main"       \* c.function while the main function is parsed

def(f)       == [kind |-> "def", name |-> f]
enddef       == [kind |-> "enddef"]
dim(v, init) == [kind |-> "dim", name |-> v, init |-> init]
use(n)       == [kind |-> "use", name |-> n]

Line == {def(f) : f \in Function} \cup {dim(v, b) : v \in Variable, b \in BOOLEAN}
          \cup {use(n) : n \in Name} \cup {enddef}

(* A name is that of a function because the program defines one.           *)
ASSUME ProgramsAssumption ==
  /\ Programs \subseteq Seq(Line)
  /\ \A p \in Programs : \A f \in Function :
       (\E i \in DOMAIN p : p[i] = use(f)) => \E i \in DOMAIN p : p[i] = def(f)

ASSUME NamesAssumption ==
  /\ IsFiniteSet(Global)
  /\ Function \cap Variable = {} /\ Global \cap String = {}
  /\ {NONE, MAIN} \cap Function = {}
  /\ TextBase \in Nat /\ DataBase \in Nat

UNDEF == -1      \* an offset that is not known yet

(* Contents of code and sections, next to the words. *)
OPCODE == -1
FRAME  == -2
DATA   == -3
Cell   == Nat \cup {OPCODE, FRAME, DATA}

rd_cword(cells, off) == cells[off + 1]
(* Each of words is an offset and what is written there.                   *)
wr_cword(cells, words) ==
  [j \in DOMAIN cells |->
     LET here == {w \in words : w[1] = j - 1}
     IN  IF here = {} THEN cells[j] ELSE (CHOOSE w \in here : TRUE)[2]]

(* The text section begins with the header of the image. *)
Init ==
  /\ program \in Programs
  /\ line = 1
  /\ c = [pass |-> 1, status |-> "compiling", mainState |-> "not_defined",
          functionType |-> NONE, function |-> NONE, tree |-> <<>>, intact |-> TRUE,
          dependencies |-> {}, functionDependencies |-> [f \in Function |-> {}],
          mainDependencies |-> {},
          globals |-> {}, offset |-> [n \in Global |-> UNDEF], fixups |-> [n \in Global |-> 0],
          strings |-> [s \in String |-> UNDEF],
          codeBuf |-> <<>>, symbolFixups |-> [n \in Global |-> 0],
          text |-> <<DATA>>, data |-> 0, mainCode |-> UNDEF,
          words |-> {}]     \* history: where in text the address of what is wanted

error(d)      == [d EXCEPT !.status = "error"]
(* The C code goes on with freed memory or a null pointer. *)
undefined(d)  == [d EXCEPT !.status = "undefined"]

-----------------------------------------------------------------------------
(* Symbols, dependencies and code.                                         *)

address(d, n) ==
  IF n \in String THEN TextBase + d.strings[n]
  ELSE (IF n \in Function THEN TextBase ELSE DataBase) + d.offset[n]

AddGlobalSymbol(d, n) ==
  IF n \in d.globals THEN error(d)
  ELSE IF n \in Function THEN [d EXCEPT !.globals = @ \cup {n}]
  ELSE [d EXCEPT !.globals = @ \cup {n}, !.offset[n] = d.data, !.data = @ + 1]

AddDependency(d, n) ==
  IF d.pass = 2 THEN [d EXCEPT !.dependencies = @ \cup {n}] ELSE d

(* A name that nobody declared is a new variable. *)
GetSymbolRef(d, n) ==
  IF n \in String THEN d
  ELSE AddDependency(IF n \in d.globals THEN d ELSE AddGlobalSymbol(d, n), n)

codeaddr(d) == Len(d.codeBuf)
put(d, w)   == [d EXCEPT !.codeBuf = Append(@, w)]

AddStringRef(d, s) ==
  IF d.strings[s] # UNDEF THEN d
  ELSE [d EXCEPT !.strings[s] = Len(d.text), !.text = Append(@, DATA)]

(* The words that wait for an address are linked, the last one first. *)
AddLocalSymbolFixup_unlinked(d, n) ==
  [put(d, 0) EXCEPT !.symbolFixups[n] = codeaddr(d)]
AddLocalSymbolFixup(d, n) ==
  [put(d, d.symbolFixups[n]) EXCEPT !.symbolFixups[n] = codeaddr(d)]

code_globalref(d, n) ==
  IF d.offset[n] = UNDEF THEN AddLocalSymbolFixup(d, n) ELSE put(d, address(d, n))

code_expr(d, n) ==
  LET o == put(d, OPCODE)
      s == AddStringRef(o, n)
  IN  IF n \in String THEN put(s, address(s, n)) ELSE code_globalref(o, n)

(* Only a named function sets up a frame. *)
prologue(d) == IF d.functionType = NONE THEN <<>> ELSE <<FRAME>>

Generate(d) ==
  LET after[i \in 0 .. Len(d.tree)] ==
        IF i = 0 THEN [d EXCEPT !.codeBuf = prologue(d)] ELSE code_expr(after[i - 1], d.tree[i])
  IN  put(after[Len(d.tree)], OPCODE)

(* The offsets on a chain of words, each of which holds the next one. *)
chain(cells, head) ==
  LET next(o) == IF o = 0 THEN 0 ELSE rd_cword(cells, o)
      at[i \in 0 .. Len(cells)] == IF i = 0 THEN head ELSE next(at[i - 1])
      length == CHOOSE i \in 0 .. Len(cells) : at[i] = 0 /\ \A j \in 0 .. i - 1 : at[j] # 0
  IN  [i \in 1 .. length |-> at[i - 1]]

(* The words of one function go onto the chain through all the text: each  *)
(* gets the head of that chain as the word before it has left it.          *)
ApplyLocalFixups_restart(d, base) ==
  LET local == [n \in Global |-> chain(d.codeBuf, d.symbolFixups[n])]
  IN  [d EXCEPT
         !.codeBuf = wr_cword(@, UNION {{<<o, 0>> : o \in ToSet(local[n])} : n \in Global}),
         !.fixups = [n \in Global |-> IF local[n] = <<>> THEN @[n] ELSE base + Last(local[n])]]
ApplyLocalFixups(d, base) ==
  LET local == [n \in Global |-> chain(d.codeBuf, d.symbolFixups[n])]
      head(n, i) == IF i = 0 THEN d.fixups[n] ELSE base + local[n][i]
  IN  [d EXCEPT
         !.codeBuf = wr_cword(@, UNION {{<<local[n][i], head(n, i - 1)>> : i \in DOMAIN local[n]}
                                          : n \in Global}),
         !.fixups = [n \in Global |-> head(n, Len(local[n]))]]

StoreCode(d) ==
  LET g    == Generate([d EXCEPT !.symbolFixups = [n \in Global |-> 0]])
      base == Len(g.text)
      p    == IF d.functionType = NONE THEN [g EXCEPT !.mainCode = TextBase + base]
                                       ELSE [g EXCEPT !.offset[d.functionType] = base]
      a    == ApplyLocalFixups(p, base)
  IN  [a EXCEPT
         !.text = @ \o a.codeBuf,
         !.codeBuf = <<>>,
         !.words = @ \cup {<<base + Len(prologue(d)) + 2 * i - 1, d.tree[i]>> : i \in DOMAIN d.tree}]

-----------------------------------------------------------------------------
(* Functions.                                                              *)

StartFunction(d, f) ==
  [d EXCEPT !.functionType = IF f = MAIN THEN NONE ELSE f, !.function = f,
            !.tree = <<>>, !.intact = TRUE, !.dependencies = {}]

store_dependencies(d) ==
  IF d.functionType = NONE THEN [d EXCEPT !.mainDependencies = d.dependencies]
                           ELSE [d EXCEPT !.functionDependencies[d.functionType] = d.dependencies]

is_needed(d) == d.functionType = NONE \/ d.functionType \in d.mainDependencies

EndFunction_every_pass(d) ==
  LET e == IF d.pass = 2 THEN StoreCode(store_dependencies(d))
           ELSE IF is_needed(d) THEN StoreCode(d) ELSE d
  IN  IF d.intact THEN [e EXCEPT !.functionType = NONE, !.function = NONE, !.tree = <<>>]
                  ELSE undefined(d)
EndFunction(d) ==
  LET e == IF d.pass = 2 THEN store_dependencies(d)
           ELSE IF is_needed(d) THEN StoreCode(d) ELSE d
  IN  IF d.intact THEN [e EXCEPT !.functionType = NONE, !.function = NONE, !.tree = <<>>]
                  ELSE undefined(d)

(* The list grows while it is gone through. *)
GenerateDependencies_direct(d) == d
GenerateDependencies(d) ==
  LET wanted(list, i) == IF i <= Len(list) /\ list[i] \in Function
                           THEN d.functionDependencies[list[i]] ELSE {}
      grow(list, i)   == list \o SetToSeq(wanted(list, i) \ ToSet(list))
      after[i \in 0 .. Cardinality(Global)] ==
        IF i = 0 THEN SetToSeq(d.mainDependencies) ELSE grow(after[i - 1], i)
  IN  [d EXCEPT !.mainDependencies = ToSet(after[Cardinality(Global)])]

UpdateReferences(d) ==
  [d EXCEPT !.text = wr_cword(@, UNION {{<<o, address(d, n)>> : o \in ToSet(chain(d.text, d.fixups[n]))}
                                          : n \in d.globals})]

-----------------------------------------------------------------------------
(* One line of the source.                                                 *)

reading(kind) ==
  /\ c.status = "compiling"
  /\ line <= Len(program)
  /\ program[line].kind = kind

read_line == line' = line + 1 /\ UNCHANGED program

end_main(d) ==
  IF d.mainState = "in_progress" THEN [EndFunction(d) EXCEPT !.mainState = "defined"] ELSE d

ParseFunctionDef ==
  LET f == program[line].name
      d == end_main(c)
  IN  /\ reading("def")
      /\ c' = IF d.status # "compiling" THEN d
              ELSE IF d.functionType # NONE THEN error(d)
              ELSE IF d.pass = 1 THEN [AddGlobalSymbol(d, f) EXCEPT !.functionType = f]
              ELSE StartFunction(d, f)
      /\ read_line

ParseEndDef ==
  /\ reading("enddef")
  /\ c' = IF c.functionType = NONE THEN error(c)
          ELSE IF c.pass = 1 THEN [c EXCEPT !.functionType = NONE]
          ELSE EndFunction(c)
  /\ read_line

(* Evaluating an initializer empties the local heap, in which the parse    *)
(* tree of the main function is built.                                     *)
ParseDim ==
  LET d == IF program[line].init THEN [c EXCEPT !.intact = (c.function = NONE)] ELSE c
  IN  /\ reading("dim")
      /\ c' = IF c.functionType # NONE
                THEN IF c.pass > 1 /\ c.function = NONE THEN undefined(c) ELSE c
              ELSE IF c.pass = 1 THEN AddGlobalSymbol(d, program[line].name) ELSE d
      /\ read_line

(* Any other statement is a part of a function. *)
start_main(d) ==
  IF d.functionType # NONE \/ d.mainState = "in_progress" THEN d
  ELSE IF d.mainState = "defined" THEN error(d)
  ELSE [StartFunction(d, MAIN) EXCEPT !.mainState = "in_progress"]

ParseStatement ==
  LET n == program[line].name
      d == start_main(c)
  IN  /\ reading("use")
      /\ c' = IF c.pass = 1 THEN c
              ELSE IF d.status # "compiling" THEN d
              ELSE IF d.function = NONE \/ ~ d.intact THEN undefined(d)
              ELSE [GetSymbolRef(d, n) EXCEPT !.tree = Append(@, n)]
      /\ read_line

(* The end of the source, and of a pass. *)
finish_main(d) ==
  IF d.pass = 1 \/ d.mainState = "defined" THEN d
  ELSE IF d.mainState = "in_progress" THEN EndFunction(d) ELSE error(d)

finish_pass(d) ==
  IF d.pass = 2 THEN GenerateDependencies(d)
  ELSE IF d.pass = 3 THEN [UpdateReferences(d) EXCEPT !.status = "done"] ELSE d

EndOfPass ==
  LET d == finish_main(c)
  IN  /\ c.status = "compiling"
      /\ line = Len(program) + 1
      /\ c' = IF d.status # "compiling" THEN d
              ELSE [finish_pass(d) EXCEPT !.pass = @ + 1, !.mainState = "not_defined"]
      /\ line' = 1
      /\ UNCHANGED program

Next == ParseFunctionDef \/ ParseEndDef \/ ParseDim \/ ParseStatement \/ EndOfPass

Spec == Init /\ [][Next]_vars

-----------------------------------------------------------------------------
(* Properties.                                                             *)

(* What a word of the text section stands for: the start of a function,    *)
(* of a string, or the place of a variable.                                *)
stands_for(d, w, n) ==
  /\ w = address(d, n)
  /\ n \in Function => d.offset[n] # UNDEF /\ rd_cword(d.text, d.offset[n]) = FRAME
  /\ n \in String => rd_cword(d.text, d.strings[n]) = DATA
  /\ n \in Variable => d.offset[n] # UNDEF

(* In the image every reference is the address of what it refers to, be    *)
(* that compiled before, after or within the function that refers to it.   *)
ReferencesResolved ==
  c.status = "done" => \A r \in c.words : stands_for(c, rd_cword(c.text, r[1]), r[2])

(* Until then a reference is an address, or waits on the chain of its      *)
(* symbol, which has no other words.  Chains stay inside the section,      *)
(* code is stored by the end of each line, and each variable has its place.*)
places(d, n)  == {r[1] : r \in {w \in d.words : w[2] = n}}
waiting(d, n) == IF n \in Global THEN ToSet(chain(d.text, d.fixups[n])) ELSE {}
NothingForgotten ==
  /\ \A n \in Global : c.fixups[n] \in 0 .. Len(c.text) - 1
  /\ c.status = "compiling" => \A n \in Name :
       /\ waiting(c, n) \subseteq places(c, n)
       /\ \A o \in places(c, n) \ waiting(c, n) : stands_for(c, rd_cword(c.text, o), n)
  /\ c.codeBuf = <<>> /\ c.data = Cardinality(c.globals \cap Variable)

(* The functions that the main program of p can reach, from the source.    *)
owner(p, i) ==
  LET heads == {j \in 1 .. i : p[j].kind \in {"def", "enddef"}}
      last  == p[CHOOSE j \in heads : \A k \in heads : k <= j]
  IN  IF heads # {} /\ last.kind = "def" THEN last.name ELSE MAIN
used_by(p, o) == {n \in Name : \E i \in DOMAIN p : p[i] = use(n) /\ owner(p, i) = o}
Closed(p, s) == used_by(p, MAIN) \cap Function \subseteq s
                  /\ \A f \in s : used_by(p, f) \cap Function \subseteq s
Reachable(p) == {f \in Function : \A s \in SUBSET Function : Closed(p, s) => f \in s}

(* The image holds each of them once, and no other.                        *)
StoredIsReachable ==
  c.status = "done" =>
    /\ {f \in Function : c.offset[f] # UNDEF} = Reachable(program)
    /\ Cardinality({i \in DOMAIN c.text : c.text[i] = FRAME}) = Cardinality(Reachable(program))

(* What has an address keeps it: words that hold it need no second look.   *)
where(d, n) == IF n \in String THEN d.strings[n] ELSE d.offset[n]
AddressesAreFinal == [][\A n \in Name : where(c, n) # UNDEF => where(c', n) = where(c, n)]_vars

(* The compiler never goes on with a parse tree that has been freed or     *)
(* that was never begun: it compiles the program or rejects it.            *)
ContextIsValid == c.status # "undefined"
=============================================================================
