---------------------------- MODULE CompilerProofs ----------------------------
(***************************************************************************)
(* Theorems about the three passes, for every program: each reference of a *)
(* finished image is resolved, none is forgotten on the way, the image     *)
(* holds what the main program reaches, and addresses stay.                *)
(*                                                                         *)
(* First what an operator does to the parse context: symbols, the code of  *)
(* an expression, chains of words, the fixups of one function and of all   *)
(* the text (StoreFacts, UpdateFacts).  Then the invariant of the compiler *)
(* between two lines, CompilerInvariant, and a lemma for each kind of line *)
(* and each pass that ends.  Then the properties.                          *)
(***************************************************************************)
EXTENDS Compiler, FiniteSetTheorems, SequenceTheorems, TLAPS

-----------------------------------------------------------------------------
(* The parse context. *)

Offset     == Nat \cup {UNDEF}
Statuses   == {"compiling", "error", "undefined", "done"}
MainStates == {"not_defined", "in_progress", "defined"}
Code       == Seq(Cell)

Context ==
  [pass : 1..4, status : Statuses, mainState : MainStates,
   functionType : Function \cup {NONE}, function : Function \cup {NONE, MAIN},
   tree : Seq(Name), intact : BOOLEAN,
   dependencies : SUBSET Global, functionDependencies : [Function -> SUBSET Global],
   mainDependencies : SUBSET Global,
   globals : SUBSET Global, offset : [Global -> Offset], fixups : [Global -> Nat],
   strings : [String -> Offset],
   codeBuf : Code, symbolFixups : [Global -> Nat],
   text : Code, data : Nat, mainCode : Offset,
   words : SUBSET (Nat \X Name)]

Fields ==
  {"pass", "status", "mainState", "functionType", "function", "tree", "intact",
   "dependencies", "functionDependencies", "mainDependencies", "globals", "offset", "fixups",
   "strings", "codeBuf", "symbolFixups", "text", "data", "mainCode", "words"}

AllBut(d, e, changed) == \A k \in Fields \ changed : e[k] = d[k]

LEMMA Names ==
  /\ Function \subseteq Global /\ Variable \subseteq Global /\ Global \subseteq Name
  /\ \A n \in Name : n \in String \/ n \in Global
  /\ \A n \in Global : n \notin String
  /\ \A n \in Global : n \in Function \/ n \in Variable
  /\ \A n \in Function : n \notin Variable
  /\ NONE \notin Function /\ MAIN \notin Function /\ NONE # MAIN
  BY NamesAssumption DEF Global, Name, NONE, MAIN

LEMMA Types ==
  ASSUME NEW d \in Context
  PROVE  /\ d.tree \in Seq(Name) /\ Len(d.tree) \in Nat
         /\ d.codeBuf \in Code /\ Len(d.codeBuf) \in Nat
         /\ d.text \in Code /\ Len(d.text) \in Nat
         /\ d.offset \in [Global -> Offset] /\ d.strings \in [String -> Offset]
         /\ d.fixups \in [Global -> Nat] /\ d.symbolFixups \in [Global -> Nat]
  BY DEF Context, Code

LEMMA ErrorFacts ==
  ASSUME NEW d \in Context
  PROVE  /\ error(d) \in Context /\ AllBut(d, error(d), {"status"}) /\ error(d).status = "error"
         /\ undefined(d) \in Context /\ AllBut(d, undefined(d), {"status"})
         /\ undefined(d).status = "undefined"
  BY DEF Context, AllBut, Fields, error, undefined, Statuses

-----------------------------------------------------------------------------
(* Symbols. *)

Declared(d, n, e) ==
  /\ e \in Context
  /\ n \in d.globals => AllBut(d, e, {"status"}) /\ e.status = "error"
  /\ n \notin d.globals =>
       /\ AllBut(d, e, {"globals", "offset", "data"})
       /\ e.globals = d.globals \cup {n}
       /\ n \in Function => e.offset = d.offset /\ e.data = d.data
       /\ n \notin Function =>
            e.offset = [d.offset EXCEPT ![n] = d.data] /\ e.data = d.data + 1

LEMMA AddGlobalSymbolFacts ==
  ASSUME NEW d \in Context, NEW n \in Global, NEW e, e = AddGlobalSymbol(d, n)
  PROVE  Declared(d, n, e)
  <1>1. d.data \in Offset /\ d.data + 1 \in Nat /\ d.globals \cup {n} \in SUBSET Global
    BY DEF Context, Offset
  <1>2. [d.offset EXCEPT ![n] = d.data] \in [Global -> Offset]
    BY <1>1 DEF Context
  <1>3. CASE n \in d.globals
    <2>1. e = error(d)
      BY <1>3 DEF AddGlobalSymbol
    <2>2. QED
      BY <1>3, <2>1, ErrorFacts DEF Declared
  <1>4. CASE n \notin d.globals /\ n \in Function
    <2>1. e = [d EXCEPT !.globals = d.globals \cup {n}]
      BY <1>4 DEF AddGlobalSymbol
    <2>2. e \in Context
      BY <1>1, <2>1 DEF Context
    <2>3. /\ AllBut(d, e, {"globals", "offset", "data"}) /\ e.globals = d.globals \cup {n}
          /\ e.offset = d.offset /\ e.data = d.data
      BY <2>1 DEF Context, AllBut, Fields
    <2>4. QED
      BY <1>4, <2>2, <2>3 DEF Declared
  <1>5. CASE n \notin d.globals /\ n \notin Function
    <2>1. e = [d EXCEPT !.globals = d.globals \cup {n},
                        !.offset = [d.offset EXCEPT ![n] = d.data], !.data = d.data + 1]
      BY <1>5 DEF AddGlobalSymbol, Context
    <2>2. e \in Context
      BY <1>1, <1>2, <2>1 DEF Context
    <2>3. /\ AllBut(d, e, {"globals", "offset", "data"}) /\ e.globals = d.globals \cup {n}
          /\ e.offset = [d.offset EXCEPT ![n] = d.data] /\ e.data = d.data + 1
      BY <2>1 DEF Context, AllBut, Fields
    <2>4. QED
      BY <1>5, <2>2, <2>3 DEF Declared
  <1>6. QED
    BY <1>3, <1>4, <1>5

LEMMA AddDependencyFacts ==
  ASSUME NEW d \in Context, NEW n \in Global, NEW e, e = AddDependency(d, n)
  PROVE  /\ e \in Context /\ AllBut(d, e, {"dependencies"})
         /\ e.dependencies = IF d.pass = 2 THEN d.dependencies \cup {n} ELSE d.dependencies
  BY DEF AddDependency, Context, AllBut, Fields

Referred(d, n, e) ==
  /\ e \in Context /\ AllBut(d, e, {"dependencies", "globals", "offset", "data"})
  /\ n \in String => e = d
  /\ n \notin String =>
       /\ e.globals = d.globals \cup {n}
       /\ e.dependencies = IF d.pass = 2 THEN d.dependencies \cup {n} ELSE d.dependencies
  /\ n \in Variable \ d.globals =>
       e.offset = [d.offset EXCEPT ![n] = d.data] /\ e.data = d.data + 1
  /\ n \notin Variable \ d.globals => e.offset = d.offset /\ e.data = d.data

LEMMA GetSymbolRefFacts ==
  ASSUME NEW d \in Context, NEW n \in Name, NEW e, e = GetSymbolRef(d, n)
  PROVE  Referred(d, n, e)
  <1>1. CASE n \in String
    <2>1. e = d /\ n \notin Variable
      BY <1>1, Names DEF GetSymbolRef
    <2>2. QED
      BY <1>1, <2>1 DEF AllBut, Referred
  <1>2. CASE n \notin String /\ n \in d.globals
    <2>1. e = AddDependency(d, n) /\ n \in Global
      BY <1>2, Names DEF GetSymbolRef
    <2>2. /\ e \in Context /\ AllBut(d, e, {"dependencies"})
          /\ e.dependencies = IF d.pass = 2 THEN d.dependencies \cup {n} ELSE d.dependencies
      BY <2>1, AddDependencyFacts
    <2>3. /\ AllBut(d, e, {"dependencies", "globals", "offset", "data"})
          /\ e.globals = d.globals /\ e.offset = d.offset /\ e.data = d.data
      BY <2>2 DEF AllBut, Fields
    <2>4. QED
      BY <1>2, <2>2, <2>3 DEF Referred
  <1>3. CASE n \notin String /\ n \notin d.globals
    <2> DEFINE a == AddGlobalSymbol(d, n)
    <2>1. e = AddDependency(a, n) /\ n \in Global
      BY <1>3, Names DEF GetSymbolRef
    <2> HIDE DEF a
    <2>d. Declared(d, n, a)
      BY <2>1, AddGlobalSymbolFacts DEF a
    <2>2. a \in Context /\ AllBut(d, a, {"globals", "offset", "data"}) /\ a.globals = d.globals \cup {n}
      BY <2>d, <1>3 DEF Declared
    <2>3. /\ n \in Function => a.offset = d.offset /\ a.data = d.data
          /\ n \notin Function => a.offset = [d.offset EXCEPT ![n] = d.data] /\ a.data = d.data + 1
      BY <2>d, <1>3 DEF Declared
    <2>4. /\ e \in Context /\ AllBut(a, e, {"dependencies"})
          /\ e.dependencies = IF a.pass = 2 THEN a.dependencies \cup {n} ELSE a.dependencies
      BY <2>1, <2>2, AddDependencyFacts
    <2>5. /\ AllBut(d, e, {"dependencies", "globals", "offset", "data"})
          /\ e.globals = a.globals /\ e.offset = a.offset /\ e.data = a.data
          /\ a.pass = d.pass /\ a.dependencies = d.dependencies
      BY <2>2, <2>4 DEF AllBut, Fields
    <2>6. n \in Variable <=> n \notin Function
      BY <2>1, Names
    <2>7. QED
      BY <1>3, <2>2, <2>3, <2>4, <2>5, <2>6 DEF Referred
  <1>4. QED
    BY <1>1, <1>2, <1>3

-----------------------------------------------------------------------------
(* Generated code. *)

Appended(d, e, w) == e.codeBuf = Append(d.codeBuf, w)

LEMMA PutFacts ==
  ASSUME NEW d \in Context, NEW w \in Cell, NEW e, e = put(d, w)
  PROVE  e \in Context /\ AllBut(d, e, {"codeBuf"}) /\ Appended(d, e, w)
  <1>1. Append(d.codeBuf, w) \in Code
    BY DEF Context, Code
  <1>2. e = [d EXCEPT !.codeBuf = Append(d.codeBuf, w)]
    BY DEF put
  <1>3. QED
    BY <1>1, <1>2 DEF Context, AllBut, Fields, Appended

LEMMA AddStringRefFacts ==
  ASSUME NEW d \in Context, NEW s \in String, NEW e, e = AddStringRef(d, s)
  PROVE  /\ e \in Context /\ AllBut(d, e, {"strings", "text"})
         /\ e.strings[s] \in Nat
         /\ d.strings[s] # UNDEF => AllBut(d, e, {})
         /\ d.strings[s] = UNDEF =>
              e.strings = [d.strings EXCEPT ![s] = Len(d.text)] /\ e.text = Append(d.text, DATA)
  <1>1. d.strings \in [String -> Offset] /\ d.text \in Code
    BY DEF Context
  <1>2. CASE d.strings[s] # UNDEF
    <2>1. e = d
      BY <1>2 DEF AddStringRef
    <2>2. QED
      BY <1>1, <1>2, <2>1 DEF AllBut, Offset
  <1>3. CASE d.strings[s] = UNDEF
    <2>1. Len(d.text) \in Nat /\ Append(d.text, DATA) \in Code
      BY <1>1 DEF Code, Cell
    <2>2. [d.strings EXCEPT ![s] = Len(d.text)] \in [String -> Offset]
      BY <1>1, <2>1 DEF Offset
    <2>3. e = [d EXCEPT !.strings = [d.strings EXCEPT ![s] = Len(d.text)],
                        !.text = Append(d.text, DATA)]
      BY <1>3 DEF AddStringRef
    <2>4. QED
      BY <1>1, <1>3, <2>1, <2>2, <2>3 DEF Context, AllBut, Fields
  <1>4. QED
    BY <1>2, <1>3

LEMMA AddressIs ==
  ASSUME NEW d \in Context, NEW n \in Name
  PROVE  /\ n \in String /\ d.strings[n] # UNDEF => address(d, n) \in Nat
         /\ n \in Global /\ d.offset[n] # UNDEF => address(d, n) \in Nat
         /\ n \in String => address(d, n) = TextBase + d.strings[n]
         /\ \A e : n \in Global /\ e.offset = d.offset => address(e, n) = address(d, n)
         /\ \A e : n \in Global /\ e.offset[n] = d.offset[n] => address(e, n) = address(d, n)
         /\ \A e : n \in String /\ e.strings[n] = d.strings[n] => address(e, n) = address(d, n)
  <1>1. d.strings \in [String -> Offset] /\ d.offset \in [Global -> Offset]
    BY DEF Context
  <1>2. n \in Global => n \notin String
    BY Names
  <1>3. TextBase \in Nat /\ DataBase \in Nat
    BY NamesAssumption
  <1>4. QED
    BY <1>1, <1>2, <1>3 DEF address, Offset

(* An instruction and its word. *)
Coded(d, n, e) ==
  /\ n \in String =>
       /\ e.symbolFixups = d.symbolFixups
       /\ e.strings[n] \in Nat
       /\ e.codeBuf = Append(Append(d.codeBuf, OPCODE), address(e, n))
  /\ n \in Global /\ d.offset[n] # UNDEF =>
       /\ e.symbolFixups = d.symbolFixups
       /\ e.codeBuf = Append(Append(d.codeBuf, OPCODE), address(d, n))
  /\ n \in Global /\ d.offset[n] = UNDEF =>
       /\ e.symbolFixups = [d.symbolFixups EXCEPT ![n] = Len(d.codeBuf) + 1]
       /\ e.codeBuf = Append(Append(d.codeBuf, OPCODE), d.symbolFixups[n])

(* Strings are placed when they are met first. *)
Spelled(d, n, e) ==
  /\ n \in String =>
       /\ d.strings[n] # UNDEF => e.strings = d.strings /\ e.text = d.text
       /\ d.strings[n] = UNDEF =>
            e.strings = [d.strings EXCEPT ![n] = Len(d.text)] /\ e.text = Append(d.text, DATA)
  /\ n \in Global => e.strings = d.strings /\ e.text = d.text

LEMMA CodeExprFacts ==
  ASSUME NEW d \in Context, NEW n \in Name, NEW e, e = code_expr(d, n)
  PROVE  /\ e \in Context /\ AllBut(d, e, {"codeBuf", "symbolFixups", "strings", "text"})
         /\ Coded(d, n, e) /\ Spelled(d, n, e)
  <1> DEFINE o == put(d, OPCODE)
             s == AddStringRef(o, n)
  <1>1. OPCODE \in Cell
    BY DEF Cell
  <1>2. o \in Context /\ AllBut(d, o, {"codeBuf"}) /\ o.codeBuf = Append(d.codeBuf, OPCODE)
    BY <1>1, PutFacts DEF Appended
  <1>3. e = IF n \in String THEN put(s, address(s, n)) ELSE code_globalref(o, n)
    BY DEF code_expr
  <1> HIDE DEF o
  <1>4. /\ o.strings = d.strings /\ o.text = d.text /\ o.symbolFixups = d.symbolFixups
        /\ o.offset = d.offset
    BY <1>2 DEF AllBut, Fields
  <1>5. CASE n \in String
    <2>1. /\ s \in Context /\ AllBut(o, s, {"strings", "text"}) /\ s.strings[n] \in Nat
          /\ o.strings[n] # UNDEF => AllBut(o, s, {})
          /\ o.strings[n] = UNDEF =>
               s.strings = [o.strings EXCEPT ![n] = Len(o.text)] /\ s.text = Append(o.text, DATA)
      BY <1>2, <1>5, AddStringRefFacts
    <2> HIDE DEF s
    <2>2. address(s, n) \in Cell
      BY <1>5, <2>1, AddressIs DEF Cell, UNDEF
    <2>3. e \in Context /\ AllBut(s, e, {"codeBuf"}) /\ e.codeBuf = Append(s.codeBuf, address(s, n))
      BY <1>3, <1>5, <2>1, <2>2, PutFacts DEF Appended
    <2>4. s.codeBuf = o.codeBuf /\ e.strings = s.strings /\ e.text = s.text
          /\ e.symbolFixups = s.symbolFixups /\ s.symbolFixups = o.symbolFixups
      BY <2>1, <2>3 DEF AllBut, Fields
    <2>5. AllBut(d, e, {"codeBuf", "symbolFixups", "strings", "text"})
      BY <1>2, <2>1, <2>3 DEF AllBut, Fields
    <2>6. address(e, n) = address(s, n)
      BY <1>5, <2>1, <2>4, AddressIs
    <2>7. o.strings[n] # UNDEF => s.strings = o.strings /\ s.text = o.text
      BY <2>1 DEF AllBut, Fields
    <2>8. n \notin Global
      BY <1>5, Names
    <2>9. QED
      BY <1>2, <1>4, <1>5, <2>1, <2>3, <2>4, <2>5, <2>6, <2>7, <2>8 DEF Coded, Spelled
  <1>6. CASE n \notin String /\ d.offset[n] # UNDEF
    <2>1. n \in Global
      BY <1>6, Names
    <2>2. address(o, n) \in Cell /\ address(o, n) = address(d, n)
      BY <1>2, <1>4, <1>6, <2>1, AddressIs DEF Cell
    <2>3. e = put(o, address(o, n))
      BY <1>3, <1>4, <1>6 DEF code_globalref
    <2>4. e \in Context /\ AllBut(o, e, {"codeBuf"}) /\ e.codeBuf = Append(o.codeBuf, address(o, n))
      BY <1>2, <2>2, <2>3, PutFacts DEF Appended
    <2>5. /\ e.strings = d.strings /\ e.text = d.text /\ e.symbolFixups = d.symbolFixups
          /\ AllBut(d, e, {"codeBuf", "symbolFixups", "strings", "text"})
      BY <1>2, <2>4 DEF AllBut, Fields
    <2>6. QED
      BY <1>2, <1>6, <2>1, <2>2, <2>4, <2>5 DEF Coded, Spelled
  <1>7. CASE n \notin String /\ d.offset[n] = UNDEF
    <2> DEFINE p == put(o, o.symbolFixups[n])
    <2>1. n \in Global
      BY <1>7, Names
    <2>2. d.symbolFixups[n] \in Cell /\ d.symbolFixups \in [Global -> Nat]
      BY <2>1 DEF Context, Cell
    <2>3. p \in Context /\ AllBut(o, p, {"codeBuf"}) /\ p.codeBuf = Append(o.codeBuf, d.symbolFixups[n])
      BY <1>2, <1>4, <2>2, PutFacts DEF Appended
    <2>4. e = [p EXCEPT !.symbolFixups = [p.symbolFixups EXCEPT ![n] = codeaddr(o)]]
      BY <1>3, <1>4, <1>7 DEF code_globalref, AddLocalSymbolFixup
    <2> HIDE DEF p
    <2>5. codeaddr(o) \in Nat /\ codeaddr(o) = Len(d.codeBuf) + 1
      BY <1>2 DEF codeaddr, Context, Code
    <2>6. p.symbolFixups = d.symbolFixups /\ p.strings = d.strings /\ p.text = d.text
      BY <1>4, <2>3 DEF AllBut, Fields
    <2>7. [p.symbolFixups EXCEPT ![n] = codeaddr(o)] \in [Global -> Nat]
      BY <2>2, <2>5, <2>6
    <2>8. e \in Context /\ AllBut(p, e, {"symbolFixups"})
          /\ e.symbolFixups = [p.symbolFixups EXCEPT ![n] = codeaddr(o)]
      BY <2>3, <2>4, <2>7 DEF Context, AllBut, Fields
    <2>9. /\ e.strings = d.strings /\ e.text = d.text /\ e.codeBuf = p.codeBuf
          /\ AllBut(d, e, {"codeBuf", "symbolFixups", "strings", "text"})
      BY <1>2, <2>3, <2>6, <2>8 DEF AllBut, Fields
    <2>10. QED
      BY <1>2, <1>7, <2>1, <2>3, <2>5, <2>6, <2>8, <2>9 DEF Coded, Spelled
  <1>8. QED
    BY <1>5, <1>6, <1>7

-----------------------------------------------------------------------------
(* Induction over the numbers, for a set: the library's theorem is about   *)
(* an operator.                                                            *)

LEMMA LeastNumber ==
  ASSUME NEW S, S \subseteq Nat, S # {}
  PROVE  \E x \in S : \A y \in S : ~ (y < x)
  <1>1. PICK x \in S : \A y \in S : <<y, x>> \notin OpToRel(<, Nat)
    BY NatLessThanWellFounded, WFMin
  <1>2. \A y \in S : ~ (y < x)
    BY <1>1 DEF OpToRel
  <1>3. QED
    BY <1>2

LEMMA Induction ==
  ASSUME NEW S, 0 \in S, \A n \in Nat : n \in S => n + 1 \in S
  PROVE  Nat \subseteq S
  <1> SUFFICES ASSUME Nat \ S # {} PROVE FALSE
    OBVIOUS
  <1>1. PICK x \in Nat \ S : \A y \in Nat \ S : ~ (y < x)
    BY LeastNumber
  <1>2. x # 0 /\ x - 1 \in Nat
    BY <1>1
  <1>3. x - 1 \in S
    BY <1>1, <1>2
  <1>4. QED
    BY <1>1, <1>2, <1>3

LEMMA BoundedInduction ==
  ASSUME NEW S, NEW L \in Nat, 0 \in S, \A n \in 0..L - 1 : n \in S => n + 1 \in S
  PROVE  0..L \subseteq S
  <1> DEFINE R == S \cup {n \in Nat : n > L}
  <1>1. 0 \in R
    OBVIOUS
  <1>2. ASSUME NEW n \in Nat, n \in R PROVE n + 1 \in R
    <2>1. CASE n >= L
      BY <2>1
    <2>2. CASE n < L
      <3>1. n \in S /\ n \in 0..L - 1
        BY <1>2, <2>2
      <3>2. QED
        BY <3>1
    <2>3. QED
      BY <2>1, <2>2
  <1> HIDE DEF R
  <1>3. Nat \subseteq R
    BY <1>1, <1>2, Induction
  <1>4. QED
    BY <1>3 DEF R


-----------------------------------------------------------------------------
(* Chains. *)

LinkOf(s, i) == IF i < Len(s) THEN s[i + 1] ELSE 0

(* s are the places of the words on the chain that begins at head. *)
IsChain(cells, head, s) ==
  /\ s \in Seq(Nat)
  /\ \A i \in 1 .. Len(s) : s[i] \in 1 .. Len(cells) - 1
  /\ \A i, j \in 1 .. Len(s) : s[i] = s[j] => i = j
  /\ head = LinkOf(s, 0)
  /\ \A i \in 1 .. Len(s) : rd_cword(cells, s[i]) = LinkOf(s, i)

Follow(cells, o) == IF o = 0 THEN 0 ELSE rd_cword(cells, o)
Places(cells, head, n, f) ==
  f = [i \in 0 .. n |-> IF i = 0 THEN head ELSE Follow(cells, f[i - 1])]

LEMMA PlacesExist ==
  ASSUME NEW cells, NEW head, NEW n \in Nat
  PROVE  \E f : Places(cells, head, n, f)
  <1> DEFINE S == {m \in Nat : \E f : Places(cells, head, m, f)}
  <1>1. 0 \in S
    <2> DEFINE f == [i \in 0 .. 0 |-> head]
    <2>1. Places(cells, head, 0, f)
      BY DEF Places
    <2>2. QED
      BY <2>1
  <1>2. ASSUME NEW m \in Nat, m \in S PROVE m + 1 \in S
    <2>1. PICK f : Places(cells, head, m, f)
      BY <1>2
    <2> DEFINE g == [i \in 0 .. m + 1 |-> IF i = m + 1 THEN Follow(cells, f[m]) ELSE f[i]]
    <2>2. \A i \in 0 .. m : f[i] = IF i = 0 THEN head ELSE Follow(cells, f[i - 1])
      BY <2>1 DEF Places
    <2>3. ASSUME NEW i \in 0 .. m + 1
          PROVE  g[i] = IF i = 0 THEN head ELSE Follow(cells, g[i - 1])
      <3>1. CASE i = 0
        BY <2>2, <3>1
      <3>2. CASE i # 0 /\ i # m + 1
        <4>1. i \in 0 .. m /\ i - 1 \in 0 .. m /\ i - 1 # m + 1
          BY <3>2
        <4>2. g[i] = f[i] /\ g[i - 1] = f[i - 1]
          BY <4>1, <3>2
        <4>3. QED
          BY <2>2, <3>2, <4>1, <4>2
      <3>3. CASE i = m + 1
        <4>1. g[i] = Follow(cells, f[m]) /\ g[i - 1] = f[m] /\ i # 0
          BY <3>3
        <4>2. QED
          BY <4>1
      <3>4. QED
        BY <3>1, <3>2, <3>3
    <2> HIDE DEF g
    <2>4. g = [i \in 0 .. m + 1 |-> g[i]]
      BY DEF g
    <2>5. Places(cells, head, m + 1, g)
      BY <2>3, <2>4 DEF Places
    <2>6. QED
      BY <2>5
  <1> HIDE DEF S
  <1>3. Nat \subseteq S
    BY <1>1, <1>2, Induction
  <1>4. QED
    BY <1>3 DEF S

LEMMA UpTo == \A m \in Nat : IsFiniteSet(1 .. m) /\ Cardinality(1 .. m) = m
  <1> SUFFICES ASSUME NEW m \in Nat PROVE IsFiniteSet(1 .. m) /\ Cardinality(1 .. m) = m
    OBVIOUS
  <1>1. IsFiniteSet(1 .. m) /\ Cardinality(1 .. m) = IF 1 > m THEN 0 ELSE m - 1 + 1
    BY FS_Interval
  <1>2. QED
    BY <1>1

(* There are no more places than cells. *)
LEMMA ChainIsShort ==
  ASSUME NEW cells \in Code, NEW head, NEW s, IsChain(cells, head, s)
  PROVE  Len(s) \in Nat /\ Len(s) <= Len(cells)
  <1> DEFINE L == Len(s)
             M == Len(cells)
  <1>1. L \in Nat /\ M \in Nat /\ s \in Seq(Nat)
    BY DEF IsChain, Code
  <1>2. CASE L = 0
    BY <1>1, <1>2
  <1>3. CASE L > 0
    <2>1. \A i \in 1 .. L : s[i] \in 1 .. M
      BY <1>1 DEF IsChain
    <2>2. s = [i \in 1 .. L |-> s[i]]
      BY <1>1
    <2>3. s \in Injection(1 .. L, 1 .. M)
      BY <2>1, <2>2 DEF IsChain, Injection, IsInjective
    <2>4. Cardinality(1 .. L) <= Cardinality(1 .. M)
      BY <1>1, <2>3, FS_Injection, FS_Interval
    <2>5. Cardinality(1 .. L) = L
      BY <1>1, UpTo
    <2>6. Cardinality(1 .. M) = M
      BY <1>1, UpTo
    <2>7. QED
      BY <1>1, <2>4, <2>5, <2>6
  <1>4. QED
    BY <1>1, <1>2, <1>3

LEMMA ChainIs ==
  ASSUME NEW cells \in Code, NEW head, NEW s, IsChain(cells, head, s)
  PROVE  chain(cells, head) = s
  <1> DEFINE at == CHOOSE f : Places(cells, head, Len(cells), f)
  <1>1. Len(cells) \in Nat /\ Len(s) \in Nat /\ Len(s) <= Len(cells)
    BY ChainIsShort DEF Code
  <1>2. Places(cells, head, Len(cells), at)
    BY <1>1, PlacesExist
  <1>3. chain(cells, head) =
          LET length == CHOOSE i \in 0 .. Len(cells) : at[i] = 0 /\ \A j \in 0 .. i - 1 : at[j] # 0
          IN  [i \in 1 .. length |-> at[i - 1]]
    BY DEF chain, Places, Follow
  <1> HIDE DEF at
  <1>4. \A i \in 0 .. Len(cells) : at[i] = IF i = 0 THEN head ELSE Follow(cells, at[i - 1])
    BY <1>2 DEF Places
  <1> DEFINE S == {i \in 0 .. Len(s) : at[i] = LinkOf(s, i)}
  <1>5. 0 \in S
    BY <1>1, <1>4 DEF IsChain
  <1>6. ASSUME NEW i \in 0 .. Len(s) - 1, i \in S PROVE i + 1 \in S
    <2>1. i + 1 \in 0 .. Len(cells) /\ i + 1 # 0 /\ (i + 1) - 1 = i /\ i + 1 \in 1 .. Len(s)
      BY <1>1
    <2>2. at[i] = s[i + 1] /\ s[i + 1] # 0
      BY <1>1, <1>6, <2>1 DEF LinkOf, IsChain
    <2>3. at[i + 1] = rd_cword(cells, s[i + 1])
      BY <1>4, <2>1, <2>2 DEF Follow
    <2>4. at[i + 1] = LinkOf(s, i + 1)
      BY <2>1, <2>3 DEF IsChain
    <2>5. QED
      BY <1>1, <2>1, <2>4
  <1> HIDE DEF S
  <1>7. 0 .. Len(s) \subseteq S
    BY <1>1, <1>5, <1>6, BoundedInduction
  <1>8. \A i \in 0 .. Len(s) : at[i] = LinkOf(s, i)
    BY <1>7 DEF S
  <1>9. at[Len(s)] = 0 /\ \A j \in 0 .. Len(s) - 1 : at[j] = s[j + 1] /\ at[j] # 0
    <2>1. at[Len(s)] = 0
      BY <1>1, <1>8 DEF LinkOf
    <2>2. ASSUME NEW j \in 0 .. Len(s) - 1 PROVE at[j] = s[j + 1] /\ at[j] # 0
      <3>1. j \in 0 .. Len(s) /\ j < Len(s) /\ j + 1 \in 1 .. Len(s)
        BY <1>1
      <3>2. QED
        BY <1>8, <3>1 DEF LinkOf, IsChain
    <2>3. QED
      BY <2>1, <2>2
  <1> DEFINE length == CHOOSE i \in 0 .. Len(cells) : at[i] = 0 /\ \A j \in 0 .. i - 1 : at[j] # 0
  <1>10. length = Len(s)
    <2>1. \E i \in 0 .. Len(cells) : at[i] = 0 /\ \A j \in 0 .. i - 1 : at[j] # 0
      BY <1>1, <1>9
    <2>2. /\ length \in 0 .. Len(cells)
          /\ at[length] = 0 /\ \A j \in 0 .. length - 1 : at[j] # 0
      BY <2>1
    <2> HIDE DEF length
    <2>3. ~ (length < Len(s))
      BY <1>1, <1>9, <2>2
    <2>4. ~ (length > Len(s))
      BY <1>1, <1>9, <2>2
    <2>5. QED
      BY <1>1, <2>2, <2>3, <2>4
  <1> HIDE DEF length
  <1>11. chain(cells, head) = [i \in 1 .. Len(s) |-> at[i - 1]]
    BY <1>3, <1>10 DEF length
  <1>12. \A i \in 1 .. Len(s) : at[i - 1] = s[i]
    <2> SUFFICES ASSUME NEW i \in 1 .. Len(s) PROVE at[i - 1] = s[i]
      OBVIOUS
    <2>1. i - 1 \in 0 .. Len(s) - 1 /\ (i - 1) + 1 = i
      BY <1>1
    <2>2. QED
      BY <1>9, <2>1
  <1>13. s = [i \in 1 .. Len(s) |-> s[i]]
    BY DEF IsChain
  <1>14. QED
    BY <1>11, <1>12, <1>13

Begins(cells, more) ==
  /\ Len(cells) <= Len(more)
  /\ \A i \in 1 .. Len(cells) : more[i] = cells[i]

LEMMA BeginsTransitive ==
  ASSUME NEW a \in Code, NEW b \in Code, NEW e \in Code, Begins(a, b), Begins(b, e)
  PROVE  Begins(a, e)
  <1>1. Len(a) \in Nat /\ Len(b) \in Nat /\ Len(e) \in Nat
    BY DEF Code
  <1>2. QED
    BY <1>1 DEF Begins

LEMMA ChainGrows ==
  ASSUME NEW cells \in Code, NEW more \in Code, Begins(cells, more),
         NEW first, NEW s, IsChain(cells, first, s)
  PROVE  IsChain(more, first, s)
  <1>1. Len(cells) \in Nat /\ Len(more) \in Nat /\ s \in Seq(Nat) /\ Len(s) \in Nat
    BY DEF Code, IsChain
  <1>2. \A i \in 1 .. Len(s) :
          /\ s[i] \in 1 .. Len(cells) - 1 /\ s[i] \in 1 .. Len(more) - 1
          /\ s[i] + 1 \in 1 .. Len(cells)
    BY <1>1 DEF IsChain, Begins
  <1>3. \A i \in 1 .. Len(s) : rd_cword(more, s[i]) = rd_cword(cells, s[i])
    BY <1>2 DEF rd_cword, Begins
  <1>4. QED
    BY <1>1, <1>2, <1>3 DEF IsChain

LEMMA ChainCons ==
  ASSUME NEW cells \in Code, NEW s, NEW o \in 1 .. Len(cells) - 1,
         IsChain(cells, rd_cword(cells, o), s), o \notin ToSet(s)
  PROVE  /\ IsChain(cells, o, <<o>> \o s)
         /\ ToSet(<<o>> \o s) = ToSet(s) \cup {o}
  <1> DEFINE t == <<o>> \o s
  <1>1. /\ Len(cells) \in Nat /\ s \in Seq(Nat) /\ Len(s) \in Nat /\ o \in Nat
        /\ <<o>> \in Seq(Nat) /\ DOMAIN s = 1 .. Len(s)
    BY DEF Code, IsChain
  <1>2. t \in Seq(Nat) /\ Len(t) = Len(s) + 1 /\ DOMAIN t = 1 .. Len(s) + 1
    BY <1>1
  <1>3. t[1] = o /\ \A i \in 1 .. Len(s) : t[i + 1] = s[i]
    BY <1>1
  <1> HIDE DEF t
  <1>4. \A i \in 2 .. Len(t) : i - 1 \in 1 .. Len(s) /\ t[i] = s[i - 1]
    <2> SUFFICES ASSUME NEW i \in 2 .. Len(t) PROVE i - 1 \in 1 .. Len(s) /\ t[i] = s[i - 1]
      OBVIOUS
    <2>1. i - 1 \in 1 .. Len(s) /\ (i - 1) + 1 = i
      BY <1>1, <1>2
    <2>2. QED
      BY <1>3, <2>1
  <1>5. \A i \in 1 .. Len(t) : i = 1 \/ i \in 2 .. Len(t)
    BY <1>1, <1>2
  <1>6. \A i \in 1 .. Len(s) : s[i] # o /\ s[i] \in 1 .. Len(cells) - 1
    BY <1>1 DEF ToSet, IsChain
  <1>7. \A i \in 1 .. Len(t) : t[i] \in 1 .. Len(cells) - 1
    BY <1>3, <1>4, <1>5, <1>6
  <1>8. ASSUME NEW i \in 1 .. Len(t), NEW j \in 1 .. Len(t), t[i] = t[j] PROVE i = j
    <2>1. CASE i = 1 /\ j = 1
      BY <2>1
    <2>2. CASE i = 1 /\ j \in 2 .. Len(t)
      BY <1>3, <1>4, <1>6, <1>8, <2>2
    <2>3. CASE i \in 2 .. Len(t) /\ j = 1
      BY <1>3, <1>4, <1>6, <1>8, <2>3
    <2>4. CASE i \in 2 .. Len(t) /\ j \in 2 .. Len(t)
      <3>1. s[i - 1] = s[j - 1] /\ i - 1 \in 1 .. Len(s) /\ j - 1 \in 1 .. Len(s)
        BY <1>4, <1>8, <2>4
      <3>2. i - 1 = j - 1
        BY <3>1 DEF IsChain
      <3>3. QED
        BY <2>4, <3>2
    <2>5. QED
      BY <1>5, <2>1, <2>2, <2>3, <2>4
  <1>9. \A i \in 0 .. Len(s) : LinkOf(t, i + 1) = LinkOf(s, i)
    <2> SUFFICES ASSUME NEW i \in 0 .. Len(s) PROVE LinkOf(t, i + 1) = LinkOf(s, i)
      OBVIOUS
    <2>1. CASE i = Len(s)
      BY <1>1, <1>2, <2>1 DEF LinkOf
    <2>2. CASE i < Len(s)
      <3>1. i + 1 \in 1 .. Len(s) /\ i + 1 < Len(t)
        BY <1>1, <1>2, <2>2
      <3>2. t[(i + 1) + 1] = s[i + 1]
        BY <1>3, <3>1
      <3>3. QED
        BY <2>2, <3>1, <3>2 DEF LinkOf
    <2>3. Len(s) \in Nat
      BY <1>1
    <2>4. i = Len(s) \/ i < Len(s)
      BY <2>3
    <2>5. QED
      BY <2>1, <2>2, <2>4
  <1>10. LinkOf(t, 0) = o
    BY <1>1, <1>2, <1>3 DEF LinkOf
  <1>11. ASSUME NEW i \in 1 .. Len(t) PROVE rd_cword(cells, t[i]) = LinkOf(t, i)
    <2>1. CASE i = 1
      <3>1. LinkOf(t, 0 + 1) = LinkOf(s, 0)
        BY <1>1, <1>9
      <3>2. rd_cword(cells, o) = LinkOf(s, 0)
        BY DEF IsChain
      <3>3. QED
        BY <1>3, <2>1, <3>1, <3>2
    <2>2. CASE i \in 2 .. Len(t)
      <3>1. i - 1 \in 1 .. Len(s) /\ t[i] = s[i - 1] /\ i - 1 \in 0 .. Len(s) /\ (i - 1) + 1 = i
        BY <1>4, <2>2
      <3>2. LinkOf(t, i) = LinkOf(s, i - 1)
        BY <1>9, <3>1
      <3>3. QED
        BY <3>1, <3>2 DEF IsChain
    <2>3. QED
      BY <1>5, <2>1, <2>2
  <1>12. IsChain(cells, o, t)
    BY <1>2, <1>7, <1>8, <1>10, <1>11 DEF IsChain
  <1>13. ToSet(t) = ToSet(s) \cup {o}
    <2>1. ASSUME NEW x \in ToSet(t) PROVE x \in ToSet(s) \cup {o}
      <3>1. PICK i \in 1 .. Len(t) : x = t[i]
        BY <1>2 DEF ToSet
      <3>2. QED
        BY <1>1, <1>3, <1>4, <1>5, <3>1 DEF ToSet
    <2>2. ASSUME NEW x \in ToSet(s) PROVE x \in ToSet(t)
      <3>1. PICK i \in 1 .. Len(s) : x = s[i]
        BY <1>1 DEF ToSet
      <3>2. i + 1 \in DOMAIN t /\ t[i + 1] = x
        BY <1>1, <1>2, <1>3, <3>1
      <3>3. QED
        BY <3>2 DEF ToSet
    <2>3. o \in ToSet(t)
      BY <1>1, <1>2, <1>3 DEF ToSet
    <2>4. QED
      BY <2>1, <2>2, <2>3
  <1>14. QED
    BY <1>12, <1>13 DEF t

-----------------------------------------------------------------------------
(* The code of a function. *)

Framing(d) == Len(prologue(d))

(* Where the word of statement j goes. *)
Place(d, j) == Framing(d) + 2 * j - 1

(* The words among the first i that have to wait for n. *)
Wanting(d, n, i) ==
  IF d.offset[n] = UNDEF THEN {Place(d, j) : j \in {k \in 1 .. i : d.tree[k] = n}} ELSE {}

(* Strings are placed as they are met. *)
TextGrows(d, g) ==
  /\ Begins(d.text, g.text)
  /\ \A i \in Len(d.text) + 1 .. Len(g.text) : g.text[i] = DATA
  /\ \A s \in String : d.strings[s] # UNDEF => g.strings[s] = d.strings[s]
  /\ \A s \in String : d.strings[s] = UNDEF /\ g.strings[s] # UNDEF =>
       g.strings[s] \in Len(d.text) .. Len(g.text) - 1

WordIs(d, g, j) ==
  LET n == d.tree[j]
      w == rd_cword(g.codeBuf, Place(d, j))
  IN  /\ w \in Nat
      /\ n \in String => g.strings[n] # UNDEF /\ w = address(g, n)
      /\ n \in Global /\ d.offset[n] # UNDEF => w = address(d, n)

(* g is what d has become after i statements of its tree. *)
Halfway(d, g, i) ==
  /\ g \in Context /\ AllBut(d, g, {"codeBuf", "symbolFixups", "strings", "text"})
  /\ Len(g.codeBuf) = Framing(d) + 2 * i
  /\ Framing(d) = 1 => g.codeBuf[1] = FRAME
  /\ \A o \in Framing(d) + 1 .. Len(g.codeBuf) : g.codeBuf[o] # FRAME
  /\ \A j \in 1 .. i : rd_cword(g.codeBuf, Place(d, j) - 1) = OPCODE /\ WordIs(d, g, j)
  /\ TextGrows(d, g)
  /\ \A n \in Global : \E s :
       IsChain(g.codeBuf, g.symbolFixups[n], s) /\ ToSet(s) = Wanting(d, n, i)

Codes(d, n, f) ==
  f = [i \in 0 .. n |->
         IF i = 0 THEN [d EXCEPT !.codeBuf = prologue(d)] ELSE code_expr(f[i - 1], d.tree[i])]

LEMMA FramingIs ==
  ASSUME NEW d
  PROVE  /\ Framing(d) \in 0 .. 1 /\ prologue(d) \in Code
         /\ Framing(d) = 0 <=> d.functionType = NONE
         /\ Framing(d) = 1 => prologue(d)[1] = FRAME
  <1>1. FRAME \in Cell
    BY DEF Cell
  <1>2. CASE d.functionType = NONE
    <2>1. prologue(d) = <<>>
      BY <1>2 DEF prologue
    <2>2. QED
      BY <1>2, <2>1 DEF Framing, Code
  <1>3. CASE d.functionType # NONE
    <2>1. prologue(d) = <<FRAME>>
      BY <1>3 DEF prologue
    <2>2. QED
      BY <1>1, <1>3, <2>1 DEF Framing, Code
  <1>4. QED
    BY <1>2, <1>3

LEMMA HalfwayStart ==
  ASSUME NEW d \in Context, \A n \in Global : d.symbolFixups[n] = 0
  PROVE  Halfway(d, [d EXCEPT !.codeBuf = prologue(d)], 0)
  <1> DEFINE g == [d EXCEPT !.codeBuf = prologue(d)]
  <1>1. prologue(d) \in Code /\ Framing(d) \in 0 .. 1
    BY FramingIs
  <1>2. g \in Context /\ AllBut(d, g, {"codeBuf"}) /\ g.codeBuf = prologue(d)
    BY <1>1 DEF Context, AllBut, Fields
  <1> HIDE DEF g
  <1>3. /\ AllBut(d, g, {"codeBuf", "symbolFixups", "strings", "text"})
        /\ g.text = d.text /\ g.strings = d.strings /\ g.symbolFixups = d.symbolFixups
    BY <1>2 DEF AllBut, Fields
  <1>4. Len(d.text) \in Nat
    BY DEF Context, Code
  <1>5. TextGrows(d, g)
    BY <1>3, <1>4 DEF TextGrows, Begins
  <1>6. ASSUME NEW n \in Global
        PROVE  IsChain(g.codeBuf, g.symbolFixups[n], <<>>) /\ ToSet(<<>>) = Wanting(d, n, 0)
    <2>1. g.symbolFixups[n] = LinkOf(<<>>, 0)
      BY <1>3 DEF LinkOf
    <2>2. IsChain(g.codeBuf, g.symbolFixups[n], <<>>)
      BY <2>1 DEF IsChain
    <2>3. ToSet(<<>>) = {} /\ Wanting(d, n, 0) = {}
      BY DEF ToSet, Wanting
    <2>4. QED
      BY <2>2, <2>3
  <1>7. Len(g.codeBuf) = Framing(d) + 2 * 0
    BY <1>1, <1>2 DEF Framing
  <1>8. Framing(d) = 1 => g.codeBuf[1] = FRAME
    BY <1>2, FramingIs
  <1>9. \A o \in Framing(d) + 1 .. Len(g.codeBuf) : g.codeBuf[o] # FRAME
    BY <1>1, <1>7
  <1>10. QED
    BY <1>2, <1>3, <1>5, <1>6, <1>7, <1>8, <1>9 DEF Halfway, g

TwoMore(cells, a, w, more) ==
  /\ more \in Code /\ Len(more) = Len(cells) + 2 /\ Begins(cells, more)
  /\ more[Len(cells) + 1] = a /\ more[Len(cells) + 2] = w

LEMMA TwoAreMore ==
  ASSUME NEW cells \in Code, NEW a \in Cell, NEW w \in Cell, NEW more, more = Append(Append(cells, a), w)
  PROVE  TwoMore(cells, a, w, more)
  <1>1. Len(cells) \in Nat /\ Append(cells, a) \in Seq(Cell) /\ Len(Append(cells, a)) = Len(cells) + 1
    BY DEF Code
  <1>2. \A i \in 1 .. Len(cells) + 1 :
          Append(cells, a)[i] = IF i = Len(cells) + 1 THEN a ELSE cells[i]
    BY DEF Code
  <1>3. more \in Seq(Cell) /\ Len(more) = Len(cells) + 2
    BY <1>1
  <1>4. \A i \in 1 .. Len(cells) + 2 :
          more[i] = IF i = Len(cells) + 2 THEN w ELSE Append(cells, a)[i]
    BY <1>1
  <1>5. QED
    BY <1>1, <1>2, <1>3, <1>4 DEF Code, Begins, TwoMore

(* Strings that have been placed keep their place. *)
LEMMA TextGrowsOn ==
  ASSUME NEW d \in Context, NEW g \in Context, NEW e \in Context, NEW n \in Name,
         TextGrows(d, g), Spelled(g, n, e)
  PROVE  TextGrows(d, e) /\ \A s \in String : g.strings[s] # UNDEF => e.strings[s] = g.strings[s]
  <1>1. /\ Len(d.text) \in Nat /\ Len(g.text) \in Nat /\ g.text \in Seq(Cell)
        /\ g.strings \in [String -> Offset]
    BY DEF Context, Code
  <1>2. CASE e.strings = g.strings /\ e.text = g.text
    BY <1>2 DEF TextGrows
  <1>3. CASE n \in String /\ g.strings[n] = UNDEF
    <2>1. e.strings = [g.strings EXCEPT ![n] = Len(g.text)] /\ e.text = Append(g.text, DATA)
      BY <1>3 DEF Spelled
    <2>2. Len(e.text) = Len(g.text) + 1
      BY <1>1, <2>1
    <2>3. \A i \in 1 .. Len(g.text) : e.text[i] = g.text[i]
      BY <1>1, <2>1
    <2>4. e.text[Len(g.text) + 1] = DATA
      BY <1>1, <2>1
    <2>5. Begins(d.text, e.text)
      BY <1>1, <2>2, <2>3 DEF TextGrows, Begins
    <2>6. \A i \in Len(d.text) + 1 .. Len(e.text) : e.text[i] = DATA
      <3> SUFFICES ASSUME NEW i \in Len(d.text) + 1 .. Len(e.text) PROVE e.text[i] = DATA
        OBVIOUS
      <3>1. CASE i = Len(g.text) + 1
        BY <2>4, <3>1
      <3>2. CASE i # Len(g.text) + 1
        <4>1. i \in Len(d.text) + 1 .. Len(g.text) /\ i \in 1 .. Len(g.text)
          BY <1>1, <2>2, <3>2
        <4>2. QED
          BY <2>3, <4>1 DEF TextGrows
      <3>3. QED
        BY <3>1, <3>2
    <2>7. \A s \in String : e.strings[s] = IF s = n THEN Len(g.text) ELSE g.strings[s]
      BY <1>1, <2>1
    <2>8. \A s \in String : g.strings[s] # UNDEF => e.strings[s] = g.strings[s]
      BY <1>3, <2>7
    <2>9. \A s \in String : d.strings[s] # UNDEF => e.strings[s] = d.strings[s]
      BY <2>8 DEF TextGrows
    <2>10. \A s \in String : d.strings[s] = UNDEF /\ e.strings[s] # UNDEF =>
             e.strings[s] \in Len(d.text) .. Len(e.text) - 1
      <3> SUFFICES ASSUME NEW s \in String, d.strings[s] = UNDEF, e.strings[s] # UNDEF
                   PROVE  e.strings[s] \in Len(d.text) .. Len(e.text) - 1
        OBVIOUS
      <3>1. Len(d.text) <= Len(g.text)
        BY DEF TextGrows, Begins
      <3>2. CASE s = n
        BY <1>1, <2>2, <2>7, <3>1, <3>2
      <3>3. CASE s # n
        <4>1. e.strings[s] = g.strings[s] /\ g.strings[s] \in Len(d.text) .. Len(g.text) - 1
          BY <2>7, <3>3 DEF TextGrows
        <4>2. QED
          BY <1>1, <2>2, <4>1
      <3>4. QED
        BY <3>2, <3>3
    <2>11. QED
      BY <2>5, <2>6, <2>8, <2>9, <2>10 DEF TextGrows
  <1>4. QED
    BY <1>2, <1>3, Names DEF Spelled

LEMMA PlaceIs ==
  ASSUME NEW d, NEW j \in Nat
  PROVE  Place(d, j) = Framing(d) + 2 * j - 1
  BY DEF Place

LEMMA PlacesUpTo ==
  ASSUME NEW d, NEW i \in Nat, NEW L, L = Framing(d) + 2 * i
  PROVE  /\ L \in Nat /\ Place(d, i + 1) = L + 1
         /\ \A j \in 1 .. i : Place(d, j) \in 1 .. L - 1
  <1>1. Framing(d) \in 0 .. 1
    BY FramingIs
  <1>2. Place(d, i + 1) = L + 1
    BY <1>1 DEF Place
  <1>3. ASSUME NEW j \in 1 .. i PROVE Place(d, j) \in 1 .. L - 1
    BY <1>1 DEF Place
  <1>4. QED
    BY <1>1, <1>2, <1>3

IsNew(old, x, new) == new = old \cup {x} /\ x \notin old
WantsMore(d, n, i, m) ==
  /\ d.offset[n] = UNDEF /\ d.tree[m] = n => IsNew(Wanting(d, n, i), Place(d, m), Wanting(d, n, m))
  /\ d.offset[n] # UNDEF \/ d.tree[m] # n => Wanting(d, n, m) = Wanting(d, n, i)

LEMMA WantingMore ==
  ASSUME NEW d, NEW i \in Nat, NEW n, NEW m, m = i + 1
  PROVE  WantsMore(d, n, i, m)
  <1> DEFINE T(j) == {k \in 1 .. j : d.tree[k] = n}
  <1>1. \A j : Wanting(d, n, j) = IF d.offset[n] = UNDEF THEN {Place(d, k) : k \in T(j)} ELSE {}
    BY DEF Wanting
  <1>2. 1 .. i + 1 = (1 .. i) \cup {i + 1}
    OBVIOUS
  <1>3. T(i + 1) = T(i) \cup (IF d.tree[i + 1] = n THEN {i + 1} ELSE {})
    BY <1>2
  <1>4. \A k \in T(i) : k \in 1 .. i
    OBVIOUS
  <1> HIDE DEF T
  <1>5. Place(d, i + 1) \notin Wanting(d, n, i)
    <2>1. \A k \in T(i) : Place(d, k) # Place(d, i + 1)
      <3>1. Place(d, i + 1) = Framing(d) + 2 * i + 1 /\ Framing(d) \in 0 .. 1
        BY FramingIs DEF Place
      <3>2. \A k \in 1 .. i : Place(d, k) # Place(d, i + 1)
        BY <3>1, PlacesUpTo
      <3>3. QED
        BY <1>4, <3>2
    <2>2. QED
      BY <1>1, <2>1
  <1>6. CASE d.offset[n] = UNDEF /\ d.tree[i + 1] = n
    <2>1. T(i + 1) = T(i) \cup {i + 1}
      BY <1>3, <1>6
    <2>2. Wanting(d, n, m) = Wanting(d, n, i) \cup {Place(d, m)}
      BY <1>1, <1>6, <2>1
    <2>3. QED
      BY <1>5, <1>6, <2>2 DEF WantsMore, IsNew
  <1>7. CASE d.offset[n] # UNDEF
    BY <1>1, <1>7 DEF WantsMore
  <1>8. CASE d.offset[n] = UNDEF /\ d.tree[i + 1] # n
    <2>1. T(i + 1) = T(i)
      BY <1>3, <1>8
    <2>2. QED
      BY <1>1, <1>8, <2>1 DEF WantsMore
  <1>9. QED
    BY <1>6, <1>7, <1>8

LEMMA HalfwayStep ==
  ASSUME NEW d \in Context, NEW g, NEW i \in Nat, i < Len(d.tree),
         Halfway(d, g, i),
         NEW e, e = code_expr(g, d.tree[i + 1])
  PROVE  Halfway(d, e, i + 1)
  <1>n. PICK n : n = d.tree[i + 1]
    OBVIOUS
  <1>L. PICK L : L = Len(g.codeBuf)
    OBVIOUS
  <1>1. /\ g \in Context /\ AllBut(d, g, {"codeBuf", "symbolFixups", "strings", "text"})
        /\ L = Framing(d) + 2 * i /\ TextGrows(d, g)
    BY <1>L DEF Halfway
  <1>2. /\ d.tree \in Seq(Name) /\ i \in Nat /\ n \in Name /\ g.codeBuf \in Code
        /\ g.symbolFixups \in [Global -> Nat]
    BY <1>1, <1>n DEF Context
  <1>3. g.offset = d.offset
    BY <1>1 DEF AllBut, Fields
  <1>4. Framing(d) \in 0 .. 1 /\ L \in Nat /\ i \in Nat
    BY <1>1, <1>2, FramingIs
  <1>5. /\ e \in Context /\ AllBut(g, e, {"codeBuf", "symbolFixups", "strings", "text"})
        /\ Coded(g, n, e) /\ Spelled(g, n, e)
    BY <1>1, <1>2, <1>n, CodeExprFacts
  <1>6. AllBut(d, e, {"codeBuf", "symbolFixups", "strings", "text"})
    BY <1>1, <1>5 DEF AllBut, Fields
  <1>7. TextGrows(d, e) /\ \A s \in String : g.strings[s] # UNDEF => e.strings[s] = g.strings[s]
    BY <1>1, <1>2, <1>5, TextGrowsOn
  <1>8. n \in String \/ n \in Global
    BY <1>2, Names
  <1>9. PICK w \in Nat :
          /\ e.codeBuf = Append(Append(g.codeBuf, OPCODE), w)
          /\ n \in String => e.strings[n] # UNDEF /\ w = address(e, n)
          /\ n \in Global /\ d.offset[n] # UNDEF => w = address(d, n)
          /\ n \in Global /\ d.offset[n] = UNDEF => w = g.symbolFixups[n]
    <2>1. CASE n \in String
      <3>1. n \notin Global /\ e.strings[n] # UNDEF
        BY <1>5, <2>1, Names DEF UNDEF, Coded
      <3>2. address(e, n) \in Nat
        BY <1>2, <1>5, <2>1, <3>1, AddressIs
      <3>3. QED
        BY <1>5, <2>1, <3>1, <3>2 DEF Coded
    <2>2. CASE n \in Global /\ d.offset[n] # UNDEF
      <3>1. n \notin String /\ address(g, n) = address(d, n) /\ address(d, n) \in Nat
        BY <1>2, <1>3, <2>2, AddressIs, Names
      <3>2. QED
        BY <1>3, <1>5, <2>2, <3>1 DEF Coded
    <2>3. CASE n \in Global /\ d.offset[n] = UNDEF
      <3>1. n \notin String /\ g.symbolFixups[n] \in Nat
        BY <1>2, <2>3, Names
      <3>2. QED
        BY <1>3, <1>5, <2>3, <3>1 DEF Coded
    <2>4. QED
      BY <1>8, <2>1, <2>2, <2>3
  <1>10. /\ e.codeBuf \in Code /\ Len(e.codeBuf) = L + 2 /\ Begins(g.codeBuf, e.codeBuf)
         /\ e.codeBuf[L + 1] = OPCODE /\ e.codeBuf[L + 2] = w
    <2>1. OPCODE \in Cell /\ w \in Cell
      BY DEF Cell
    <2>2. TwoMore(g.codeBuf, OPCODE, w, e.codeBuf)
      BY <1>2, <1>9, <2>1, TwoAreMore
    <2>3. QED
      BY <1>L, <2>2 DEF TwoMore
  <1>11. Place(d, i + 1) = L + 1 /\ \A j \in 1 .. i : Place(d, j) \in 1 .. L - 1
    BY <1>1, <1>2, PlacesUpTo
  <1>12. Len(e.codeBuf) = Framing(d) + 2 * (i + 1)
    BY <1>1, <1>4, <1>10
  <1>13. Framing(d) = 1 => e.codeBuf[1] = FRAME
    <2>1. Framing(d) = 1 => 1 \in 1 .. L
      BY <1>1, <1>4
    <2>2. QED
      BY <1>10, <2>1 DEF Halfway, Begins
  <1>14. \A j \in 1 .. i + 1 : rd_cword(e.codeBuf, Place(d, j) - 1) = OPCODE /\ WordIs(d, e, j)
    <2> SUFFICES ASSUME NEW j \in 1 .. i + 1
                 PROVE  rd_cword(e.codeBuf, Place(d, j) - 1) = OPCODE /\ WordIs(d, e, j)
      OBVIOUS
    <2>1. CASE j = i + 1
      <3>1. (Place(d, j) - 1) + 1 = L + 1 /\ Place(d, j) + 1 = L + 2
        BY <1>4, <1>11, <2>1
      <3>2. rd_cword(e.codeBuf, Place(d, j) - 1) = OPCODE /\ rd_cword(e.codeBuf, Place(d, j)) = w
        BY <1>10, <3>1 DEF rd_cword
      <3>3. d.tree[j] = n
        BY <1>n, <2>1
      <3>4. QED
        BY <1>9, <3>2, <3>3 DEF WordIs
    <2>2. CASE j # i + 1
      <3>1. j \in 1 .. i
        BY <1>4, <2>2
      <3>2. Place(d, j) \in 1 .. L - 1
        BY <1>11, <3>1
      <3>3. (Place(d, j) - 1) + 1 \in 1 .. L /\ Place(d, j) + 1 \in 1 .. L
        BY <1>4, <3>2
      <3>4. /\ rd_cword(e.codeBuf, Place(d, j) - 1) = rd_cword(g.codeBuf, Place(d, j) - 1)
            /\ rd_cword(e.codeBuf, Place(d, j)) = rd_cword(g.codeBuf, Place(d, j))
        BY <1>L, <1>10, <3>3 DEF rd_cword, Begins
      <3>5. rd_cword(g.codeBuf, Place(d, j) - 1) = OPCODE /\ WordIs(d, g, j)
        BY <3>1 DEF Halfway
      <3>6. d.tree[j] \in Name
        BY <1>2, <3>1
      <3>7. d.tree[j] \in String /\ g.strings[d.tree[j]] # UNDEF =>
              e.strings[d.tree[j]] # UNDEF /\ address(e, d.tree[j]) = address(g, d.tree[j])
        BY <1>1, <1>7, <3>6, AddressIs
      <3>8. QED
        BY <3>4, <3>5, <3>7 DEF WordIs
    <2>3. QED
      BY <2>1, <2>2
  <1>15. ASSUME NEW m \in Global
         PROVE  \E s : IsChain(e.codeBuf, e.symbolFixups[m], s) /\ ToSet(s) = Wanting(d, m, i + 1)
    <2>1. PICK s : IsChain(g.codeBuf, g.symbolFixups[m], s) /\ ToSet(s) = Wanting(d, m, i)
      BY DEF Halfway
    <2>2. IsChain(e.codeBuf, g.symbolFixups[m], s)
      BY <1>2, <1>10, <2>1, ChainGrows
    <2>3. m \notin String
      BY Names
    <2>4. CASE m = n /\ d.offset[m] = UNDEF
      <3>1. e.symbolFixups[m] = L + 1 /\ w = g.symbolFixups[m]
        BY <1>2, <1>3, <1>5, <1>9, <1>L, <2>4 DEF Coded
      <3>2. L + 1 \in 1 .. Len(e.codeBuf) - 1 /\ (L + 1) + 1 = L + 2
        BY <1>4, <1>10
      <3>3. rd_cword(e.codeBuf, L + 1) = g.symbolFixups[m]
        BY <1>10, <3>1, <3>2 DEF rd_cword
      <3>4. Wanting(d, m, i + 1) = Wanting(d, m, i) \cup {L + 1} /\ L + 1 \notin Wanting(d, m, i)
        <4>1. PICK k \in Nat : k = i + 1
          BY <1>2
        <4>2. i \in Nat /\ d.tree[k] = m /\ d.offset[m] = UNDEF
          BY <1>2, <1>n, <2>4, <4>1
        <4>3. IsNew(Wanting(d, m, i), Place(d, k), Wanting(d, m, k))
          <5>1. WantsMore(d, m, i, k)
            BY <4>1, <4>2, WantingMore
          <5>2. QED
            BY <4>2, <5>1 DEF WantsMore
        <4>4. QED
          BY <1>11, <4>1, <4>3 DEF IsNew
      <3>5. PICK o : o = L + 1
        OBVIOUS
      <3>6. /\ o \in 1 .. Len(e.codeBuf) - 1 /\ o \notin ToSet(s)
            /\ IsChain(e.codeBuf, rd_cword(e.codeBuf, o), s)
        BY <2>1, <2>2, <3>2, <3>3, <3>4, <3>5
      <3>7. IsChain(e.codeBuf, o, <<o>> \o s) /\ ToSet(<<o>> \o s) = ToSet(s) \cup {o}
        BY <1>10, <3>6, ChainCons
      <3>8. QED
        BY <2>1, <3>1, <3>4, <3>5, <3>7
    <2>5. CASE m # n \/ d.offset[m] # UNDEF
      <3>1. e.symbolFixups[m] = g.symbolFixups[m]
        BY <1>2, <1>3, <1>5, <1>8, <2>3, <2>5 DEF Coded
      <3>2. Wanting(d, m, i + 1) = Wanting(d, m, i)
        <4>1. PICK k : k = i + 1
          OBVIOUS
        <4>2. i \in Nat /\ (d.tree[k] # m \/ d.offset[m] # UNDEF)
          BY <1>2, <1>n, <2>5, <4>1
        <4>3. Wanting(d, m, k) = Wanting(d, m, i)
          <5>1. WantsMore(d, m, i, k)
            BY <4>1, <4>2, WantingMore
          <5>2. QED
            BY <4>2, <5>1 DEF WantsMore
        <4>4. QED
          BY <4>1, <4>3
      <3>3. QED
        BY <2>1, <2>2, <3>1, <3>2
    <2>6. QED
      BY <2>4, <2>5
  <1>16. \A o \in Framing(d) + 1 .. Len(e.codeBuf) : e.codeBuf[o] # FRAME
    <2> SUFFICES ASSUME NEW o \in Framing(d) + 1 .. Len(e.codeBuf) PROVE e.codeBuf[o] # FRAME
      OBVIOUS
    <2>1. CASE o > L
      <3>1. o = L + 1 \/ o = L + 2
        BY <1>4, <1>10, <2>1
      <3>2. OPCODE # FRAME /\ w # FRAME
        BY DEF OPCODE, FRAME
      <3>3. QED
        BY <1>10, <3>1, <3>2
    <2>2. CASE ~ (o > L)
      <3>1. o \in Framing(d) + 1 .. L /\ o \in 1 .. L
        BY <1>4, <2>2
      <3>2. e.codeBuf[o] = g.codeBuf[o] /\ g.codeBuf[o] # FRAME
        BY <1>L, <1>10, <3>1 DEF Begins, Halfway
      <3>3. QED
        BY <3>2
    <2>3. QED
      BY <2>1, <2>2
  <1>17. QED
    BY <1>5, <1>6, <1>7, <1>12, <1>13, <1>14, <1>15, <1>16 DEF Halfway

LEMMA CodesExist ==
  ASSUME NEW d, NEW n \in Nat
  PROVE  \E f : Codes(d, n, f)
  <1> DEFINE first == [d EXCEPT !.codeBuf = prologue(d)]
             S == {m \in Nat : \E f : Codes(d, m, f)}
  <1>1. 0 \in S
    <2> DEFINE f == [i \in 0 .. 0 |-> first]
    <2>1. Codes(d, 0, f)
      BY DEF Codes
    <2>2. QED
      BY <2>1
  <1>2. ASSUME NEW m \in Nat, m \in S PROVE m + 1 \in S
    <2>1. PICK f : Codes(d, m, f)
      BY <1>2
    <2> DEFINE g == [i \in 0 .. m + 1 |-> IF i = m + 1 THEN code_expr(f[m], d.tree[m + 1]) ELSE f[i]]
    <2>2. \A i \in 0 .. m : f[i] = IF i = 0 THEN first ELSE code_expr(f[i - 1], d.tree[i])
      BY <2>1 DEF Codes
    <2> HIDE DEF first
    <2>3. ASSUME NEW i \in 0 .. m + 1
          PROVE  g[i] = IF i = 0 THEN first ELSE code_expr(g[i - 1], d.tree[i])
      <3>1. CASE i = 0
        BY <2>2, <3>1
      <3>2. CASE i # 0 /\ i # m + 1
        <4>1. i \in 0 .. m /\ i - 1 \in 0 .. m /\ i - 1 # m + 1
          BY <3>2
        <4>2. g[i] = f[i] /\ g[i - 1] = f[i - 1]
          BY <4>1, <3>2
        <4>3. QED
          BY <2>2, <3>2, <4>1, <4>2
      <3>3. CASE i = m + 1
        <4>1. g[i] = code_expr(f[m], d.tree[i]) /\ g[i - 1] = f[m] /\ i # 0
          BY <3>3
        <4>2. QED
          BY <4>1
      <3>4. QED
        BY <3>1, <3>2, <3>3
    <2> HIDE DEF g
    <2>4. g = [i \in 0 .. m + 1 |-> g[i]]
      BY DEF g
    <2>5. Codes(d, m + 1, g)
      BY <2>3, <2>4 DEF Codes, first
    <2>6. QED
      BY <2>5
  <1> HIDE DEF S
  <1>3. Nat \subseteq S
    BY <1>1, <1>2, Induction
  <1>4. QED
    BY <1>3 DEF S

(* The code of all of d, and where its words wait. *)
Generated(d, g) ==
  /\ g \in Context /\ AllBut(d, g, {"codeBuf", "symbolFixups", "strings", "text"})
  /\ Len(g.codeBuf) = Framing(d) + 2 * Len(d.tree) + 1
  /\ Framing(d) = 1 => g.codeBuf[1] = FRAME
  /\ \A o \in Framing(d) + 1 .. Len(g.codeBuf) : g.codeBuf[o] # FRAME
  /\ \A j \in 1 .. Len(d.tree) : WordIs(d, g, j)
  /\ TextGrows(d, g)
  /\ \A n \in Global : \E s :
       IsChain(g.codeBuf, g.symbolFixups[n], s) /\ ToSet(s) = Wanting(d, n, Len(d.tree))

LEMMA GenerateFacts ==
  ASSUME NEW d \in Context, \A n \in Global : d.symbolFixups[n] = 0, NEW g, g = Generate(d)
  PROVE  Generated(d, g)
  <1>n. PICK N \in Nat : N = Len(d.tree)
    BY DEF Context
  <1> DEFINE after == CHOOSE f : Codes(d, N, f)
  <1>1. Codes(d, N, after)
    BY CodesExist
  <1>2. g = put(after[N], OPCODE)
    BY <1>n DEF Generate, Codes
  <1> HIDE DEF after
  <1>3. \A i \in 0 .. N :
          after[i] = IF i = 0 THEN [d EXCEPT !.codeBuf = prologue(d)] ELSE code_expr(after[i - 1], d.tree[i])
    BY <1>1 DEF Codes
  <1> DEFINE S == {i \in 0 .. N : Halfway(d, after[i], i)}
  <1>4. 0 \in S
    BY <1>3, HalfwayStart
  <1>5. ASSUME NEW i \in 0 .. N - 1, i \in S PROVE i + 1 \in S
    <2>1. i + 1 \in 0 .. N /\ i + 1 # 0 /\ (i + 1) - 1 = i /\ i < Len(d.tree) /\ i \in Nat
      BY <1>n
    <2>2. after[i + 1] = code_expr(after[i], d.tree[i + 1])
      BY <1>3, <2>1
    <2>3. Halfway(d, after[i], i)
      BY <1>5
    <2>4. Halfway(d, after[i + 1], i + 1)
      BY <2>1, <2>2, <2>3, HalfwayStep
    <2>5. QED
      BY <2>1, <2>4
  <1> HIDE DEF S
  <1>6. 0 .. N \subseteq S
    BY <1>4, <1>5, BoundedInduction
  <1>7. PICK h : h = after[N] /\ Halfway(d, h, N)
    BY <1>6 DEF S
  <1>8. OPCODE \in Cell /\ OPCODE # FRAME
    BY DEF Cell, OPCODE, FRAME
  <1>9. /\ h \in Context /\ h.codeBuf \in Code /\ Len(h.codeBuf) \in Nat
        /\ Framing(d) \in 0 .. 1 /\ Len(h.codeBuf) = Framing(d) + 2 * N
    <2>1. h \in Context /\ Len(h.codeBuf) = Framing(d) + 2 * N
      BY <1>7 DEF Halfway
    <2>2. QED
      BY <2>1, Types, FramingIs
  <1>10. g \in Context /\ AllBut(h, g, {"codeBuf"}) /\ g.codeBuf = Append(h.codeBuf, OPCODE)
    BY <1>2, <1>7, <1>8, <1>9, PutFacts DEF Appended
  <1>11. /\ g.codeBuf \in Code /\ Len(g.codeBuf) = Len(h.codeBuf) + 1
         /\ g.codeBuf[Len(h.codeBuf) + 1] = OPCODE
         /\ \A i \in 1 .. Len(h.codeBuf) : g.codeBuf[i] = h.codeBuf[i]
    BY <1>9, <1>10 DEF Context, Code
  <1>12. Begins(h.codeBuf, g.codeBuf)
    BY <1>9, <1>11 DEF Begins
  <1>13. AllBut(d, g, {"codeBuf", "symbolFixups", "strings", "text"})
    BY <1>7, <1>10 DEF Halfway, AllBut, Fields
  <1>14. g.symbolFixups = h.symbolFixups /\ g.strings = h.strings /\ g.text = h.text /\ g.offset = h.offset
    BY <1>10 DEF AllBut, Fields
  <1>15. Framing(d) = 1 => g.codeBuf[1] = FRAME
    BY <1>7, <1>9, <1>11 DEF Halfway
  <1>16. \A o \in Framing(d) + 1 .. Len(g.codeBuf) : g.codeBuf[o] # FRAME
    <2> SUFFICES ASSUME NEW o \in Framing(d) + 1 .. Len(g.codeBuf) PROVE g.codeBuf[o] # FRAME
      OBVIOUS
    <2>1. CASE o = Len(h.codeBuf) + 1
      BY <1>8, <1>11, <2>1
    <2>2. CASE o # Len(h.codeBuf) + 1
      <3>1. o \in Framing(d) + 1 .. Len(h.codeBuf) /\ o \in 1 .. Len(h.codeBuf)
        BY <1>9, <1>11, <2>2
      <3>2. QED
        BY <1>7, <1>11, <3>1 DEF Halfway
    <2>3. QED
      BY <2>1, <2>2
  <1>17. \A j \in 1 .. N : WordIs(d, g, j)
    <2> SUFFICES ASSUME NEW j \in 1 .. N PROVE WordIs(d, g, j)
      OBVIOUS
    <2>1. WordIs(d, h, j)
      BY <1>7 DEF Halfway
    <2>2. Place(d, j) + 1 \in 1 .. Len(h.codeBuf)
      BY <1>9, PlaceIs
    <2>3. rd_cword(g.codeBuf, Place(d, j)) = rd_cword(h.codeBuf, Place(d, j))
      BY <1>11, <2>2 DEF rd_cword
    <2>4. d.tree[j] \in Name
      BY <1>n DEF Context
    <2>5. d.tree[j] \in String => address(g, d.tree[j]) = address(h, d.tree[j])
      BY <1>9, <1>14, <2>4, AddressIs
    <2>6. QED
      BY <1>14, <2>1, <2>3, <2>5 DEF WordIs
  <1>18. TextGrows(d, g)
    BY <1>7, <1>14 DEF Halfway, TextGrows
  <1>19. ASSUME NEW n \in Global
         PROVE  \E s : IsChain(g.codeBuf, g.symbolFixups[n], s) /\ ToSet(s) = Wanting(d, n, Len(d.tree))
    <2>1. PICK s : IsChain(h.codeBuf, h.symbolFixups[n], s) /\ ToSet(s) = Wanting(d, n, N)
      BY <1>7 DEF Halfway
    <2>2. IsChain(g.codeBuf, h.symbolFixups[n], s)
      BY <1>9, <1>11, <1>12, <2>1, ChainGrows
    <2>3. QED
      BY <1>n, <1>14, <2>1, <2>2
  <1>20. Len(g.codeBuf) = Framing(d) + 2 * Len(d.tree) + 1
    BY <1>n, <1>9, <1>11
  <1>21. QED
    BY <1>n, <1>10, <1>13, <1>15, <1>16, <1>17, <1>18, <1>19, <1>20 DEF Generated

-----------------------------------------------------------------------------
(* Words that are written over cells. *)

Orderly(words) == words \subseteq Nat \X Nat /\ \A u, w \in words : u[1] = w[1] => u[2] = w[2]

LEMMA WriteFacts ==
  ASSUME NEW cells \in Code, NEW words, Orderly(words), NEW r, r = wr_cword(cells, words)
  PROVE  /\ r \in Code /\ Len(r) = Len(cells)
         /\ \A w \in words : w[1] + 1 \in 1 .. Len(cells) => rd_cword(r, w[1]) = w[2]
         /\ \A j \in 1 .. Len(cells) : (\A w \in words : w[1] + 1 # j) => r[j] = cells[j]
         /\ \A j \in 1 .. Len(cells) : r[j] \notin Nat => r[j] = cells[j]
  <1> DEFINE here(j) == {w \in words : w[1] = j - 1}
  <1>1. Len(cells) \in Nat /\ DOMAIN cells = 1 .. Len(cells)
    BY DEF Code
  <1>2. r = [j \in 1 .. Len(cells) |-> IF here(j) = {} THEN cells[j] ELSE (CHOOSE w \in here(j) : TRUE)[2]]
    BY <1>1 DEF wr_cword
  <1>3. \A w \in words : w[1] \in Nat /\ w[2] \in Nat
    BY DEF Orderly
  <1>4. ASSUME NEW j \in 1 .. Len(cells), here(j) # {}
        PROVE  /\ r[j] \in Nat /\ \A w \in here(j) : r[j] = w[2]
    <2>1. PICK v : v = CHOOSE w \in here(j) : TRUE
      OBVIOUS
    <2>2. v \in here(j)
      BY <1>4, <2>1
    <2>3. r[j] = v[2]
      BY <1>2, <1>4, <2>1
    <2>4. \A w \in here(j) : w \in words /\ v \in words /\ w[1] = v[1]
      BY <2>2
    <2>5. \A w \in here(j) : w[2] = v[2]
      BY <2>4 DEF Orderly
    <2>6. v[2] \in Nat
      BY <1>3, <2>2
    <2>7. QED
      BY <2>3, <2>5, <2>6
  <1>5. ASSUME NEW j \in 1 .. Len(cells), here(j) = {} PROVE r[j] = cells[j]
    BY <1>2, <1>5
  <1>6. \A j \in 1 .. Len(cells) : r[j] \in Cell
    BY <1>4, <1>5 DEF Code, Cell
  <1>7. r \in Code /\ Len(r) = Len(cells)
    <2>1. r \in [1 .. Len(cells) -> Cell]
      BY <1>2, <1>6
    <2>2. QED
      BY <1>1, <2>1 DEF Code
  <1>8. ASSUME NEW w \in words, w[1] + 1 \in 1 .. Len(cells) PROVE rd_cword(r, w[1]) = w[2]
    <2>1. PICK j \in 1 .. Len(cells) : j = w[1] + 1
      BY <1>8
    <2>2. w[1] = j - 1
      BY <1>3, <2>1
    <2>3. w \in here(j)
      BY <2>2
    <2>4. QED
      BY <1>4, <2>1, <2>3 DEF rd_cword
  <1>9. ASSUME NEW j \in 1 .. Len(cells), \A w \in words : w[1] + 1 # j PROVE r[j] = cells[j]
    <2>1. here(j) = {}
      BY <1>3, <1>9
    <2>2. QED
      BY <1>5, <2>1
  <1>10. QED
    BY <1>4, <1>5, <1>7, <1>8, <1>9

-----------------------------------------------------------------------------
(* The words of a function go onto the chains of the text. *)

(* local[n] are the places of the words of n in the code of d. *)
Locals(d, local) ==
  /\ \A n \in Global : IsChain(d.codeBuf, d.symbolFixups[n], local[n])
  /\ \A m, n \in Global : \A i \in 1 .. Len(local[m]), j \in 1 .. Len(local[n]) :
       local[m][i] = local[n][j] => m = n

(* The head of the chain of n after i of its words. *)
HeadAt(d, base, local, n, i) == IF i = 0 THEN d.fixups[n] ELSE base + local[n][i]

Applied(d, base, local, a) ==
  /\ a \in Context /\ AllBut(d, a, {"codeBuf", "fixups"})
  /\ Len(a.codeBuf) = Len(d.codeBuf)
  /\ \A n \in Global : a.fixups[n] = HeadAt(d, base, local, n, Len(local[n]))
  /\ \A n \in Global : \A i \in 1 .. Len(local[n]) :
       rd_cword(a.codeBuf, local[n][i]) = HeadAt(d, base, local, n, i - 1)
  /\ \A o \in 1 .. Len(d.codeBuf) :
       (\A n \in Global : o - 1 \notin ToSet(local[n])) => a.codeBuf[o] = d.codeBuf[o]
  /\ \A o \in 1 .. Len(d.codeBuf) : a.codeBuf[o] \notin Nat => a.codeBuf[o] = d.codeBuf[o]

LEMMA ApplyFacts ==
  ASSUME NEW d \in Context, NEW base \in Nat, NEW local, Locals(d, local),
         NEW a, a = ApplyLocalFixups(d, base)
  PROVE  Applied(d, base, local, a)
  <1> DEFINE head(n, i) == HeadAt(d, base, local, n, i)
             words == UNION {{<<local[n][i], head(n, i - 1)>> : i \in DOMAIN local[n]} : n \in Global}
  <1>1. \A n \in Global : chain(d.codeBuf, d.symbolFixups[n]) = local[n]
    BY Types, ChainIs DEF Locals
  <1>2. \A n \in Global : local[n] \in Seq(Nat) /\ Len(local[n]) \in Nat
    BY DEF Locals, IsChain
  <1>3. a = [d EXCEPT !.codeBuf = wr_cword(d.codeBuf, words),
                      !.fixups = [n \in Global |-> head(n, Len(local[n]))]]
    <2> DEFINE loc == [n \in Global |-> chain(d.codeBuf, d.symbolFixups[n])]
               w2 == UNION {{<<loc[n][i], IF i - 1 = 0 THEN d.fixups[n] ELSE base + loc[n][i - 1]>>
                               : i \in DOMAIN loc[n]} : n \in Global}
    <2>1. a = [d EXCEPT !.codeBuf = wr_cword(d.codeBuf, w2),
                        !.fixups = [n \in Global |-> IF Len(loc[n]) = 0 THEN d.fixups[n]
                                                     ELSE base + loc[n][Len(loc[n])]]]
      BY DEF ApplyLocalFixups
    <2>2. \A n \in Global : loc[n] = local[n]
      BY <1>1
    <2> HIDE DEF loc
    <2>3. w2 = words
      <3> DEFINE A(n) == {<<loc[n][i], IF i - 1 = 0 THEN d.fixups[n] ELSE base + loc[n][i - 1]>>
                            : i \in DOMAIN loc[n]}
                 B(n) == {<<local[n][i], head(n, i - 1)>> : i \in DOMAIN local[n]}
      <3>1. \A n \in Global : A(n) = B(n)
        BY <2>2 DEF HeadAt
      <3>2. w2 = UNION {A(n) : n \in Global} /\ words = UNION {B(n) : n \in Global}
        OBVIOUS
      <3> HIDE DEF A, B, w2, words
      <3>3. QED
        BY <3>1, <3>2
    <2>4. [n \in Global |-> IF Len(loc[n]) = 0 THEN d.fixups[n] ELSE base + loc[n][Len(loc[n])]]
            = [n \in Global |-> head(n, Len(local[n]))]
      BY <2>2 DEF HeadAt
    <2> HIDE DEF w2, words
    <2>5. QED
      BY <2>1, <2>3, <2>4
  <1>4. \A n \in Global : \A i \in 1 .. Len(local[n]) : local[n][i] \in Nat
    BY <1>2
  <1>5. \A n \in Global : \A i \in 0 .. Len(local[n]) : head(n, i) \in Nat
    <2> SUFFICES ASSUME NEW n \in Global, NEW i \in 0 .. Len(local[n]) PROVE head(n, i) \in Nat
      OBVIOUS
    <2>1. CASE i = 0
      BY <2>1, Types DEF HeadAt
    <2>2. CASE i # 0
      <3>1. i \in 1 .. Len(local[n])
        BY <1>2, <2>2
      <3>2. local[n][i] \in Nat
        BY <1>4, <3>1
      <3>3. QED
        BY <2>2, <3>2 DEF HeadAt
    <2>3. QED
      BY <2>1, <2>2
  <1>6. \A w \in words : \E n \in Global : \E i \in 1 .. Len(local[n]) :
          w = <<local[n][i], head(n, i - 1)>>
    BY <1>2
  <1>7. \A n \in Global : \A i \in 1 .. Len(local[n]) : <<local[n][i], head(n, i - 1)>> \in words
    BY <1>2
  <1> HIDE DEF words, head
  <1>8. Orderly(words)
    <2>1. ASSUME NEW w \in words PROVE w \in Nat \X Nat
      <3>1a. PICK n \in Global : \E i \in 1 .. Len(local[n]) : w = <<local[n][i], head(n, i - 1)>>
        BY <1>6
      <3>1. PICK i \in 1 .. Len(local[n]) : w = <<local[n][i], head(n, i - 1)>>
        BY <3>1a
      <3>2. i - 1 \in 0 .. Len(local[n])
        BY <1>2
      <3>3. local[n][i] \in Nat /\ head(n, i - 1) \in Nat
        BY <1>4, <1>5, <3>2
      <3>4. QED
        BY <3>1, <3>3
    <2>2. ASSUME NEW u \in words, NEW w \in words, u[1] = w[1] PROVE u[2] = w[2]
      <3>1a. PICK m \in Global : \E i \in 1 .. Len(local[m]) : u = <<local[m][i], head(m, i - 1)>>
        BY <1>6
      <3>1. PICK i \in 1 .. Len(local[m]) : u = <<local[m][i], head(m, i - 1)>>
        BY <3>1a
      <3>2a. PICK n \in Global : \E j \in 1 .. Len(local[n]) : w = <<local[n][j], head(n, j - 1)>>
        BY <1>6
      <3>2. PICK j \in 1 .. Len(local[n]) : w = <<local[n][j], head(n, j - 1)>>
        BY <3>2a
      <3>3. local[m][i] = local[n][j]
        BY <2>2, <3>1, <3>2
      <3>4. m = n
        BY <3>3 DEF Locals
      <3>5. i = j
        BY <3>3, <3>4 DEF Locals, IsChain
      <3>6. QED
        BY <3>1, <3>2, <3>4, <3>5
    <2>3. QED
      BY <2>1, <2>2 DEF Orderly
  <1>9. PICK r : r = wr_cword(d.codeBuf, words)
    OBVIOUS
  <1>10. /\ r \in Code /\ Len(r) = Len(d.codeBuf)
         /\ \A w \in words : w[1] + 1 \in 1 .. Len(d.codeBuf) => rd_cword(r, w[1]) = w[2]
         /\ \A j \in 1 .. Len(d.codeBuf) : (\A w \in words : w[1] + 1 # j) => r[j] = d.codeBuf[j]
         /\ \A j \in 1 .. Len(d.codeBuf) : r[j] \notin Nat => r[j] = d.codeBuf[j]
    BY <1>8, <1>9, Types, WriteFacts
  <1>11. PICK fx : fx = [n \in Global |-> head(n, Len(local[n]))]
    OBVIOUS
  <1>12. \A n \in Global : head(n, Len(local[n])) \in Nat
    <2>1. \A n \in Global : Len(local[n]) \in 0 .. Len(local[n])
      BY <1>2
    <2>2. QED
      BY <1>5, <2>1
  <1>13. fx \in [Global -> Nat]
    BY <1>11, <1>12
  <1>14. /\ a \in Context /\ AllBut(d, a, {"codeBuf", "fixups"}) /\ a.codeBuf = r /\ a.fixups = fx
    <2>1. a = [d EXCEPT !.codeBuf = r, !.fixups = fx]
      BY <1>3, <1>9, <1>11
    <2>2. a \in Context
      BY <1>10, <1>13, <2>1, ZenonT(30) DEF Context
    <2>3. AllBut(d, a, {"codeBuf", "fixups"}) /\ a.codeBuf = r /\ a.fixups = fx
      BY <2>1 DEF Context, AllBut, Fields
    <2>4. QED
      BY <2>2, <2>3
  <1>15. ASSUME NEW n \in Global, NEW i \in 1 .. Len(local[n])
         PROVE  rd_cword(r, local[n][i]) = HeadAt(d, base, local, n, i - 1)
    <2>1. PICK w \in words : w = <<local[n][i], head(n, i - 1)>>
      BY <1>7
    <2>2. local[n][i] \in 1 .. Len(d.codeBuf) - 1
      BY DEF Locals, IsChain
    <2>3. w[1] + 1 \in 1 .. Len(d.codeBuf)
      BY <2>1, <2>2, Types
    <2>4. QED
      BY <1>10, <2>1, <2>3 DEF head
  <1>16. ASSUME NEW o \in 1 .. Len(d.codeBuf), \A n \in Global : o - 1 \notin ToSet(local[n])
         PROVE  r[o] = d.codeBuf[o]
    <2>1. ASSUME NEW w \in words PROVE w[1] + 1 # o
      <3>1a. PICK n \in Global : \E i \in 1 .. Len(local[n]) : w = <<local[n][i], head(n, i - 1)>>
        BY <1>6
      <3>1. PICK i \in 1 .. Len(local[n]) : w = <<local[n][i], head(n, i - 1)>>
        BY <3>1a
      <3>2. w[1] = local[n][i] /\ local[n][i] \in Nat
        BY <1>4, <3>1
      <3>3. local[n][i] \in ToSet(local[n])
        BY <1>2 DEF ToSet
      <3>4. w[1] # o - 1
        BY <1>16, <3>2, <3>3
      <3>5. QED
        BY <3>2, <3>4
    <2>2. QED
      BY <1>10, <2>1
  <1>17. QED
    BY <1>10, <1>11, <1>14, <1>15, <1>16 DEF Applied, head

IsJoin(a, b, e) ==
  /\ e \in Code /\ Len(e) = Len(a) + Len(b) /\ Begins(a, e)
  /\ Len(a) \in Nat /\ Len(b) \in Nat
  /\ \A o \in 1 .. Len(b) : e[Len(a) + o] = b[o]

LEMMA Joined ==
  ASSUME NEW a \in Code, NEW b \in Code, NEW e, e = a \o b
  PROVE  IsJoin(a, b, e)
  <1>1. Len(a) \in Nat /\ Len(b) \in Nat
    BY DEF Code
  <1>2. e \in Code /\ Len(e) = Len(a) + Len(b)
    BY DEF Code
  <1>3. \A i \in 1 .. Len(a) + Len(b) : e[i] = IF i <= Len(a) THEN a[i] ELSE b[i - Len(a)]
    BY DEF Code
  <1>4. Begins(a, e)
    BY <1>1, <1>2, <1>3 DEF Begins
  <1>5. ASSUME NEW o \in 1 .. Len(b) PROVE e[Len(a) + o] = b[o]
    <2>1. PICK i : i = Len(a) + o
      OBVIOUS
    <2>2. i \in 1 .. Len(a) + Len(b) /\ ~ (i <= Len(a)) /\ i - Len(a) = o
      BY <1>1, <2>1
    <2>3. QED
      BY <1>3, <2>1, <2>2
  <1>6. QED
    BY <1>1, <1>2, <1>4, <1>5 DEF IsJoin

Shifted(base, s, k) == {base + s[i] : i \in 1 .. k}

IsLonger(text, first, s, t, more) == IsChain(text, first, t) /\ ToSet(t) = ToSet(s) \cup more

(* The chain through the text goes on with the words of the function.      *)
LEMMA ChainJoins ==
  ASSUME NEW p \in Context, NEW a, NEW base, base = Len(p.text), NEW local,
         Locals(p, local), Applied(p, base, local, a),
         NEW text, text = p.text \o a.codeBuf,
         NEW n \in Global, NEW s, IsChain(p.text, p.fixups[n], s)
  PROVE  \E t : IsLonger(text, a.fixups[n], s, t, Shifted(base, local[n], Len(local[n])))
  <1>s. PICK w : w = local[n]
    OBVIOUS
  <1>L. PICK L : L = Len(w)
    OBVIOUS
  <1>M. PICK M : M = Len(p.codeBuf)
    OBVIOUS
  <1>1. /\ w \in Seq(Nat) /\ L \in Nat /\ IsChain(p.codeBuf, p.symbolFixups[n], w)
    BY <1>s, <1>L DEF Locals, IsChain
  <1>2. /\ a.codeBuf \in Code /\ Len(a.codeBuf) = M /\ M \in Nat
        /\ p.text \in Code /\ base \in Nat
    BY <1>M, Types DEF Applied
  <1>3. /\ text \in Code /\ Len(text) = base + M /\ Begins(p.text, text)
        /\ \A o \in 1 .. M : text[base + o] = a.codeBuf[o]
    <2>1. IsJoin(p.text, a.codeBuf, text)
      BY <1>2, Joined
    <2>2. QED
      BY <1>2, <2>1 DEF IsJoin
  <1>4. \A i \in 1 .. L : w[i] \in 1 .. M - 1
    BY <1>1, <1>L, <1>M DEF IsChain
  <1>5. \A i, j \in 1 .. L : w[i] = w[j] => i = j
    BY <1>1, <1>L DEF IsChain
  <1>6. ToSet(s) \subseteq 1 .. base - 1
    <2>1. DOMAIN s = 1 .. Len(s)
      BY DEF IsChain
    <2>2. QED
      BY <2>1 DEF IsChain, ToSet
  <1>7. IsChain(text, p.fixups[n], s)
    BY <1>2, <1>3, ChainGrows
  <1> DEFINE head(k) == HeadAt(p, base, local, n, k)
             S == {k \in 0 .. L : \E t : IsChain(text, head(k), t)
                                           /\ ToSet(t) = ToSet(s) \cup Shifted(base, w, k)}
  <1>8. 0 \in S
    <2>1. Shifted(base, w, 0) = {}
      BY DEF Shifted
    <2>2. head(0) = p.fixups[n]
      BY DEF HeadAt
    <2> HIDE DEF head
    <2>3. QED
      BY <1>1, <1>7, <2>1, <2>2
  <1>9. ASSUME NEW k \in 0 .. L - 1, k \in S PROVE k + 1 \in S
    <2>1. PICK t : IsChain(text, head(k), t) /\ ToSet(t) = ToSet(s) \cup Shifted(base, w, k)
      BY <1>9
    <2>2. PICK m : m = k + 1
      OBVIOUS
    <2>3. m \in 1 .. L /\ m \in 0 .. L /\ m # 0 /\ m - 1 = k /\ k \in Nat
      BY <1>1, <2>2
    <2>4. PICK o : o = base + w[m]
      OBVIOUS
    <2>5. head(m) = o
      BY <1>s, <2>3, <2>4 DEF HeadAt
    <2>6. rd_cword(a.codeBuf, w[m]) = head(k)
      BY <1>s, <1>L, <2>3 DEF Applied
    <2> HIDE DEF head
    <2>7. w[m] \in 1 .. M - 1 /\ w[m] + 1 \in 1 .. M /\ o \in 1 .. Len(text) - 1 /\ o >= base
          /\ o + 1 = base + (w[m] + 1)
      BY <1>2, <1>3, <1>4, <2>3, <2>4
    <2>8. rd_cword(text, o) = head(k)
      BY <1>3, <2>6, <2>7 DEF rd_cword
    <2>9. \A i \in 1 .. k : w[i] \in 1 .. M - 1 /\ w[i] # w[m]
      BY <1>1, <1>4, <1>5, <2>2, <2>3
    <2>10. o \notin Shifted(base, w, k)
      BY <1>2, <2>4, <2>7, <2>9 DEF Shifted
    <2>11. o \notin ToSet(s)
      BY <1>2, <1>6, <2>7
    <2>12. o \notin ToSet(t)
      BY <2>1, <2>10, <2>11
    <2>13. IsChain(text, rd_cword(text, o), t)
      BY <2>1, <2>8
    <2>c. o \in 1 .. Len(text) - 1 /\ text \in Code
      BY <1>3, <2>7
    <2>14. IsChain(text, o, <<o>> \o t) /\ ToSet(<<o>> \o t) = ToSet(t) \cup {o}
      BY <2>c, <2>12, <2>13, ChainCons
    <2>15. Shifted(base, w, m) = Shifted(base, w, k) \cup {o}
      <3>1. 1 .. m = (1 .. k) \cup {m}
        BY <2>2, <2>3
      <3>2. QED
        BY <2>4, <3>1 DEF Shifted
    <2>16. ToSet(<<o>> \o t) = ToSet(s) \cup Shifted(base, w, m)
      BY <2>1, <2>14, <2>15
    <2>17. QED
      BY <2>2, <2>3, <2>5, <2>14, <2>16
  <1> HIDE DEF S
  <1>10. 0 .. L \subseteq S
    BY <1>1, <1>8, <1>9, BoundedInduction
  <1>11. L \in S
    BY <1>1, <1>10
  <1>12. a.fixups[n] = head(L)
    BY <1>s, <1>L DEF Applied
  <1>13. QED
    BY <1>s, <1>L, <1>11, <1>12 DEF S, IsLonger

-----------------------------------------------------------------------------
(* The code of a function joins the text at base. *)

Moved(base, S) == {base + o : o \in S}

StoredWord(d, e, base, j) ==
  LET n == d.tree[j]
      r == base + Place(d, j)
      w == rd_cword(e.text, r)
  IN  /\ r \in base + 1 .. Len(e.text) - 1 /\ w \in Nat
      /\ n \in String => e.strings[n] # UNDEF /\ w = address(e, n)
      /\ n \in Global /\ d.offset[n] # UNDEF => w = address(d, n)

Stored(d, e, base) ==
  /\ e \in Context /\ e.codeBuf = <<>>
  /\ AllBut(d, e, {"codeBuf", "symbolFixups", "strings", "text", "fixups", "offset", "mainCode", "words"})
  /\ base \in Len(d.text) .. Len(e.text) - 1 /\ Begins(d.text, e.text)
  /\ e.offset = IF d.functionType = NONE THEN d.offset ELSE [d.offset EXCEPT ![d.functionType] = base]
  /\ d.functionType # NONE => e.text[base + 1] = FRAME
  /\ \A i \in Len(d.text) + 1 .. Len(e.text) :
       e.text[i] = FRAME => d.functionType # NONE /\ i = base + 1
  /\ \A s \in String : d.strings[s] # UNDEF => e.strings[s] = d.strings[s]
  /\ \A s \in String : d.strings[s] = UNDEF /\ e.strings[s] # UNDEF =>
       e.strings[s] \in Len(d.text) .. base - 1 /\ rd_cword(e.text, e.strings[s]) = DATA
  /\ e.words = d.words \cup {<<base + Place(d, j), d.tree[j]>> : j \in 1 .. Len(d.tree)}
  /\ \A j \in 1 .. Len(d.tree) : StoredWord(d, e, base, j)
  /\ \A n \in Global : \A s : IsChain(d.text, d.fixups[n], s) =>
       \E t : IsLonger(e.text, e.fixups[n], s, t, Moved(base, Wanting(d, n, Len(d.tree))))

Awaits(d, n, o) ==
  d.offset[n] = UNDEF /\ \E j \in 1 .. Len(d.tree) : d.tree[j] = n /\ o = Place(d, j)

LEMMA WantingIs ==
  ASSUME NEW d, NEW n, NEW o \in Wanting(d, n, Len(d.tree))
  PROVE  Awaits(d, n, o)
  BY DEF Wanting, Awaits

LEMMA PlacesDiffer ==
  ASSUME NEW d, NEW i \in Nat, NEW j \in Nat, Place(d, i) = Place(d, j)
  PROVE  i = j
  <1>1. Framing(d) \in 0 .. 1
    BY FramingIs
  <1>2. QED
    BY <1>1, PlaceIs

(* The chains of the words in the code of g, which d generates. *)
LEMMA LocalsExist ==
  ASSUME NEW d \in Context, NEW g, Generated(d, g), NEW p, p.codeBuf = g.codeBuf,
         p.symbolFixups = g.symbolFixups
  PROVE  \E local : Locals(p, local) /\ \A n \in Global : ToSet(local[n]) = Wanting(d, n, Len(d.tree))
  <1> DEFINE good(n, s) == IsChain(g.codeBuf, g.symbolFixups[n], s) /\ ToSet(s) = Wanting(d, n, Len(d.tree))
             local == [n \in Global |-> CHOOSE s : good(n, s)]
  <1>1. \A n \in Global : \E s : good(n, s)
    BY DEF Generated
  <1> HIDE DEF good
  <1>2. \A n \in Global : good(n, local[n])
    BY <1>1
  <1> HIDE DEF local
  <1>3. \A n \in Global : /\ IsChain(g.codeBuf, g.symbolFixups[n], local[n])
                          /\ ToSet(local[n]) = Wanting(d, n, Len(d.tree))
    BY <1>2 DEF good
  <1>4. ASSUME NEW m \in Global, NEW n \in Global,
               NEW i \in 1 .. Len(local[m]), NEW j \in 1 .. Len(local[n]), local[m][i] = local[n][j]
        PROVE  m = n
    <2>1. PICK o : o = local[m][i]
      OBVIOUS
    <2>2. DOMAIN local[m] = 1 .. Len(local[m]) /\ DOMAIN local[n] = 1 .. Len(local[n])
      BY <1>3 DEF IsChain
    <2>3. o \in ToSet(local[m]) /\ o \in ToSet(local[n])
      BY <1>4, <2>1, <2>2 DEF ToSet
    <2>4. o \in Wanting(d, m, Len(d.tree)) /\ o \in Wanting(d, n, Len(d.tree))
      BY <1>3, <2>3
    <2>a. Awaits(d, m, o) /\ Awaits(d, n, o)
      BY <2>4, WantingIs
    <2>5. PICK x \in 1 .. Len(d.tree) : d.tree[x] = m /\ o = Place(d, x)
      BY <2>a DEF Awaits
    <2>6. PICK y \in 1 .. Len(d.tree) : d.tree[y] = n /\ o = Place(d, y)
      BY <2>a DEF Awaits
    <2>7. x \in Nat /\ y \in Nat
      BY Types
    <2>8. x = y
      BY <2>5, <2>6, <2>7, PlacesDiffer
    <2>9. QED
      BY <2>5, <2>6, <2>8
  <1>5. QED
    BY <1>3, <1>4 DEF Locals

(* The same code, whatever symbolFixups was before. *)
LEMMA CleanStart ==
  ASSUME NEW d \in Context, NEW z, z = [d EXCEPT !.symbolFixups = [n \in Global |-> 0]]
  PROVE  /\ z \in Context /\ AllBut(d, z, {"symbolFixups"}) /\ \A n \in Global : z.symbolFixups[n] = 0
         /\ Framing(z) = Framing(d) /\ \A j : Place(z, j) = Place(d, j)
         /\ \A n : Wanting(z, n, Len(z.tree)) = Wanting(d, n, Len(d.tree))
  <1>1. z \in Context /\ AllBut(d, z, {"symbolFixups"}) /\ \A n \in Global : z.symbolFixups[n] = 0
    BY DEF Context, AllBut, Fields
  <1>2. z.tree = d.tree /\ z.offset = d.offset /\ z.functionType = d.functionType
    BY <1>1 DEF AllBut, Fields
  <1>3. Framing(z) = Framing(d)
    BY <1>2 DEF Framing, prologue
  <1>4. \A j : Place(z, j) = Place(d, j)
    BY <1>3 DEF Place
  <1>5. \A n : Wanting(z, n, Len(z.tree)) = Wanting(d, n, Len(d.tree))
    BY <1>2, <1>4 DEF Wanting
  <1>6. QED
    BY <1>1, <1>3, <1>4, <1>5

(* The code of d before it joins the text. *)
Ready(d, p, base) ==
  /\ p \in Context /\ base = Len(p.text)
  /\ AllBut(d, p, {"codeBuf", "symbolFixups", "strings", "text", "offset", "mainCode"})
  /\ p.offset = IF d.functionType = NONE THEN d.offset ELSE [d.offset EXCEPT ![d.functionType] = base]
  /\ Len(p.codeBuf) = Framing(d) + 2 * Len(d.tree) + 1
  /\ Framing(d) = 1 => p.codeBuf[1] = FRAME
  /\ \A o \in Framing(d) + 1 .. Len(p.codeBuf) : p.codeBuf[o] # FRAME
  /\ \A j \in 1 .. Len(d.tree) : WordIs(d, p, j)
  /\ TextGrows(d, p)

Assembled(d, e, p, base, local, a) ==
  /\ Ready(d, p, base) /\ Locals(p, local)
  /\ \A n \in Global : ToSet(local[n]) = Wanting(d, n, Len(d.tree))
  /\ a = ApplyLocalFixups(p, base)
  /\ e = [a EXCEPT
            !.text = a.text \o a.codeBuf, !.codeBuf = <<>>,
            !.words = a.words \cup {<<base + Place(d, j), d.tree[j]>> : j \in 1 .. Len(d.tree)}]

LEMMA ReadyFacts ==
  ASSUME NEW d \in Context, NEW e, e = StoreCode(d)
  PROVE  \E p, base, local, a : Assembled(d, e, p, base, local, a)
  <1>z. PICK z : z = [d EXCEPT !.symbolFixups = [n \in Global |-> 0]]
    OBVIOUS
  <1>1. /\ z \in Context /\ AllBut(d, z, {"symbolFixups"}) /\ \A n \in Global : z.symbolFixups[n] = 0
        /\ Framing(z) = Framing(d) /\ \A j : Place(z, j) = Place(d, j)
        /\ \A n : Wanting(z, n, Len(z.tree)) = Wanting(d, n, Len(d.tree))
    BY <1>z, CleanStart
  <1>2. z.tree = d.tree /\ z.offset = d.offset /\ z.strings = d.strings /\ z.text = d.text
    BY <1>1 DEF AllBut, Fields
  <1>g. PICK g : g = Generate(z)
    OBVIOUS
  <1>3. Generated(z, g)
    BY <1>1, <1>g, GenerateFacts
  <1>4. /\ g \in Context /\ AllBut(z, g, {"codeBuf", "symbolFixups", "strings", "text"})
    BY <1>3 DEF Generated
  <1>5. AllBut(d, g, {"codeBuf", "symbolFixups", "strings", "text"})
    BY <1>1, <1>4 DEF AllBut, Fields
  <1>b. PICK base \in Nat : base = Len(g.text)
    BY <1>4, Types
  <1>p. PICK p : p = IF d.functionType = NONE THEN [g EXCEPT !.mainCode = TextBase + base]
                                              ELSE [g EXCEPT !.offset[d.functionType] = base]
    OBVIOUS
  <1>6. /\ p \in Context /\ AllBut(g, p, {"offset", "mainCode"})
        /\ p.offset = IF d.functionType = NONE THEN g.offset ELSE [g.offset EXCEPT ![d.functionType] = base]
    <2>1. TextBase + base \in Offset /\ base \in Offset
      BY NamesAssumption DEF Offset
    <2>2. CASE d.functionType = NONE
      <3>1. p = [g EXCEPT !.mainCode = TextBase + base]
        BY <1>p, <2>2
      <3>2. QED
        BY <1>4, <2>1, <2>2, <3>1 DEF Context, AllBut, Fields
    <2>3. CASE d.functionType # NONE
      <3>1. p = [g EXCEPT !.offset = [g.offset EXCEPT ![d.functionType] = base]]
        BY <1>p, <2>3
      <3>2. [g.offset EXCEPT ![d.functionType] = base] \in [Global -> Offset]
        BY <1>4, <2>1, Types
      <3>3. QED
        BY <1>4, <2>3, <3>1, <3>2 DEF Context, AllBut, Fields
    <2>4. QED
      BY <2>2, <2>3
  <1>7. /\ p.codeBuf = g.codeBuf /\ p.symbolFixups = g.symbolFixups /\ p.text = g.text
        /\ p.strings = g.strings /\ g.offset = d.offset
    BY <1>5, <1>6 DEF AllBut, Fields
  <1>8. AllBut(d, p, {"codeBuf", "symbolFixups", "strings", "text", "offset", "mainCode"})
    BY <1>5, <1>6 DEF AllBut, Fields
  <1>9. ASSUME NEW j \in 1 .. Len(d.tree) PROVE WordIs(d, p, j)
    <2>1. WordIs(z, g, j)
      BY <1>2, <1>3 DEF Generated
    <2>2. d.tree[j] \in Name
      BY Types
    <2>3. d.tree[j] \in String => address(p, d.tree[j]) = address(g, d.tree[j])
      BY <1>4, <1>7, <2>2, AddressIs
    <2>4. d.tree[j] \in Global => address(z, d.tree[j]) = address(d, d.tree[j])
      BY <1>2, <2>2, AddressIs
    <2>5. QED
      BY <1>1, <1>2, <1>7, <2>1, <2>3, <2>4 DEF WordIs
  <1>10. TextGrows(d, p)
    BY <1>2, <1>3, <1>7 DEF Generated, TextGrows
  <1>11. Ready(d, p, base)
    <2>1. /\ Len(p.codeBuf) = Framing(d) + 2 * Len(d.tree) + 1
          /\ Framing(d) = 1 => p.codeBuf[1] = FRAME
          /\ \A o \in Framing(d) + 1 .. Len(p.codeBuf) : p.codeBuf[o] # FRAME
      BY <1>1, <1>2, <1>3, <1>7 DEF Generated
    <2>2. base = Len(p.text)
      BY <1>b, <1>7
    <2>3. p.offset = IF d.functionType = NONE THEN d.offset ELSE [d.offset EXCEPT ![d.functionType] = base]
      BY <1>6, <1>7
    <2>4. QED
      BY <1>6, <1>8, <1>9, <1>10, <2>1, <2>2, <2>3 DEF Ready
  <1>12. PICK local : Locals(p, local) /\ \A n \in Global : ToSet(local[n]) = Wanting(z, n, Len(z.tree))
    BY <1>1, <1>3, <1>7, LocalsExist
  <1>a. PICK a : a = ApplyLocalFixups(p, base)
    OBVIOUS
  <1>13. e = [a EXCEPT
                !.text = a.text \o a.codeBuf, !.codeBuf = <<>>,
                !.words = a.words \cup {<<base + Place(d, j), d.tree[j]>> : j \in 1 .. Len(d.tree)}]
    <2> DEFINE new == {<<base + Len(prologue(d)) + 2 * i - 1, d.tree[i]>> : i \in DOMAIN d.tree}
    <2>1. e = [a EXCEPT !.text = a.text \o a.codeBuf, !.codeBuf = <<>>, !.words = a.words \cup new]
      BY <1>z, <1>g, <1>b, <1>p, <1>a DEF StoreCode
    <2>2. new = {<<base + Place(d, j), d.tree[j]>> : j \in 1 .. Len(d.tree)}
      <3>1. DOMAIN d.tree = 1 .. Len(d.tree) /\ Len(d.tree) \in Nat
        BY Types
      <3>2. \A i \in 1 .. Len(d.tree) : base + Len(prologue(d)) + 2 * i - 1 = base + Place(d, i)
        <4>1. Len(prologue(d)) \in 0 .. 1
          BY FramingIs DEF Framing
        <4>2. QED
          BY <3>1, <4>1 DEF Place, Framing
      <3>3. QED
        BY <3>1, <3>2
    <2>3. QED
      BY <2>1, <2>2
  <1>14. \A n \in Global : ToSet(local[n]) = Wanting(d, n, Len(d.tree))
    BY <1>1, <1>12
  <1>15. Assembled(d, e, p, base, local, a)
    BY <1>11, <1>12, <1>13, <1>14, <1>a DEF Assembled
  <1>16. QED
    BY <1>15

(* Words that do not wait keep their contents when the chains are made. *)
LEMMA KeptWords ==
  ASSUME NEW d \in Context, NEW p, NEW base, Ready(d, p, base), NEW local, NEW a,
         Applied(p, base, local, a),
         \A n \in Global : ToSet(local[n]) = Wanting(d, n, Len(d.tree)),
         NEW j \in 1 .. Len(d.tree)
  PROVE  /\ Place(d, j) \in 1 .. Len(a.codeBuf) - 1
         /\ rd_cword(a.codeBuf, Place(d, j)) \in Nat
         /\ d.tree[j] \in String \/ (d.tree[j] \in Global /\ d.offset[d.tree[j]] # UNDEF) =>
              rd_cword(a.codeBuf, Place(d, j)) = rd_cword(p.codeBuf, Place(d, j))
  <1>1. Framing(d) \in 0 .. 1 /\ Len(d.tree) \in Nat /\ j \in Nat
    BY FramingIs, Types
  <1>2. Len(a.codeBuf) = Len(p.codeBuf) /\ Len(p.codeBuf) = Framing(d) + 2 * Len(d.tree) + 1
    BY DEF Applied, Ready
  <1>3. PICK o : o = Place(d, j) + 1
    OBVIOUS
  <1>4. Place(d, j) \in 1 .. Len(a.codeBuf) - 1 /\ o \in 1 .. Len(p.codeBuf) /\ o - 1 = Place(d, j)
    BY <1>1, <1>2, <1>3, PlaceIs
  <1>5. rd_cword(a.codeBuf, Place(d, j)) = a.codeBuf[o] /\ rd_cword(p.codeBuf, Place(d, j)) = p.codeBuf[o]
    BY <1>3 DEF rd_cword
  <1>6. p.codeBuf[o] \in Nat
    BY <1>5 DEF Ready, WordIs
  <1>7. a.codeBuf[o] \in Nat
    BY <1>4, <1>6 DEF Applied
  <1>8. ASSUME d.tree[j] \in String \/ (d.tree[j] \in Global /\ d.offset[d.tree[j]] # UNDEF)
        PROVE  a.codeBuf[o] = p.codeBuf[o]
    <2>1. ASSUME NEW n \in Global, o - 1 \in ToSet(local[n]) PROVE FALSE
      <3>1. Place(d, j) \in Wanting(d, n, Len(d.tree))
        BY <1>4, <2>1
      <3>a. Awaits(d, n, Place(d, j))
        BY <3>1, WantingIs
      <3>2. d.offset[n] = UNDEF
        BY <3>a DEF Awaits
      <3>3. PICK i \in 1 .. Len(d.tree) : d.tree[i] = n /\ Place(d, j) = Place(d, i)
        BY <3>a DEF Awaits
      <3>4. i = j
        BY <1>1, <3>3, PlacesDiffer
      <3>5. QED
        BY <1>8, <3>2, <3>3, <3>4, Names
    <2>2. QED
      BY <1>4, <2>1 DEF Applied
  <1>9. QED
    BY <1>4, <1>5, <1>7, <1>8

LEMMA StoreFacts ==
  ASSUME NEW d \in Context, NEW e, e = StoreCode(d)
  PROVE  \E base : Stored(d, e, base)
  <1>1. PICK p, base, local, a : Assembled(d, e, p, base, local, a)
    BY ReadyFacts
  <1>2. /\ Ready(d, p, base) /\ Locals(p, local) /\ a = ApplyLocalFixups(p, base)
        /\ \A n \in Global : ToSet(local[n]) = Wanting(d, n, Len(d.tree))
    BY <1>1 DEF Assembled
  <1>3. /\ p \in Context /\ base = Len(p.text) /\ base \in Nat
        /\ AllBut(d, p, {"codeBuf", "symbolFixups", "strings", "text", "offset", "mainCode"})
    BY <1>2, Types DEF Ready
  <1>4. Applied(p, base, local, a)
    BY <1>2, <1>3, ApplyFacts
  <1>5. a \in Context /\ AllBut(p, a, {"codeBuf", "fixups"}) /\ Len(a.codeBuf) = Len(p.codeBuf)
    BY <1>4 DEF Applied
  <1>6. /\ a.text = p.text /\ a.offset = p.offset /\ a.strings = p.strings /\ a.words = d.words
        /\ p.fixups = d.fixups
    BY <1>3, <1>5 DEF AllBut, Fields
  <1>t. PICK text : text = p.text \o a.codeBuf
    OBVIOUS
  <1>w. PICK words : words = d.words \cup {<<base + Place(d, j), d.tree[j]>> : j \in 1 .. Len(d.tree)}
    OBVIOUS
  <1>7. e = [a EXCEPT !.text = text, !.codeBuf = <<>>, !.words = words]
    BY <1>1, <1>6, <1>t, <1>w DEF Assembled
  <1>8. /\ text \in Code /\ Len(text) = base + Len(p.codeBuf) /\ Begins(p.text, text)
        /\ Len(p.codeBuf) \in Nat
        /\ \A o \in 1 .. Len(p.codeBuf) : text[base + o] = a.codeBuf[o]
    <2>1. p.text \in Code /\ a.codeBuf \in Code
      BY <1>3, <1>5, Types
    <2>2. IsJoin(p.text, a.codeBuf, text)
      BY <1>t, <2>1, Joined
    <2>3. QED
      BY <1>3, <1>5, <2>2 DEF IsJoin
  <1>9. /\ Framing(d) \in 0 .. 1 /\ Len(d.tree) \in Nat /\ Len(d.text) \in Nat
        /\ Len(p.codeBuf) = Framing(d) + 2 * Len(d.tree) + 1
    BY <1>2, FramingIs, Types DEF Ready
  <1>10. \A j \in 1 .. Len(d.tree) :
           /\ Place(d, j) \in 1 .. Len(p.codeBuf) - 1
           /\ rd_cword(a.codeBuf, Place(d, j)) \in Nat
           /\ d.tree[j] \in String \/ (d.tree[j] \in Global /\ d.offset[d.tree[j]] # UNDEF) =>
                rd_cword(a.codeBuf, Place(d, j)) = rd_cword(p.codeBuf, Place(d, j))
    BY <1>2, <1>4, <1>5, KeptWords
  <1>11. words \in SUBSET (Nat \X Name)
    <2>1. \A j \in 1 .. Len(d.tree) : base + Place(d, j) \in Nat /\ d.tree[j] \in Name
      BY <1>3, <1>10, Types
    <2>2. d.words \in SUBSET (Nat \X Name)
      BY DEF Context
    <2>3. QED
      BY <1>w, <2>1, <2>2
  <1>12. e \in Context /\ AllBut(a, e, {"text", "codeBuf", "words"})
         /\ e.text = text /\ e.codeBuf = <<>> /\ e.words = words
    <2>1. <<>> \in Code
      BY DEF Code
    <2>2. e \in Context
      BY <1>5, <1>7, <1>8, <1>11, <2>1, ZenonT(30) DEF Context
    <2>3. AllBut(a, e, {"text", "codeBuf", "words"}) /\ e.text = text /\ e.codeBuf = <<>> /\ e.words = words
      BY <1>5, <1>7, <1>8, <1>11, <2>1 DEF Context, AllBut, Fields
    <2>4. QED
      BY <2>2, <2>3
  <1>13. AllBut(d, e, {"codeBuf", "symbolFixups", "strings", "text", "fixups", "offset", "mainCode", "words"})
    BY <1>3, <1>5, <1>12 DEF AllBut, Fields
  <1>14. e.offset = p.offset /\ e.strings = p.strings /\ e.fixups = a.fixups
    BY <1>6, <1>12 DEF AllBut, Fields
  <1>15. /\ Begins(d.text, p.text) /\ Len(d.text) <= base
         /\ \A i \in Len(d.text) + 1 .. base : p.text[i] = DATA
         /\ \A s \in String : d.strings[s] # UNDEF => p.strings[s] = d.strings[s]
         /\ \A s \in String : d.strings[s] = UNDEF /\ p.strings[s] # UNDEF =>
              p.strings[s] \in Len(d.text) .. base - 1
    BY <1>2, <1>3 DEF Ready, TextGrows, Begins
  <1>16. Begins(d.text, text)
    BY <1>3, <1>8, <1>15, Types, BeginsTransitive
  <1>17. base \in Len(d.text) .. Len(text) - 1
    BY <1>3, <1>8, <1>9, <1>15
  <1>18. \A i \in 1 .. base : text[i] = p.text[i]
    BY <1>3, <1>8 DEF Begins
  <1>19. d.functionType # NONE => text[base + 1] = FRAME
    <2> SUFFICES ASSUME d.functionType # NONE PROVE text[base + 1] = FRAME
      OBVIOUS
    <2>1. Framing(d) = 1 /\ p.codeBuf[1] = FRAME
      BY <1>2, FramingIs DEF Ready
    <2>2. ASSUME NEW n \in Global, 1 - 1 \in ToSet(local[n]) PROVE FALSE
      <3>1. PICK o : o = 0
        OBVIOUS
      <3>2. o \in Wanting(d, n, Len(d.tree))
        BY <1>2, <2>2, <3>1
      <3>3. PICK j \in 1 .. Len(d.tree) : d.tree[j] = n /\ o = Place(d, j)
        <4>1. Awaits(d, n, o)
          BY <3>2, WantingIs
        <4>2. QED
          BY <4>1 DEF Awaits
      <3>4. Place(d, j) \in 1 .. Len(p.codeBuf) - 1
        BY <1>10
      <3>5. QED
        BY <1>8, <3>1, <3>3, <3>4
    <2>3. 1 \in 1 .. Len(p.codeBuf)
      BY <1>9
    <2>4. a.codeBuf[1] = p.codeBuf[1]
      BY <1>4, <2>2, <2>3 DEF Applied
    <2>5. QED
      BY <1>8, <2>1, <2>3, <2>4
  <1>20. ASSUME NEW i \in Len(d.text) + 1 .. Len(text), text[i] = FRAME
         PROVE  d.functionType # NONE /\ i = base + 1
    <2>1. CASE i <= base
      <3>1. i \in 1 .. base /\ i \in Len(d.text) + 1 .. base
        BY <1>3, <1>9, <2>1
      <3>2. text[i] = DATA
        BY <1>15, <1>18, <3>1
      <3>3. QED
        BY <1>20, <3>2 DEF FRAME, DATA
    <2>2. CASE ~ (i <= base)
      <3>1. PICK o : o = i - base
        OBVIOUS
      <3>2. o \in 1 .. Len(p.codeBuf) /\ i = base + o
        BY <1>3, <1>8, <1>9, <2>2, <3>1
      <3>3. a.codeBuf[o] = FRAME
        BY <1>8, <1>20, <3>2
      <3>4. a.codeBuf[o] \notin Nat
        BY <3>3 DEF FRAME
      <3>5. p.codeBuf[o] = FRAME
        BY <1>4, <3>2, <3>3, <3>4 DEF Applied
      <3>6. ~ (o >= Framing(d) + 1)
        BY <1>2, <1>9, <3>2, <3>5 DEF Ready
      <3>7. Framing(d) = 1 /\ o = 1
        BY <1>9, <3>2, <3>6
      <3>8. QED
        BY <3>2, <3>7, FramingIs
    <2>3. QED
      BY <2>1, <2>2
  <1>21. ASSUME NEW s \in String, d.strings[s] = UNDEF, p.strings[s] # UNDEF
         PROVE  p.strings[s] \in Len(d.text) .. base - 1 /\ rd_cword(text, p.strings[s]) = DATA
    <2>1. p.strings[s] \in Len(d.text) .. base - 1
      BY <1>15, <1>21
    <2>2. PICK i : i = p.strings[s] + 1
      OBVIOUS
    <2>3. i \in Len(d.text) + 1 .. base /\ i \in 1 .. base
      BY <1>3, <1>9, <2>1, <2>2
    <2>4. text[i] = DATA
      BY <1>15, <1>18, <2>3
    <2>5. QED
      BY <2>1, <2>2, <2>4 DEF rd_cword
  <1>22. ASSUME NEW j \in 1 .. Len(d.tree) PROVE StoredWord(d, e, base, j)
    <2>1. PICK o : o = Place(d, j) + 1
      OBVIOUS
    <2>2. o \in 1 .. Len(p.codeBuf) /\ (base + Place(d, j)) + 1 = base + o
          /\ base + Place(d, j) \in base + 1 .. Len(text) - 1
      <3>1. Place(d, j) \in 1 .. Len(p.codeBuf) - 1
        BY <1>10
      <3>2. Len(text) = base + Len(p.codeBuf) /\ Len(p.codeBuf) \in Nat /\ base \in Nat
        BY <1>3, <1>8
      <3>3. QED
        BY <2>1, <3>1, <3>2
    <2>3. rd_cword(text, base + Place(d, j)) = rd_cword(a.codeBuf, Place(d, j))
      BY <1>8, <2>1, <2>2 DEF rd_cword
    <2>4. WordIs(d, p, j)
      BY <1>2 DEF Ready
    <2>5. d.tree[j] \in Name
      BY Types
    <2>6. d.tree[j] \in String => address(e, d.tree[j]) = address(p, d.tree[j])
      BY <1>3, <1>14, <2>5, AddressIs
    <2>7. QED
      BY <1>10, <1>12, <1>14, <2>2, <2>3, <2>4, <2>6 DEF StoredWord, WordIs
  <1>23. ASSUME NEW n \in Global, NEW s, IsChain(d.text, d.fixups[n], s)
         PROVE  \E t : IsLonger(e.text, e.fixups[n], s, t, Moved(base, Wanting(d, n, Len(d.tree))))
    <2>1. IsChain(p.text, p.fixups[n], s)
      BY <1>3, <1>6, <1>15, <1>23, Types, ChainGrows
    <2>2. PICK t : IsLonger(text, a.fixups[n], s, t, Shifted(base, local[n], Len(local[n])))
      <3>1. p \in Context /\ base = Len(p.text) /\ Locals(p, local)
        BY <1>2, <1>3
      <3>2. QED
        BY <1>4, <1>t, <2>1, <3>1, ChainJoins
    <2>3. Shifted(base, local[n], Len(local[n])) = Moved(base, Wanting(d, n, Len(d.tree)))
      <3>1. DOMAIN local[n] = 1 .. Len(local[n])
        BY <1>2 DEF Locals, IsChain
      <3>2. {base + o : o \in ToSet(local[n])} = {base + local[n][i] : i \in 1 .. Len(local[n])}
        BY <3>1 DEF ToSet
      <3>3. QED
        BY <1>2, <3>2 DEF Shifted, Moved
    <2>4. QED
      BY <1>12, <1>14, <2>2, <2>3
  <1>24. e.offset = IF d.functionType = NONE THEN d.offset ELSE [d.offset EXCEPT ![d.functionType] = base]
    BY <1>2, <1>14 DEF Ready
  <1>25. Stored(d, e, base)
    BY <1>12, <1>13, <1>14, <1>15, <1>16, <1>17, <1>19, <1>20, <1>21, <1>22, <1>23, <1>24, <1>w DEF Stored
  <1>26. QED
    BY <1>25

-----------------------------------------------------------------------------
(* What holds of the context d before line k of the program p. *)

Compiling(d) == d.status = "compiling"
Defined(p, k, f) == \E i \in 1 .. k - 1 : p[i] = def(f)
Open(p, k) == IF owner(p, k - 1) = MAIN THEN NONE ELSE owner(p, k - 1)
Used(p, o, k) == {n \in Global : \E i \in 1 .. k - 1 : p[i] = use(n) /\ owner(p, i) = o}
Who(d) == IF d.functionType = NONE THEN MAIN ELSE d.functionType

Typed(p, d, k) ==
  /\ p \in Programs /\ k \in 1 .. Len(p) + 1
  /\ d \in Context /\ (Compiling(d) => d.pass \in 1 .. 3)

(* How far definitions have been found. *)
Found(p, d, k) == IF d.pass = 1 THEN k ELSE Len(p) + 1
Scanned(p, d, k) ==
  Compiling(d) =>
    /\ \A f \in Function : \A i, j \in 1 .. Found(p, d, k) - 1 : p[i] = def(f) /\ p[j] = def(f) => i = j
    /\ \A f \in Function : Defined(p, Found(p, d, k), f) => f \in d.globals
    /\ Found(p, d, k) > 1 => p[1] # enddef

(* A program that does not end its last function is rejected in the second *)
(* pass, on its first line.                                                *)
Stuck(p, d, k) ==
  /\ d.pass = 2 /\ k = 1 /\ d.functionType # NONE /\ d.function = NONE
  /\ d.mainState = "not_defined" /\ Len(p) > 0

Followed(p, d, k) ==
  /\ d.functionType = Open(p, k)
  /\ d.pass > 1 => Open(p, Len(p) + 1) = NONE
  /\ d.pass = 1 => d.mainState = "not_defined" /\ d.function = NONE
  /\ d.pass > 1 /\ d.functionType # NONE => d.function = d.functionType /\ d.mainState # "in_progress"
  /\ d.pass > 1 /\ d.functionType = NONE =>
       d.function = IF d.mainState = "in_progress" THEN MAIN ELSE NONE

Depends(p, d, k) ==
  /\ d.pass = 1 => \A f \in Function : d.functionDependencies[f] = {}
  /\ d.pass = 2 =>
       /\ d.function # NONE => d.dependencies = Used(p, Who(d), k)
       /\ \A f \in Function \ {d.functionType} : d.functionDependencies[f] = Used(p, f, k)
       /\ d.mainState = "not_defined" => Used(p, MAIN, k) = {}
       /\ d.mainState = "defined" => d.mainDependencies = Used(p, MAIN, k)

(* The tree of the function that is being read. *)
Building(p, d) ==
  d.function # NONE => \A j \in 1 .. Len(d.tree) :
    /\ d.tree[j] \in String \cup d.globals
    /\ d.tree[j] \in Function => d.tree[j] \in used_by(p, Who(d))

Reading(p, d, k) ==
  Compiling(d) => \/ Stuck(p, d, k)
                  \/ Followed(p, d, k) /\ Depends(p, d, k) /\ Building(p, d)

Placed(p, d, k) ==
  /\ \A v \in Variable : v \in d.globals <=> d.offset[v] # UNDEF
  /\ d.data = Cardinality(d.globals \cap Variable)
  /\ Compiling(d) /\ d.pass < 3 => d.words = {} /\ \A f \in Function : d.offset[f] = UNDEF
  /\ Compiling(d) /\ d.pass = 3 =>
       /\ d.mainDependencies \cap Function = Reachable(p)
       /\ \A f \in Function :
            d.offset[f] # UNDEF <=> f \in d.mainDependencies /\ Defined(p, k, f) /\ d.functionType # f
  /\ d.status = "done" => {f \in Function : d.offset[f] # UNDEF} = Reachable(p)

(* The sections. *)
Framed(d) ==
  /\ \A f \in Function : d.offset[f] # UNDEF =>
       d.offset[f] \in 1 .. Len(d.text) - 1 /\ rd_cword(d.text, d.offset[f]) = FRAME
  /\ \A f, g \in Function : d.offset[f] # UNDEF /\ d.offset[f] = d.offset[g] => f = g
  /\ \A i \in 1 .. Len(d.text) : d.text[i] = FRAME => \E f \in Function : d.offset[f] = i - 1
Quoted(d) ==
  \A s \in String : d.strings[s] # UNDEF =>
    d.strings[s] \in 1 .. Len(d.text) - 1 /\ rd_cword(d.text, d.strings[s]) = DATA
Worded(d) ==
  /\ \A r \in d.words :
       /\ r[1] \in 1 .. Len(d.text) - 1 /\ rd_cword(d.text, r[1]) \in Nat
       /\ r[2] \in String \cup d.globals
       /\ r[2] \in Function => r[2] \in d.mainDependencies
       /\ r[2] \in String => d.strings[r[2]] # UNDEF /\ rd_cword(d.text, r[1]) = address(d, r[2])
  /\ \A r, q \in d.words : r[1] = q[1] => r = q
Waits(d, n, s) ==
  /\ s \subseteq places(d, n)
  /\ \A o \in places(d, n) \ s : d.offset[n] # UNDEF /\ rd_cword(d.text, o) = address(d, n)
Linked(d) ==
  d.status # "done" =>
    \A n \in Global : \E s : IsChain(d.text, d.fixups[n], s) /\ Waits(d, n, ToSet(s))
Resolved(d) ==
  d.status = "done" => \A r \in d.words : r[2] \in Global =>
    d.offset[r[2]] # UNDEF /\ rd_cword(d.text, r[1]) = address(d, r[2])
Sections(d) ==
  /\ Len(d.text) >= 1 /\ d.codeBuf = <<>>
  /\ \A n \in Global : d.fixups[n] \in 0 .. Len(d.text) - 1
  /\ Framed(d) /\ Quoted(d) /\ Worded(d)
  /\ Linked(d) /\ Resolved(d)

Invariant(p, d, k) ==
  Typed(p, d, k) /\ Scanned(p, d, k) /\ Reading(p, d, k) /\ Placed(p, d, k) /\ Sections(d)
CompilerInvariant == Invariant(program, c, line)

-----------------------------------------------------------------------------
(* The sections stay in order. *)

LEMMA WordTypes ==
  ASSUME NEW d \in Context, NEW r \in d.words
  PROVE  r[1] \in Nat /\ r[2] \in Name /\ r = <<r[1], r[2]>>
  <1>1. r \in Nat \X Name
    BY DEF Context
  <1>2. QED
    BY <1>1

LEMMA PlacesAre ==
  ASSUME NEW d, NEW n, NEW o
  PROVE  o \in places(d, n) <=> \E r \in d.words : r[1] = o /\ r[2] = n
  BY DEF places

(* Nothing but the symbols changes, and addresses stay. *)
SameSections(d, e) ==
  /\ e.text = d.text /\ e.codeBuf = d.codeBuf /\ e.fixups = d.fixups
  /\ e.strings = d.strings /\ e.words = d.words
  /\ \A n \in Global : d.offset[n] # UNDEF => e.offset[n] = d.offset[n]
  /\ \A f \in Function : e.offset[f] = d.offset[f]
  /\ d.globals \subseteq e.globals
  /\ d.words = {} \/ e.mainDependencies = d.mainDependencies
  /\ d.status # "done" /\ e.status # "done"

LEMMA SectionsKept ==
  ASSUME NEW d \in Context, NEW e \in Context, Sections(d), SameSections(d, e)
  PROVE  Sections(e)
  <1>1. /\ e.text = d.text /\ e.codeBuf = d.codeBuf /\ e.fixups = d.fixups
        /\ e.strings = d.strings /\ e.words = d.words
    BY DEF SameSections
  <1>2. Framed(e)
    BY <1>1 DEF Sections, Framed, SameSections
  <1>3. Quoted(e)
    BY <1>1 DEF Sections, Quoted
  <1>4. \A n \in Name : n \in String => address(e, n) = address(d, n)
    BY <1>1, AddressIs
  <1>5. Worded(e)
    <2>1. \A r, q \in e.words : r[1] = q[1] => r = q
      BY <1>1 DEF Sections, Worded
    <2>2. ASSUME NEW r \in e.words
          PROVE  /\ r[1] \in 1 .. Len(e.text) - 1 /\ rd_cword(e.text, r[1]) \in Nat
                 /\ r[2] \in String \cup e.globals
                 /\ r[2] \in Function => r[2] \in e.mainDependencies
                 /\ r[2] \in String => e.strings[r[2]] # UNDEF /\ rd_cword(e.text, r[1]) = address(e, r[2])
      <3>1. r \in d.words /\ d.words # {} /\ r[2] \in Name
        BY <1>1, WordTypes
      <3>2. /\ r[1] \in 1 .. Len(d.text) - 1 /\ rd_cword(d.text, r[1]) \in Nat
            /\ r[2] \in String \cup d.globals
            /\ r[2] \in Function => r[2] \in d.mainDependencies
            /\ r[2] \in String => d.strings[r[2]] # UNDEF /\ rd_cword(d.text, r[1]) = address(d, r[2])
        BY <3>1 DEF Sections, Worded
      <3>3. e.mainDependencies = d.mainDependencies /\ d.globals \subseteq e.globals
        BY <3>1 DEF SameSections
      <3>4. QED
        BY <1>1, <1>4, <3>1, <3>2, <3>3
    <2>3. QED
      BY <2>1, <2>2 DEF Worded
  <1>6. Linked(e)
    <2>1. ASSUME NEW n \in Global
          PROVE  \E s : IsChain(e.text, e.fixups[n], s) /\ Waits(e, n, ToSet(s))
      <3>1. PICK s : IsChain(d.text, d.fixups[n], s) /\ Waits(d, n, ToSet(s))
        BY DEF Sections, Linked, SameSections
      <3>2. places(e, n) = places(d, n)
        BY <1>1 DEF places
      <3>3. d.offset[n] # UNDEF => e.offset[n] = d.offset[n] /\ address(e, n) = address(d, n)
        BY Names, AddressIs DEF SameSections
      <3>4. Waits(e, n, ToSet(s))
        BY <1>1, <3>1, <3>2, <3>3 DEF Waits
      <3>5. QED
        BY <1>1, <3>1, <3>4
    <2>2. QED
      BY <2>1 DEF Linked
  <1>7. Resolved(e)
    BY DEF Resolved, SameSections
  <1>8. QED
    BY <1>1, <1>2, <1>3, <1>5, <1>6, <1>7 DEF Sections

(* The function can be stored: it has no place yet, and its words mean     *)
(* symbols that will have one.                                             *)
Storable(d) ==
  /\ d.status # "done" /\ Sections(d)
  /\ d.functionType # NONE => d.functionType \in Function /\ d.offset[d.functionType] = UNDEF
  /\ \A j \in 1 .. Len(d.tree) :
       /\ d.tree[j] \in String \cup d.globals
       /\ d.tree[j] \in Function => d.tree[j] \in d.mainDependencies

(* What is read where it was stays as it was. *)
LEMMA StoredReads ==
  ASSUME NEW d \in Context, NEW e, NEW base, Stored(d, e, base), Sections(d)
  PROVE  /\ e \in Context /\ base \in Nat /\ Len(d.text) \in Nat /\ Len(e.text) \in Nat
         /\ 1 <= Len(d.text) /\ Len(d.text) <= base /\ base < Len(e.text)
         /\ \A i \in 1 .. Len(d.text) : e.text[i] = d.text[i]
         /\ \A o \in 1 .. Len(d.text) - 1 : rd_cword(e.text, o) = rd_cword(d.text, o)
         /\ e.globals = d.globals /\ e.mainDependencies = d.mainDependencies /\ e.status = d.status
  <1>1. /\ e \in Context /\ base \in Len(d.text) .. Len(e.text) - 1 /\ Begins(d.text, e.text)
        /\ AllBut(d, e, {"codeBuf", "symbolFixups", "strings", "text", "fixups", "offset", "mainCode", "words"})
    BY DEF Stored
  <1>2. e.globals = d.globals /\ e.mainDependencies = d.mainDependencies /\ e.status = d.status
    BY <1>1 DEF AllBut, Fields
  <1>3. Len(d.text) \in Nat /\ Len(e.text) \in Nat /\ 1 <= Len(d.text)
    BY <1>1, Types DEF Sections
  <1>4. base \in Nat /\ Len(d.text) <= base /\ base < Len(e.text)
    BY <1>1, <1>3
  <1>5. \A i \in 1 .. Len(d.text) : e.text[i] = d.text[i]
    BY <1>1 DEF Begins
  <1>6. \A o \in 1 .. Len(d.text) - 1 : o + 1 \in 1 .. Len(d.text)
    BY <1>3
  <1>7. \A o \in 1 .. Len(d.text) - 1 : rd_cword(e.text, o) = rd_cword(d.text, o)
    BY <1>5, <1>6 DEF rd_cword
  <1>8. QED
    BY <1>1, <1>2, <1>3, <1>4, <1>5, <1>7

LEMMA StoredOffsets ==
  ASSUME NEW d \in Context, NEW e, NEW base, Stored(d, e, base), Storable(d)
  PROVE  /\ \A n \in Global : d.offset[n] # UNDEF => e.offset[n] = d.offset[n]
         /\ \A n \in Global : n # d.functionType => e.offset[n] = d.offset[n]
         /\ d.functionType # NONE => e.offset[d.functionType] = base
  <1>1. d.offset \in [Global -> Offset] /\ Function \subseteq Global
    BY Types, Names
  <1>2. CASE d.functionType = NONE
    <2>1. e.offset = d.offset
      BY <1>2 DEF Stored
    <2>2. QED
      BY <1>2, <2>1
  <1>3. CASE d.functionType # NONE
    <2>1. e.offset = [d.offset EXCEPT ![d.functionType] = base]
      BY <1>3 DEF Stored
    <2>2. d.functionType \in Global /\ d.offset[d.functionType] = UNDEF
      BY <1>1, <1>3 DEF Storable
    <2>3. QED
      BY <1>1, <1>3, <2>1, <2>2
  <1>4. QED
    BY <1>2, <1>3

LEMMA FramedStore ==
  ASSUME NEW d \in Context, NEW e, NEW base, Stored(d, e, base), Storable(d)
  PROVE  Framed(e)
  <1>1. Sections(d) /\ Framed(d)
    BY DEF Storable, Sections
  <1>2. /\ base \in Nat /\ Len(d.text) \in Nat /\ Len(e.text) \in Nat
        /\ 1 <= Len(d.text) /\ Len(d.text) <= base /\ base < Len(e.text)
        /\ \A i \in 1 .. Len(d.text) : e.text[i] = d.text[i]
        /\ \A o \in 1 .. Len(d.text) - 1 : rd_cword(e.text, o) = rd_cword(d.text, o)
    BY <1>1, StoredReads
  <1>3. /\ \A n \in Global : d.offset[n] # UNDEF => e.offset[n] = d.offset[n]
        /\ \A n \in Global : n # d.functionType => e.offset[n] = d.offset[n]
        /\ d.functionType # NONE => e.offset[d.functionType] = base
    BY StoredOffsets
  <1>4. Function \subseteq Global /\ NONE \notin Function
    BY Names
  <1>5. ASSUME NEW f \in Function, e.offset[f] # UNDEF
        PROVE  \/ f = d.functionType /\ e.offset[f] = base
               \/ f # d.functionType /\ e.offset[f] = d.offset[f] /\ d.offset[f] # UNDEF
                    /\ e.offset[f] \in 1 .. Len(d.text) - 1
    <2>1. CASE f = d.functionType
      BY <1>3, <1>4, <2>1
    <2>2. CASE f # d.functionType
      <3>1. e.offset[f] = d.offset[f]
        BY <1>3, <1>4, <2>2
      <3>2. QED
        BY <1>1, <1>5, <2>2, <3>1 DEF Framed
    <2>3. QED
      BY <2>1, <2>2
  <1>6. ASSUME NEW f \in Function, e.offset[f] # UNDEF
        PROVE  e.offset[f] \in 1 .. Len(e.text) - 1 /\ rd_cword(e.text, e.offset[f]) = FRAME
    <2>1. CASE f = d.functionType /\ e.offset[f] = base
      <3>1. base \in 1 .. Len(e.text) - 1 /\ e.text[base + 1] = FRAME
        BY <1>2, <1>4, <2>1 DEF Stored
      <3>2. QED
        BY <2>1, <3>1 DEF rd_cword
    <2>2. CASE f # d.functionType /\ e.offset[f] = d.offset[f] /\ d.offset[f] # UNDEF
                 /\ e.offset[f] \in 1 .. Len(d.text) - 1
      <3>1. e.offset[f] \in 1 .. Len(e.text) - 1
        BY <1>2, <2>2
      <3>2. rd_cword(e.text, e.offset[f]) = rd_cword(d.text, d.offset[f])
        BY <1>2, <2>2
      <3>3. QED
        BY <1>1, <2>2, <3>1, <3>2 DEF Framed
    <2>3. QED
      BY <1>5, <1>6, <2>1, <2>2
  <1>7. ASSUME NEW f \in Function, NEW g \in Function, e.offset[f] # UNDEF, e.offset[f] = e.offset[g]
        PROVE  f = g
    <2>1. \/ f = d.functionType /\ e.offset[f] = base
          \/ f # d.functionType /\ e.offset[f] = d.offset[f] /\ d.offset[f] # UNDEF
               /\ e.offset[f] \in 1 .. Len(d.text) - 1
      BY <1>5, <1>7
    <2>2. \/ g = d.functionType /\ e.offset[g] = base
          \/ g # d.functionType /\ e.offset[g] = d.offset[g] /\ d.offset[g] # UNDEF
               /\ e.offset[g] \in 1 .. Len(d.text) - 1
      BY <1>5, <1>7
    <2>3. base \notin 1 .. Len(d.text) - 1
      BY <1>2
    <2>4. QED
      BY <1>1, <1>7, <2>1, <2>2, <2>3 DEF Framed
  <1>8. ASSUME NEW i \in 1 .. Len(e.text), e.text[i] = FRAME PROVE \E f \in Function : e.offset[f] = i - 1
    <2>1. CASE i \in 1 .. Len(d.text)
      <3>1. PICK f \in Function : d.offset[f] = i - 1
        BY <1>1, <1>2, <1>8, <2>1 DEF Framed
      <3>2. d.offset[f] # UNDEF
        BY <1>2, <3>1 DEF UNDEF
      <3>3. QED
        BY <1>3, <1>4, <3>1, <3>2
    <2>2. CASE i \notin 1 .. Len(d.text)
      <3>1. i \in Len(d.text) + 1 .. Len(e.text)
        BY <1>2, <2>2
      <3>2. d.functionType # NONE /\ i = base + 1
        BY <1>8, <3>1 DEF Stored
      <3>3. d.functionType \in Function /\ e.offset[d.functionType] = i - 1
        BY <1>2, <1>3, <3>2 DEF Storable
      <3>4. QED
        BY <3>3
    <2>3. QED
      BY <2>1, <2>2
  <1>9. QED
    BY <1>6, <1>7, <1>8 DEF Framed

LEMMA QuotedStore ==
  ASSUME NEW d \in Context, NEW e, NEW base, Stored(d, e, base), Storable(d)
  PROVE  Quoted(e)
  <1>1. Sections(d) /\ Quoted(d)
    BY DEF Storable, Sections
  <1>2. /\ base \in Nat /\ Len(d.text) \in Nat /\ Len(e.text) \in Nat
        /\ 1 <= Len(d.text) /\ Len(d.text) <= base /\ base < Len(e.text)
        /\ \A o \in 1 .. Len(d.text) - 1 : rd_cword(e.text, o) = rd_cword(d.text, o)
    BY <1>1, StoredReads
  <1>3. ASSUME NEW s \in String, e.strings[s] # UNDEF
        PROVE  e.strings[s] \in 1 .. Len(e.text) - 1 /\ rd_cword(e.text, e.strings[s]) = DATA
    <2>1. CASE d.strings[s] # UNDEF
      <3>1. e.strings[s] = d.strings[s] /\ d.strings[s] \in 1 .. Len(d.text) - 1
        BY <1>1, <2>1 DEF Stored, Quoted
      <3>2. QED
        BY <1>1, <1>2, <2>1, <3>1 DEF Quoted
    <2>2. CASE d.strings[s] = UNDEF
      <3>1. e.strings[s] \in Len(d.text) .. base - 1 /\ rd_cword(e.text, e.strings[s]) = DATA
        BY <1>3, <2>2 DEF Stored
      <3>2. QED
        BY <1>2, <3>1
    <2>3. QED
      BY <2>1, <2>2
  <1>4. QED
    BY <1>3 DEF Quoted

(* A word is one of before or one of the function that is stored. *)
NewWord(d, base, r) == \E j \in 1 .. Len(d.tree) : r[1] = base + Place(d, j) /\ r[2] = d.tree[j]

LEMMA WordsStored ==
  ASSUME NEW d \in Context, NEW e, NEW base, Stored(d, e, base)
  PROVE  /\ \A r \in e.words : r \in d.words \/ NewWord(d, base, r)
         /\ d.words \subseteq e.words
         /\ \A j \in 1 .. Len(d.tree) : <<base + Place(d, j), d.tree[j]>> \in e.words
  <1>1. e.words = d.words \cup {<<base + Place(d, j), d.tree[j]>> : j \in 1 .. Len(d.tree)}
    BY DEF Stored
  <1>2. ASSUME NEW r \in e.words, r \notin d.words PROVE NewWord(d, base, r)
    <2>1. PICK j \in 1 .. Len(d.tree) : r = <<base + Place(d, j), d.tree[j]>>
      BY <1>1, <1>2
    <2>2. QED
      BY <2>1 DEF NewWord
  <1>3. QED
    BY <1>1, <1>2

LEMMA WordedStore ==
  ASSUME NEW d \in Context, NEW e, NEW base, Stored(d, e, base), Storable(d)
  PROVE  Worded(e)
  <1>1. Sections(d) /\ Worded(d)
    BY DEF Storable, Sections
  <1>2. /\ base \in Nat /\ Len(d.text) \in Nat /\ Len(e.text) \in Nat
        /\ 1 <= Len(d.text) /\ Len(d.text) <= base /\ base < Len(e.text)
        /\ \A o \in 1 .. Len(d.text) - 1 : rd_cword(e.text, o) = rd_cword(d.text, o)
        /\ e \in Context /\ e.globals = d.globals /\ e.mainDependencies = d.mainDependencies
    BY <1>1, StoredReads
  <1>3. /\ \A r \in e.words : r \in d.words \/ NewWord(d, base, r)
        /\ \A j \in 1 .. Len(d.tree) : StoredWord(d, e, base, j)
        /\ \A s \in String : d.strings[s] # UNDEF => e.strings[s] = d.strings[s]
    BY WordsStored DEF Stored
  <1>4. ASSUME NEW r \in d.words
        PROVE  /\ r[1] \in 1 .. Len(d.text) - 1
               /\ r[1] \in 1 .. Len(e.text) - 1 /\ rd_cword(e.text, r[1]) \in Nat
               /\ r[2] \in String \cup e.globals
               /\ r[2] \in Function => r[2] \in e.mainDependencies
               /\ r[2] \in String => e.strings[r[2]] # UNDEF /\ rd_cword(e.text, r[1]) = address(e, r[2])
    <2>1. /\ r[1] \in 1 .. Len(d.text) - 1 /\ rd_cword(d.text, r[1]) \in Nat
          /\ r[2] \in String \cup d.globals
          /\ r[2] \in Function => r[2] \in d.mainDependencies
          /\ r[2] \in String => d.strings[r[2]] # UNDEF /\ rd_cword(d.text, r[1]) = address(d, r[2])
      BY <1>1 DEF Worded
    <2>2. r[1] \in 1 .. Len(e.text) - 1 /\ rd_cword(e.text, r[1]) = rd_cword(d.text, r[1])
      BY <1>2, <2>1
    <2>3. r[2] \in String => e.strings[r[2]] = d.strings[r[2]] /\ address(e, r[2]) = address(d, r[2])
      BY <1>3, <2>1, WordTypes, AddressIs
    <2>4. QED
      BY <1>2, <2>1, <2>2, <2>3
  <1>5. ASSUME NEW r \in e.words, NewWord(d, base, r)
        PROVE  /\ r[1] > base
               /\ r[1] \in 1 .. Len(e.text) - 1 /\ rd_cword(e.text, r[1]) \in Nat
               /\ r[2] \in String \cup e.globals
               /\ r[2] \in Function => r[2] \in e.mainDependencies
               /\ r[2] \in String => e.strings[r[2]] # UNDEF /\ rd_cword(e.text, r[1]) = address(e, r[2])
    <2>1. PICK j \in 1 .. Len(d.tree) : r[1] = base + Place(d, j) /\ r[2] = d.tree[j]
      BY <1>5 DEF NewWord
    <2>2. /\ r[1] \in base + 1 .. Len(e.text) - 1 /\ rd_cword(e.text, r[1]) \in Nat
          /\ r[2] \in String => e.strings[r[2]] # UNDEF /\ rd_cword(e.text, r[1]) = address(e, r[2])
      BY <1>3, <2>1 DEF StoredWord
    <2>3. r[1] \in 1 .. Len(e.text) - 1 /\ r[1] > base
      BY <1>2, <2>2
    <2>4. r[2] \in String \cup d.globals /\ (r[2] \in Function => r[2] \in d.mainDependencies)
      BY <2>1 DEF Storable
    <2>5. QED
      BY <1>2, <2>2, <2>3, <2>4
  <1>6. ASSUME NEW r \in e.words, NEW q \in e.words, r[1] = q[1] PROVE r = q
    <2>1. CASE r \in d.words /\ q \in d.words
      BY <1>1, <1>6, <2>1 DEF Worded
    <2>2. CASE NewWord(d, base, r) /\ NewWord(d, base, q)
      <3>1. PICK i \in 1 .. Len(d.tree) : r[1] = base + Place(d, i) /\ r[2] = d.tree[i]
        BY <2>2 DEF NewWord
      <3>2. PICK j \in 1 .. Len(d.tree) : q[1] = base + Place(d, j) /\ q[2] = d.tree[j]
        BY <2>2 DEF NewWord
      <3>3. i \in Nat /\ j \in Nat /\ Framing(d) \in 0 .. 1
        BY Types, FramingIs
      <3>4. i = j
        <4>1. Place(d, i) = Framing(d) + 2 * i - 1 /\ Place(d, j) = Framing(d) + 2 * j - 1
          BY <3>3, PlaceIs
        <4>2. base + Place(d, i) = base + Place(d, j)
          BY <1>6, <3>1, <3>2
        <4>3. base \in Nat
          BY <1>2
        <4>4. QED
          BY <3>3, <4>1, <4>2, <4>3
      <3>5. r = <<r[1], r[2]>> /\ q = <<q[1], q[2]>>
        BY <1>2, WordTypes
      <3>6. r[2] = q[2]
        BY <3>1, <3>2, <3>4
      <3>7. QED
        BY <1>6, <3>5, <3>6
    <2>3. CASE r \in d.words /\ NewWord(d, base, q)
      <3>1. r[1] \in 1 .. Len(d.text) - 1 /\ q[1] > base
        BY <1>4, <1>5, <2>3
      <3>2. QED
        BY <1>2, <1>6, <3>1
    <2>4. CASE NewWord(d, base, r) /\ q \in d.words
      <3>1. q[1] \in 1 .. Len(d.text) - 1 /\ r[1] > base
        BY <1>4, <1>5, <2>4
      <3>2. QED
        BY <1>2, <1>6, <3>1
    <2>5. QED
      BY <1>3, <2>1, <2>2, <2>3, <2>4
  <1>7. QED
    BY <1>3, <1>4, <1>5, <1>6 DEF Worded

LEMMA LinkedStore ==
  ASSUME NEW d \in Context, NEW e, NEW base, Stored(d, e, base), Storable(d),
         NEW n \in Global
  PROVE  \E t : IsChain(e.text, e.fixups[n], t) /\ Waits(e, n, ToSet(t))
  <1>1. Sections(d) /\ Worded(d) /\ Linked(d) /\ d.status # "done"
    BY DEF Storable, Sections
  <1>2. /\ base \in Nat /\ Len(d.text) \in Nat /\ e \in Context
        /\ \A o \in 1 .. Len(d.text) - 1 : rd_cword(e.text, o) = rd_cword(d.text, o)
    BY <1>1, StoredReads
  <1>3. /\ \A r \in e.words : r \in d.words \/ NewWord(d, base, r)
        /\ d.words \subseteq e.words
        /\ \A j \in 1 .. Len(d.tree) : <<base + Place(d, j), d.tree[j]>> \in e.words
    BY WordsStored
  <1>4. d.offset[n] # UNDEF => e.offset[n] = d.offset[n] /\ address(e, n) = address(d, n)
    BY <1>2, StoredOffsets, Names, AddressIs
  <1>5. PICK s : IsChain(d.text, d.fixups[n], s) /\ Waits(d, n, ToSet(s))
    BY <1>1 DEF Linked
  <1>6. PICK t : IsLonger(e.text, e.fixups[n], s, t, Moved(base, Wanting(d, n, Len(d.tree))))
    BY <1>5 DEF Stored
  <1>7. /\ IsChain(e.text, e.fixups[n], t)
        /\ ToSet(t) = ToSet(s) \cup Moved(base, Wanting(d, n, Len(d.tree)))
    BY <1>6 DEF IsLonger
  <1>8. ASSUME NEW o \in ToSet(t) PROVE o \in places(e, n)
    <2>1. CASE o \in ToSet(s)
      <3>1. o \in places(d, n)
        BY <1>5, <2>1 DEF Waits
      <3>2. PICK r \in d.words : r[1] = o /\ r[2] = n
        BY <3>1, PlacesAre
      <3>3. r \in e.words
        BY <1>3
      <3>4. QED
        BY <3>2, <3>3, PlacesAre
    <2>2. CASE o \in Moved(base, Wanting(d, n, Len(d.tree)))
      <3>1. PICK x \in Wanting(d, n, Len(d.tree)) : o = base + x
        BY <2>2 DEF Moved
      <3>2. PICK j \in 1 .. Len(d.tree) : d.tree[j] = n /\ x = Place(d, j)
        <4>1. Awaits(d, n, x)
          BY WantingIs
        <4>2. QED
          BY <4>1 DEF Awaits
      <3>3. PICK r \in e.words : r = <<base + Place(d, j), d.tree[j]>>
        BY <1>3
      <3>4. r[1] = o /\ r[2] = n
        BY <3>1, <3>2, <3>3
      <3>5. QED
        BY <3>4, PlacesAre
    <2>3. QED
      BY <1>7, <2>1, <2>2
  <1>9. ASSUME NEW o \in places(e, n), o \notin ToSet(t)
        PROVE  e.offset[n] # UNDEF /\ rd_cword(e.text, o) = address(e, n)
    <2>1. PICK r \in e.words : r[1] = o /\ r[2] = n
      BY PlacesAre
    <2>2. CASE r \in d.words
      <3>1. o \in places(d, n) /\ o \notin ToSet(s)
        BY <1>7, <1>9, <2>1, <2>2, PlacesAre
      <3>2. d.offset[n] # UNDEF /\ rd_cword(d.text, o) = address(d, n)
        BY <1>5, <3>1 DEF Waits
      <3>3. o \in 1 .. Len(d.text) - 1
        BY <1>1, <2>1, <2>2 DEF Worded
      <3>4. QED
        BY <1>2, <1>4, <3>2, <3>3
    <2>3. CASE NewWord(d, base, r)
      <3>1. PICK j \in 1 .. Len(d.tree) : o = base + Place(d, j) /\ n = d.tree[j]
        BY <2>1, <2>3 DEF NewWord
      <3>2. d.offset[n] # UNDEF
        <4> SUFFICES ASSUME d.offset[n] = UNDEF PROVE FALSE
          OBVIOUS
        <4>1. Place(d, j) \in Wanting(d, n, Len(d.tree))
          BY <3>1 DEF Wanting
        <4>2. o \in Moved(base, Wanting(d, n, Len(d.tree)))
          BY <3>1, <4>1 DEF Moved
        <4>3. QED
          BY <1>7, <1>9, <4>2
      <3>3. StoredWord(d, e, base, j)
        BY DEF Stored
      <3>4. rd_cword(e.text, o) = address(d, n)
        BY <3>1, <3>2, <3>3 DEF StoredWord
      <3>5. QED
        BY <1>4, <3>2, <3>4
    <2>4. QED
      BY <1>3, <2>2, <2>3
  <1>10. Waits(e, n, ToSet(t))
    BY <1>8, <1>9 DEF Waits
  <1>11. QED
    BY <1>7, <1>10

(* Where a chain begins. *)
LEMMA HeadInside ==
  ASSUME NEW cells \in Code, Len(cells) >= 1, NEW first, NEW s, IsChain(cells, first, s)
  PROVE  first \in 0 .. Len(cells) - 1
  <1>1. Len(cells) \in Nat /\ Len(s) \in Nat /\ first = LinkOf(s, 0)
    BY DEF Code, IsChain
  <1>2. CASE Len(s) = 0
    BY <1>1, <1>2 DEF LinkOf
  <1>3. CASE Len(s) > 0
    <2>1. first = s[1] /\ 1 \in 1 .. Len(s)
      BY <1>1, <1>3 DEF LinkOf
    <2>2. first \in 1 .. Len(cells) - 1
      BY <2>1 DEF IsChain
    <2>3. QED
      BY <1>1, <2>2
  <1>4. QED
    BY <1>1, <1>2, <1>3

LEMMA SectionsStore ==
  ASSUME NEW d \in Context, NEW e, NEW base, Stored(d, e, base), Storable(d)
  PROVE  Sections(e)
  <1>1. Sections(d) /\ d.status # "done"
    BY DEF Storable
  <1>2. /\ Len(d.text) \in Nat /\ Len(e.text) \in Nat /\ 1 <= Len(d.text) /\ Len(d.text) <= base
        /\ base < Len(e.text) /\ base \in Nat /\ e \in Context /\ e.status = d.status
    BY <1>1, StoredReads
  <1>3. e.codeBuf = <<>>
    BY DEF Stored
  <1>4. Framed(e) /\ Quoted(e) /\ Worded(e)
    BY FramedStore, QuotedStore, WordedStore
  <1>5. Linked(e)
    BY LinkedStore DEF Linked
  <1>6. Resolved(e)
    BY <1>1, <1>2 DEF Resolved
  <1>7. Len(e.text) >= 1
    BY <1>2
  <1>8. \A n \in Global : e.fixups[n] \in 0 .. Len(e.text) - 1
    BY <1>2, <1>7, Types, LinkedStore, HeadInside
  <1>9. QED
    BY <1>3, <1>4, <1>5, <1>6, <1>7, <1>8 DEF Sections

(* At the end each chain becomes the address of its symbol. *)
Meant(d) == \A r \in d.words : r[2] \in Global => d.offset[r[2]] # UNDEF

Updated(d, u) ==
  /\ u \in Context /\ AllBut(d, u, {"text"}) /\ Len(u.text) = Len(d.text)
  /\ \A i \in 1 .. Len(d.text) : u.text[i] \notin Nat \/ d.text[i] \notin Nat => u.text[i] = d.text[i]
  /\ \A r \in d.words : rd_cword(u.text, r[1]) = address(d, r[2]) /\ rd_cword(u.text, r[1]) \in Nat

LEMMA UpdateFacts ==
  ASSUME NEW d \in Context, Sections(d), d.status # "done", Meant(d), NEW u, u = UpdateReferences(d)
  PROVE  Updated(d, u)
  <1> DEFINE to(n) == {<<o, address(d, n)>> : o \in ToSet(chain(d.text, d.fixups[n]))}
             W == UNION {to(n) : n \in d.globals}
  <1>1. Worded(d) /\ Linked(d) /\ d.text \in Code /\ Len(d.text) \in Nat
    BY Types DEF Sections
  <1>2. PICK r : r = wr_cword(d.text, W)
    OBVIOUS
  <1>3. u = [d EXCEPT !.text = r]
    BY <1>2 DEF UpdateReferences
  <1>4. d.globals \subseteq Global
    BY DEF Context
  <1>5. ASSUME NEW n \in Global PROVE Waits(d, n, ToSet(chain(d.text, d.fixups[n])))
    <2>1. PICK s : IsChain(d.text, d.fixups[n], s) /\ Waits(d, n, ToSet(s))
      BY <1>1 DEF Linked
    <2>2. chain(d.text, d.fixups[n]) = s
      BY <1>1, <2>1, ChainIs
    <2>3. QED
      BY <2>1, <2>2
  <1>6. ASSUME NEW w \in W
        PROVE  \E q \in d.words : /\ w = <<q[1], address(d, q[2])>> /\ q[2] \in Global
                                  /\ q[1] \in ToSet(chain(d.text, d.fixups[q[2]]))
    <2>1. PICK n \in d.globals : w \in to(n)
      OBVIOUS
    <2>2. PICK o \in ToSet(chain(d.text, d.fixups[n])) : w = <<o, address(d, n)>>
      BY <2>1
    <2>3. n \in Global
      BY <1>4
    <2>4. o \in places(d, n)
      BY <1>5, <2>3 DEF Waits
    <2>5. PICK q \in d.words : q[1] = o /\ q[2] = n
      BY <2>4, PlacesAre
    <2>6. QED
      BY <2>2, <2>3, <2>5
  <1>7. ASSUME NEW q \in d.words, q[2] \in Global,
               q[1] \in ToSet(chain(d.text, d.fixups[q[2]]))
        PROVE  <<q[1], address(d, q[2])>> \in W
    <2>1. q[2] \in d.globals
      BY <1>1, <1>7, Names DEF Worded
    <2>2. <<q[1], address(d, q[2])>> \in to(q[2])
      BY <1>7
    <2>3. QED
      BY <2>1, <2>2
  <1> HIDE DEF W
  <1>8. ASSUME NEW q \in d.words PROVE q[1] \in Nat /\ q[2] \in Name /\ address(d, q[2]) \in Nat
    <2>1. q[1] \in Nat /\ q[2] \in Name
      BY WordTypes
    <2>2. CASE q[2] \in String
      <3>1. d.strings[q[2]] # UNDEF
        BY <1>1, <2>2 DEF Worded
      <3>2. QED
        BY <2>1, <2>2, <3>1, AddressIs
    <2>3. CASE q[2] \in Global
      <3>1. d.offset[q[2]] # UNDEF
        BY <2>3 DEF Meant
      <3>2. QED
        BY <2>1, <2>3, <3>1, AddressIs
    <2>4. QED
      BY <2>1, <2>2, <2>3, Names
  <1>9. Orderly(W)
    <2>1. ASSUME NEW w \in W PROVE w \in Nat \X Nat
      <3>1. PICK q \in d.words : w = <<q[1], address(d, q[2])>>
        BY <1>6
      <3>2. QED
        BY <1>8, <3>1
    <2>2. ASSUME NEW v \in W, NEW w \in W, v[1] = w[1] PROVE v[2] = w[2]
      <3>1. PICK p \in d.words : v = <<p[1], address(d, p[2])>>
        BY <1>6
      <3>2. PICK q \in d.words : w = <<q[1], address(d, q[2])>>
        BY <1>6
      <3>3. p[1] = q[1]
        BY <2>2, <3>1, <3>2
      <3>4. p = q
        BY <1>1, <3>3 DEF Worded
      <3>5. QED
        BY <3>1, <3>2, <3>4
    <2>3. QED
      BY <2>1, <2>2 DEF Orderly
  <1>10. /\ r \in Code /\ Len(r) = Len(d.text)
         /\ \A w \in W : w[1] + 1 \in 1 .. Len(d.text) => rd_cword(r, w[1]) = w[2]
         /\ \A j \in 1 .. Len(d.text) : (\A w \in W : w[1] + 1 # j) => r[j] = d.text[j]
         /\ \A j \in 1 .. Len(d.text) : r[j] \notin Nat => r[j] = d.text[j]
    BY <1>1, <1>2, <1>9, WriteFacts
  <1>11. u \in Context /\ AllBut(d, u, {"text"}) /\ u.text = r
    BY <1>3, <1>10 DEF Context, AllBut, Fields
  <1>12. ASSUME NEW i \in 1 .. Len(d.text), d.text[i] \notin Nat PROVE r[i] = d.text[i]
    <2>1. ASSUME NEW w \in W, w[1] + 1 = i PROVE FALSE
      <3>1. PICK q \in d.words : w = <<q[1], address(d, q[2])>>
        BY <1>6
      <3>2. rd_cword(d.text, q[1]) \in Nat /\ q[1] + 1 = i
        BY <1>1, <2>1, <3>1 DEF Worded
      <3>3. QED
        BY <1>12, <3>2 DEF rd_cword
    <2>2. QED
      BY <1>10, <2>1
  <1>13. ASSUME NEW q \in d.words PROVE rd_cword(r, q[1]) = address(d, q[2])
    <2>1. q[1] \in 1 .. Len(d.text) - 1
      BY <1>1 DEF Worded
    <2>2. PICK i : i = q[1] + 1
      OBVIOUS
    <2>3. i \in 1 .. Len(d.text) /\ i - 1 = q[1]
      BY <1>1, <2>1, <2>2
    <2>4. CASE q[2] \in Global /\ q[1] \in ToSet(chain(d.text, d.fixups[q[2]]))
      <3>1. PICK w \in W : w = <<q[1], address(d, q[2])>>
        BY <1>7, <2>4
      <3>2. w[1] + 1 \in 1 .. Len(d.text) /\ w[1] = q[1] /\ w[2] = address(d, q[2])
        BY <2>2, <2>3, <3>1
      <3>3. QED
        BY <1>10, <3>2
    <2>5. CASE ~ (q[2] \in Global /\ q[1] \in ToSet(chain(d.text, d.fixups[q[2]])))
      <3>1. ASSUME NEW w \in W, w[1] + 1 = i PROVE FALSE
        <4>1. PICK p \in d.words : /\ w = <<p[1], address(d, p[2])>> /\ p[2] \in Global
                                   /\ p[1] \in ToSet(chain(d.text, d.fixups[p[2]]))
          BY <1>6
        <4>2. p[1] = q[1]
          <5>1. w[1] = p[1] /\ p[1] \in Nat /\ q[1] \in Nat
            BY <1>8, <4>1
          <5>2. QED
            BY <2>2, <3>1, <5>1
        <4>3. p = q
          BY <1>1, <4>2 DEF Worded
        <4>4. QED
          BY <2>5, <4>1, <4>3
      <3>2. r[i] = d.text[i]
        BY <1>10, <2>3, <3>1
      <3>3. rd_cword(r, q[1]) = rd_cword(d.text, q[1])
        BY <2>2, <3>2 DEF rd_cword
      <3>4. CASE q[2] \in String
        BY <1>1, <3>3, <3>4 DEF Worded
      <3>5. CASE q[2] \in Global
        <4>1. q[1] \in places(d, q[2]) /\ q[1] \notin ToSet(chain(d.text, d.fixups[q[2]]))
          BY <2>5, <3>5, PlacesAre
        <4>2. rd_cword(d.text, q[1]) = address(d, q[2])
          BY <1>5, <3>5, <4>1 DEF Waits
        <4>3. QED
          BY <3>3, <4>2
      <3>6. QED
        BY <1>8, <3>4, <3>5, Names
    <2>6. QED
      BY <2>4, <2>5
  <1>14. QED
    BY <1>8, <1>10, <1>11, <1>12, <1>13 DEF Updated

LEMMA SectionsDone ==
  ASSUME NEW d \in Context, Sections(d), d.status # "done", Meant(d), NEW u, Updated(d, u),
         NEW e \in Context, AllBut(u, e, {"status", "pass", "mainState"}), e.status = "done"
  PROVE  Sections(e)
  <1>1. /\ u \in Context /\ AllBut(d, u, {"text"}) /\ Len(u.text) = Len(d.text)
        /\ \A i \in 1 .. Len(d.text) : u.text[i] \notin Nat \/ d.text[i] \notin Nat => u.text[i] = d.text[i]
        /\ \A r \in d.words : rd_cword(u.text, r[1]) = address(d, r[2]) /\ rd_cword(u.text, r[1]) \in Nat
    BY DEF Updated
  <1>2. /\ e.text = u.text /\ e.codeBuf = d.codeBuf /\ e.fixups = d.fixups /\ e.offset = d.offset
        /\ e.strings = d.strings /\ e.words = d.words /\ e.globals = d.globals
        /\ e.mainDependencies = d.mainDependencies
    BY <1>1 DEF AllBut, Fields
  <1>3. Len(d.text) \in Nat /\ Worded(d) /\ Framed(d) /\ Quoted(d)
    BY Types DEF Sections
  <1>4. ASSUME NEW o \in 1 .. Len(d.text) - 1, rd_cword(d.text, o) \notin Nat
        PROVE  rd_cword(u.text, o) = rd_cword(d.text, o)
    <2>1. PICK i : i = o + 1
      OBVIOUS
    <2>2. i \in 1 .. Len(d.text)
      BY <1>3, <2>1
    <2>3. QED
      BY <1>1, <1>4, <2>1, <2>2 DEF rd_cword
  <1>5. FRAME \notin Nat /\ DATA \notin Nat
    BY DEF FRAME, DATA
  <1>6. Framed(e)
    <2>1. ASSUME NEW f \in Function, d.offset[f] # UNDEF
          PROVE  d.offset[f] \in 1 .. Len(u.text) - 1 /\ rd_cword(u.text, d.offset[f]) = FRAME
      <3>1. d.offset[f] \in 1 .. Len(d.text) - 1 /\ rd_cword(d.text, d.offset[f]) = FRAME
        BY <1>3, <2>1 DEF Framed
      <3>2. QED
        BY <1>1, <1>4, <1>5, <3>1
    <2>2. ASSUME NEW i \in 1 .. Len(u.text), u.text[i] = FRAME PROVE \E f \in Function : d.offset[f] = i - 1
      <3>1. d.text[i] = FRAME
        BY <1>1, <1>5, <2>2
      <3>2. QED
        BY <1>1, <1>3, <3>1 DEF Framed
    <2>3. \A f, g \in Function : d.offset[f] # UNDEF /\ d.offset[f] = d.offset[g] => f = g
      BY <1>3 DEF Framed
    <2>4. QED
      BY <1>2, <2>1, <2>2, <2>3 DEF Framed
  <1>7. Quoted(e)
    <2>1. ASSUME NEW s \in String, d.strings[s] # UNDEF
          PROVE  d.strings[s] \in 1 .. Len(u.text) - 1 /\ rd_cword(u.text, d.strings[s]) = DATA
      <3>1. d.strings[s] \in 1 .. Len(d.text) - 1 /\ rd_cword(d.text, d.strings[s]) = DATA
        BY <1>3, <2>1 DEF Quoted
      <3>2. QED
        BY <1>1, <1>4, <1>5, <3>1
    <2>2. QED
      BY <1>2, <2>1 DEF Quoted
  <1>8. \A n \in Name : address(e, n) = address(d, n)
    BY <1>2 DEF address
  <1>9. ASSUME NEW r \in e.words
        PROVE  /\ r[1] \in 1 .. Len(e.text) - 1 /\ rd_cword(e.text, r[1]) \in Nat
               /\ r[2] \in String \cup e.globals
               /\ r[2] \in Function => r[2] \in e.mainDependencies
               /\ rd_cword(e.text, r[1]) = address(e, r[2])
               /\ r[2] \in String => e.strings[r[2]] # UNDEF
               /\ r[2] \in Global => e.offset[r[2]] # UNDEF
    <2>1. r \in d.words /\ r[2] \in Name
      BY <1>2, WordTypes
    <2>2. rd_cword(u.text, r[1]) = address(d, r[2]) /\ rd_cword(u.text, r[1]) \in Nat
      BY <1>1, <2>1
    <2>3. /\ r[1] \in 1 .. Len(d.text) - 1 /\ r[2] \in String \cup d.globals
          /\ r[2] \in Function => r[2] \in d.mainDependencies
          /\ r[2] \in String => d.strings[r[2]] # UNDEF
      BY <1>3, <2>1 DEF Worded
    <2>4. r[2] \in Global => d.offset[r[2]] # UNDEF
      BY <2>1 DEF Meant
    <2>5. QED
      BY <1>1, <1>2, <1>8, <2>1, <2>2, <2>3, <2>4
  <1>10. Worded(e)
    <2>1. \A r, q \in e.words : r[1] = q[1] => r = q
      BY <1>2, <1>3 DEF Worded
    <2>2. QED
      BY <1>9, <2>1 DEF Worded
  <1>11. Linked(e) /\ Resolved(e)
    BY <1>9 DEF Linked, Resolved
  <1>12. Len(e.text) >= 1 /\ e.codeBuf = <<>> /\ \A n \in Global : e.fixups[n] \in 0 .. Len(e.text) - 1
    BY <1>1, <1>2 DEF Sections
  <1>13. QED
    BY <1>6, <1>7, <1>10, <1>11, <1>12 DEF Sections

-----------------------------------------------------------------------------
(* The lines of a program. *)

LEMMA ProgramLines == \A p \in Programs : p \in Seq(Line) /\ Len(p) \in Nat /\ DOMAIN p = 1 .. Len(p)
  BY ProgramsAssumption

LEMMA LineIs ==
  ASSUME NEW l \in Line
  PROVE  /\ l.kind = "def" => l.name \in Function /\ l = def(l.name)
         /\ l.kind = "use" => l.name \in Name /\ l = use(l.name)
         /\ l.kind = "enddef" <=> l = enddef
         /\ l.kind = "dim" => l.name \in Variable /\ l.init \in BOOLEAN
         /\ l.kind \in {"def", "enddef", "dim", "use"}
         /\ \A f : l = def(f) => l.kind = "def" /\ l.name = f /\ f \in Function
         /\ \A n : l = use(n) => l.kind = "use" /\ l.name = n /\ n \in Name
  <1>1. CASE \E f \in Function : l = def(f)
    BY <1>1 DEF def, use, enddef
  <1>2. CASE \E v \in Variable, b \in BOOLEAN : l = dim(v, b)
    BY <1>2 DEF def, use, enddef, dim
  <1>3. CASE \E n \in Name : l = use(n)
    BY <1>3 DEF def, use, enddef
  <1>4. CASE l = enddef
    BY <1>4 DEF def, use, enddef
  <1>5. QED
    BY <1>1, <1>2, <1>3, <1>4 DEF Line

LEMMA OwnerIs ==
  ASSUME NEW p \in Seq(Line), NEW i \in 1 .. Len(p)
  PROVE  /\ p[i].kind = "def" => owner(p, i) = p[i].name
         /\ p[i].kind = "enddef" => owner(p, i) = MAIN
         /\ p[i].kind \notin {"def", "enddef"} => owner(p, i) = owner(p, i - 1)
  <1> DEFINE heads(m) == {j \in 1 .. m : p[j].kind \in {"def", "enddef"}}
             latest(m) == CHOOSE j \in heads(m) : \A k \in heads(m) : k <= j
  <1>1. \A m : owner(p, m) = IF heads(m) # {} /\ p[latest(m)].kind = "def" THEN p[latest(m)].name ELSE MAIN
    BY DEF owner
  <1>2. i \in Nat /\ 1 .. i = (1 .. i - 1) \cup {i}
    OBVIOUS
  <1>3. CASE p[i].kind \in {"def", "enddef"}
    <2>1. i \in heads(i) /\ \A k \in heads(i) : k <= i
      BY <1>2, <1>3
    <2>2. ASSUME NEW j \in heads(i), \A k \in heads(i) : k <= j PROVE j = i
      <3>1. i <= j /\ j <= i /\ j \in Nat
        BY <2>1, <2>2
      <3>2. QED
        BY <1>2, <3>1
    <2>3. latest(i) = i
      BY <2>1, <2>2
    <2>4. heads(i) # {}
      BY <2>1
    <2> HIDE DEF heads, latest
    <2>5. owner(p, i) = IF p[i].kind = "def" THEN p[i].name ELSE MAIN
      BY <1>1, <2>3, <2>4
    <2>6. QED
      BY <1>3, <2>5
  <1>4. CASE p[i].kind \notin {"def", "enddef"}
    <2>1. heads(i) = heads(i - 1)
      BY <1>2, <1>4
    <2>2. latest(i) = latest(i - 1)
      BY <2>1
    <2> HIDE DEF heads, latest
    <2>3. owner(p, i) = owner(p, i - 1)
      BY <1>1, <2>1, <2>2
    <2>4. QED
      BY <1>4, <2>3
  <1>5. QED
    BY <1>3, <1>4

LEMMA OwnerFirst == \A p : owner(p, 0) = MAIN
  BY DEF owner

(* A function that owns a line is defined before it. *)
LEMMA OwnerDefined ==
  ASSUME NEW p \in Seq(Line), NEW i \in 0 .. Len(p)
  PROVE  owner(p, i) # MAIN => \E j \in 1 .. i : p[j] = def(owner(p, i)) /\ owner(p, i) \in Function
  <1> DEFINE S == {m \in 0 .. Len(p) : owner(p, m) # MAIN =>
                     \E j \in 1 .. m : p[j] = def(owner(p, m)) /\ owner(p, m) \in Function}
  <1>0. Len(p) \in Nat
    OBVIOUS
  <1>1. 0 \in S
    BY OwnerFirst
  <1>2. ASSUME NEW m \in 0 .. Len(p) - 1, m \in S PROVE m + 1 \in S
    <2>1. PICK k \in 1 .. Len(p) : k = m + 1 /\ k - 1 = m
      BY <1>0
    <2>2. p[k] \in Line /\ k \in 1 .. k
      BY <1>0
    <2>3. CASE p[k].kind = "def"
      <3>1. owner(p, k) = p[k].name /\ p[k] = def(p[k].name) /\ p[k].name \in Function
        BY <2>2, <2>3, OwnerIs, LineIs
      <3>2. QED
        BY <2>1, <2>2, <3>1
    <2>4. CASE p[k].kind = "enddef"
      BY <2>1, <2>4, OwnerIs
    <2>5. CASE p[k].kind \notin {"def", "enddef"}
      <3>1. owner(p, k) = owner(p, m)
        BY <2>1, <2>5, OwnerIs
      <3>2. 1 .. m \subseteq 1 .. k
        BY <2>1
      <3>3. QED
        BY <1>2, <2>1, <3>1, <3>2
    <2>6. QED
      BY <2>3, <2>4, <2>5
  <1> HIDE DEF S
  <1>3. 0 .. Len(p) \subseteq S
    BY <1>0, <1>1, <1>2, BoundedInduction
  <1>4. QED
    BY <1>3 DEF S

LEMMA OpenStep ==
  ASSUME NEW p \in Seq(Line), NEW k \in 1 .. Len(p)
  PROVE  /\ Open(p, 1) = NONE
         /\ p[k].kind = "def" => Open(p, k + 1) = p[k].name
         /\ p[k].kind = "enddef" => Open(p, k + 1) = NONE
         /\ p[k].kind \notin {"def", "enddef"} => Open(p, k + 1) = Open(p, k)
         /\ owner(p, k) = IF Open(p, k + 1) = NONE THEN MAIN ELSE Open(p, k + 1)
  <1>1. (k + 1) - 1 = k /\ 1 - 1 = 0 /\ p[k] \in Line /\ k \in 0 .. Len(p)
    OBVIOUS
  <1>2. Open(p, k + 1) = IF owner(p, k) = MAIN THEN NONE ELSE owner(p, k)
    BY <1>1 DEF Open
  <1>3. Open(p, 1) = NONE
    BY <1>1, OwnerFirst DEF Open
  <1>4. owner(p, k) # MAIN => owner(p, k) \in Function
    BY <1>1, OwnerDefined
  <1>5. p[k].kind = "def" => Open(p, k + 1) = p[k].name
    BY <1>1, <1>2, OwnerIs, LineIs, Names
  <1>6. p[k].kind = "enddef" => Open(p, k + 1) = NONE
    BY <1>2, OwnerIs
  <1>7. p[k].kind \notin {"def", "enddef"} => Open(p, k + 1) = Open(p, k)
    BY <1>2, OwnerIs DEF Open
  <1>8. owner(p, k) = IF Open(p, k + 1) = NONE THEN MAIN ELSE Open(p, k + 1)
    BY <1>2, <1>4, Names
  <1>9. QED
    BY <1>3, <1>5, <1>6, <1>7, <1>8

(* What the lines before k use. *)
LEMMA UsedStep ==
  ASSUME NEW p \in Seq(Line), NEW k \in 1 .. Len(p), NEW o
  PROVE  /\ p[k].kind # "use" => Used(p, o, k + 1) = Used(p, o, k)
         /\ owner(p, k) # o => Used(p, o, k + 1) = Used(p, o, k)
         /\ \A n \in Global : p[k] = use(n) /\ owner(p, k) = o => Used(p, o, k + 1) = Used(p, o, k) \cup {n}
         /\ \A n \in String : p[k] = use(n) => Used(p, o, k + 1) = Used(p, o, k)
         /\ Used(p, o, 1) = {}
  <1>1. (k + 1) - 1 = k /\ 1 .. k = (1 .. k - 1) \cup {k} /\ p[k] \in Line /\ 1 .. 1 - 1 = {}
    OBVIOUS
  <1>2. Used(p, o, k + 1) = Used(p, o, k) \cup {n \in Global : p[k] = use(n) /\ owner(p, k) = o}
    BY <1>1 DEF Used
  <1>3. p[k].kind # "use" => Used(p, o, k + 1) = Used(p, o, k)
    <2>1. p[k].kind # "use" => \A n : p[k] # use(n)
      BY DEF use
    <2>2. QED
      BY <1>2, <2>1
  <1>4. owner(p, k) # o => Used(p, o, k + 1) = Used(p, o, k)
    BY <1>2
  <1>5. \A m, n : use(m) = use(n) => m = n
    BY DEF use
  <1>6. ASSUME NEW n \in Global, p[k] = use(n), owner(p, k) = o
        PROVE  Used(p, o, k + 1) = Used(p, o, k) \cup {n}
    <2>1. {m \in Global : p[k] = use(m) /\ owner(p, k) = o} = {n}
      BY <1>5, <1>6
    <2>2. QED
      BY <1>2, <2>1
  <1>7. ASSUME NEW n \in String, p[k] = use(n) PROVE Used(p, o, k + 1) = Used(p, o, k)
    <2>1. {m \in Global : p[k] = use(m) /\ owner(p, k) = o} = {}
      BY <1>5, <1>7, Names
    <2>2. QED
      BY <1>2, <2>1
  <1>8. Used(p, o, 1) = {}
    BY <1>1 DEF Used
  <1>9. QED
    BY <1>3, <1>4, <1>6, <1>7, <1>8

LEMMA DefinedStep ==
  ASSUME NEW p \in Seq(Line), NEW k \in 1 .. Len(p), NEW f
  PROVE  /\ Defined(p, k + 1, f) <=> Defined(p, k, f) \/ p[k] = def(f)
         /\ p[k].kind # "def" => (Defined(p, k + 1, f) <=> Defined(p, k, f))
         /\ ~ Defined(p, 1, f)
  <1>1. (k + 1) - 1 = k /\ 1 .. k = (1 .. k - 1) \cup {k} /\ p[k] \in Line /\ 1 .. 1 - 1 = {}
    OBVIOUS
  <1>2. Defined(p, k + 1, f) <=> Defined(p, k, f) \/ p[k] = def(f)
    BY <1>1 DEF Defined
  <1>3. p[k].kind # "def" => p[k] # def(f)
    BY <1>1, LineIs
  <1>4. ~ Defined(p, 1, f)
    BY <1>1 DEF Defined
  <1>5. QED
    BY <1>2, <1>3, <1>4

-----------------------------------------------------------------------------
(* The list of dependencies. *)

Distinct(s) == \A i, j \in 1 .. Len(s) : s[i] = s[j] => i = j
ListOf(s, S) == s \in Seq(S) /\ Distinct(s) /\ ToSet(s) = S

LEMMA SetToSeqFacts ==
  ASSUME NEW S, IsFiniteSet(S)
  PROVE  ListOf(SetToSeq(S), S)
  <1>1. PICK n \in Nat : n = Cardinality(S) /\ ExistsBijection(1 .. n, S)
    BY FS_CardinalityType
  <1>2. \E f \in [1 .. n -> S] : IsInjective(f)
    BY <1>1 DEF ExistsBijection, Bijection, Injection
  <1>3. PICK f \in [1 .. n -> S] : f = SetToSeq(S) /\ IsInjective(f)
    BY <1>1, <1>2 DEF SetToSeq
  <1>4. IsFiniteSet(1 .. n) /\ Cardinality(1 .. n) = n
    BY UpTo
  <1>5. f \in Surjection(1 .. n, S)
    <2>1. f \in Injection(1 .. n, S)
      BY <1>3 DEF Injection
    <2>2. QED
      BY <1>1, <1>4, <2>1, FS_Injection
  <1>6. f \in Seq(S) /\ Len(f) = n /\ DOMAIN f = 1 .. n
    OBVIOUS
  <1>7. Distinct(f)
    BY <1>3, <1>6 DEF Distinct, IsInjective
  <1>8. ToSet(f) = S
    BY <1>5, <1>6 DEF Surjection, ToSet
  <1>9. QED
    BY <1>3, <1>6, <1>7, <1>8 DEF ListOf

(* A list without repetition is no longer than the set it is from. *)
LEMMA DistinctIsShort ==
  ASSUME NEW S, IsFiniteSet(S), NEW s \in Seq(S), Distinct(s)
  PROVE  Len(s) <= Cardinality(S)
  <1>1. s \in [1 .. Len(s) -> S] /\ Len(s) \in Nat
    OBVIOUS
  <1>2. s \in Injection(1 .. Len(s), S)
    BY <1>1 DEF Injection, IsInjective, Distinct
  <1>3. Cardinality(1 .. Len(s)) <= Cardinality(S)
    BY <1>2, FS_Injection
  <1>4. QED
    BY <1>1, <1>3, UpTo

(* What is not on a list joins it. *)
IsGrown(S, s, T, t) ==
  /\ t \in Seq(S) /\ Distinct(t) /\ ToSet(t) = ToSet(s) \cup T
  /\ Len(s) <= Len(t) /\ \A i \in 1 .. Len(s) : t[i] = s[i]
  /\ T = {} => t = s

LEMMA ListGrows ==
  ASSUME NEW S, IsFiniteSet(S), NEW s \in Seq(S), Distinct(s), NEW T \in SUBSET S,
         NEW t, t = s \o SetToSeq(T \ ToSet(s))
  PROVE  IsGrown(S, s, T, t)
  <1>1. IsFiniteSet(T \ ToSet(s))
    BY FS_Subset
  <1>2. PICK u : u = SetToSeq(T \ ToSet(s)) /\ ListOf(u, T \ ToSet(s))
    BY <1>1, SetToSeqFacts
  <1>3. u \in Seq(S) /\ t = s \o u /\ Distinct(u) /\ ToSet(u) = T \ ToSet(s) /\ u \in Seq(T \ ToSet(s))
    <2>1. u \in Seq(T \ ToSet(s)) /\ Distinct(u) /\ ToSet(u) = T \ ToSet(s)
      BY <1>2 DEF ListOf
    <2>2. u \in [1 .. Len(u) -> T \ ToSet(s)] /\ Len(u) \in Nat
      BY <2>1
    <2>3. u \in [1 .. Len(u) -> S]
      BY <2>2
    <2>4. u \in Seq(S)
      BY <2>2, <2>3
    <2>5. t = s \o u
      BY <1>2
    <2>6. QED
      BY <2>1, <2>4, <2>5
  <1>4. /\ t \in Seq(S) /\ Len(t) = Len(s) + Len(u) /\ Len(s) \in Nat /\ Len(u) \in Nat
        /\ \A i \in 1 .. Len(s) : t[i] = s[i]
        /\ \A i \in Len(s) + 1 .. Len(t) : t[i] = u[i - Len(s)]
    <2>1. u \in Seq(S) /\ s \in Seq(S) /\ t = s \o u
      BY <1>3
    <2>2. QED
      BY ONLY <2>1
  <1>5. /\ DOMAIN s = 1 .. Len(s) /\ DOMAIN u = 1 .. Len(u) /\ DOMAIN t = 1 .. Len(t)
        /\ \A i \in Len(s) + 1 .. Len(t) : i - Len(s) \in 1 .. Len(u)
        /\ \A i \in 1 .. Len(u) : i + Len(s) \in Len(s) + 1 .. Len(t) /\ (i + Len(s)) - Len(s) = i
        /\ \A i \in 1 .. Len(t) : i \in 1 .. Len(s) \/ i \in Len(s) + 1 .. Len(t)
        /\ 1 .. Len(s) \subseteq 1 .. Len(t) /\ Len(s) + 1 .. Len(t) \subseteq 1 .. Len(t)
    <2>1. DOMAIN s = 1 .. Len(s) /\ DOMAIN u = 1 .. Len(u) /\ DOMAIN t = 1 .. Len(t)
      BY <1>3, <1>4
    <2>2. PICK l \in Nat, m \in Nat : l = Len(s) /\ m = Len(u) /\ l + m = Len(t)
      BY <1>4
    <2>3. /\ \A i \in l + 1 .. l + m : i - l \in 1 .. m
          /\ \A i \in 1 .. m : i + l \in l + 1 .. l + m /\ (i + l) - l = i
          /\ \A i \in 1 .. l + m : i \in 1 .. l \/ i \in l + 1 .. l + m
          /\ 1 .. l \subseteq 1 .. l + m /\ l + 1 .. l + m \subseteq 1 .. l + m
      BY ONLY l \in Nat, m \in Nat
    <2>4. QED
      BY ONLY <2>1, <2>2, <2>3
  <1>6. \A i \in Len(s) + 1 .. Len(t) : t[i] \in T \ ToSet(s)
    <2>1. ASSUME NEW i \in Len(s) + 1 .. Len(t) PROVE t[i] \in T \ ToSet(s)
      <3>1. i - Len(s) \in 1 .. Len(u)
        BY <1>5
      <3>2. u[i - Len(s)] \in T \ ToSet(s)
        BY <1>3, <3>1
      <3>3. QED
        BY <1>4, <3>2
    <2>2. QED
      BY <2>1
  <1>7. \A i \in 1 .. Len(s) : t[i] \in ToSet(s)
    BY <1>4, <1>5 DEF ToSet
  <1>8. Distinct(t)
    <2>1. ASSUME NEW i \in 1 .. Len(t), NEW j \in 1 .. Len(t), t[i] = t[j] PROVE i = j
      <3>1. CASE i \in 1 .. Len(s) /\ j \in 1 .. Len(s)
        BY <1>4, <2>1, <3>1 DEF Distinct
      <3>2. CASE i \in Len(s) + 1 .. Len(t) /\ j \in Len(s) + 1 .. Len(t)
        <4>1. PICK k \in 1 .. Len(u), l \in 1 .. Len(u) : k = i - Len(s) /\ l = j - Len(s)
          BY <1>5, <3>2
        <4>2. u[k] = u[l]
          BY <1>4, <2>1, <3>2, <4>1
        <4>3. k = l
          BY <1>3, <4>2 DEF Distinct
        <4>4. QED
          BY <1>4, <4>1, <4>3
      <3>3. ~ (i \in 1 .. Len(s) /\ j \in Len(s) + 1 .. Len(t))
        BY <1>6, <1>7, <2>1
      <3>4. ~ (j \in 1 .. Len(s) /\ i \in Len(s) + 1 .. Len(t))
        BY <1>6, <1>7, <2>1
      <3>5. QED
        BY <1>5, <3>1, <3>2, <3>3, <3>4
    <2>2. QED
      BY <2>1 DEF Distinct
  <1>9. ToSet(t) = ToSet(s) \cup T
    <2>1. ASSUME NEW x \in ToSet(t) PROVE x \in ToSet(s) \cup T
      <3>1. PICK i \in 1 .. Len(t) : x = t[i]
        BY <1>5 DEF ToSet
      <3>2. QED
        BY <1>5, <1>6, <1>7, <3>1
    <2>2. ASSUME NEW x \in ToSet(s) PROVE x \in ToSet(t)
      <3>1. PICK i \in 1 .. Len(s) : x = s[i]
        BY <1>5 DEF ToSet
      <3>2. i \in 1 .. Len(t) /\ t[i] = x
        BY <1>4, <1>5, <3>1
      <3>3. QED
        BY <1>5, <3>2 DEF ToSet
    <2>3. ASSUME NEW x \in T \ ToSet(s) PROVE x \in ToSet(t)
      <3>1. x \in ToSet(u)
        BY <1>3
      <3>2. PICK i \in 1 .. Len(u) : x = u[i]
        BY <1>5, <3>1 DEF ToSet
      <3>3. PICK j \in Len(s) + 1 .. Len(t) : j = i + Len(s) /\ j - Len(s) = i
        BY <1>5
      <3>4. t[j] = x /\ j \in 1 .. Len(t)
        BY <1>4, <1>5, <3>2, <3>3
      <3>5. QED
        BY <1>5, <3>4 DEF ToSet
    <2>4. QED
      BY <2>1, <2>2, <2>3
  <1>10. T = {} => t = s
    <2>1. ASSUME T = {} PROVE Len(u) = 0
      <3>1. ToSet(u) = {}
        BY <1>3, <2>1
      <3>2. \A i \in 1 .. Len(u) : u[i] \in ToSet(u)
        BY <1>5 DEF ToSet
      <3>3. QED
        BY <1>4, <3>1, <3>2
    <2>2. ASSUME T = {} PROVE t = s
      <3>1. Len(t) = Len(s) /\ \A i \in 1 .. Len(t) : t[i] = s[i]
        BY <1>4, <2>1, <2>2
      <3>2. QED
        BY <1>4, <3>1, SeqEqual
    <2>3. QED
      BY <2>2
  <1>11. Len(s) <= Len(t) /\ \A i \in 1 .. Len(s) : t[i] = s[i]
    BY <1>4
  <1>12. QED
    BY <1>4, <1>8, <1>9, <1>10, <1>11 DEF IsGrown

Wanted(d, list, i) ==
  IF i <= Len(list) /\ list[i] \in Function THEN d.functionDependencies[list[i]] ELSE {}
Grown(d, list, i) == list \o SetToSeq(Wanted(d, list, i) \ ToSet(list))
Lists(d, n, f) ==
  f = [i \in 0 .. n |-> IF i = 0 THEN SetToSeq(d.mainDependencies) ELSE Grown(d, f[i - 1], i)]

LEMMA ListsExist ==
  ASSUME NEW d, NEW n \in Nat
  PROVE  \E f : Lists(d, n, f)
  <1> DEFINE first == SetToSeq(d.mainDependencies)
             S == {m \in Nat : \E f : Lists(d, m, f)}
  <1>1. 0 \in S
    <2> DEFINE f == [i \in 0 .. 0 |-> first]
    <2>1. Lists(d, 0, f)
      BY DEF Lists
    <2>2. QED
      BY <2>1
  <1>2. ASSUME NEW m \in Nat, m \in S PROVE m + 1 \in S
    <2>1. PICK f : Lists(d, m, f)
      BY <1>2
    <2> DEFINE g == [i \in 0 .. m + 1 |-> IF i = m + 1 THEN Grown(d, f[m], m + 1) ELSE f[i]]
    <2>2. \A i \in 0 .. m : f[i] = IF i = 0 THEN first ELSE Grown(d, f[i - 1], i)
      BY <2>1 DEF Lists
    <2> HIDE DEF first
    <2>3. ASSUME NEW i \in 0 .. m + 1
          PROVE  g[i] = IF i = 0 THEN first ELSE Grown(d, g[i - 1], i)
      <3>1. CASE i = 0
        BY <2>2, <3>1
      <3>2. CASE i # 0 /\ i # m + 1
        <4>1. i \in 0 .. m /\ i - 1 \in 0 .. m /\ i - 1 # m + 1
          BY <3>2
        <4>2. g[i] = f[i] /\ g[i - 1] = f[i - 1]
          BY <4>1, <3>2
        <4>3. QED
          BY <2>2, <3>2, <4>1, <4>2
      <3>3. CASE i = m + 1
        <4>1. g[i] = Grown(d, f[m], i) /\ g[i - 1] = f[m] /\ i # 0
          BY <3>3
        <4>2. QED
          BY <4>1
      <3>4. QED
        BY <3>1, <3>2, <3>3
    <2> HIDE DEF g
    <2>4. g = [i \in 0 .. m + 1 |-> g[i]]
      BY DEF g
    <2>5. Lists(d, m + 1, g)
      BY <2>3, <2>4 DEF Lists, first
    <2>6. QED
      BY <2>5
  <1> HIDE DEF S
  <1>3. Nat \subseteq S
    BY <1>1, <1>2, Induction
  <1>4. QED
    BY <1>3 DEF S

(* A set of functions that needs no other. *)
Suffices(d, s) ==
  /\ d.mainDependencies \cap Function \subseteq s
  /\ \A f \in s : d.functionDependencies[f] \cap Function \subseteq s

(* The list after its first i members have been looked at. *)
Looked(d, list, i) ==
  /\ list \in Seq(Global) /\ Distinct(list) /\ d.mainDependencies \subseteq ToSet(list)
  /\ \A j \in 1 .. Len(list) : j <= i /\ list[j] \in Function =>
       d.functionDependencies[list[j]] \subseteq ToSet(list)
  /\ \A s \in SUBSET Function : Suffices(d, s) => ToSet(list) \cap Function \subseteq s

LEMMA LookedFirst ==
  ASSUME NEW d \in Context
  PROVE  Looked(d, SetToSeq(d.mainDependencies), 0)
  <1>1. IsFiniteSet(d.mainDependencies) /\ d.mainDependencies \in SUBSET Global
    BY NamesAssumption, FS_Subset DEF Context
  <1>2. PICK u : u = SetToSeq(d.mainDependencies) /\ ListOf(u, d.mainDependencies)
    BY <1>1, SetToSeqFacts
  <1>3. u \in Seq(d.mainDependencies) /\ Distinct(u) /\ ToSet(u) = d.mainDependencies
    BY <1>2 DEF ListOf
  <1>4. u \in Seq(Global)
    <2>1. u \in [1 .. Len(u) -> d.mainDependencies] /\ Len(u) \in Nat
      BY <1>3
    <2>2. u \in [1 .. Len(u) -> Global]
      BY <1>1, <2>1
    <2>3. QED
      BY <2>1, <2>2
  <1>5. \A j \in 1 .. Len(u) : ~ (j <= 0)
    BY <1>4
  <1>6. \A s \in SUBSET Function : Suffices(d, s) => ToSet(u) \cap Function \subseteq s
    BY <1>3 DEF Suffices
  <1>7. QED
    BY <1>2, <1>3, <1>4, <1>5, <1>6 DEF Looked

LEMMA LookedStep ==
  ASSUME NEW d \in Context, NEW list, NEW i \in Nat, Looked(d, list, i),
         NEW k \in Nat, k = i + 1
  PROVE  Looked(d, Grown(d, list, k), k)
  <1>1. PICK T : T = Wanted(d, list, k)
    OBVIOUS
  <1>2. list \in Seq(Global) /\ Distinct(list) /\ Len(list) \in Nat
    BY DEF Looked
  <1>3. k <= Len(list) => k \in 1 .. Len(list) /\ list[k] \in Global
    BY <1>2
  <1>4. T \in SUBSET Global
    <2>1. \A f \in Function : d.functionDependencies[f] \in SUBSET Global
      BY DEF Context
    <2>2. QED
      BY <1>1, <2>1 DEF Wanted
  <1>5. PICK t : t = Grown(d, list, k)
    OBVIOUS
  <1>6. /\ t \in Seq(Global) /\ Distinct(t) /\ ToSet(t) = ToSet(list) \cup T
        /\ Len(list) <= Len(t) /\ \A j \in 1 .. Len(list) : t[j] = list[j]
        /\ T = {} => t = list
    <2>1. t = list \o SetToSeq(T \ ToSet(list))
      BY <1>1, <1>5 DEF Grown
    <2>2. IsFiniteSet(Global)
      BY NamesAssumption
    <2>3. IsGrown(Global, list, T, t)
      BY <1>2, <1>4, <2>1, <2>2, ListGrows
    <2>4. QED
      BY <2>3 DEF IsGrown
  <1>7. ASSUME NEW j \in 1 .. Len(t), j <= k, t[j] \in Function
        PROVE  d.functionDependencies[t[j]] \subseteq ToSet(t)
    <2>1. CASE T = {}
      <3>1. t = list
        BY <1>6, <2>1
      <3>2. CASE j <= i
        BY <1>7, <3>1, <3>2 DEF Looked
      <3>3. CASE ~ (j <= i)
        <4>1. j = k /\ k <= Len(list)
          BY <1>2, <1>7, <3>1, <3>3
        <4>2. T = d.functionDependencies[list[k]]
          BY <1>1, <1>7, <3>1, <4>1 DEF Wanted
        <4>3. QED
          BY <2>1, <3>1, <4>1, <4>2
      <3>4. QED
        BY <3>2, <3>3
    <2>2. CASE T # {}
      <3>1. k <= Len(list) /\ list[k] \in Function /\ T = d.functionDependencies[list[k]]
        BY <1>1, <2>2 DEF Wanted
      <3>2. j \in 1 .. Len(list)
        BY <1>2, <1>7, <3>1
      <3>3. t[j] = list[j]
        BY <1>6, <3>2
      <3>4. CASE j <= i
        <4>1. d.functionDependencies[list[j]] \subseteq ToSet(list)
          BY <1>7, <3>2, <3>3, <3>4 DEF Looked
        <4>2. QED
          BY <1>6, <3>3, <4>1
      <3>5. CASE ~ (j <= i)
        <4>1. j = k
          BY <1>7, <3>2, <3>5
        <4>2. QED
          BY <1>6, <3>1, <3>3, <4>1
      <3>6. QED
        BY <3>4, <3>5
    <2>3. QED
      BY <2>1, <2>2
  <1>8. ASSUME NEW s \in SUBSET Function, Suffices(d, s) PROVE ToSet(t) \cap Function \subseteq s
    <2>1. ToSet(list) \cap Function \subseteq s
      BY <1>8 DEF Looked
    <2>2. T \cap Function \subseteq s
      <3>1. CASE T = {}
        BY <3>1
      <3>2. CASE T # {}
        <4>1. k \in 1 .. Len(list) /\ list[k] \in Function /\ T = d.functionDependencies[list[k]]
          BY <1>1, <1>3, <3>2 DEF Wanted
        <4>2. list[k] \in ToSet(list)
          BY <1>2, <4>1 DEF ToSet
        <4>3. list[k] \in s
          BY <2>1, <4>1, <4>2
        <4>4. QED
          BY <1>8, <4>1, <4>3 DEF Suffices
      <3>3. QED
        BY <3>1, <3>2
    <2>3. QED
      BY <1>6, <2>1, <2>2
  <1>9. d.mainDependencies \subseteq ToSet(t)
    BY <1>6 DEF Looked
  <1>10. QED
    BY <1>5, <1>6, <1>7, <1>8, <1>9 DEF Looked

(* What the main function needs, and all that this needs. *)
Gathered(d, S) ==
  /\ S \in SUBSET Global /\ d.mainDependencies \subseteq S
  /\ \A f \in S \cap Function : d.functionDependencies[f] \subseteq S
  /\ \A s \in SUBSET Function : Suffices(d, s) => S \cap Function \subseteq s

LEMMA DependenciesFacts ==
  ASSUME NEW d \in Context, NEW e, e = GenerateDependencies(d)
  PROVE  e \in Context /\ AllBut(d, e, {"mainDependencies"}) /\ Gathered(d, e.mainDependencies)
  <1>n. PICK N \in Nat : N = Cardinality(Global)
    BY NamesAssumption, FS_CardinalityType
  <1> DEFINE after == CHOOSE f : Lists(d, N, f)
  <1>1. Lists(d, N, after)
    BY ListsExist
  <1>2. e = [d EXCEPT !.mainDependencies = ToSet(after[N])]
    BY <1>n DEF GenerateDependencies, Lists, Grown, Wanted
  <1> HIDE DEF after
  <1>3. \A i \in 0 .. N :
          after[i] = IF i = 0 THEN SetToSeq(d.mainDependencies) ELSE Grown(d, after[i - 1], i)
    BY <1>1 DEF Lists
  <1> DEFINE G == {i \in 0 .. N : Looked(d, after[i], i)}
  <1>4. 0 \in G
    BY <1>3, LookedFirst
  <1>5. ASSUME NEW i \in 0 .. N - 1, i \in G PROVE i + 1 \in G
    <2>1. PICK k \in Nat : k = i + 1 /\ i \in Nat /\ k \in 0 .. N /\ k # 0 /\ k - 1 = i
      BY <1>n
    <2>2. after[k] = Grown(d, after[i], k)
      BY <1>3, <2>1
    <2>3. Looked(d, after[i], i)
      BY <1>5
    <2>4. Looked(d, after[k], k)
      BY <2>1, <2>2, <2>3, LookedStep
    <2>5. QED
      BY <2>1, <2>4
  <1> HIDE DEF G
  <1>6. 0 .. N \subseteq G
    BY <1>4, <1>5, BoundedInduction
  <1>7. PICK list : list = after[N] /\ Looked(d, list, N)
    BY <1>6 DEF G
  <1>8. list \in Seq(Global) /\ Distinct(list) /\ Len(list) \in Nat /\ Len(list) <= N
    BY <1>n, <1>7, NamesAssumption, DistinctIsShort DEF Looked
  <1>9. PICK S : S = ToSet(list)
    OBVIOUS
  <1>10. S \in SUBSET Global
    BY <1>8, <1>9 DEF ToSet
  <1>11. ASSUME NEW f \in S \cap Function PROVE d.functionDependencies[f] \subseteq S
    <2>1. PICK j \in 1 .. Len(list) : f = list[j]
      BY <1>8, <1>9 DEF ToSet
    <2>2. j <= N
      BY <1>8
    <2>3. QED
      BY <1>7, <1>9, <2>1, <2>2 DEF Looked
  <1>12. Gathered(d, S)
    BY <1>7, <1>9, <1>10, <1>11 DEF Gathered, Looked
  <1>13. e = [d EXCEPT !.mainDependencies = S]
    BY <1>2, <1>7, <1>9
  <1>14. e \in Context /\ AllBut(d, e, {"mainDependencies"}) /\ e.mainDependencies = S
    BY <1>10, <1>13 DEF Context, AllBut, Fields
  <1>15. QED
    BY <1>12, <1>14

(* What the lines of a program use, and what its main function reaches.    *)
LEMMA UsedAll ==
  ASSUME NEW p \in Programs, NEW o
  PROVE  /\ Used(p, o, Len(p) + 1) = used_by(p, o) \cap Global
         /\ Used(p, o, Len(p) + 1) \cap Function = used_by(p, o) \cap Function
  <1>1. DOMAIN p = 1 .. (Len(p) + 1) - 1
    BY ProgramLines
  <1>2. Used(p, o, Len(p) + 1) = used_by(p, o) \cap Global
    BY <1>1, Names DEF Used, used_by
  <1>3. QED
    BY <1>2, Names

LEMMA UnusedYet ==
  ASSUME NEW p \in Seq(Line), NEW k \in 1 .. Len(p) + 1, NEW f \in Function, ~ Defined(p, k, f)
  PROVE  Used(p, f, k) = {}
  <1>1. ASSUME NEW i \in 1 .. k - 1, owner(p, i) = f PROVE FALSE
    <2>1. i \in 0 .. Len(p) /\ 1 .. i \subseteq 1 .. k - 1
      OBVIOUS
    <2>2. PICK j \in 1 .. i : p[j] = def(f)
      BY <1>1, <2>1, Names, OwnerDefined
    <2>3. QED
      BY <2>1, <2>2 DEF Defined
  <1>2. QED
    BY <1>1 DEF Used

LEMMA ReachableFacts ==
  ASSUME NEW p
  PROVE  /\ Reachable(p) \subseteq Function /\ Closed(p, Reachable(p))
         /\ \A s \in SUBSET Function : Closed(p, s) => Reachable(p) \subseteq s
  <1>1. Reachable(p) \subseteq Function
    BY DEF Reachable
  <1>2. \A s \in SUBSET Function : Closed(p, s) => Reachable(p) \subseteq s
    BY DEF Reachable
  <1>3. ASSUME NEW n \in used_by(p, MAIN) \cap Function PROVE n \in Reachable(p)
    <2>1. \A s \in SUBSET Function : Closed(p, s) => n \in s
      BY <1>3 DEF Closed
    <2>2. QED
      BY <1>3, <2>1 DEF Reachable
  <1>4. ASSUME NEW f \in Reachable(p), NEW n \in used_by(p, f) \cap Function PROVE n \in Reachable(p)
    <2>1. ASSUME NEW s \in SUBSET Function, Closed(p, s) PROVE n \in s
      <3>1. f \in s
        BY <1>2, <2>1
      <3>2. QED
        BY <1>4, <2>1, <3>1 DEF Closed
    <2>2. QED
      BY <1>4, <2>1 DEF Reachable
  <1>5. Closed(p, Reachable(p))
    BY <1>3, <1>4 DEF Closed
  <1>6. QED
    BY <1>1, <1>2, <1>5

LEMMA ReachableDefined ==
  ASSUME NEW p \in Programs, NEW f \in Reachable(p)
  PROVE  f \in Function /\ Defined(p, Len(p) + 1, f)
  <1> DEFINE s == {g \in Function : \E i \in DOMAIN p : p[i] = use(g)}
  <1>1. Closed(p, s)
    BY DEF Closed, used_by
  <1>2. f \in s
    BY <1>1, ReachableFacts
  <1>3. \E i \in DOMAIN p : p[i] = def(f)
    BY <1>2, ProgramsAssumption
  <1>4. DOMAIN p = 1 .. (Len(p) + 1) - 1
    BY ProgramLines
  <1>5. QED
    BY <1>2, <1>3, <1>4 DEF Defined

LEMMA GatheredReachable ==
  ASSUME NEW p \in Programs, NEW d \in Context, NEW S, Gathered(d, S),
         d.mainDependencies = Used(p, MAIN, Len(p) + 1),
         \A f \in Function : d.functionDependencies[f] = Used(p, f, Len(p) + 1)
  PROVE  S \cap Function = Reachable(p)
  <1>1. /\ d.mainDependencies \cap Function = used_by(p, MAIN) \cap Function
        /\ \A f \in Function : d.functionDependencies[f] \cap Function = used_by(p, f) \cap Function
    BY UsedAll
  <1>2. ASSUME NEW s \in SUBSET Function PROVE Suffices(d, s) <=> Closed(p, s)
    BY <1>1 DEF Suffices, Closed
  <1>3. Suffices(d, S \cap Function)
    BY DEF Gathered, Suffices
  <1>4. Reachable(p) \subseteq S \cap Function
    BY <1>2, <1>3, ReachableFacts
  <1>5. S \cap Function \subseteq Reachable(p)
    BY <1>2, ReachableFacts DEF Gathered
  <1>6. QED
    BY <1>4, <1>5

-----------------------------------------------------------------------------
(* The steps keep the invariant. *)

(* What the compiler rejects, or loses, it leaves as it is. *)
LEMMA Stops ==
  ASSUME NEW p, NEW d, NEW k, Invariant(p, d, k), Compiling(d), NEW m \in 1 .. Len(p) + 1,
         NEW e \in Context, e.status \in {"error", "undefined"},
         AllBut(d, e, {"status", "mainState", "functionType", "function", "tree", "intact", "dependencies"})
  PROVE  Invariant(p, e, m)
  <1>1. /\ e.text = d.text /\ e.codeBuf = d.codeBuf /\ e.fixups = d.fixups /\ e.offset = d.offset
        /\ e.strings = d.strings /\ e.words = d.words /\ e.globals = d.globals /\ e.data = d.data
        /\ e.mainDependencies = d.mainDependencies
    BY DEF AllBut, Fields
  <1>2. d \in Context /\ p \in Programs /\ Sections(d) /\ Placed(p, d, k)
    BY DEF Invariant, Typed
  <1>3. ~ Compiling(e) /\ e.status # "done" /\ d.status # "done"
    BY DEF Compiling
  <1>4. Sections(e)
    <2>1. SameSections(d, e)
      BY <1>1, <1>3 DEF SameSections
    <2>2. QED
      BY <1>2, <2>1, SectionsKept
  <1>5. Placed(p, e, m)
    BY <1>1, <1>2, <1>3 DEF Placed
  <1>6. QED
    BY <1>2, <1>3, <1>4, <1>5 DEF Invariant, Typed, Scanned, Reading

LEMMA Stays ==
  ASSUME NEW p, NEW d, NEW k, Invariant(p, d, k), ~ Compiling(d), NEW m \in 1 .. Len(p) + 1
  PROVE  Invariant(p, d, m)
  BY DEF Invariant, Typed, Scanned, Reading, Placed

(* The end of a function. *)
Emptied(x, e) ==
  /\ e \in Context /\ AllBut(x, e, {"functionType", "function", "tree"})
  /\ e.functionType = NONE /\ e.function = NONE /\ e.tree = <<>>

LEMMA EmptiedFacts ==
  ASSUME NEW x \in Context, NEW e, e = [x EXCEPT !.functionType = NONE, !.function = NONE, !.tree = <<>>]
  PROVE  Emptied(x, e)
  <1>1. <<>> \in Seq(Name)
    OBVIOUS
  <1>2. QED
    BY <1>1 DEF Emptied, Context, AllBut, Fields

Noted(d, x) ==
  /\ x \in Context /\ AllBut(d, x, {"mainDependencies", "functionDependencies"})
  /\ x.mainDependencies = IF d.functionType = NONE THEN d.dependencies ELSE d.mainDependencies
  /\ x.functionDependencies =
       IF d.functionType = NONE THEN d.functionDependencies
       ELSE [d.functionDependencies EXCEPT ![d.functionType] = d.dependencies]

LEMMA NotedFacts ==
  ASSUME NEW d \in Context, NEW x, x = store_dependencies(d)
  PROVE  Noted(d, x)
  <1>1. CASE d.functionType = NONE
    <2>1. x = [d EXCEPT !.mainDependencies = d.dependencies]
      BY <1>1 DEF store_dependencies
    <2>2. d.dependencies \in SUBSET Global
      BY DEF Context
    <2>3. QED
      BY <1>1, <2>1, <2>2 DEF Noted, Context, AllBut, Fields
  <1>2. CASE d.functionType # NONE
    <2>1. PICK F : F = [d.functionDependencies EXCEPT ![d.functionType] = d.dependencies]
      OBVIOUS
    <2>2. F \in [Function -> SUBSET Global]
      BY <2>1 DEF Context
    <2>3. x = [d EXCEPT !.functionDependencies = F]
      BY <1>2, <2>1 DEF store_dependencies, Context
    <2>4. QED
      BY <1>2, <2>1, <2>2, <2>3 DEF Noted, Context, AllBut, Fields
  <1>3. QED
    BY <1>1, <1>2

LEMMA EndFunctionFacts ==
  ASSUME NEW d \in Context, NEW e, e = EndFunction(d)
  PROVE  /\ ~ d.intact => e \in Context /\ AllBut(d, e, {"status"}) /\ e.status = "undefined"
         /\ d.intact /\ d.pass = 2 => \E x : Noted(d, x) /\ Emptied(x, e)
         /\ d.intact /\ d.pass # 2 /\ is_needed(d) => \E x, base : Stored(d, x, base) /\ Emptied(x, e)
         /\ d.intact /\ d.pass # 2 /\ ~ is_needed(d) => Emptied(d, e)
  <1>1. CASE ~ d.intact
    <2>1. e = undefined(d)
      BY <1>1 DEF EndFunction
    <2>2. QED
      BY <1>1, <2>1, ErrorFacts
  <1>2. CASE d.intact /\ d.pass = 2
    <2>1. PICK x : x = store_dependencies(d)
      OBVIOUS
    <2>2. Noted(d, x)
      BY <2>1, NotedFacts
    <2>3. e = [x EXCEPT !.functionType = NONE, !.function = NONE, !.tree = <<>>]
      BY <1>2, <2>1 DEF EndFunction
    <2>4. x \in Context
      BY <2>2 DEF Noted
    <2>5. Emptied(x, e)
      BY <2>3, <2>4, EmptiedFacts
    <2>6. QED
      BY <1>2, <2>2, <2>5
  <1>3. CASE d.intact /\ d.pass # 2 /\ is_needed(d)
    <2>1. PICK x : x = StoreCode(d)
      OBVIOUS
    <2>2. PICK base : Stored(d, x, base)
      BY <2>1, StoreFacts
    <2>3. e = [x EXCEPT !.functionType = NONE, !.function = NONE, !.tree = <<>>]
      BY <1>3, <2>1 DEF EndFunction
    <2>4. x \in Context
      BY <2>2 DEF Stored
    <2>5. Emptied(x, e)
      BY <2>3, <2>4, EmptiedFacts
    <2>6. QED
      BY <1>3, <2>2, <2>5
  <1>4. CASE d.intact /\ d.pass # 2 /\ ~ is_needed(d)
    <2>1. e = [d EXCEPT !.functionType = NONE, !.function = NONE, !.tree = <<>>]
      BY <1>4 DEF EndFunction
    <2>2. QED
      BY <1>4, <2>1, EmptiedFacts
  <1>5. QED
    BY <1>1, <1>2, <1>3, <1>4

LEMMA CanBeStored ==
  ASSUME NEW p, NEW d, NEW k, Invariant(p, d, k), Compiling(d), d.pass = 3, d.function # NONE, is_needed(d)
  PROVE  Storable(d)
  <1>1. /\ d \in Context /\ p \in Programs /\ Sections(d) /\ Placed(p, d, k)
        /\ Followed(p, d, k) /\ Building(p, d)
    BY DEF Invariant, Typed, Reading, Stuck
  <1>2. d.functionType # NONE => d.functionType \in Function /\ d.offset[d.functionType] = UNDEF
    BY <1>1 DEF Placed, Context
  <1>3. d.mainDependencies \cap Function = Reachable(p)
    BY <1>1 DEF Placed
  <1>4. used_by(p, Who(d)) \cap Function \subseteq Reachable(p)
    <2>1. CASE d.functionType = NONE
      BY <2>1, ReachableFacts DEF Who, Closed
    <2>2. CASE d.functionType # NONE
      <3>1. d.functionType \in Reachable(p)
        BY <1>2, <1>3, <2>2 DEF is_needed
      <3>2. QED
        BY <2>2, <3>1, ReachableFacts DEF Who, Closed
    <2>3. QED
      BY <2>1, <2>2
  <1>5. \A j \in 1 .. Len(d.tree) :
          /\ d.tree[j] \in String \cup d.globals
          /\ d.tree[j] \in Function => d.tree[j] \in d.mainDependencies
    BY <1>1, <1>3, <1>4 DEF Building
  <1>6. QED
    BY <1>1, <1>2, <1>5 DEF Storable, Compiling

(* A function has been read to its end. *)
Gains(d, n) == n \in Function /\ d.functionType = n /\ n \in d.mainDependencies
Finished(d, e) ==
  /\ e \in Context /\ Sections(e)
  /\ AllBut(d, e, {"functionType", "function", "tree", "mainDependencies", "functionDependencies",
                   "codeBuf", "symbolFixups", "strings", "text", "fixups", "offset", "mainCode", "words"})
  /\ e.functionType = NONE /\ e.function = NONE /\ e.tree = <<>>
  /\ d.pass = 2 =>
       /\ e.offset = d.offset /\ e.words = d.words
       /\ e.mainDependencies = IF d.functionType = NONE THEN d.dependencies ELSE d.mainDependencies
       /\ e.functionDependencies =
            IF d.functionType = NONE THEN d.functionDependencies
            ELSE [d.functionDependencies EXCEPT ![d.functionType] = d.dependencies]
  /\ d.pass = 3 =>
       /\ e.mainDependencies = d.mainDependencies
       /\ \A n \in Global : d.offset[n] # UNDEF => e.offset[n] = d.offset[n]
       /\ \A n \in Global : e.offset[n] # UNDEF <=> d.offset[n] # UNDEF \/ Gains(d, n)
  /\ \A s \in String : d.strings[s] # UNDEF => e.strings[s] = d.strings[s]

LEMMA FinishedNoted ==
  ASSUME NEW p, NEW d, NEW k, Invariant(p, d, k), Compiling(d), d.pass = 2,
         NEW x, Noted(d, x), NEW e, Emptied(x, e)
  PROVE  Finished(d, e)
  <1>1. d \in Context /\ Sections(d) /\ d.words = {} /\ d.status # "done"
    BY DEF Invariant, Typed, Placed, Compiling
  <1>2. e \in Context /\ AllBut(d, e, {"functionType", "function", "tree", "mainDependencies", "functionDependencies"})
    BY DEF Noted, Emptied, AllBut, Fields
  <1>3. /\ e.text = d.text /\ e.codeBuf = d.codeBuf /\ e.fixups = d.fixups /\ e.strings = d.strings
        /\ e.words = d.words /\ e.offset = d.offset /\ e.globals = d.globals /\ e.status = d.status
    BY <1>2 DEF AllBut, Fields
  <1>4. Sections(e)
    <2>1. SameSections(d, e)
      BY <1>1, <1>3 DEF SameSections
    <2>2. QED
      BY <1>1, <1>2, <2>1, SectionsKept
  <1>5. /\ e.mainDependencies = IF d.functionType = NONE THEN d.dependencies ELSE d.mainDependencies
        /\ e.functionDependencies =
             IF d.functionType = NONE THEN d.functionDependencies
             ELSE [d.functionDependencies EXCEPT ![d.functionType] = d.dependencies]
        /\ e.functionType = NONE /\ e.function = NONE /\ e.tree = <<>>
    BY DEF Noted, Emptied, AllBut, Fields
  <1>6. AllBut(d, e, {"functionType", "function", "tree", "mainDependencies", "functionDependencies",
                   "codeBuf", "symbolFixups", "strings", "text", "fixups", "offset", "mainCode", "words"})
    BY <1>2 DEF AllBut
  <1>7. QED
    BY <1>2, <1>3, <1>4, <1>5, <1>6 DEF Finished

LEMMA FinishedStored ==
  ASSUME NEW p, NEW d, NEW k, Invariant(p, d, k), Compiling(d), d.pass = 3, d.function # NONE, is_needed(d),
         NEW x, NEW base, Stored(d, x, base), NEW e, Emptied(x, e)
  PROVE  Finished(d, e)
  <1>1. d \in Context /\ Storable(d) /\ d.status # "done" /\ d.offset \in [Global -> Offset] /\ p \in Programs
    BY CanBeStored, Types DEF Invariant, Typed, Compiling
  <1>2. Sections(x) /\ x \in Context
    BY <1>1, SectionsStore DEF Stored
  <1>3. /\ e.text = x.text /\ e.codeBuf = x.codeBuf /\ e.fixups = x.fixups /\ e.strings = x.strings
        /\ e.words = x.words /\ e.offset = x.offset /\ e.globals = x.globals /\ e.status = x.status
        /\ e.mainDependencies = x.mainDependencies /\ e \in Context
    BY DEF Emptied, AllBut, Fields
  <1>4. x.status = d.status /\ x.mainDependencies = d.mainDependencies
    BY DEF Stored, AllBut, Fields
  <1>5. Sections(e)
    <2>1. SameSections(x, e)
      BY <1>1, <1>3, <1>4 DEF SameSections
    <2>2. QED
      BY <1>2, <1>3, <2>1, SectionsKept
  <1>6. /\ e.functionType = NONE /\ e.function = NONE /\ e.tree = <<>>
        /\ AllBut(d, e, {"functionType", "function", "tree", "mainDependencies", "functionDependencies",
                   "codeBuf", "symbolFixups", "strings", "text", "fixups", "offset", "mainCode", "words"})
    BY DEF Emptied, Stored, AllBut, Fields
  <1>7. e.offset = IF d.functionType = NONE THEN d.offset ELSE [d.offset EXCEPT ![d.functionType] = base]
    BY <1>3 DEF Stored
  <1>8. base \in Nat /\ base # UNDEF
    <2>1. base \in Nat
      BY <1>1, StoredReads DEF Storable
    <2>2. QED
      BY <2>1 DEF UNDEF
  <1>9. ASSUME NEW n \in Global
        PROVE  /\ d.offset[n] # UNDEF => e.offset[n] = d.offset[n]
               /\ e.offset[n] # UNDEF <=> d.offset[n] # UNDEF \/ Gains(d, n)
    <2>1. CASE d.functionType = NONE
      <3>1. ~ Gains(d, n)
        BY <2>1, Names DEF Gains
      <3>2. QED
        BY <1>7, <2>1, <3>1
    <2>2. CASE d.functionType # NONE
      <3>1. /\ d.functionType \in Function /\ d.functionType \in d.mainDependencies
            /\ d.offset[d.functionType] = UNDEF /\ d.functionType \in Global
        BY <1>1, <2>2, Names DEF Storable, is_needed
      <3>2. e.offset = [d.offset EXCEPT ![d.functionType] = base]
        BY <1>7, <2>2
      <3>3. QED
        BY <1>1, <1>8, <3>1, <3>2 DEF Gains
    <2>3. QED
      BY <2>1, <2>2
  <1>10. \A s \in String : d.strings[s] # UNDEF => e.strings[s] = d.strings[s]
    BY <1>3 DEF Stored
  <1>11. QED
    BY <1>3, <1>4, <1>5, <1>6, <1>9, <1>10 DEF Finished

LEMMA FinishedSkipped ==
  ASSUME NEW p, NEW d, NEW k, Invariant(p, d, k), Compiling(d), d.pass = 3, d.function # NONE, ~ is_needed(d),
         NEW e, Emptied(d, e)
  PROVE  Finished(d, e)
  <1>1. d \in Context /\ Sections(d) /\ d.status # "done"
    BY DEF Invariant, Typed, Compiling
  <1>2. /\ e \in Context /\ e.functionType = NONE /\ e.function = NONE /\ e.tree = <<>>
        /\ AllBut(d, e, {"functionType", "function", "tree"})
    BY DEF Emptied
  <1>3. /\ e.text = d.text /\ e.codeBuf = d.codeBuf /\ e.fixups = d.fixups /\ e.strings = d.strings
        /\ e.words = d.words /\ e.offset = d.offset /\ e.globals = d.globals /\ e.status = d.status
        /\ e.mainDependencies = d.mainDependencies
    BY <1>2 DEF AllBut, Fields
  <1>4. Sections(e)
    <2>1. SameSections(d, e)
      BY <1>1, <1>3 DEF SameSections
    <2>2. QED
      BY <1>1, <1>2, <2>1, SectionsKept
  <1>5. AllBut(d, e, {"functionType", "function", "tree", "mainDependencies", "functionDependencies",
                   "codeBuf", "symbolFixups", "strings", "text", "fixups", "offset", "mainCode", "words"})
    BY <1>2 DEF AllBut
  <1>6. \A n : ~ Gains(d, n)
    BY DEF Gains, is_needed
  <1>7. QED
    BY <1>2, <1>3, <1>4, <1>5, <1>6 DEF Finished

LEMMA FunctionFinishes ==
  ASSUME NEW p, NEW d, NEW k, Invariant(p, d, k), Compiling(d), d.pass \in {2, 3}, d.function # NONE,
         NEW e, e = EndFunction(d)
  PROVE  /\ ~ d.intact => e \in Context /\ AllBut(d, e, {"status"}) /\ e.status = "undefined"
         /\ d.intact => Finished(d, e)
  <1>1. d \in Context
    BY DEF Invariant, Typed
  <1>2. CASE ~ d.intact
    BY <1>1, <1>2, EndFunctionFacts
  <1>3. CASE d.intact /\ d.pass = 2
    <2>1. PICK x : Noted(d, x) /\ Emptied(x, e)
      BY <1>1, <1>3, EndFunctionFacts
    <2>2. QED
      BY <1>3, <2>1, FinishedNoted
  <1>4. CASE d.intact /\ d.pass = 3 /\ is_needed(d)
    <2>1. PICK x, base : Stored(d, x, base) /\ Emptied(x, e)
      BY <1>1, <1>4, EndFunctionFacts
    <2>2. QED
      BY <1>4, <2>1, FinishedStored
  <1>5. CASE d.intact /\ d.pass = 3 /\ ~ is_needed(d)
    <2>1. Emptied(d, e)
      BY <1>1, <1>5, EndFunctionFacts
    <2>2. QED
      BY <1>5, <2>1, FinishedSkipped
  <1>6. QED
    BY <1>2, <1>3, <1>4, <1>5

LEMMA FinishedHolds ==
  ASSUME NEW p, NEW d, NEW k, Invariant(p, d, k), Compiling(d), d.pass \in {2, 3}, d.function # NONE,
         NEW e, Finished(d, e), NEW x \in Context, AllBut(e, x, {"mainState"}),
         x.mainState = IF d.functionType = NONE THEN "defined" ELSE d.mainState,
         NEW m \in 1 .. Len(p) + 1, Open(p, m) = NONE,
         \A f : Defined(p, m, f) <=> Defined(p, k, f), \A o : Used(p, o, m) = Used(p, o, k)
  PROVE  Invariant(p, x, m)
  <1>1. /\ d \in Context /\ p \in Programs /\ Sections(d) /\ Placed(p, d, k) /\ Scanned(p, d, k)
        /\ Followed(p, d, k) /\ Depends(p, d, k)
    BY DEF Invariant, Typed, Reading, Stuck
  <1>2. /\ x.functionType = NONE /\ x.function = NONE /\ x.tree = <<>> /\ x.pass = d.pass
        /\ x.status = d.status /\ x.globals = d.globals /\ x.data = d.data
        /\ x.text = e.text /\ x.codeBuf = e.codeBuf /\ x.fixups = e.fixups /\ x.strings = e.strings
        /\ x.words = e.words /\ x.offset = e.offset /\ x.globals = e.globals /\ x.status = e.status
        /\ x.mainDependencies = e.mainDependencies /\ x.functionDependencies = e.functionDependencies
    BY DEF Finished, AllBut, Fields
  <1>3. Compiling(x) /\ x.status # "done"
    BY <1>2 DEF Compiling
  <1>4. Typed(p, x, m)
    BY <1>1, <1>2 DEF Typed
  <1>5. Scanned(p, x, m)
    BY <1>1, <1>2 DEF Scanned, Found
  <1>6. Followed(p, x, m)
    BY <1>1, <1>2 DEF Followed
  <1>7. Depends(p, x, m)
    <2>1. CASE d.pass = 2
      <3>1. /\ d.dependencies = Used(p, Who(d), k)
            /\ \A f \in Function \ {d.functionType} : d.functionDependencies[f] = Used(p, f, k)
            /\ d.mainState = "not_defined" => Used(p, MAIN, k) = {}
            /\ d.mainState = "defined" => d.mainDependencies = Used(p, MAIN, k)
        BY <1>1, <2>1 DEF Depends
      <3>2. CASE d.functionType = NONE
        <4>1. x.mainDependencies = d.dependencies /\ x.functionDependencies = d.functionDependencies
          BY <1>2, <2>1, <3>2 DEF Finished
        <4>2. \A f \in Function : f # d.functionType
          BY <3>2, Names
        <4>3. x.mainDependencies = Used(p, MAIN, m) /\ x.mainState = "defined" /\ x.pass = 2
          BY <1>2, <2>1, <3>1, <3>2, <4>1 DEF Who
        <4>4. \A f \in Function : x.functionDependencies[f] = Used(p, f, m)
          BY <3>1, <4>1, <4>2
        <4>5. QED
          BY <1>2, <4>3, <4>4 DEF Depends
      <3>3. CASE d.functionType # NONE
        <4>1. /\ x.mainDependencies = d.mainDependencies
              /\ x.functionDependencies = [d.functionDependencies EXCEPT ![d.functionType] = d.dependencies]
          BY <1>2, <2>1, <3>3 DEF Finished
        <4>2. d.functionDependencies \in [Function -> SUBSET Global]
          BY <1>1 DEF Context
        <4>3. \A f \in Function : x.functionDependencies[f] = Used(p, f, k)
          BY <3>1, <3>3, <4>1, <4>2 DEF Who
        <4>4. x.mainState = d.mainState /\ x.pass = 2
          BY <1>2, <2>1, <3>3
        <4>5. /\ x.mainState = "not_defined" => Used(p, MAIN, m) = {}
              /\ x.mainState = "defined" => x.mainDependencies = Used(p, MAIN, m)
          BY <3>1, <4>1, <4>4
        <4>6. \A f \in Function : x.functionDependencies[f] = Used(p, f, m)
          BY <4>3
        <4>7. QED
          BY <1>2, <4>4, <4>5, <4>6 DEF Depends
      <3>4. QED
        BY <3>2, <3>3
    <2>2. CASE d.pass = 3
      BY <1>2, <2>2 DEF Depends
    <2>3. QED
      BY <2>1, <2>2
  <1>8. Reading(p, x, m)
    BY <1>2, <1>6, <1>7 DEF Reading, Building
  <1>9. Sections(x)
    <2>1. SameSections(e, x)
      BY <1>2, <1>3 DEF SameSections
    <2>2. e \in Context /\ Sections(e)
      BY DEF Finished
    <2>3. QED
      BY <2>1, <2>2, SectionsKept
  <1>10. Placed(p, x, m)
    <2>1. CASE d.pass = 2
      <3>1. x.offset = d.offset /\ x.words = d.words
        BY <1>2, <2>1 DEF Finished
      <3>2. QED
        BY <1>1, <1>2, <1>3, <2>1, <3>1 DEF Placed
    <2>2. CASE d.pass = 3
      <3>1. /\ x.mainDependencies = d.mainDependencies
            /\ \A n \in Global : x.offset[n] # UNDEF <=> d.offset[n] # UNDEF \/ Gains(d, n)
        BY <1>2, <2>2 DEF Finished
      <3>2. \A v \in Variable : v \in x.globals <=> x.offset[v] # UNDEF
        <4>1. \A v \in Variable : v \in Global /\ ~ Gains(d, v)
          BY Names DEF Gains
        <4>2. QED
          BY <1>1, <1>2, <3>1, <4>1 DEF Placed
      <3>3. ASSUME NEW f \in Function
            PROVE  x.offset[f] # UNDEF <=> f \in x.mainDependencies /\ Defined(p, m, f) /\ x.functionType # f
        <4>1. f \in Global /\ f # NONE
          BY Names
        <4>2. d.offset[f] # UNDEF <=> f \in d.mainDependencies /\ Defined(p, k, f) /\ d.functionType # f
          BY <1>1, <2>2 DEF Placed
        <4>3. d.functionType = f => Defined(p, k, f)
          <5>1. ASSUME d.functionType = f PROVE Defined(p, k, f)
            <6>1. owner(p, k - 1) = f /\ f # MAIN
              BY <1>1, <4>1, <5>1, Names DEF Followed, Open
            <6>2. k \in 1 .. Len(p) + 1 /\ p \in Seq(Line) /\ Len(p) \in Nat
              BY ProgramLines DEF Invariant, Typed
            <6>3. PICK l \in 0 .. Len(p) : l = k - 1
              BY <6>2
            <6>4. \E j \in 1 .. l : p[j] = def(owner(p, l)) /\ owner(p, l) \in Function
              BY <6>1, <6>2, <6>3, OwnerDefined
            <6>5. QED
              BY <6>1, <6>3, <6>4 DEF Defined
          <5>2. QED
            BY <5>1
        <4>4. QED
          BY <1>2, <3>1, <4>1, <4>2, <4>3 DEF Gains
      <3>4. QED
        BY <1>1, <1>2, <1>3, <2>2, <3>1, <3>2, <3>3 DEF Placed
    <2>3. QED
      BY <2>1, <2>2
  <1>11. QED
    BY <1>4, <1>5, <1>8, <1>9, <1>10 DEF Invariant

(* The main function ends where a function begins, or with the source. *)
LEMMA MainEnds ==
  ASSUME NEW p, NEW d, NEW k, Invariant(p, d, k), Compiling(d), d.mainState = "in_progress",
         NEW e, e = [EndFunction(d) EXCEPT !.mainState = "defined"]
  PROVE  /\ Invariant(p, e, k) /\ e \in Context /\ AllBut(EndFunction(d), e, {"mainState"})
         /\ EndFunction(d) \in Context
         /\ Compiling(e) => /\ e.functionType = NONE /\ e.function = NONE /\ e.mainState = "defined"
                            /\ e.pass = d.pass /\ d.pass > 1
  <1>1. d \in Context /\ p \in Programs /\ Followed(p, d, k) /\ k \in 1 .. Len(p) + 1 /\ d.pass \in 1 .. 3
    BY DEF Invariant, Typed, Reading, Stuck
  <1>2. d.pass # 1 /\ d.functionType = NONE /\ d.function = MAIN /\ d.function # NONE
    BY <1>1, Names DEF Followed
  <1>3. d.pass \in {2, 3} /\ d.pass > 1
    BY <1>1, <1>2
  <1>4. PICK x : x = EndFunction(d)
    OBVIOUS
  <1>5. /\ ~ d.intact => x \in Context /\ AllBut(d, x, {"status"}) /\ x.status = "undefined"
        /\ d.intact => Finished(d, x)
    BY <1>2, <1>3, <1>4, FunctionFinishes
  <1>6. x \in Context
    BY <1>5 DEF Finished
  <1>7. e \in Context /\ AllBut(x, e, {"mainState"}) /\ e.mainState = "defined"
    <2>1. "defined" \in MainStates
      BY DEF MainStates
    <2>2. e = [x EXCEPT !.mainState = "defined"]
      BY <1>4
    <2>3. QED
      BY <1>6, <2>1, <2>2 DEF Context, AllBut, Fields
  <1>8. CASE ~ d.intact
    <2>1. e.status = "undefined"
      BY <1>5, <1>7, <1>8 DEF AllBut, Fields
    <2>2. AllBut(d, e, {"status", "mainState", "functionType", "function", "tree", "intact", "dependencies"})
      BY <1>5, <1>7, <1>8 DEF AllBut
    <2>3. Invariant(p, e, k)
      BY <1>1, <1>7, <2>1, <2>2, Stops
    <2>4. QED
      BY <1>4, <1>6, <1>7, <2>1, <2>3 DEF Compiling
  <1>9. CASE d.intact
    <2>1. Finished(d, x)
      BY <1>5, <1>9
    <2>2. Open(p, k) = NONE
      BY <1>1, <1>2 DEF Followed
    <2>3. e.mainState = IF d.functionType = NONE THEN "defined" ELSE d.mainState
      BY <1>2, <1>7
    <2>4. Invariant(p, e, k)
      BY <1>1, <1>2, <1>3, <1>7, <2>1, <2>2, <2>3, FinishedHolds
    <2>5. e.functionType = NONE /\ e.function = NONE /\ e.pass = d.pass
      BY <1>7, <2>1 DEF Finished, AllBut, Fields
    <2>6. QED
      BY <1>3, <1>4, <1>6, <1>7, <2>4, <2>5
  <1>10. QED
    BY <1>8, <1>9

LEMMA EndMainFacts ==
  ASSUME NEW p, NEW d, NEW k, Invariant(p, d, k), Compiling(d), NEW y, y = end_main(d)
  PROVE  /\ Invariant(p, y, k)
         /\ Compiling(y) => y.mainState # "in_progress"
  <1>1. CASE d.mainState = "in_progress"
    <2>1. y = [EndFunction(d) EXCEPT !.mainState = "defined"]
      BY <1>1 DEF end_main
    <2>2. QED
      BY <1>1, <2>1, MainEnds
  <1>2. CASE d.mainState # "in_progress"
    BY <1>2 DEF end_main
  <1>3. QED
    BY <1>1, <1>2

(* The place of a step in its program. *)
LEMMA LineFacts ==
  ASSUME NEW p, NEW d, NEW k, Invariant(p, d, k)
  PROVE  /\ p \in Programs /\ p \in Seq(Line) /\ Len(p) \in Nat /\ k \in 1 .. Len(p) + 1 /\ k \in Nat
         /\ d \in Context /\ Sections(d) /\ Placed(p, d, k) /\ Scanned(p, d, k)
         /\ Compiling(d) => d.pass \in 1 .. 3 /\ d.status # "done"
         /\ k <= Len(p) => k \in 1 .. Len(p) /\ k + 1 \in 1 .. Len(p) + 1 /\ p[k] \in Line /\ (k + 1) - 1 = k
         /\ Compiling(d) /\ (d.functionType = NONE \/ d.function # NONE \/ d.mainState # "not_defined" \/ d.pass # 2) =>
              Followed(p, d, k) /\ Depends(p, d, k) /\ Building(p, d)
  <1>1. p \in Programs /\ k \in 1 .. Len(p) + 1 /\ d \in Context /\ (Compiling(d) => d.pass \in 1 .. 3)
    BY DEF Invariant, Typed
  <1>2. p \in Seq(Line) /\ Len(p) \in Nat
    BY <1>1, ProgramLines
  <1>3. k <= Len(p) => k \in 1 .. Len(p) /\ k + 1 \in 1 .. Len(p) + 1 /\ p[k] \in Line /\ (k + 1) - 1 = k
    BY <1>1, <1>2
  <1>4. k \in Nat
    BY <1>1, <1>2
  <1>5. Sections(d) /\ Placed(p, d, k) /\ Scanned(p, d, k) /\ Reading(p, d, k)
    BY DEF Invariant
  <1>6. QED
    BY <1>1, <1>2, <1>3, <1>4, <1>5 DEF Reading, Stuck, Compiling

LEMMA NotYetDefined ==
  ASSUME NEW p, NEW d, NEW k, Invariant(p, d, k), Compiling(d), k <= Len(p),
         NEW f \in Function, p[k] = def(f), d.pass = 1 => f \notin d.globals
  PROVE  ~ Defined(p, k, f)
  <1>1. /\ k \in 1 .. Len(p) /\ Len(p) \in Nat /\ Scanned(p, d, k)
    BY LineFacts
  <1>2. CASE d.pass = 1
    BY <1>1, <1>2 DEF Scanned, Found
  <1>3. CASE d.pass # 1
    <2>1. ASSUME NEW i \in 1 .. k - 1, p[i] = def(f) PROVE FALSE
      <3>1. i \in 1 .. (Len(p) + 1) - 1 /\ k \in 1 .. (Len(p) + 1) - 1 /\ i # k
        BY <1>1
      <3>2. \A j, l \in 1 .. (Len(p) + 1) - 1 : p[j] = def(f) /\ p[l] = def(f) => j = l
        BY <1>1, <1>3 DEF Scanned, Found
      <3>3. QED
        BY <2>1, <3>1, <3>2
    <2>2. QED
      BY <2>1 DEF Defined
  <1>4. QED
    BY <1>2, <1>3

(* A line of the first pass that is not rejected. *)
LEMMA ScannedStep ==
  ASSUME NEW p, NEW d, NEW k, Invariant(p, d, k), Compiling(d), k <= Len(p),
         NEW e \in Context, e.pass = d.pass, d.globals \subseteq e.globals,
         d.pass = 1 => (k = 1 => p[k] # enddef),
         d.pass = 1 => \A f \in Function : p[k] = def(f) => f \notin d.globals /\ f \in e.globals
  PROVE  Scanned(p, e, k + 1)
  <1>1. /\ k \in 1 .. Len(p) /\ Len(p) \in Nat /\ Scanned(p, d, k) /\ p \in Seq(Line)
        /\ (k + 1) - 1 = k /\ 1 .. k = (1 .. k - 1) \cup {k}
    BY LineFacts
  <1>2. CASE d.pass # 1
    BY <1>1, <1>2 DEF Scanned, Found
  <1>3. CASE d.pass = 1
    <2>1. /\ \A f \in Function : \A i, j \in 1 .. k - 1 : p[i] = def(f) /\ p[j] = def(f) => i = j
          /\ \A f \in Function : Defined(p, k, f) => f \in d.globals
          /\ k > 1 => p[1] # enddef
      BY <1>1, <1>3 DEF Scanned, Found
    <2>2. \A f \in Function : p[k] = def(f) => \A i \in 1 .. k - 1 : p[i] # def(f)
      BY <1>3, <2>1 DEF Defined
    <2>3. \A f \in Function : \A i, j \in 1 .. k : p[i] = def(f) /\ p[j] = def(f) => i = j
      BY <1>1, <2>1, <2>2
    <2>4. \A f \in Function : Defined(p, k + 1, f) => f \in e.globals
      BY <1>1, <1>3, <2>1, DefinedStep
    <2>5. k + 1 > 1 => p[1] # enddef
      BY <1>1, <1>3, <2>1
    <2>6. Found(p, e, k + 1) = k + 1
      BY <1>3 DEF Found
    <2>7. QED
      BY <1>1, <2>3, <2>4, <2>5, <2>6 DEF Scanned
  <1>4. QED
    BY <1>2, <1>3

LEMMA DefFirst ==
  ASSUME NEW p, NEW d, NEW k, Invariant(p, d, k), Compiling(d), k <= Len(p), d.pass = 1,
         d.functionType = NONE, NEW f \in Function, p[k] = def(f),
         NEW e, e = [AddGlobalSymbol(d, f) EXCEPT !.functionType = f]
  PROVE  Invariant(p, e, k + 1)
  <1>1. /\ k \in 1 .. Len(p) /\ k + 1 \in 1 .. Len(p) + 1 /\ p \in Seq(Line) /\ p \in Programs /\ p[k] \in Line
        /\ d \in Context /\ Sections(d) /\ Placed(p, d, k) /\ d.status # "done"
        /\ Followed(p, d, k) /\ Depends(p, d, k)
    BY LineFacts
  <1>2. PICK s : s = AddGlobalSymbol(d, f)
    OBVIOUS
  <1>3. f \in Global /\ f \notin Variable /\ f # NONE
    BY Names
  <1>4. s \in Context /\ Declared(d, f, s)
    <2>1. Declared(d, f, s)
      BY <1>1, <1>2, <1>3, AddGlobalSymbolFacts
    <2>2. QED
      BY <2>1 DEF Declared
  <1>5. e \in Context /\ AllBut(s, e, {"functionType"}) /\ e.functionType = f
    <2>1. e = [s EXCEPT !.functionType = f]
      BY <1>2
    <2>2. e \in Context
      BY <1>4, <2>1, ZenonT(30) DEF Context
    <2>3. AllBut(s, e, {"functionType"}) /\ e.functionType = f
      BY <1>4, <2>1 DEF Context, AllBut, Fields
    <2>4. QED
      BY <2>2, <2>3
  <1>6. CASE f \in d.globals
    <2>1. AllBut(d, s, {"status"}) /\ s.status = "error"
      BY <1>4, <1>6 DEF Declared
    <2>2. e.status = "error"
      BY <1>5, <2>1 DEF AllBut, Fields
    <2>3. AllBut(d, e, {"status", "mainState", "functionType", "function", "tree", "intact", "dependencies"})
      BY <1>5, <2>1 DEF AllBut
    <2>4. QED
      BY <1>1, <1>5, <2>2, <2>3, Stops
  <1>7. CASE f \notin d.globals
    <2>0. AllBut(d, s, {"globals", "offset", "data"}) /\ s.globals = d.globals \cup {f}
      BY <1>4, <1>7 DEF Declared
    <2>1. s.offset = d.offset /\ s.data = d.data
      BY <1>4, <1>7 DEF Declared
    <2>2. /\ AllBut(d, e, {"globals", "functionType"}) /\ e.globals = d.globals \cup {f}
      BY <1>5, <2>0, <2>1 DEF AllBut, Fields
    <2>3. /\ e.text = d.text /\ e.codeBuf = d.codeBuf /\ e.fixups = d.fixups /\ e.strings = d.strings
          /\ e.words = d.words /\ e.offset = d.offset /\ e.status = d.status /\ e.data = d.data
          /\ e.mainDependencies = d.mainDependencies /\ e.functionDependencies = d.functionDependencies
          /\ e.pass = 1 /\ e.mainState = d.mainState /\ e.function = d.function
      BY <2>2 DEF AllBut, Fields
    <2>4. Typed(p, e, k + 1)
      BY <1>1, <1>5, <2>3 DEF Typed
    <2>5. Scanned(p, e, k + 1)
      <3>1. p[k] # enddef
        BY DEF def, enddef
      <3>2. \A g \in Function : p[k] = def(g) => g = f
        BY DEF def
      <3>3. QED
        BY <1>5, <1>7, <2>2, <2>3, <3>1, <3>2, ScannedStep
    <2>6. Reading(p, e, k + 1)
      <3>1. Open(p, k + 1) = f
        BY <1>1, OpenStep, LineIs
      <3>2. Followed(p, e, k + 1)
        BY <1>1, <1>5, <2>3, <3>1 DEF Followed
      <3>3. Depends(p, e, k + 1)
        BY <1>1, <2>3 DEF Depends
      <3>4. Building(p, e)
        BY <1>1, <2>3 DEF Building, Followed
      <3>5. QED
        BY <3>2, <3>3, <3>4 DEF Reading
    <2>7. Placed(p, e, k + 1)
      <3>1. e.globals \cap Variable = d.globals \cap Variable
        BY <1>3, <2>2
      <3>2. \A v \in Variable : v \in e.globals <=> v \in d.globals
        BY <1>3, <2>2
      <3>3. Compiling(e) /\ e.status # "done" /\ e.pass < 3 /\ e.pass # 3
        BY <1>1, <2>3 DEF Compiling
      <3>4. QED
        BY <1>1, <2>3, <3>1, <3>2, <3>3 DEF Placed
    <2>8. Sections(e)
      <3>1. SameSections(d, e)
        BY <1>1, <2>2, <2>3 DEF SameSections
      <3>2. QED
        BY <1>1, <1>5, <3>1, SectionsKept
    <2>9. QED
      BY <2>4, <2>5, <2>6, <2>7, <2>8 DEF Invariant
  <1>8. QED
    BY <1>6, <1>7

Started(d, f, e) ==
  /\ e \in Context /\ AllBut(d, e, {"functionType", "function", "tree", "intact", "dependencies"})
  /\ e.functionType = (IF f = MAIN THEN NONE ELSE f) /\ e.function = f
  /\ e.tree = <<>> /\ e.intact = TRUE /\ e.dependencies = {}

LEMMA StartFacts ==
  ASSUME NEW d \in Context, NEW f \in Function \cup {MAIN}, NEW e, e = StartFunction(d, f)
  PROVE  Started(d, f, e)
  <1>1. <<>> \in Seq(Name)
    OBVIOUS
  <1>2. QED
    BY <1>1 DEF Started, StartFunction, Context, AllBut, Fields

LEMMA DefLater ==
  ASSUME NEW p, NEW d, NEW k, Invariant(p, d, k), Compiling(d), k <= Len(p), d.pass > 1,
         d.functionType = NONE, d.mainState # "in_progress", NEW f \in Function, p[k] = def(f),
         NEW e, e = StartFunction(d, f)
  PROVE  Invariant(p, e, k + 1)
  <1>1. /\ k \in 1 .. Len(p) /\ k + 1 \in 1 .. Len(p) + 1 /\ p \in Seq(Line) /\ p \in Programs /\ p[k] \in Line
        /\ d \in Context /\ Sections(d) /\ Placed(p, d, k) /\ d.status # "done" /\ d.pass \in 1 .. 3
        /\ Followed(p, d, k) /\ Depends(p, d, k) /\ (k + 1) - 1 = k
    BY LineFacts
  <1>2. f \in Global /\ f \notin Variable /\ f # NONE /\ f # MAIN
    BY Names
  <1>3. /\ e \in Context /\ AllBut(d, e, {"functionType", "function", "tree", "intact", "dependencies"})
        /\ e.functionType = f /\ e.function = f /\ e.tree = <<>> /\ e.dependencies = {}
    <2>1. f \in Function \cup {MAIN}
      OBVIOUS
    <2>2. Started(d, f, e)
      BY <1>1, <2>1, StartFacts
    <2>3. QED
      BY <1>2, <2>2 DEF Started
  <1>4. /\ e.text = d.text /\ e.codeBuf = d.codeBuf /\ e.fixups = d.fixups /\ e.strings = d.strings
        /\ e.words = d.words /\ e.offset = d.offset /\ e.status = d.status /\ e.data = d.data
        /\ e.mainDependencies = d.mainDependencies /\ e.functionDependencies = d.functionDependencies
        /\ e.pass = d.pass /\ e.mainState = d.mainState /\ e.globals = d.globals
    BY <1>3 DEF AllBut, Fields
  <1>5. Typed(p, e, k + 1)
    BY <1>1, <1>3, <1>4 DEF Typed, Compiling
  <1>6. d.pass # 1
    BY <1>1
  <1>7. Scanned(p, e, k + 1)
    BY <1>3, <1>4, <1>6, ScannedStep
  <1>8. ~ Defined(p, k, f)
    BY <1>6, NotYetDefined
  <1>9. p[k].kind = "def" /\ p[k].name = f
    BY <1>1, LineIs
  <1>10. \A o : Used(p, o, k + 1) = Used(p, o, k)
    BY <1>1, <1>9, UsedStep
  <1>11. Followed(p, e, k + 1)
    <2>1. Open(p, k + 1) = f
      BY <1>1, <1>9, OpenStep
    <2>2. QED
      BY <1>1, <1>2, <1>3, <1>4, <2>1 DEF Followed
  <1>12. Depends(p, e, k + 1)
    <2>1. CASE d.pass = 2
      <3>1. Used(p, f, k) = {}
        BY <1>1, <1>8, UnusedYet
      <3>2. \A g \in Function : g # d.functionType
        BY Names
      <3>3. \A g \in Function : d.functionDependencies[g] = Used(p, g, k)
        BY <1>1, <2>1, <3>2 DEF Depends
      <3>4. e.dependencies = Used(p, Who(e), k + 1)
        BY <1>2, <1>3, <1>10, <3>1 DEF Who
      <3>5. /\ e.mainState = "not_defined" => Used(p, MAIN, k + 1) = {}
            /\ e.mainState = "defined" => e.mainDependencies = Used(p, MAIN, k + 1)
        BY <1>1, <1>4, <1>10, <2>1 DEF Depends
      <3>6. QED
        BY <1>4, <1>10, <2>1, <3>3, <3>4, <3>5 DEF Depends
    <2>2. CASE d.pass = 3
      BY <1>4, <2>2 DEF Depends
    <2>3. QED
      BY <1>1, <1>6, <2>1, <2>2
  <1>13. Reading(p, e, k + 1)
    <2>1. Len(e.tree) = 0
      BY <1>3
    <2>2. Building(p, e)
      BY <2>1 DEF Building
    <2>3. QED
      BY <1>11, <1>12, <2>2 DEF Reading
  <1>14. Placed(p, e, k + 1)
    <2>1. CASE d.pass = 2
      BY <1>1, <1>4, <2>1 DEF Placed, Compiling
    <2>2. CASE d.pass = 3
      <3>1. ASSUME NEW g \in Function
            PROVE  e.offset[g] # UNDEF <=> g \in e.mainDependencies /\ Defined(p, k + 1, g) /\ e.functionType # g
        <4>1. d.offset[g] # UNDEF <=> g \in d.mainDependencies /\ Defined(p, k, g) /\ d.functionType # g
          BY <1>1, <2>2 DEF Placed
        <4>2. d.functionType # g
          BY Names
        <4>3. Defined(p, k + 1, g) <=> Defined(p, k, g) \/ g = f
          <5>1. p[k] = def(g) <=> g = f
            BY DEF def
          <5>2. QED
            BY <1>1, <5>1, DefinedStep
        <4>4. QED
          BY <1>3, <1>4, <1>8, <4>1, <4>2, <4>3
      <3>2. QED
        BY <1>1, <1>4, <2>2, <3>1 DEF Placed, Compiling
    <2>3. QED
      BY <1>1, <1>6, <2>1, <2>2
  <1>15. Sections(e)
    <2>1. SameSections(d, e)
      BY <1>1, <1>4 DEF SameSections
    <2>2. QED
      BY <1>1, <1>3, <2>1, SectionsKept
  <1>16. QED
    BY <1>5, <1>7, <1>13, <1>14, <1>15 DEF Invariant

LEMMA DefKeeps ==
  ASSUME NEW p, NEW d, NEW k, Invariant(p, d, k), Compiling(d), k <= Len(p),
         NEW f \in Function, p[k] = def(f), NEW y, y = end_main(d),
         NEW e, e = IF y.status # "compiling" THEN y
                    ELSE IF y.functionType # NONE THEN error(y)
                    ELSE IF y.pass = 1 THEN [AddGlobalSymbol(y, f) EXCEPT !.functionType = f]
                    ELSE StartFunction(y, f)
  PROVE  Invariant(p, e, k + 1)
  <1>1. Invariant(p, y, k) /\ (Compiling(y) => y.mainState # "in_progress")
    BY EndMainFacts
  <1>2. k + 1 \in 1 .. Len(p) + 1 /\ y \in Context /\ (Compiling(y) => y.pass \in 1 .. 3)
    BY <1>1, LineFacts
  <1>3. CASE ~ Compiling(y)
    <2>1. e = y
      BY <1>3 DEF Compiling
    <2>2. QED
      BY <1>1, <1>2, <1>3, <2>1, Stays
  <1>4. CASE Compiling(y) /\ y.functionType # NONE
    <2>1. e = error(y)
      BY <1>4 DEF Compiling
    <2>2. e \in Context /\ AllBut(y, e, {"status"}) /\ e.status = "error"
      BY <1>2, <2>1, ErrorFacts
    <2>3. AllBut(y, e, {"status", "mainState", "functionType", "function", "tree", "intact", "dependencies"})
      BY <2>2 DEF AllBut
    <2>4. QED
      BY <1>1, <1>2, <1>4, <2>2, <2>3, Stops
  <1>5. CASE Compiling(y) /\ y.functionType = NONE /\ y.pass = 1
    <2>1. e = [AddGlobalSymbol(y, f) EXCEPT !.functionType = f]
      BY <1>5 DEF Compiling
    <2>2. QED
      BY <1>1, <1>5, <2>1, DefFirst
  <1>6. CASE Compiling(y) /\ y.functionType = NONE /\ y.pass # 1
    <2>1. e = StartFunction(y, f) /\ y.pass > 1
      BY <1>2, <1>6 DEF Compiling
    <2>2. QED
      BY <1>1, <1>6, <2>1, DefLater
  <1>7. QED
    BY <1>3, <1>4, <1>5, <1>6

LEMMA EnddefFirst ==
  ASSUME NEW p, NEW d, NEW k, Invariant(p, d, k), Compiling(d), k <= Len(p), p[k] = enddef,
         d.pass = 1, d.functionType # NONE, NEW e, e = [d EXCEPT !.functionType = NONE]
  PROVE  Invariant(p, e, k + 1)
  <1>1. /\ k \in 1 .. Len(p) /\ k + 1 \in 1 .. Len(p) + 1 /\ p \in Seq(Line) /\ p \in Programs /\ p[k] \in Line
        /\ d \in Context /\ Sections(d) /\ Placed(p, d, k) /\ d.status # "done"
        /\ Followed(p, d, k) /\ Depends(p, d, k)
    BY LineFacts
  <1>2. e \in Context /\ AllBut(d, e, {"functionType"}) /\ e.functionType = NONE
    BY <1>1 DEF Context, AllBut, Fields
  <1>3. /\ e.text = d.text /\ e.codeBuf = d.codeBuf /\ e.fixups = d.fixups /\ e.strings = d.strings
        /\ e.words = d.words /\ e.offset = d.offset /\ e.status = d.status /\ e.data = d.data
        /\ e.mainDependencies = d.mainDependencies /\ e.functionDependencies = d.functionDependencies
        /\ e.pass = 1 /\ e.mainState = d.mainState /\ e.function = d.function /\ e.globals = d.globals
    BY <1>2 DEF AllBut, Fields
  <1>4. Typed(p, e, k + 1)
    BY <1>1, <1>2, <1>3 DEF Typed
  <1>5. k # 1
    BY <1>1, OpenStep DEF Followed
  <1>6. Scanned(p, e, k + 1)
    <2>1. \A f \in Function : p[k] # def(f)
      BY DEF def, enddef
    <2>2. QED
      BY <1>2, <1>3, <1>5, <2>1, ScannedStep
  <1>7. Reading(p, e, k + 1)
    <2>1. Open(p, k + 1) = NONE
      BY <1>1, OpenStep, LineIs
    <2>2. Followed(p, e, k + 1)
      BY <1>1, <1>2, <1>3, <2>1 DEF Followed
    <2>3. Depends(p, e, k + 1)
      BY <1>1, <1>3 DEF Depends
    <2>4. Building(p, e)
      BY <1>1, <1>3 DEF Building, Followed
    <2>5. QED
      BY <2>2, <2>3, <2>4 DEF Reading
  <1>8. Placed(p, e, k + 1)
    <2>1. Compiling(e) /\ e.status # "done" /\ e.pass < 3 /\ e.pass # 3
      BY <1>1, <1>3 DEF Compiling
    <2>2. QED
      BY <1>1, <1>3, <2>1 DEF Placed
  <1>9. Sections(e)
    <2>1. SameSections(d, e)
      BY <1>1, <1>3 DEF SameSections
    <2>2. QED
      BY <1>1, <1>2, <2>1, SectionsKept
  <1>10. QED
    BY <1>4, <1>6, <1>7, <1>8, <1>9 DEF Invariant

(* The end of a function in the last two passes: it has begun. *)
LEMMA InFunction ==
  ASSUME NEW p, NEW d, NEW k, Invariant(p, d, k), Compiling(d), k <= Len(p), p[k] = enddef,
         d.pass # 1, d.functionType # NONE
  PROVE  d.function # NONE /\ d.pass \in {2, 3}
  <1>1. k \in 1 .. Len(p) /\ d.pass \in 1 .. 3 /\ Scanned(p, d, k) /\ Len(p) \in Nat
    BY LineFacts
  <1>2. k = 1 => ~ (Found(p, d, k) > 1)
    BY <1>1 DEF Scanned
  <1>3. Found(p, d, k) = Len(p) + 1
    BY DEF Found
  <1>4. k # 1
    BY <1>1, <1>2, <1>3
  <1>5. Followed(p, d, k)
    BY <1>4 DEF Invariant, Reading, Stuck
  <1>6. QED
    BY <1>1, <1>5 DEF Followed

LEMMA EnddefLater ==
  ASSUME NEW p, NEW d, NEW k, Invariant(p, d, k), Compiling(d), k <= Len(p), p[k] = enddef,
         d.pass # 1, d.functionType # NONE, NEW e, e = EndFunction(d)
  PROVE  Invariant(p, e, k + 1)
  <1>1. /\ k \in 1 .. Len(p) /\ k + 1 \in 1 .. Len(p) + 1 /\ p \in Seq(Line) /\ p \in Programs /\ p[k] \in Line
        /\ d \in Context /\ d.status # "done" /\ d.pass \in 1 .. 3 /\ Scanned(p, d, k) /\ Len(p) \in Nat
    BY LineFacts
  <1>2. d.function # NONE
    BY InFunction
  <1>3. d.pass \in {2, 3}
    BY <1>1
  <1>4. /\ ~ d.intact => e \in Context /\ AllBut(d, e, {"status"}) /\ e.status = "undefined"
        /\ d.intact => Finished(d, e)
    BY <1>2, <1>3, FunctionFinishes
  <1>5. CASE ~ d.intact
    <2>1. AllBut(d, e, {"status", "mainState", "functionType", "function", "tree", "intact", "dependencies"})
      BY <1>4, <1>5 DEF AllBut
    <2>2. QED
      BY <1>1, <1>4, <1>5, <2>1, Stops
  <1>6. CASE d.intact
    <2>1. Finished(d, e) /\ e \in Context
      BY <1>4, <1>6 DEF Finished
    <2>2. e.mainState = IF d.functionType = NONE THEN "defined" ELSE d.mainState
      BY <2>1 DEF Finished, AllBut, Fields
    <2>3. AllBut(e, e, {"mainState"})
      BY DEF AllBut
    <2>4. p[k].kind = "enddef"
      BY <1>1, LineIs
    <2>5. PICK m \in 1 .. Len(p) + 1 : m = k + 1
      BY <1>1
    <2>6. Open(p, m) = NONE
      BY <1>1, <2>4, <2>5, OpenStep
    <2>7. \A f : Defined(p, m, f) <=> Defined(p, k, f)
      BY <1>1, <2>4, <2>5, DefinedStep
    <2>8. \A o : Used(p, o, m) = Used(p, o, k)
      BY <1>1, <2>4, <2>5, UsedStep
    <2>9. Invariant(p, e, m)
      BY <1>2, <1>3, <2>1, <2>2, <2>3, <2>6, <2>7, <2>8, FinishedHolds
    <2>10. QED
      BY <2>5, <2>9
  <1>7. QED
    BY <1>5, <1>6

LEMMA EnddefKeeps ==
  ASSUME NEW p, NEW d, NEW k, Invariant(p, d, k), Compiling(d), k <= Len(p), p[k] = enddef,
         NEW e, e = IF d.functionType = NONE THEN error(d)
                    ELSE IF d.pass = 1 THEN [d EXCEPT !.functionType = NONE] ELSE EndFunction(d)
  PROVE  Invariant(p, e, k + 1)
  <1>1. CASE d.functionType = NONE
    <2>1. e = error(d) /\ d \in Context /\ k + 1 \in 1 .. Len(p) + 1
      BY <1>1, LineFacts
    <2>2. e \in Context /\ AllBut(d, e, {"status"}) /\ e.status = "error"
      BY <2>1, ErrorFacts
    <2>3. AllBut(d, e, {"status", "mainState", "functionType", "function", "tree", "intact", "dependencies"})
      BY <2>2 DEF AllBut
    <2>4. QED
      BY <2>1, <2>2, <2>3, Stops
  <1>2. CASE d.functionType # NONE /\ d.pass = 1
    BY <1>2, EnddefFirst
  <1>3. CASE d.functionType # NONE /\ d.pass # 1
    BY <1>3, EnddefLater
  <1>4. QED
    BY <1>1, <1>2, <1>3

(* A line that changes none of the context but that a tree is lost. *)
LEMMA Quiet ==
  ASSUME NEW p, NEW d, NEW k, Invariant(p, d, k), Compiling(d), k <= Len(p),
         p[k].kind # "dim" => p[k].kind = "use" /\ d.pass = 1,
         Followed(p, d, k), Depends(p, d, k), Building(p, d),
         NEW e \in Context, AllBut(d, e, {"intact"})
  PROVE  Invariant(p, e, k + 1)
  <1>1. /\ k \in 1 .. Len(p) /\ k + 1 \in 1 .. Len(p) + 1 /\ p \in Seq(Line) /\ p \in Programs /\ p[k] \in Line
        /\ Sections(d) /\ Placed(p, d, k) /\ d.status # "done" /\ d.pass \in 1 .. 3 /\ d \in Context
    BY LineFacts
  <1>2. /\ e.text = d.text /\ e.codeBuf = d.codeBuf /\ e.fixups = d.fixups /\ e.strings = d.strings
        /\ e.words = d.words /\ e.offset = d.offset /\ e.status = d.status /\ e.data = d.data
        /\ e.mainDependencies = d.mainDependencies /\ e.functionDependencies = d.functionDependencies
        /\ e.pass = d.pass /\ e.mainState = d.mainState /\ e.function = d.function /\ e.globals = d.globals
        /\ e.functionType = d.functionType /\ e.tree = d.tree /\ e.dependencies = d.dependencies
    BY DEF AllBut, Fields
  <1>3. Typed(p, e, k + 1)
    BY <1>1, <1>2 DEF Typed
  <1>4. Scanned(p, e, k + 1)
    <2>1. p[k] # enddef /\ \A f \in Function : p[k] # def(f)
      BY <1>1, LineIs
    <2>2. QED
      BY <1>2, <2>1, ScannedStep
  <1>5. \A f : Defined(p, k + 1, f) <=> Defined(p, k, f)
    BY <1>1, DefinedStep
  <1>6. Followed(p, e, k + 1)
    <2>1. Open(p, k + 1) = Open(p, k)
      BY <1>1, OpenStep
    <2>2. QED
      BY <1>2, <2>1 DEF Followed
  <1>7. Depends(p, e, k + 1)
    <2>1. CASE d.pass = 1
      BY <1>2, <2>1 DEF Depends
    <2>2. CASE d.pass # 1
      <3>1. \A o : Used(p, o, k + 1) = Used(p, o, k)
        BY <1>1, <2>2, UsedStep
      <3>2. Who(e) = Who(d)
        BY <1>2 DEF Who
      <3>3. QED
        BY <1>2, <2>2, <3>1, <3>2 DEF Depends
    <2>3. QED
      BY <2>1, <2>2
  <1>8. Building(p, e)
    BY <1>2 DEF Building, Who
  <1>9. Placed(p, e, k + 1)
    BY <1>1, <1>2, <1>5 DEF Placed, Compiling
  <1>10. Sections(e)
    <2>1. SameSections(d, e)
      BY <1>1, <1>2 DEF SameSections
    <2>2. QED
      BY <1>1, <2>1, SectionsKept
  <1>11. QED
    BY <1>3, <1>4, <1>6, <1>7, <1>8, <1>9, <1>10 DEF Invariant, Reading

LEMMA OneMoreVariable ==
  ASSUME NEW G \in SUBSET Global, NEW v \in Variable \ G
  PROVE  Cardinality((G \cup {v}) \cap Variable) = Cardinality(G \cap Variable) + 1
  <1>1. IsFiniteSet(G \cap Variable)
    BY NamesAssumption, FS_Subset
  <1>2. (G \cup {v}) \cap Variable = (G \cap Variable) \cup {v} /\ v \notin G \cap Variable
    OBVIOUS
  <1>3. QED
    BY <1>1, <1>2, FS_AddElement

LEMMA DimFirst ==
  ASSUME NEW p, NEW d, NEW k, Invariant(p, d, k), Compiling(d), k <= Len(p), p[k].kind = "dim",
         d.pass = 1, d.functionType = NONE, NEW v \in Variable,
         NEW x \in Context, AllBut(d, x, {"intact"}), NEW e, e = AddGlobalSymbol(x, v)
  PROVE  Invariant(p, e, k + 1)
  <1>1. /\ k \in 1 .. Len(p) /\ k + 1 \in 1 .. Len(p) + 1 /\ p \in Seq(Line) /\ p \in Programs /\ p[k] \in Line
        /\ Sections(d) /\ Placed(p, d, k) /\ d.status # "done" /\ d \in Context
        /\ Followed(p, d, k) /\ Depends(p, d, k)
    BY LineFacts
  <1>2. v \in Global /\ v \notin Function
    BY Names
  <1>d. Declared(x, v, e)
    BY <1>2, AddGlobalSymbolFacts
  <1>3. e \in Context /\ x.globals = d.globals /\ x.offset = d.offset /\ x.data = d.data
    <2>1. e \in Context
      BY <1>d DEF Declared
    <2>2. QED
      BY <2>1 DEF AllBut, Fields
  <1>4. CASE v \in d.globals
    <2>0. v \in x.globals
      BY <1>3, <1>4
    <2>1. AllBut(x, e, {"status"}) /\ e.status = "error"
      BY <1>d, <2>0 DEF Declared
    <2>2. AllBut(d, e, {"status", "mainState", "functionType", "function", "tree", "intact", "dependencies"})
      BY <2>1 DEF AllBut
    <2>3. QED
      BY <1>1, <1>3, <2>1, <2>2, Stops
  <1>5. CASE v \notin d.globals
    <2>n. v \notin x.globals
      BY <1>3, <1>5
    <2>0. AllBut(x, e, {"globals", "offset", "data"}) /\ e.globals = x.globals \cup {v}
      BY <1>d, <2>n DEF Declared
    <2>a. e.offset = [x.offset EXCEPT ![v] = x.data] /\ e.data = x.data + 1
      BY <1>d, <1>2, <2>n DEF Declared
    <2>1. AllBut(d, e, {"intact", "globals", "offset", "data"}) /\ e.globals = d.globals \cup {v}
      BY <1>3, <2>0 DEF AllBut
    <2>2. e.offset = [d.offset EXCEPT ![v] = d.data] /\ e.data = d.data + 1
      BY <1>3, <2>a
    <2>3. /\ e.text = d.text /\ e.codeBuf = d.codeBuf /\ e.fixups = d.fixups /\ e.strings = d.strings
          /\ e.words = d.words /\ e.status = d.status /\ e.functionType = NONE
          /\ e.mainDependencies = d.mainDependencies /\ e.functionDependencies = d.functionDependencies
          /\ e.pass = 1 /\ e.mainState = d.mainState /\ e.function = d.function
      BY <2>1 DEF AllBut, Fields
    <2>4. Typed(p, e, k + 1)
      BY <1>1, <1>3, <2>3 DEF Typed
    <2>5. Scanned(p, e, k + 1)
      <3>1. p[k] # enddef /\ \A f \in Function : p[k] # def(f)
        BY <1>1, LineIs
      <3>2. QED
        BY <1>3, <2>1, <2>3, <3>1, ScannedStep
    <2>6. Reading(p, e, k + 1)
      <3>1. Open(p, k + 1) = Open(p, k)
        BY <1>1, OpenStep
      <3>2. Followed(p, e, k + 1)
        BY <1>1, <2>3, <3>1 DEF Followed
      <3>3. Depends(p, e, k + 1)
        BY <1>1, <2>3 DEF Depends
      <3>4. Building(p, e)
        BY <1>1, <2>3 DEF Building, Followed
      <3>5. QED
        BY <3>2, <3>3, <3>4 DEF Reading
    <2>7. d.offset \in [Global -> Offset] /\ d.data \in Nat /\ d.globals \in SUBSET Global /\ d.data # UNDEF
      BY <1>1 DEF Context, UNDEF
    <2>8. \A n \in Global : n # v => e.offset[n] = d.offset[n]
      BY <2>2, <2>7
    <2>9. Placed(p, e, k + 1)
      <3>1. e.offset[v] # UNDEF
        BY <1>2, <2>2, <2>7
      <3>2. \A w \in Variable : w \in e.globals <=> e.offset[w] # UNDEF
        BY <1>1, <2>1, <2>8, <3>1, Names DEF Placed
      <3>3. e.data = Cardinality(e.globals \cap Variable)
        BY <1>1, <1>5, <2>1, <2>2, <2>7, OneMoreVariable DEF Placed
      <3>4. \A f \in Function : e.offset[f] = d.offset[f]
        BY <1>2, <2>8, Names
      <3>5. Compiling(e) /\ e.status # "done" /\ e.pass < 3 /\ e.pass # 3
        BY <1>1, <2>3 DEF Compiling
      <3>6. QED
        BY <1>1, <2>3, <3>2, <3>3, <3>4, <3>5 DEF Placed
    <2>10. Sections(e)
      <3>1. d.offset[v] = UNDEF
        BY <1>1, <1>5 DEF Placed
      <3>2. \A f \in Function : e.offset[f] = d.offset[f]
        BY <1>2, <2>8, Names
      <3>3. SameSections(d, e)
        BY <1>1, <2>1, <2>3, <2>8, <3>1, <3>2 DEF SameSections
      <3>4. QED
        BY <1>1, <1>3, <3>3, SectionsKept
    <2>11. QED
      BY <2>4, <2>5, <2>6, <2>9, <2>10 DEF Invariant
  <1>6. QED
    BY <1>4, <1>5

LEMMA DimKeeps ==
  ASSUME NEW p, NEW d, NEW k, Invariant(p, d, k), Compiling(d), k <= Len(p), p[k].kind = "dim",
         NEW x, x = (IF p[k].init THEN [d EXCEPT !.intact = (d.function = NONE)] ELSE d),
         NEW e, e = (IF d.functionType # NONE
                       THEN IF d.pass > 1 /\ d.function = NONE THEN undefined(d) ELSE d
                     ELSE IF d.pass = 1 THEN AddGlobalSymbol(x, p[k].name) ELSE x)
  PROVE  Invariant(p, e, k + 1)
  <1>1. /\ k + 1 \in 1 .. Len(p) + 1 /\ d \in Context /\ p[k] \in Line /\ d.pass \in 1 .. 3
        /\ (d.functionType = NONE \/ d.function # NONE \/ d.pass # 2 =>
              Followed(p, d, k) /\ Depends(p, d, k) /\ Building(p, d))
    BY LineFacts
  <1>2. AllBut(d, d, {"intact"})
    BY DEF AllBut
  <1>x. x \in Context /\ AllBut(d, x, {"intact"})
    <2>1. CASE p[k].init
      <3>1. PICK b \in BOOLEAN : b = (d.function = NONE)
        OBVIOUS
      <3>2. x = [d EXCEPT !.intact = b]
        BY <2>1, <3>1
      <3>3. QED
        BY <1>1, <3>2 DEF Context, AllBut, Fields
    <2>2. CASE ~ p[k].init
      BY <1>1, <1>2, <2>2
    <2>3. QED
      BY <2>1, <2>2
  <1>3. CASE d.functionType # NONE /\ d.pass > 1 /\ d.function = NONE
    <2>1. e = undefined(d)
      BY <1>3
    <2>2. e \in Context /\ AllBut(d, e, {"status"}) /\ e.status = "undefined"
      BY <1>1, <2>1, ErrorFacts
    <2>3. AllBut(d, e, {"status", "mainState", "functionType", "function", "tree", "intact", "dependencies"})
      BY <2>2 DEF AllBut
    <2>4. QED
      BY <1>1, <2>2, <2>3, Stops
  <1>4. CASE d.functionType # NONE /\ ~ (d.pass > 1 /\ d.function = NONE)
    <2>1. e = d /\ e \in Context
      BY <1>1, <1>4
    <2>2. Followed(p, d, k) /\ Depends(p, d, k) /\ Building(p, d)
      BY <1>1, <1>4
    <2>3. AllBut(d, e, {"intact"})
      BY <1>2, <2>1
    <2>4. QED
      BY <2>1, <2>2, <2>3, Quiet
  <1>5. CASE d.functionType = NONE /\ d.pass = 1
    <2>1. PICK v \in Variable : v = p[k].name
      BY <1>1, LineIs
    <2>2. e = AddGlobalSymbol(x, v)
      BY <1>5, <2>1
    <2>3. QED
      BY <1>5, <1>x, <2>2, DimFirst
  <1>6. CASE d.functionType = NONE /\ d.pass # 1
    <2>1. e = x
      BY <1>6
    <2>2. Followed(p, d, k) /\ Depends(p, d, k) /\ Building(p, d)
      BY <1>1, <1>6
    <2>3. QED
      BY <1>x, <2>1, <2>2, Quiet
  <1>7. QED
    BY <1>3, <1>4, <1>5, <1>6

LEMMA MainStarts ==
  ASSUME NEW p, NEW d, NEW k, Invariant(p, d, k), Compiling(d), d.pass # 1, NEW y, y = start_main(d)
  PROVE  Invariant(p, y, k) /\ (Compiling(y) => y.pass # 1)
  <1>1. /\ p \in Seq(Line) /\ p \in Programs /\ k \in 1 .. Len(p) + 1
        /\ Sections(d) /\ Placed(p, d, k) /\ Scanned(p, d, k) /\ d.status # "done" /\ d \in Context
        /\ d.pass \in 1 .. 3
    BY LineFacts
  <1>2. CASE d.functionType # NONE \/ d.mainState = "in_progress"
    <2>1. y = d
      BY <1>2 DEF start_main
    <2>2. QED
      BY <2>1
  <1>3. CASE d.functionType = NONE /\ d.mainState = "defined"
    <2>1. y = error(d)
      BY <1>3 DEF start_main
    <2>2. y \in Context /\ AllBut(d, y, {"status"}) /\ y.status = "error"
      BY <1>1, <2>1, ErrorFacts
    <2>3. AllBut(d, y, {"status", "mainState", "functionType", "function", "tree", "intact", "dependencies"})
      BY <2>2 DEF AllBut
    <2>4. Invariant(p, y, k)
      BY <1>1, <2>2, <2>3, Stops
    <2>5. QED
      BY <2>2, <2>4 DEF Compiling
  <1>4. CASE d.functionType = NONE /\ d.mainState \notin {"in_progress", "defined"}
    <2>1. PICK s : s = StartFunction(d, MAIN)
      OBVIOUS
    <2>2. y = [s EXCEPT !.mainState = "in_progress"]
      BY <1>4, <2>1 DEF start_main
    <2>3. MAIN \in Function \cup {MAIN}
      OBVIOUS
    <2>4. Started(d, MAIN, s)
      BY <1>1, <2>1, <2>3, StartFacts
    <2>5. /\ s \in Context /\ AllBut(d, s, {"functionType", "function", "tree", "intact", "dependencies"})
          /\ s.functionType = NONE /\ s.function = MAIN /\ s.tree = <<>> /\ s.dependencies = {}
      BY <2>4 DEF Started
    <2>6. y \in Context /\ AllBut(s, y, {"mainState"}) /\ y.mainState = "in_progress"
      <3>1. "in_progress" \in MainStates
        BY DEF MainStates
      <3>2. QED
        BY <2>2, <2>5, <3>1 DEF Context, AllBut, Fields
    <2>7. /\ y.text = d.text /\ y.codeBuf = d.codeBuf /\ y.fixups = d.fixups /\ y.strings = d.strings
          /\ y.words = d.words /\ y.offset = d.offset /\ y.status = d.status /\ y.data = d.data
          /\ y.mainDependencies = d.mainDependencies /\ y.functionDependencies = d.functionDependencies
          /\ y.pass = d.pass /\ y.globals = d.globals
      BY <2>5, <2>6 DEF AllBut, Fields
    <2>8. y.functionType = NONE /\ y.function = MAIN /\ y.tree = <<>> /\ y.dependencies = {}
      BY <2>5, <2>6 DEF AllBut, Fields
    <2>9. Followed(p, d, k) /\ Depends(p, d, k)
      BY <1>4, LineFacts
    <2>10. d.mainState = "not_defined"
      BY <1>1, <1>4 DEF Context, MainStates
    <2>11. Typed(p, y, k)
      BY <1>1, <2>6, <2>7 DEF Typed
    <2>12. Scanned(p, y, k)
      BY <1>1, <2>7 DEF Scanned, Found, Compiling
    <2>13. Followed(p, y, k)
      BY <1>1, <1>4, <2>6, <2>7, <2>8, <2>9, Names DEF Followed
    <2>14. Depends(p, y, k)
      <3>1. CASE d.pass = 2
        <4>1. Used(p, MAIN, k) = {}
          BY <2>9, <2>10, <3>1 DEF Depends
        <4>2. y.dependencies = Used(p, Who(y), k)
          BY <2>8, <4>1 DEF Who
        <4>3. \A f \in Function \ {y.functionType} : y.functionDependencies[f] = Used(p, f, k)
          BY <1>4, <2>7, <2>8, <2>9, <3>1 DEF Depends
        <4>4. QED
          BY <2>6, <2>7, <3>1, <4>2, <4>3 DEF Depends
      <3>2. CASE d.pass # 2
        BY <2>7, <3>2 DEF Depends
      <3>3. QED
        BY <3>1, <3>2
    <2>15. Building(p, y)
      <3>1. Len(y.tree) = 0
        BY <2>8
      <3>2. QED
        BY <3>1 DEF Building
    <2>16. Placed(p, y, k)
      BY <1>1, <1>4, <2>7, <2>8 DEF Placed, Compiling
    <2>17. Sections(y)
      <3>1. SameSections(d, y)
        BY <1>1, <2>7 DEF SameSections
      <3>2. QED
        BY <1>1, <2>6, <3>1, SectionsKept
    <2>18. QED
      BY <2>7, <2>11, <2>12, <2>13, <2>14, <2>15, <2>16, <2>17 DEF Invariant, Reading
  <1>5. QED
    BY <1>2, <1>3, <1>4

(* A statement joins the tree of its function. *)
LEMMA UseBuilds ==
  ASSUME NEW p, NEW d, NEW k, Invariant(p, d, k), Compiling(d), k <= Len(p), d.pass # 1, d.function # NONE,
         NEW n \in Name, p[k] = use(n),
         NEW e, e = [GetSymbolRef(d, n) EXCEPT !.tree = Append(@, n)]
  PROVE  Invariant(p, e, k + 1)
  <1>1. /\ k \in 1 .. Len(p) /\ k + 1 \in 1 .. Len(p) + 1 /\ p \in Seq(Line) /\ p \in Programs /\ p[k] \in Line
        /\ Sections(d) /\ Placed(p, d, k) /\ d.status # "done" /\ d \in Context /\ d.pass \in 1 .. 3
        /\ Followed(p, d, k) /\ Depends(p, d, k) /\ Building(p, d)
    BY LineFacts
  <1>2. PICK s : s = GetSymbolRef(d, n)
    OBVIOUS
  <1>r. Referred(d, n, s)
    BY <1>1, <1>2, GetSymbolRefFacts
  <1>3. s \in Context /\ AllBut(d, s, {"dependencies", "globals", "offset", "data"})
    BY <1>r DEF Referred
  <1>4. /\ n \in String => s = d
        /\ n \notin String =>
              /\ s.globals = d.globals \cup {n}
              /\ s.dependencies = IF d.pass = 2 THEN d.dependencies \cup {n} ELSE d.dependencies
    BY <1>r DEF Referred
  <1>5. /\ n \in Variable \ d.globals => s.offset = [d.offset EXCEPT ![n] = d.data] /\ s.data = d.data + 1
        /\ n \notin Variable \ d.globals => s.offset = d.offset /\ s.data = d.data
    BY <1>r DEF Referred
  <1>6. PICK t : t = Append(d.tree, n)
    OBVIOUS
  <1>7. /\ t \in Seq(Name) /\ Len(d.tree) \in Nat /\ Len(t) = Len(d.tree) + 1 /\ t[Len(d.tree) + 1] = n
        /\ \A j \in 1 .. Len(d.tree) : t[j] = d.tree[j]
    BY <1>1, <1>6, Types
  <1>8. e \in Context /\ AllBut(s, e, {"tree"}) /\ e.tree = t
    <2>1. s.tree = d.tree
      BY <1>3 DEF AllBut, Fields
    <2>2. e = [s EXCEPT !.tree = t]
      BY <1>2, <1>6, <2>1
    <2>3. QED
      BY <1>3, <1>7, <2>2 DEF Context, AllBut, Fields
  <1>9. /\ e.text = d.text /\ e.codeBuf = d.codeBuf /\ e.fixups = d.fixups /\ e.strings = d.strings
        /\ e.words = d.words /\ e.status = d.status
        /\ e.mainDependencies = d.mainDependencies /\ e.functionDependencies = d.functionDependencies
        /\ e.pass = d.pass /\ e.mainState = d.mainState /\ e.function = d.function
        /\ e.functionType = d.functionType
        /\ e.offset = s.offset /\ e.globals = s.globals /\ e.data = s.data /\ e.dependencies = s.dependencies
    BY <1>3, <1>8 DEF AllBut, Fields
  <1>10. /\ p[k].kind = "use" /\ p[k] # enddef /\ \A f \in Function : p[k] # def(f)
    BY <1>1, LineIs
  <1>11. d.globals \subseteq e.globals /\ (n \notin String => n \in e.globals)
    BY <1>4, <1>9
  <1>12. owner(p, k) = Who(d) /\ Open(p, k + 1) = Open(p, k)
    BY <1>1, <1>10, OpenStep DEF Who, Followed
  <1>13. Typed(p, e, k + 1)
    BY <1>1, <1>8, <1>9 DEF Typed
  <1>14. Scanned(p, e, k + 1)
    BY <1>8, <1>9, <1>10, <1>11, ScannedStep
  <1>15. Followed(p, e, k + 1)
    BY <1>1, <1>9, <1>12 DEF Followed
  <1>16. Depends(p, e, k + 1)
    <2>1. CASE d.pass = 2
      <3>1. d.dependencies = Used(p, Who(d), k)
        BY <1>1, <2>1 DEF Depends
      <3>2. e.dependencies = Used(p, Who(e), k + 1)
        <4>1. Who(e) = Who(d)
          BY <1>9 DEF Who
        <4>2. CASE n \in String
          <5>1. Used(p, Who(d), k + 1) = Used(p, Who(d), k)
            BY <1>1, <4>2, UsedStep
          <5>2. QED
            BY <1>4, <1>9, <3>1, <4>1, <4>2, <5>1
        <4>3. CASE n \notin String
          <5>1. n \in Global
            BY <4>3, Names
          <5>2. Used(p, Who(d), k + 1) = Used(p, Who(d), k) \cup {n}
            BY <1>1, <1>12, <5>1, UsedStep
          <5>3. QED
            BY <1>4, <1>9, <2>1, <3>1, <4>1, <4>3, <5>2
        <4>4. QED
          BY <4>2, <4>3
      <3>3. \A o : o # Who(d) => Used(p, o, k + 1) = Used(p, o, k)
        BY <1>1, <1>12, UsedStep
      <3>4. \A f \in Function \ {d.functionType} : f # Who(d)
        BY Names DEF Who
      <3>5. \A f \in Function \ {e.functionType} : e.functionDependencies[f] = Used(p, f, k + 1)
        BY <1>1, <1>9, <2>1, <3>3, <3>4 DEF Depends
      <3>6. d.mainState # "in_progress" => MAIN # Who(d)
        <4>1. d.mainState # "in_progress" => d.functionType # NONE
          BY <1>1, <2>1 DEF Followed
        <4>2. d.functionType # NONE => d.functionType \in Function
          BY <1>1 DEF Context
        <4>3. QED
          BY <4>1, <4>2, Names DEF Who
      <3>7. d.mainState # "in_progress" => Used(p, MAIN, k + 1) = Used(p, MAIN, k)
        BY <3>3, <3>6
      <3>8. /\ d.mainState = "not_defined" => Used(p, MAIN, k) = {}
            /\ d.mainState = "defined" => d.mainDependencies = Used(p, MAIN, k)
        BY <1>1, <2>1 DEF Depends
      <3>9. /\ e.mainState = "not_defined" => Used(p, MAIN, k + 1) = {}
            /\ e.mainState = "defined" => e.mainDependencies = Used(p, MAIN, k + 1)
        BY <1>9, <3>7, <3>8
      <3>10. QED
        BY <1>9, <2>1, <3>2, <3>5, <3>9 DEF Depends
    <2>2. CASE d.pass # 2
      BY <1>9, <2>2 DEF Depends
    <2>3. QED
      BY <2>1, <2>2
  <1>17. Building(p, e)
    <2>1. n \in String \cup e.globals /\ (n \in Function => n \in used_by(p, Who(d)))
      <3>1. k \in DOMAIN p
        BY <1>1
      <3>2. QED
        BY <1>11, <1>12, <3>1 DEF used_by
    <2>2. ASSUME NEW j \in 1 .. Len(t)
          PROVE  t[j] \in String \cup e.globals /\ (t[j] \in Function => t[j] \in used_by(p, Who(d)))
      <3>1. CASE j = Len(d.tree) + 1
        BY <1>7, <2>1, <3>1
      <3>2. CASE j # Len(d.tree) + 1
        <4>1. j \in 1 .. Len(d.tree) /\ t[j] = d.tree[j]
          BY <1>7, <3>2
        <4>2. QED
          BY <1>1, <1>11, <4>1 DEF Building
      <3>3. QED
        BY <3>1, <3>2
    <2>3. Who(e) = Who(d)
      BY <1>9 DEF Who
    <2>4. QED
      BY <1>8, <2>2, <2>3 DEF Building
  <1>18. d.offset \in [Global -> Offset] /\ d.data \in Nat /\ d.globals \in SUBSET Global /\ d.data # UNDEF
    BY <1>1 DEF Context, UNDEF
  <1>19. /\ \A m \in Global : m # n \/ n \notin Variable \/ n \in d.globals => e.offset[m] = d.offset[m]
         /\ n \in Variable \ d.globals => e.offset[n] = d.data
    <2>1. CASE n \in Variable \ d.globals
      <3>1. e.offset = [d.offset EXCEPT ![n] = d.data] /\ n \in Global
        BY <1>5, <1>9, <2>1, Names
      <3>2. QED
        BY <1>18, <2>1, <3>1
    <2>2. CASE n \notin Variable \ d.globals
      BY <1>5, <1>9, <2>2
    <2>3. QED
      BY <2>1, <2>2
  <1>20. \A f \in Function : e.offset[f] = d.offset[f]
    BY <1>19, Names
  <1>21. Placed(p, e, k + 1)
    <2>1. ASSUME NEW v \in Variable PROVE v \in e.globals <=> e.offset[v] # UNDEF
      <3>1. v \in Global /\ v \notin String /\ (v \in d.globals <=> d.offset[v] # UNDEF)
        BY <1>1, Names DEF Placed
      <3>2. CASE v = n
        BY <1>11, <1>18, <1>19, <3>1, <3>2
      <3>3. CASE v # n
        BY <1>4, <1>9, <1>19, <3>1, <3>3
      <3>4. QED
        BY <3>2, <3>3
    <2>2. e.data = Cardinality(e.globals \cap Variable)
      <3>1. d.data = Cardinality(d.globals \cap Variable)
        BY <1>1 DEF Placed
      <3>2. CASE n \in Variable \ d.globals
        <4>1. e.globals = d.globals \cup {n} /\ e.data = d.data + 1
          BY <1>4, <1>5, <1>9, <3>2, Names
        <4>2. QED
          BY <1>18, <3>1, <3>2, <4>1, OneMoreVariable
      <3>3. CASE n \notin Variable \ d.globals
        <4>1. e.data = d.data /\ e.globals \cap Variable = d.globals \cap Variable
          BY <1>4, <1>5, <1>9, <3>3
        <4>2. QED
          BY <3>1, <4>1
      <3>4. QED
        BY <3>2, <3>3
    <2>3. \A f : Defined(p, k + 1, f) <=> Defined(p, k, f)
      BY <1>1, <1>10, DefinedStep
    <2>4. QED
      BY <1>1, <1>9, <1>20, <2>1, <2>2, <2>3 DEF Placed, Compiling
  <1>22. Sections(e)
    <2>1. ASSUME NEW m \in Global, d.offset[m] # UNDEF PROVE e.offset[m] = d.offset[m]
      <3>1. m = n => ~ (n \in Variable \ d.globals)
        BY <1>1, <2>1 DEF Placed
      <3>2. QED
        BY <1>19, <3>1
    <2>2. SameSections(d, e)
      BY <1>1, <1>9, <1>11, <1>20, <2>1 DEF SameSections
    <2>3. QED
      BY <1>1, <1>8, <2>2, SectionsKept
  <1>23. QED
    BY <1>13, <1>14, <1>15, <1>16, <1>17, <1>21, <1>22 DEF Invariant, Reading

LEMMA UseKeeps ==
  ASSUME NEW p, NEW d, NEW k, Invariant(p, d, k), Compiling(d), k <= Len(p),
         NEW n \in Name, p[k] = use(n), NEW y, y = start_main(d),
         NEW e, e = (IF d.pass = 1 THEN d
                     ELSE IF y.status # "compiling" THEN y
                     ELSE IF y.function = NONE \/ ~ y.intact THEN undefined(y)
                     ELSE [GetSymbolRef(y, n) EXCEPT !.tree = Append(@, n)])
  PROVE  Invariant(p, e, k + 1)
  <1>1. k + 1 \in 1 .. Len(p) + 1 /\ d \in Context /\ p[k] \in Line
    BY LineFacts
  <1>2. CASE d.pass = 1
    <2>1. e = d /\ Followed(p, d, k) /\ Depends(p, d, k) /\ Building(p, d)
      BY <1>2, LineFacts
    <2>2. p[k].kind = "use" /\ AllBut(d, e, {"intact"}) /\ e \in Context
      BY <1>1, <2>1, LineIs DEF AllBut
    <2>3. QED
      BY <1>2, <2>1, <2>2, Quiet
  <1>3. CASE d.pass # 1
    <2>1. Invariant(p, y, k) /\ (Compiling(y) => y.pass # 1)
      BY <1>3, MainStarts
    <2>2. y \in Context
      BY <2>1, LineFacts
    <2>3. CASE ~ Compiling(y)
      <3>1. e = y
        BY <1>3, <2>3 DEF Compiling
      <3>2. QED
        BY <1>1, <2>1, <2>3, <3>1, Stays
    <2>4. CASE Compiling(y) /\ (y.function = NONE \/ ~ y.intact)
      <3>1. e = undefined(y)
        BY <1>3, <2>4 DEF Compiling
      <3>2. e \in Context /\ AllBut(y, e, {"status"}) /\ e.status = "undefined"
        BY <2>2, <3>1, ErrorFacts
      <3>3. AllBut(y, e, {"status", "mainState", "functionType", "function", "tree", "intact", "dependencies"})
        BY <3>2 DEF AllBut
      <3>4. QED
        BY <1>1, <2>1, <2>4, <3>2, <3>3, Stops
    <2>5. CASE Compiling(y) /\ y.function # NONE /\ y.intact
      <3>1. e = [GetSymbolRef(y, n) EXCEPT !.tree = Append(@, n)]
        BY <1>3, <2>5 DEF Compiling
      <3>2. QED
        BY <2>1, <2>5, <3>1, UseBuilds
    <2>6. QED
      BY <2>3, <2>4, <2>5
  <1>4. QED
    BY <1>2, <1>3

(* The end of a pass, whose main function has ended. *)
LEMMA FirstPassEnds ==
  ASSUME NEW p, NEW y, NEW k, Invariant(p, y, k), k = Len(p) + 1, Compiling(y), y.pass = 1,
         NEW e \in Context, AllBut(y, e, {"pass", "mainState"}), e.pass = 2, e.mainState = "not_defined"
  PROVE  Invariant(p, e, 1)
  <1>1. /\ p \in Seq(Line) /\ p \in Programs /\ Len(p) \in Nat /\ 1 \in 1 .. Len(p) + 1
        /\ y \in Context /\ Sections(y) /\ Placed(p, y, k) /\ Scanned(p, y, k) /\ y.status # "done"
        /\ Followed(p, y, k) /\ Depends(p, y, k)
    BY LineFacts
  <1>2. /\ e.text = y.text /\ e.codeBuf = y.codeBuf /\ e.fixups = y.fixups /\ e.strings = y.strings
        /\ e.words = y.words /\ e.offset = y.offset /\ e.status = y.status /\ e.data = y.data
        /\ e.mainDependencies = y.mainDependencies /\ e.functionDependencies = y.functionDependencies
        /\ e.function = y.function /\ e.globals = y.globals /\ e.functionType = y.functionType
    BY DEF AllBut, Fields
  <1>3. Typed(p, e, 1)
    BY <1>1 DEF Typed
  <1>4. Scanned(p, e, 1)
    BY <1>1, <1>2 DEF Scanned, Found, Compiling
  <1>5. Open(p, 1) = NONE /\ e.functionType = Open(p, Len(p) + 1) /\ e.function = NONE
    BY <1>1, <1>2, OwnerFirst DEF Followed, Open
  <1>6. Reading(p, e, 1)
    <2>1. CASE e.functionType = NONE
      <3>1. Followed(p, e, 1)
        BY <1>5, <2>1 DEF Followed
      <3>2. \A o : Used(p, o, 1) = {}
        BY DEF Used
      <3>3. \A f \in Function : e.functionDependencies[f] = {}
        BY <1>1, <1>2 DEF Depends
      <3>4. Depends(p, e, 1)
        BY <1>5, <3>2, <3>3 DEF Depends
      <3>5. QED
        BY <1>5, <3>1, <3>4 DEF Reading, Building
    <2>2. CASE e.functionType # NONE
      <3>1. Len(p) # 0
        BY <1>5, <2>2
      <3>2. QED
        BY <1>1, <1>5, <2>2, <3>1 DEF Reading, Stuck
    <2>3. QED
      BY <2>1, <2>2
  <1>7. Placed(p, e, 1)
    <2>1. e.status # "done" /\ e.pass < 3 /\ e.pass # 3
      BY <1>1, <1>2
    <2>2. QED
      BY <1>1, <1>2, <2>1 DEF Placed, Compiling
  <1>8. Sections(e)
    <2>1. SameSections(y, e)
      BY <1>1, <1>2 DEF SameSections
    <2>2. QED
      BY <1>1, <2>1, SectionsKept
  <1>9. QED
    BY <1>3, <1>4, <1>6, <1>7, <1>8 DEF Invariant

LEMMA SecondPassEnds ==
  ASSUME NEW p, NEW y, NEW k, Invariant(p, y, k), k = Len(p) + 1, Compiling(y), y.pass = 2,
         y.mainState = "defined",
         NEW e \in Context, AllBut(y, e, {"pass", "mainState", "mainDependencies"}),
         e.pass = 3, e.mainState = "not_defined", Gathered(y, e.mainDependencies)
  PROVE  Invariant(p, e, 1)
  <1>1. /\ p \in Seq(Line) /\ p \in Programs /\ Len(p) \in Nat /\ 1 \in 1 .. Len(p) + 1
        /\ y \in Context /\ Sections(y) /\ Placed(p, y, k) /\ Scanned(p, y, k) /\ y.status # "done"
        /\ Followed(p, y, k) /\ Depends(p, y, k)
    BY LineFacts
  <1>2. /\ e.text = y.text /\ e.codeBuf = y.codeBuf /\ e.fixups = y.fixups /\ e.strings = y.strings
        /\ e.words = y.words /\ e.offset = y.offset /\ e.status = y.status /\ e.data = y.data
        /\ e.function = y.function /\ e.globals = y.globals /\ e.functionType = y.functionType
    BY DEF AllBut, Fields
  <1>3. Typed(p, e, 1)
    BY <1>1 DEF Typed
  <1>4. Scanned(p, e, 1)
    BY <1>1, <1>2 DEF Scanned, Found, Compiling
  <1>5. y.functionType = NONE /\ y.function = NONE /\ Open(p, Len(p) + 1) = NONE
    BY <1>1 DEF Followed
  <1>6. Reading(p, e, 1)
    <2>1. Open(p, 1) = NONE
      BY OwnerFirst DEF Open
    <2>2. Followed(p, e, 1)
      BY <1>2, <1>5, <2>1 DEF Followed
    <2>3. QED
      BY <1>2, <1>5, <2>2 DEF Reading, Building, Depends
  <1>7. e.mainDependencies \cap Function = Reachable(p)
    <2>1. y.mainDependencies = Used(p, MAIN, k)
      BY <1>1 DEF Depends
    <2>2. \A f \in Function : f # y.functionType
      BY <1>5, Names
    <2>3. \A f \in Function : y.functionDependencies[f] = Used(p, f, k)
      BY <1>1, <2>2 DEF Depends
    <2>4. QED
      BY <1>1, <2>1, <2>3, GatheredReachable
  <1>8. y.words = {} /\ \A f \in Function : y.offset[f] = UNDEF
    BY <1>1 DEF Placed
  <1>9. Placed(p, e, 1)
    <2>1. \A f : ~ Defined(p, 1, f)
      BY DEF Defined
    <2>2. \A f \in Function : e.offset[f] = UNDEF
      BY <1>2, <1>8
    <2>3. e.status # "done"
      BY <1>1, <1>2
    <2>4. QED
      BY <1>1, <1>2, <1>7, <2>1, <2>2, <2>3 DEF Placed
  <1>10. Sections(e)
    <2>1. SameSections(y, e)
      BY <1>1, <1>2, <1>8 DEF SameSections
    <2>2. QED
      BY <1>1, <2>1, SectionsKept
  <1>11. QED
    BY <1>3, <1>4, <1>6, <1>9, <1>10 DEF Invariant

Ending(p, y, x) ==
  /\ Sections(x) /\ x.status # "done" /\ Meant(x)
  /\ x.offset = y.offset /\ x.globals = y.globals /\ x.data = y.data
  /\ \A f \in Function : y.offset[f] # UNDEF <=> f \in Reachable(p)

LEMMA AllIsMeant ==
  ASSUME NEW p, NEW y, NEW k, Invariant(p, y, k), k = Len(p) + 1, Compiling(y), y.pass = 3,
         y.mainState = "defined", NEW x \in Context, AllBut(y, x, {"mainState"})
  PROVE  Ending(p, y, x)
  <1>1. /\ p \in Seq(Line) /\ p \in Programs /\ Len(p) \in Nat /\ 1 \in 1 .. Len(p) + 1
        /\ y \in Context /\ Sections(y) /\ Placed(p, y, k) /\ y.status # "done"
        /\ Followed(p, y, k)
    BY LineFacts
  <1>2. /\ x.text = y.text /\ x.codeBuf = y.codeBuf /\ x.fixups = y.fixups /\ x.strings = y.strings
        /\ x.words = y.words /\ x.offset = y.offset /\ x.status = y.status /\ x.data = y.data
        /\ x.globals = y.globals /\ x.mainDependencies = y.mainDependencies
    BY DEF AllBut, Fields
  <1>3. Sections(x) /\ x.status # "done"
    <2>1. SameSections(y, x)
      BY <1>1, <1>2 DEF SameSections
    <2>2. QED
      BY <1>1, <1>2, <2>1, SectionsKept
  <1>4. y.functionType = NONE
    BY <1>1 DEF Followed
  <1>5. /\ \A f \in Function : y.offset[f] # UNDEF <=> f \in Reachable(p)
        /\ y.mainDependencies \cap Function = Reachable(p)
    <2>1. ASSUME NEW f \in Function PROVE y.offset[f] # UNDEF <=> f \in Reachable(p)
      <3>1. y.offset[f] # UNDEF <=> f \in y.mainDependencies /\ Defined(p, k, f) /\ y.functionType # f
        BY <1>1 DEF Placed
      <3>2. f # NONE
        BY Names
      <3>3. f \in Reachable(p) => Defined(p, k, f)
        BY <1>1, ReachableDefined
      <3>4. f \in y.mainDependencies <=> f \in Reachable(p)
        BY <1>1 DEF Placed
      <3>5. QED
        BY <1>4, <3>1, <3>2, <3>3, <3>4
    <2>2. QED
      BY <1>1, <2>1 DEF Placed
  <1>6. Meant(x)
    <2>1. ASSUME NEW r \in y.words, r[2] \in Global PROVE y.offset[r[2]] # UNDEF
      <3>1. /\ r[2] \in String \cup y.globals
            /\ r[2] \in Function => r[2] \in y.mainDependencies
        BY <1>1, <2>1 DEF Sections, Worded
      <3>2. CASE r[2] \in Function
        BY <1>5, <3>1, <3>2
      <3>3. CASE r[2] \notin Function
        <4>1. r[2] \in Variable /\ r[2] \in y.globals
          BY <2>1, <3>1, <3>3, Names
        <4>2. QED
          BY <1>1, <4>1 DEF Placed
      <3>4. QED
        BY <3>2, <3>3
    <2>2. QED
      BY <1>2, <2>1 DEF Meant
  <1>7. QED
    BY <1>2, <1>3, <1>5, <1>6 DEF Ending

LEMMA ThirdPassEnds ==
  ASSUME NEW p, NEW y, NEW k, Invariant(p, y, k), k = Len(p) + 1, Compiling(y), y.pass = 3,
         NEW x \in Context, Ending(p, y, x), NEW u, Updated(x, u),
         NEW e \in Context, AllBut(u, e, {"status", "pass", "mainState"}), e.status = "done"
  PROVE  Invariant(p, e, 1)
  <1>1. /\ p \in Programs /\ Len(p) \in Nat /\ 1 \in 1 .. Len(p) + 1 /\ Placed(p, y, k)
    BY LineFacts
  <1>2. /\ Sections(x) /\ x.status # "done" /\ Meant(x)
        /\ x.offset = y.offset /\ x.globals = y.globals /\ x.data = y.data
        /\ \A f \in Function : y.offset[f] # UNDEF <=> f \in Reachable(p)
    BY DEF Ending
  <1>3. Sections(e)
    BY <1>2, SectionsDone
  <1>4. e.offset = y.offset /\ e.globals = y.globals /\ e.data = y.data
    BY <1>2 DEF Updated, AllBut, Fields
  <1>5. Placed(p, e, 1)
    <2>1. {f \in Function : e.offset[f] # UNDEF} = Reachable(p)
      BY <1>2, <1>4, ReachableFacts
    <2>2. QED
      BY <1>1, <1>4, <2>1 DEF Placed, Compiling
  <1>6. QED
    BY <1>1, <1>3, <1>5 DEF Invariant, Typed, Scanned, Reading, Compiling

LEMMA NextPass ==
  ASSUME NEW z \in Context, z.pass \in 1 .. 3,
         NEW e, e = [z EXCEPT !.pass = @ + 1, !.mainState = "not_defined"]
  PROVE  /\ e \in Context /\ AllBut(z, e, {"pass", "mainState"})
         /\ e.pass = z.pass + 1 /\ e.mainState = "not_defined"
  <1>1. "not_defined" \in MainStates
    BY DEF MainStates
  <1>2. PICK q \in 1 .. 4 : q = z.pass + 1
    OBVIOUS
  <1>3. e = [z EXCEPT !.pass = q, !.mainState = "not_defined"]
    BY <1>2
  <1>4. e \in Context
    BY <1>1, <1>3 DEF Context
  <1>5. AllBut(z, e, {"pass", "mainState"}) /\ e.pass = q /\ e.mainState = "not_defined"
    BY <1>3 DEF Context, AllBut, Fields
  <1>6. QED
    BY <1>2, <1>4, <1>5

LEMMA PassEnds ==
  ASSUME NEW p, NEW y, NEW k, Invariant(p, y, k), k = Len(p) + 1, Compiling(y),
         y.pass # 1 => y.mainState = "defined", NEW x \in Context, AllBut(y, x, {"mainState"}),
         NEW z, z = finish_pass(x),
         NEW e, e = [z EXCEPT !.pass = @ + 1, !.mainState = "not_defined"]
  PROVE  Invariant(p, e, 1)
  <1>1. y \in Context /\ y.pass \in 1 .. 3 /\ x.pass = y.pass
    <2>1. x.pass = y.pass
      BY DEF AllBut, Fields
    <2>2. QED
      BY <2>1, LineFacts
  <1>2. CASE y.pass = 1
    <2>1. z = x
      BY <1>1, <1>2 DEF finish_pass
    <2>2. e \in Context /\ AllBut(z, e, {"pass", "mainState"}) /\ e.pass = z.pass + 1 /\ e.mainState = "not_defined"
      BY <1>1, <2>1, NextPass
    <2>3. AllBut(y, e, {"pass", "mainState"}) /\ e.pass = 2
      BY <1>1, <1>2, <2>1, <2>2 DEF AllBut
    <2>4. QED
      BY <1>2, <2>2, <2>3, FirstPassEnds
  <1>3. CASE y.pass = 2
    <2>1. z = GenerateDependencies(x)
      BY <1>1, <1>3 DEF finish_pass
    <2>2. z \in Context /\ AllBut(x, z, {"mainDependencies"}) /\ Gathered(x, z.mainDependencies)
      BY <2>1, DependenciesFacts
    <2>3. z.pass = 2 /\ z.pass \in 1 .. 3
      BY <1>1, <1>3, <2>2 DEF AllBut, Fields
    <2>4. e \in Context /\ AllBut(z, e, {"pass", "mainState"}) /\ e.pass = z.pass + 1 /\ e.mainState = "not_defined"
      BY <2>2, <2>3, NextPass
    <2>5. AllBut(y, e, {"pass", "mainState", "mainDependencies"}) /\ e.pass = 3
      BY <2>2, <2>3, <2>4 DEF AllBut
    <2>6. e.mainDependencies = z.mainDependencies
      BY <2>4 DEF AllBut, Fields
    <2>7. x.mainDependencies = y.mainDependencies /\ x.functionDependencies = y.functionDependencies
      BY DEF AllBut, Fields
    <2>8. Gathered(y, e.mainDependencies)
      BY <2>2, <2>6, <2>7 DEF Gathered, Suffices
    <2>9. y.mainState = "defined"
      BY <1>3
    <2>10. QED
      BY <1>3, <2>4, <2>5, <2>8, <2>9, SecondPassEnds
  <1>4. CASE y.pass = 3
    <2>1. PICK u : u = UpdateReferences(x)
      OBVIOUS
    <2>2. z = [u EXCEPT !.status = "done"]
      BY <1>1, <1>4, <2>1 DEF finish_pass
    <2>3. y.mainState = "defined"
      BY <1>4
    <2>4. Ending(p, y, x)
      BY <1>4, <2>3, AllIsMeant
    <2>5. Updated(x, u)
      BY <2>1, <2>4, UpdateFacts DEF Ending
    <2>6. u \in Context /\ u.pass = 3
      BY <1>1, <1>4, <2>5 DEF Updated, AllBut, Fields
    <2>7. z \in Context /\ AllBut(u, z, {"status"}) /\ z.status = "done" /\ z.pass = 3
      <3>1. "done" \in Statuses
        BY DEF Statuses
      <3>2. QED
        BY <2>2, <2>6, <3>1 DEF Context, AllBut, Fields
    <2>8. e \in Context /\ AllBut(z, e, {"pass", "mainState"}) /\ e.pass = z.pass + 1 /\ e.mainState = "not_defined"
      <3>1. z \in Context /\ z.pass \in 1 .. 3
        BY <2>7
      <3>2. QED
        BY <3>1, NextPass
    <2>9. AllBut(u, e, {"status", "pass", "mainState"}) /\ e.status = "done"
      BY <2>7, <2>8 DEF AllBut, Fields
    <2>10. QED
      BY <1>4, <2>4, <2>5, <2>8, <2>9, ThirdPassEnds
  <1>5. QED
    BY <1>1, <1>2, <1>3, <1>4

LEMMA EndKeeps ==
  ASSUME NEW p, NEW d, NEW k, Invariant(p, d, k), k = Len(p) + 1, Compiling(d), NEW x, x = finish_main(d),
         NEW e, e = (IF x.status # "compiling" THEN x
                     ELSE [finish_pass(x) EXCEPT !.pass = @ + 1, !.mainState = "not_defined"])
  PROVE  Invariant(p, e, 1)
  <1>1. /\ d \in Context /\ d.pass \in 1 .. 3 /\ Len(p) \in Nat /\ 1 \in 1 .. Len(p) + 1
    BY LineFacts
  <1>2. PICK z : z = finish_pass(x)
    OBVIOUS
  <1>3. Compiling(x) => e = [z EXCEPT !.pass = @ + 1, !.mainState = "not_defined"]
    BY <1>2 DEF Compiling
  <1>4. ~ Compiling(x) => e = x
    BY DEF Compiling
  <1>5. CASE d.pass = 1 \/ d.mainState = "defined"
    <2>1. x = d /\ AllBut(d, x, {"mainState"})
      BY <1>5 DEF finish_main, AllBut
    <2>2. d.pass # 1 => d.mainState = "defined"
      BY <1>5
    <2>3. QED
      BY <1>1, <1>2, <1>3, <2>1, <2>2, PassEnds
  <1>6. CASE d.pass # 1 /\ d.mainState = "in_progress"
    <2>1. x = EndFunction(d)
      BY <1>6 DEF finish_main
    <2>2. PICK y : y = [x EXCEPT !.mainState = "defined"]
      OBVIOUS
    <2>3. /\ Invariant(p, y, k) /\ y \in Context /\ AllBut(x, y, {"mainState"}) /\ x \in Context
          /\ Compiling(y) => y.mainState = "defined"
      BY <1>6, <2>1, <2>2, MainEnds
    <2>4. AllBut(y, x, {"mainState"}) /\ x.status = y.status
      BY <2>3 DEF AllBut, Fields
    <2>5. CASE Compiling(x)
      <3>1. Compiling(y) /\ (y.pass # 1 => y.mainState = "defined")
        BY <2>3, <2>4, <2>5 DEF Compiling
      <3>2. QED
        BY <1>2, <1>3, <2>3, <2>4, <2>5, <3>1, PassEnds
    <2>6. CASE ~ Compiling(x)
      <3>1. e = x
        BY <1>4, <2>6
      <3>2. ~ d.intact
        <4>1. d.function # NONE /\ d.pass \in {2, 3}
          <5>1. Followed(p, d, k)
            BY <1>6, LineFacts
          <5>2. QED
            BY <1>1, <1>6, <5>1, Names DEF Followed
        <4>2. d.intact => Finished(d, x)
          BY <2>1, <4>1, FunctionFinishes
        <4>3. Finished(d, x) => x.status = d.status
          BY DEF Finished, AllBut, Fields
        <4>4. QED
          BY <2>6, <4>2, <4>3 DEF Compiling
      <3>3. AllBut(d, x, {"status"}) /\ x.status = "undefined"
        BY <1>1, <2>1, <3>2, EndFunctionFacts
      <3>4. AllBut(d, x, {"status", "mainState", "functionType", "function", "tree", "intact", "dependencies"})
        BY <3>3 DEF AllBut
      <3>5. QED
        BY <1>1, <2>3, <3>1, <3>3, <3>4, Stops
    <2>7. QED
      BY <2>5, <2>6
  <1>7. CASE d.pass # 1 /\ d.mainState \notin {"in_progress", "defined"}
    <2>1. x = error(d)
      BY <1>7 DEF finish_main
    <2>2. x \in Context /\ AllBut(d, x, {"status"}) /\ x.status = "error"
      BY <1>1, <2>1, ErrorFacts
    <2>3. AllBut(d, x, {"status", "mainState", "functionType", "function", "tree", "intact", "dependencies"})
      BY <2>2 DEF AllBut
    <2>4. e = x
      BY <1>4, <2>2 DEF Compiling
    <2>5. QED
      BY <1>1, <2>2, <2>3, <2>4, Stops
  <1>8. QED
    BY <1>5, <1>6, <1>7

(* At the start. *)
LEMMA InvariantFirst ==
  ASSUME Init
  PROVE  CompilerInvariant
  <1>1. PICK p, d : p = program /\ d = c /\ line = 1 /\ p \in Programs
    BY DEF Init
  <1>2. /\ d.pass = 1 /\ d.status = "compiling" /\ d.mainState = "not_defined"
        /\ d.functionType = NONE /\ d.function = NONE
        /\ d.functionDependencies = [f \in Function |-> {}]
        /\ d.globals = {} /\ d.offset = [n \in Global |-> UNDEF] /\ d.fixups = [n \in Global |-> 0]
        /\ d.strings = [s \in String |-> UNDEF] /\ d.codeBuf = <<>>
        /\ d.text = <<DATA>> /\ d.data = 0 /\ d.words = {}
    BY <1>1 DEF Init
  <1>3. d \in Context
    <2>1. <<>> \in Seq(Name) /\ <<>> \in Code /\ <<DATA>> \in Code
      BY DEF Code, Cell
    <2>2. UNDEF \in Offset /\ 0 \in Nat
      BY DEF Offset
    <2>3. QED
      BY <1>1, <2>1, <2>2 DEF Init, Context, Statuses, MainStates
  <1>4. Len(p) \in Nat /\ p \in Seq(Line) /\ 1 \in 1 .. Len(p) + 1 /\ p \in Programs
    BY <1>1, ProgramLines
  <1>5. Typed(p, d, 1)
    BY <1>2, <1>3, <1>4 DEF Typed
  <1>6. Scanned(p, d, 1)
    BY <1>2 DEF Scanned, Found, Defined
  <1>7. Reading(p, d, 1)
    <2>1. Open(p, 1) = NONE
      BY OwnerFirst DEF Open
    <2>2. QED
      BY <1>2, <2>1 DEF Reading, Followed, Depends, Building
  <1>8. Placed(p, d, 1)
    <2>1. \A n \in Global : d.offset[n] = UNDEF
      BY <1>2
    <2>2. d.data = Cardinality(d.globals \cap Variable)
      BY <1>2, FS_EmptySet
    <2>3. QED
      BY <1>2, <2>1, <2>2, Names DEF Placed
  <1>9. Sections(d)
    <2>1. Len(d.text) = 1 /\ d.text[1] = DATA /\ DATA # FRAME
      BY <1>2 DEF DATA, FRAME
    <2>2. Framed(d)
      BY <1>2, <2>1, Names DEF Framed
    <2>3. Quoted(d) /\ Worded(d) /\ Resolved(d)
      BY <1>2 DEF Quoted, Worded, Resolved
    <2>4. Linked(d)
      <3>1. ASSUME NEW n \in Global
            PROVE  \E s : IsChain(d.text, d.fixups[n], s) /\ Waits(d, n, ToSet(s))
        <4>1. PICK s : s = <<>>
          OBVIOUS
        <4>2. Len(s) = 0 /\ ToSet(s) = {}
          BY <4>1 DEF ToSet
        <4>3. IsChain(d.text, d.fixups[n], s)
          BY <1>2, <4>1, <4>2 DEF IsChain, LinkOf
        <4>4. places(d, n) = {}
          BY <1>2 DEF places
        <4>5. QED
          BY <4>2, <4>3, <4>4 DEF Waits
      <3>2. QED
        BY <3>1 DEF Linked
    <2>5. \A n \in Global : d.fixups[n] \in 0 .. Len(d.text) - 1
      BY <1>2, <2>1
    <2>6. QED
      BY <1>2, <2>1, <2>2, <2>3, <2>4, <2>5 DEF Sections
  <1>10. QED
    BY <1>1, <1>5, <1>6, <1>7, <1>8, <1>9 DEF CompilerInvariant, Invariant

LEMMA InvariantNext ==
  ASSUME CompilerInvariant, [Next]_vars
  PROVE  CompilerInvariant'
  <1>1. PICK p, d, k : p = program /\ d = c /\ k = line
    OBVIOUS
  <1>2. PICK e : e = c'
    OBVIOUS
  <1>3. Invariant(p, d, k)
    BY <1>1 DEF CompilerInvariant
  <1>4. /\ p \in Seq(Line) /\ Len(p) \in Nat /\ (k <= Len(p) => p[k] \in Line)
    BY <1>3, LineFacts
  <1>5. ASSUME reading("def") \/ reading("enddef") \/ reading("dim") \/ reading("use")
        PROVE  Compiling(d) /\ k <= Len(p) /\ p[k] \in Line
    BY <1>1, <1>4, <1>5 DEF reading, Compiling
  <1>6. ASSUME program' = program, Invariant(p, e, line') PROVE CompilerInvariant'
    BY <1>1, <1>2, <1>6 DEF CompilerInvariant
  <1>7. CASE ParseFunctionDef
    <2>1. Compiling(d) /\ k <= Len(p) /\ p[k].kind = "def"
      BY <1>1, <1>5, <1>7 DEF ParseFunctionDef, reading
    <2>2. PICK f \in Function : f = p[k].name /\ p[k] = def(f)
      BY <1>4, <2>1, LineIs
    <2>3. PICK y : y = end_main(d)
      OBVIOUS
    <2>4. e = IF y.status # "compiling" THEN y
              ELSE IF y.functionType # NONE THEN error(y)
              ELSE IF y.pass = 1 THEN [AddGlobalSymbol(y, f) EXCEPT !.functionType = f]
              ELSE StartFunction(y, f)
      <3>1. c' = IF end_main(d).status # "compiling" THEN end_main(d)
                 ELSE IF end_main(d).functionType # NONE THEN error(end_main(d))
                 ELSE IF end_main(d).pass = 1
                   THEN [AddGlobalSymbol(end_main(d), p[k].name) EXCEPT !.functionType = p[k].name]
                 ELSE StartFunction(end_main(d), p[k].name)
        BY <1>1, <1>7 DEF ParseFunctionDef
      <3>2. QED
        BY <1>2, <2>2, <2>3, <3>1
    <2>5. Invariant(p, e, k + 1)
      BY <1>3, <2>1, <2>2, <2>3, <2>4, DefKeeps, ZenonT(30)
    <2>6. QED
      BY <1>1, <1>6, <1>7, <2>5 DEF ParseFunctionDef, read_line
  <1>8. CASE ParseEndDef
    <2>1. Compiling(d) /\ k <= Len(p) /\ p[k] = enddef
      BY <1>1, <1>5, <1>8, LineIs DEF ParseEndDef, reading
    <2>2. e = IF d.functionType = NONE THEN error(d)
              ELSE IF d.pass = 1 THEN [d EXCEPT !.functionType = NONE] ELSE EndFunction(d)
      BY <1>1, <1>2, <1>8 DEF ParseEndDef
    <2>3. Invariant(p, e, k + 1)
      BY <1>3, <2>1, <2>2, EnddefKeeps
    <2>4. QED
      BY <1>1, <1>6, <1>8, <2>3 DEF ParseEndDef, read_line
  <1>9. CASE ParseDim
    <2>1. Compiling(d) /\ k <= Len(p) /\ p[k].kind = "dim"
      BY <1>1, <1>5, <1>9 DEF ParseDim, reading
    <2>2. PICK x : x = (IF p[k].init THEN [d EXCEPT !.intact = (d.function = NONE)] ELSE d)
      OBVIOUS
    <2>3. e = (IF d.functionType # NONE
                 THEN IF d.pass > 1 /\ d.function = NONE THEN undefined(d) ELSE d
               ELSE IF d.pass = 1 THEN AddGlobalSymbol(x, p[k].name) ELSE x)
      <3>1. CASE d.functionType # NONE
        <4>1. e = IF d.pass > 1 /\ d.function = NONE THEN undefined(d) ELSE d
          BY <1>1, <1>2, <1>9, <3>1 DEF ParseDim
        <4>2. QED
          BY <3>1, <4>1
      <3>2. CASE d.functionType = NONE /\ d.pass = 1
        <4>1. e = AddGlobalSymbol(x, p[k].name)
          BY <1>1, <1>2, <1>9, <2>2, <3>2 DEF ParseDim
        <4>2. QED
          BY <3>2, <4>1
      <3>3. CASE d.functionType = NONE /\ d.pass # 1
        <4>1. e = x
          BY <1>1, <1>2, <1>9, <2>2, <3>3 DEF ParseDim
        <4>2. QED
          BY <3>3, <4>1
      <3>4. QED
        BY <3>1, <3>2, <3>3
    <2>4. Invariant(p, e, k + 1)
      BY <1>3, <2>1, <2>2, <2>3, DimKeeps
    <2>5. QED
      BY <1>1, <1>6, <1>9, <2>4 DEF ParseDim, read_line
  <1>10. CASE ParseStatement
    <2>1. Compiling(d) /\ k <= Len(p) /\ p[k].kind = "use"
      BY <1>1, <1>5, <1>10 DEF ParseStatement, reading
    <2>2. PICK n \in Name : n = p[k].name /\ p[k] = use(n)
      BY <1>4, <2>1, LineIs
    <2>3. PICK y : y = start_main(d)
      OBVIOUS
    <2>4. e = (IF d.pass = 1 THEN d
               ELSE IF y.status # "compiling" THEN y
               ELSE IF y.function = NONE \/ ~ y.intact THEN undefined(y)
               ELSE [GetSymbolRef(y, n) EXCEPT !.tree = Append(@, n)])
      BY <1>1, <1>2, <1>10, <2>2, <2>3 DEF ParseStatement
    <2>5. Invariant(p, e, k + 1)
      BY <1>3, <2>1, <2>2, <2>3, <2>4, UseKeeps
    <2>6. QED
      BY <1>1, <1>6, <1>10, <2>5 DEF ParseStatement, read_line
  <1>11. CASE EndOfPass
    <2>1. Compiling(d) /\ k = Len(p) + 1
      BY <1>1, <1>11 DEF EndOfPass, Compiling
    <2>2. PICK x : x = finish_main(d)
      OBVIOUS
    <2>3. e = (IF x.status # "compiling" THEN x
               ELSE [finish_pass(x) EXCEPT !.pass = @ + 1, !.mainState = "not_defined"])
      BY <1>1, <1>2, <1>11, <2>2 DEF EndOfPass
    <2>4. Invariant(p, e, 1)
      BY <1>3, <2>1, <2>2, <2>3, EndKeeps
    <2>5. QED
      BY <1>6, <1>11, <2>4 DEF EndOfPass
  <1>12. CASE UNCHANGED vars
    BY <1>12 DEF CompilerInvariant, vars
  <1>13. QED
    BY <1>7, <1>8, <1>9, <1>10, <1>11, <1>12 DEF Next

(* What the three passes keep, for every program. *)
THEOREM CompilerInvariantHolds == Spec => []CompilerInvariant
  <1>1. Init => CompilerInvariant
    BY InvariantFirst
  <1>2. CompilerInvariant /\ [Next]_vars => CompilerInvariant'
    BY InvariantNext
  <1>3. QED
    BY <1>1, <1>2, PTL DEF Spec

-----------------------------------------------------------------------------
(* What a reader of the image relies on. *)

LEMMA StandsFor ==
  ASSUME NEW d \in Context, Sections(d), NEW n \in Name, NEW w, w = address(d, n),
         n \in String => d.strings[n] # UNDEF, n \in Global => d.offset[n] # UNDEF
  PROVE  stands_for(d, w, n)
  <1>1. Framed(d) /\ Quoted(d)
    BY DEF Sections
  <1>2. n \in Function => n \in Global /\ rd_cword(d.text, d.offset[n]) = FRAME
    BY <1>1, Names DEF Framed
  <1>3. n \in String => rd_cword(d.text, d.strings[n]) = DATA
    BY <1>1 DEF Quoted
  <1>4. n \in Variable => n \in Global
    BY Names
  <1>5. QED
    BY <1>2, <1>3, <1>4 DEF stands_for

LEMMA ReferencesStand ==
  ASSUME CompilerInvariant
  PROVE  ReferencesResolved
  <1>1. PICK d : d = c
    OBVIOUS
  <1>2. d \in Context /\ Sections(d)
    BY <1>1 DEF CompilerInvariant, Invariant, Typed
  <1>3. ASSUME d.status = "done", NEW r \in d.words
        PROVE  stands_for(d, rd_cword(d.text, r[1]), r[2])
    <2>1. r[2] \in Name
      BY <1>2, WordTypes
    <2>2. r[2] \in String => d.strings[r[2]] # UNDEF /\ rd_cword(d.text, r[1]) = address(d, r[2])
      BY <1>2, <1>3 DEF Sections, Worded
    <2>3. r[2] \in Global => d.offset[r[2]] # UNDEF /\ rd_cword(d.text, r[1]) = address(d, r[2])
      BY <1>2, <1>3 DEF Sections, Resolved
    <2>4. rd_cword(d.text, r[1]) = address(d, r[2])
      BY <2>1, <2>2, <2>3, Names
    <2>5. QED
      BY <1>2, <2>1, <2>2, <2>3, <2>4, StandsFor
  <1>4. QED
    BY <1>1, <1>3 DEF ReferencesResolved

(* Once the compiler has finished an image, every word of it that refers   *)
(* to a function, a variable or a string is the address of what is meant:  *)
(* the calls chained in db_compiler.c are all patched.                   *)
THEOREM ReferencesAreResolved == Spec => []ReferencesResolved
  BY ReferencesStand, CompilerInvariantHolds, PTL

LEMMA NothingIsLost ==
  ASSUME CompilerInvariant
  PROVE  NothingForgotten
  <1>1. PICK d : d = c
    OBVIOUS
  <1>2. d \in Context /\ Sections(d) /\ Placed(program, d, line) /\ d.text \in Code
    BY <1>1, Types DEF CompilerInvariant, Invariant, Typed
  <1>3. \A n \in Global : d.fixups[n] \in 0 .. Len(d.text) - 1
    BY <1>2 DEF Sections
  <1>4. d.codeBuf = <<>> /\ d.data = Cardinality(d.globals \cap Variable)
    BY <1>2 DEF Sections, Placed
  <1>5. ASSUME d.status = "compiling", NEW n \in Name
        PROVE  /\ waiting(d, n) \subseteq places(d, n)
               /\ \A o \in places(d, n) \ waiting(d, n) : stands_for(d, rd_cword(d.text, o), n)
    <2>1. CASE n \in String
      <3>1. waiting(d, n) = {}
        BY <2>1, Names DEF waiting
      <3>2. ASSUME NEW o \in places(d, n) PROVE stands_for(d, rd_cword(d.text, o), n)
        <4>1. PICK r \in d.words : r[1] = o /\ r[2] = n
          BY <3>2, PlacesAre
        <4>2. d.strings[n] # UNDEF /\ rd_cword(d.text, o) = address(d, n)
          BY <1>2, <2>1, <4>1 DEF Sections, Worded
        <4>3. n \notin Global
          BY <2>1, Names
        <4>4. QED
          BY <1>2, <4>2, <4>3, StandsFor
      <3>3. QED
        BY <3>1, <3>2
    <2>2. CASE n \in Global
      <3>1. PICK s : IsChain(d.text, d.fixups[n], s) /\ Waits(d, n, ToSet(s))
        BY <1>2, <1>5, <2>2 DEF Sections, Linked
      <3>2. waiting(d, n) = ToSet(s)
        BY <1>2, <2>2, <3>1, ChainIs DEF waiting
      <3>3. ASSUME NEW o \in places(d, n) \ ToSet(s) PROVE stands_for(d, rd_cword(d.text, o), n)
        <4>1. d.offset[n] # UNDEF /\ rd_cword(d.text, o) = address(d, n)
          BY <3>1, <3>3 DEF Waits
        <4>2. n \notin String
          BY <2>2, Names
        <4>3. QED
          BY <1>2, <4>1, <4>2, StandsFor
      <3>4. ToSet(s) \subseteq places(d, n)
        BY <3>1 DEF Waits
      <3>5. QED
        BY <3>2, <3>3, <3>4
    <2>3. QED
      BY <2>1, <2>2, Names
  <1>6. QED
    BY <1>1, <1>3, <1>4, <1>5 DEF NothingForgotten

(* While the compiler runs, each such word already is that address or is   *)
(* on the chain of its symbol, which never leaves the section, holds no    *)
(* other word and loses none when chains are joined.                       *)
THEOREM NothingIsForgotten == Spec => []NothingForgotten
  BY NothingIsLost, CompilerInvariantHolds, PTL

LEMMA OnlyReachableStored ==
  ASSUME CompilerInvariant
  PROVE  StoredIsReachable
  <1>1. PICK d, R : d = c /\ R = Reachable(program)
    OBVIOUS
  <1>2. d \in Context /\ Sections(d) /\ Placed(program, d, line) /\ d.text \in Code
    BY <1>1, Types DEF CompilerInvariant, Invariant, Typed
  <1>3. ASSUME d.status = "done"
        PROVE  /\ {f \in Function : d.offset[f] # UNDEF} = R
               /\ Cardinality({i \in DOMAIN d.text : d.text[i] = FRAME}) = Cardinality(R)
    <2>1. {f \in Function : d.offset[f] # UNDEF} = R
      BY <1>1, <1>2, <1>3 DEF Placed
    <2>2. PICK T : T = {i \in DOMAIN d.text : d.text[i] = FRAME}
      OBVIOUS
    <2>3. Len(d.text) \in Nat /\ DOMAIN d.text = 1 .. Len(d.text)
      BY <1>2 DEF Code
    <2>4. PICK h : h = [f \in R |-> d.offset[f] + 1]
      OBVIOUS
    <2>5. Framed(d)
      BY <1>2 DEF Sections
    <2>6. ASSUME NEW f \in R
          PROVE  d.offset[f] \in Nat /\ h[f] = d.offset[f] + 1 /\ h[f] \in T
      <3>1. f \in Function /\ d.offset[f] # UNDEF
        BY <2>1
      <3>2. d.offset[f] \in 1 .. Len(d.text) - 1 /\ rd_cword(d.text, d.offset[f]) = FRAME
        BY <2>5, <3>1 DEF Framed
      <3>3. QED
        BY <2>2, <2>3, <2>4, <3>2 DEF rd_cword
    <2>7. \A f, g \in R : h[f] = h[g] => f = g
      <3>1. ASSUME NEW f \in R, NEW g \in R, h[f] = h[g] PROVE f = g
        <4>1. d.offset[f] = d.offset[g]
          BY <2>6, <3>1
        <4>2. f \in Function /\ g \in Function /\ d.offset[f] # UNDEF
          BY <2>1
        <4>3. QED
          BY <2>5, <4>1, <4>2 DEF Framed
      <3>2. QED
        BY <3>1
    <2>8. ASSUME NEW t \in T PROVE \E f \in R : h[f] = t
      <3>1. t \in 1 .. Len(d.text) /\ d.text[t] = FRAME
        BY <2>2, <2>3
      <3>2. PICK f \in Function : d.offset[f] = t - 1
        BY <2>5, <3>1 DEF Framed
      <3>3. f \in R
        BY <2>1, <2>3, <3>1, <3>2 DEF UNDEF
      <3>4. h[f] = t
        BY <2>6, <3>1, <3>2, <3>3
      <3>5. QED
        BY <3>3, <3>4
    <2>9. h \in Bijection(R, T)
      <3>1. h \in [R -> T]
        BY <2>4, <2>6
      <3>2. QED
        BY <2>7, <2>8, <3>1 DEF Bijection, Injection, Surjection, IsInjective
    <2>10. IsFiniteSet(R)
      <3>1. R \subseteq Global
        BY <2>1, Names
      <3>2. QED
        BY <3>1, NamesAssumption, FS_Subset
    <2>11. Cardinality(R) = Cardinality(T)
      <3>1. ExistsBijection(R, T)
        BY <2>9 DEF ExistsBijection
      <3>2. QED
        BY <2>10, <3>1, FS_Bijection
    <2>12. QED
      BY <2>1, <2>2, <2>11
  <1>4. QED
    BY <1>1, <1>3 DEF StoredIsReachable

(* The image holds the functions that the main program reaches through     *)
(* calls, each of them once, and no other: the search of                   *)
(* GenerateDependencies misses none and StoreCode repeats none.            *)
THEOREM StoredAreReachable == Spec => []StoredIsReachable
  BY OnlyReachableStored, CompilerInvariantHolds, PTL

-----------------------------------------------------------------------------
(* Addresses stay. *)

Final(d, e) ==
  /\ \A s \in String : d.strings[s] # UNDEF => e.strings[s] = d.strings[s]
  /\ \A n \in Global : d.offset[n] # UNDEF => e.offset[n] = d.offset[n]

LEMMA FinalTransitive ==
  ASSUME NEW x, NEW y, NEW z, Final(x, y), Final(y, z)
  PROVE  Final(x, z)
  BY DEF Final

LEMMA FinalSame ==
  ASSUME NEW d, NEW e, e.strings = d.strings, e.offset = d.offset
  PROVE  Final(d, e)
  BY DEF Final

LEMMA ErrorIsFinal ==
  ASSUME NEW d \in Context
  PROVE  Final(d, error(d)) /\ Final(d, undefined(d))
  <1>1. /\ error(d).strings = d.strings /\ error(d).offset = d.offset
        /\ undefined(d).strings = d.strings /\ undefined(d).offset = d.offset
    BY DEF error, undefined, Context
  <1>2. QED
    BY <1>1, FinalSame

LEMMA StartIsFinal ==
  ASSUME NEW d \in Context, NEW f
  PROVE  Final(d, StartFunction(d, f))
  <1>1. StartFunction(d, f).strings = d.strings /\ StartFunction(d, f).offset = d.offset
    BY DEF StartFunction, Context
  <1>2. QED
    BY <1>1, FinalSame

(* A symbol that is new has no address yet. *)
LEMMA SymbolIsFinal ==
  ASSUME NEW p, NEW d, NEW k, Invariant(p, d, k), NEW x \in Context, NEW n \in Global,
         x.globals = d.globals, x.offset = d.offset, x.strings = d.strings,
         NEW e, e = AddGlobalSymbol(x, n)
  PROVE  Final(d, e) /\ e \in Context
  <1>1. d \in Context /\ d.offset \in [Global -> Offset] /\ Placed(p, d, k)
    BY LineFacts, Types
  <1>2. /\ e \in Context
        /\ n \in x.globals => AllBut(x, e, {"status"})
        /\ n \notin x.globals =>
             /\ AllBut(x, e, {"globals", "offset", "data"})
             /\ n \in Function => e.offset = x.offset
             /\ n \notin Function => e.offset = [x.offset EXCEPT ![n] = x.data]
    <2>1. Declared(x, n, e)
      BY AddGlobalSymbolFacts
    <2>2. QED
      BY <2>1 DEF Declared
  <1>3. e.strings = d.strings
    BY <1>2 DEF AllBut, Fields
  <1>4. ASSUME NEW m \in Global, d.offset[m] # UNDEF PROVE e.offset[m] = d.offset[m]
    <2>1. CASE n \in x.globals \/ n \in Function
      BY <1>2, <2>1 DEF AllBut, Fields
    <2>2. CASE n \notin x.globals /\ n \notin Function
      <3>1. d.offset[n] = UNDEF
        BY <1>1, <2>2, Names DEF Placed
      <3>2. e.offset = [d.offset EXCEPT ![n] = x.data]
        BY <1>2, <2>2
      <3>3. QED
        BY <1>1, <1>4, <3>1, <3>2
    <2>3. QED
      BY <2>1, <2>2
  <1>5. QED
    BY <1>2, <1>3, <1>4 DEF Final

LEMMA ReferenceIsFinal ==
  ASSUME NEW p, NEW d, NEW k, Invariant(p, d, k), NEW n \in Name, NEW s, s = GetSymbolRef(d, n)
  PROVE  Final(d, s) /\ s \in Context
  <1>1. d \in Context /\ d.offset \in [Global -> Offset] /\ Placed(p, d, k)
    BY LineFacts, Types
  <1>2. Referred(d, n, s)
    BY <1>1, GetSymbolRefFacts
  <1>3. s \in Context /\ s.strings = d.strings
    BY <1>2 DEF Referred, AllBut, Fields
  <1>4. CASE n \in Variable \ d.globals
    <2>1. d.offset[n] = UNDEF /\ s.offset = [d.offset EXCEPT ![n] = d.data]
      BY <1>1, <1>2, <1>4 DEF Placed, Referred
    <2>2. \A m \in Global : d.offset[m] # UNDEF => s.offset[m] = d.offset[m]
      BY <1>1, <2>1
    <2>3. QED
      BY <1>3, <2>2 DEF Final
  <1>5. CASE n \notin Variable \ d.globals
    <2>1. s.offset = d.offset
      BY <1>2, <1>5 DEF Referred
    <2>2. QED
      BY <1>3, <2>1, FinalSame
  <1>6. QED
    BY <1>4, <1>5

LEMMA FunctionIsFinal ==
  ASSUME NEW p, NEW d, NEW k, Invariant(p, d, k), Compiling(d), d.pass \in {2, 3}, d.function # NONE,
         NEW e, e = EndFunction(d)
  PROVE  Final(d, e) /\ e \in Context
  <1>1. /\ ~ d.intact => e \in Context /\ AllBut(d, e, {"status"})
        /\ d.intact => Finished(d, e)
    BY FunctionFinishes
  <1>2. CASE ~ d.intact
    <2>1. e.strings = d.strings /\ e.offset = d.offset /\ e \in Context
      BY <1>1, <1>2 DEF AllBut, Fields
    <2>2. QED
      BY <2>1, FinalSame
  <1>3. CASE d.intact
    <2>1. Finished(d, e)
      BY <1>1, <1>3
    <2>2. \A n \in Global : d.offset[n] # UNDEF => e.offset[n] = d.offset[n]
      BY <2>1 DEF Finished
    <2>3. QED
      BY <2>1, <2>2 DEF Finished, Final
  <1>4. QED
    BY <1>2, <1>3

(* The main function is read in the last two passes. *)
LEMMA InMain ==
  ASSUME NEW p, NEW d, NEW k, Invariant(p, d, k), Compiling(d), d.mainState = "in_progress"
  PROVE  d.pass \in {2, 3} /\ d.function # NONE
  <1>1. Followed(p, d, k) /\ d.pass \in 1 .. 3
    BY LineFacts
  <1>2. d.pass # 1 /\ d.function = MAIN
    BY <1>1 DEF Followed
  <1>3. QED
    BY <1>1, <1>2, Names

LEMMA MainIsFinal ==
  ASSUME NEW p, NEW d, NEW k, Invariant(p, d, k), Compiling(d), d.mainState = "in_progress",
         NEW x, x = EndFunction(d)
  PROVE  Final(d, x) /\ x \in Context /\ Final(d, [x EXCEPT !.mainState = "defined"])
  <1>1. Final(d, x) /\ x \in Context
    BY InMain, FunctionIsFinal
  <1>2. PICK y : y = [x EXCEPT !.mainState = "defined"]
    OBVIOUS
  <1>3. y.strings = x.strings /\ y.offset = x.offset
    BY <1>1, <1>2 DEF Context
  <1>4. QED
    BY <1>1, <1>2, <1>3, FinalSame, FinalTransitive

LEMMA DefIsFinal ==
  ASSUME NEW p, NEW d, NEW k, Invariant(p, d, k), Compiling(d),
         NEW f \in Function, NEW y, y = end_main(d),
         NEW e, e = IF y.status # "compiling" THEN y
                    ELSE IF y.functionType # NONE THEN error(y)
                    ELSE IF y.pass = 1 THEN [AddGlobalSymbol(y, f) EXCEPT !.functionType = f]
                    ELSE StartFunction(y, f)
  PROVE  Final(d, e)
  <1>1. Invariant(p, y, k) /\ y \in Context
    BY EndMainFacts, LineFacts
  <1>2. Final(d, y)
    <2>1. CASE d.mainState = "in_progress"
      <3>1. y = [EndFunction(d) EXCEPT !.mainState = "defined"]
        BY <2>1 DEF end_main
      <3>2. QED
        BY <2>1, <3>1, MainIsFinal
    <2>2. CASE d.mainState # "in_progress"
      <3>1. y = d
        BY <2>2 DEF end_main
      <3>2. QED
        BY <3>1, FinalSame
    <2>3. QED
      BY <2>1, <2>2
  <1>3. Final(y, e)
    <2>1. CASE e = y
      BY <2>1, FinalSame
    <2>2. CASE e = error(y)
      BY <1>1, <2>2, ErrorIsFinal
    <2>3. CASE e = StartFunction(y, f)
      BY <1>1, <2>3, StartIsFinal
    <2>4. CASE e = [AddGlobalSymbol(y, f) EXCEPT !.functionType = f]
      <3>1. PICK a : a = AddGlobalSymbol(y, f)
        OBVIOUS
      <3>2. f \in Global
        BY Names
      <3>3. Final(y, a) /\ a \in Context
        BY <1>1, <3>1, <3>2, SymbolIsFinal
      <3>4. e.strings = a.strings /\ e.offset = a.offset
        BY <2>4, <3>1, <3>3 DEF Context
      <3>5. QED
        BY <3>3, <3>4, FinalSame, FinalTransitive
    <2>5. QED
      BY <2>1, <2>2, <2>3, <2>4
  <1>4. QED
    BY <1>2, <1>3, FinalTransitive

LEMMA EnddefIsFinal ==
  ASSUME NEW p, NEW d, NEW k, Invariant(p, d, k), Compiling(d), k <= Len(p), p[k] = enddef,
         NEW e, e = IF d.functionType = NONE THEN error(d)
                    ELSE IF d.pass = 1 THEN [d EXCEPT !.functionType = NONE] ELSE EndFunction(d)
  PROVE  Final(d, e)
  <1>1. d \in Context /\ d.pass \in 1 .. 3
    BY LineFacts
  <1>2. CASE d.functionType = NONE
    BY <1>1, <1>2, ErrorIsFinal
  <1>3. CASE d.functionType # NONE /\ d.pass = 1
    <2>1. e = [d EXCEPT !.functionType = NONE]
      BY <1>3
    <2>2. e.strings = d.strings /\ e.offset = d.offset
      BY <1>1, <2>1 DEF Context
    <2>3. QED
      BY <2>2, FinalSame
  <1>4. CASE d.functionType # NONE /\ d.pass # 1
    <2>1. d.function # NONE /\ d.pass \in {2, 3} /\ e = EndFunction(d)
      BY <1>1, <1>4, InFunction
    <2>2. QED
      BY <2>1, FunctionIsFinal
  <1>5. QED
    BY <1>2, <1>3, <1>4

LEMMA DimIsFinal ==
  ASSUME NEW p, NEW d, NEW k, Invariant(p, d, k), Compiling(d), NEW v \in Global, NEW b,
         NEW x, x = (IF b THEN [d EXCEPT !.intact = (d.function = NONE)] ELSE d),
         NEW e, e = (IF d.functionType # NONE
                       THEN IF d.pass > 1 /\ d.function = NONE THEN undefined(d) ELSE d
                     ELSE IF d.pass = 1 THEN AddGlobalSymbol(x, v) ELSE x)
  PROVE  Final(d, e)
  <1>1. d \in Context
    BY LineFacts
  <1>2. x \in Context /\ x.globals = d.globals /\ x.offset = d.offset /\ x.strings = d.strings
    BY <1>1 DEF Context
  <1>3. CASE e = d
    BY <1>3, FinalSame
  <1>4. CASE e = undefined(d)
    BY <1>1, <1>4, ErrorIsFinal
  <1>5. CASE e = x
    BY <1>2, <1>5, FinalSame
  <1>6. CASE e = AddGlobalSymbol(x, v)
    BY <1>2, <1>6, SymbolIsFinal
  <1>7. QED
    BY <1>3, <1>4, <1>5, <1>6

LEMMA UseIsFinal ==
  ASSUME NEW p, NEW d, NEW k, Invariant(p, d, k), Compiling(d),
         NEW n \in Name, NEW y, y = start_main(d),
         NEW e, e = (IF d.pass = 1 THEN d
                     ELSE IF y.status # "compiling" THEN y
                     ELSE IF y.function = NONE \/ ~ y.intact THEN undefined(y)
                     ELSE [GetSymbolRef(y, n) EXCEPT !.tree = Append(@, n)])
  PROVE  Final(d, e)
  <1>1. CASE d.pass = 1
    <2>1. e = d
      BY <1>1
    <2>2. QED
      BY <2>1, FinalSame
  <1>2. CASE d.pass # 1
    <2>1. Invariant(p, y, k) /\ y \in Context /\ d \in Context
      BY <1>2, MainStarts, LineFacts
    <2>2. Final(d, y)
      <3>1. CASE y = d
        BY <3>1, FinalSame
      <3>2. CASE y = error(d)
        BY <2>1, <3>2, ErrorIsFinal
      <3>3. CASE y = [StartFunction(d, MAIN) EXCEPT !.mainState = "in_progress"]
        <4>1. y.strings = d.strings /\ y.offset = d.offset
          BY <2>1, <3>3 DEF StartFunction, Context
        <4>2. QED
          BY <4>1, FinalSame
      <3>4. QED
        BY <3>1, <3>2, <3>3 DEF start_main
    <2>3. Final(y, e)
      <3>1. CASE e = y
        BY <3>1, FinalSame
      <3>2. CASE e = undefined(y)
        BY <2>1, <3>2, ErrorIsFinal
      <3>3. CASE e = [GetSymbolRef(y, n) EXCEPT !.tree = Append(@, n)]
        <4>1. PICK s : s = GetSymbolRef(y, n)
          OBVIOUS
        <4>2. Final(y, s) /\ s \in Context
          BY <2>1, <4>1, ReferenceIsFinal
        <4>3. e.strings = s.strings /\ e.offset = s.offset
          BY <3>3, <4>1, <4>2 DEF Context
        <4>4. Final(s, e)
          BY <4>3, FinalSame
        <4>5. QED
          BY <4>2, <4>4, FinalTransitive
      <3>4. QED
        BY <1>2, <3>1, <3>2, <3>3
    <2>4. QED
      BY <2>2, <2>3, FinalTransitive
  <1>3. QED
    BY <1>1, <1>2

LEMMA EndIsFinal ==
  ASSUME NEW p, NEW d, NEW k, Invariant(p, d, k), Compiling(d), NEW x, x = finish_main(d),
         NEW e, e = (IF x.status # "compiling" THEN x
                     ELSE [finish_pass(x) EXCEPT !.pass = @ + 1, !.mainState = "not_defined"])
  PROVE  Final(d, e)
  <1>1. d \in Context
    BY LineFacts
  <1>2. Final(d, x) /\ x \in Context
    <2>1. CASE x = d
      BY <1>1, <2>1, FinalSame
    <2>2. CASE x = error(d)
      BY <1>1, <2>2, ErrorIsFinal, ErrorFacts
    <2>3. CASE d.mainState = "in_progress" /\ x = EndFunction(d)
      BY <2>3, MainIsFinal
    <2>4. QED
      BY <2>1, <2>2, <2>3 DEF finish_main
  <1>3. Final(x, e)
    <2>1. CASE e = x
      BY <2>1, FinalSame
    <2>2. CASE e = [finish_pass(x) EXCEPT !.pass = @ + 1, !.mainState = "not_defined"]
      <3>1. PICK z : z = finish_pass(x)
        OBVIOUS
      <3>2. e.strings = z.strings /\ e.offset = z.offset /\ z.strings = x.strings /\ z.offset = x.offset
        <4>1. CASE z = GenerateDependencies(x)
          <5>1. z \in Context /\ AllBut(x, z, {"mainDependencies"})
            BY <1>2, <4>1, DependenciesFacts
          <5>2. QED
            BY <2>2, <3>1, <5>1 DEF Context, AllBut, Fields
        <4>2. CASE z = [UpdateReferences(x) EXCEPT !.status = "done"]
          BY <1>2, <2>2, <3>1, <4>2 DEF UpdateReferences, Context
        <4>3. CASE z = x
          BY <1>2, <2>2, <3>1, <4>3 DEF Context
        <4>4. QED
          BY <3>1, <4>1, <4>2, <4>3 DEF finish_pass
      <3>3. QED
        BY <3>2, FinalSame
    <2>3. QED
      BY <2>1, <2>2
  <1>4. QED
    BY <1>2, <1>3, FinalTransitive

LEMMA StepIsFinal ==
  ASSUME CompilerInvariant, Next
  PROVE  Final(c, c')
  <1>1. PICK p, d, k : p = program /\ d = c /\ k = line
    OBVIOUS
  <1>2. PICK e : e = c'
    OBVIOUS
  <1>3. Invariant(p, d, k)
    BY <1>1 DEF CompilerInvariant
  <1>4. /\ p \in Seq(Line) /\ Len(p) \in Nat /\ (k <= Len(p) => p[k] \in Line)
    BY <1>3, LineFacts
  <1>5. ASSUME reading("def") \/ reading("enddef") \/ reading("dim") \/ reading("use")
        PROVE  Compiling(d) /\ k <= Len(p) /\ p[k] \in Line
    BY <1>1, <1>4, <1>5 DEF reading, Compiling
  <1>6. CASE ParseFunctionDef
    <2>1. Compiling(d) /\ k <= Len(p) /\ p[k].kind = "def"
      BY <1>1, <1>5, <1>6 DEF ParseFunctionDef, reading
    <2>2. PICK f \in Function : f = p[k].name
      BY <1>4, <2>1, LineIs
    <2>3. PICK y : y = end_main(d)
      OBVIOUS
    <2>4. e = IF y.status # "compiling" THEN y
              ELSE IF y.functionType # NONE THEN error(y)
              ELSE IF y.pass = 1 THEN [AddGlobalSymbol(y, f) EXCEPT !.functionType = f]
              ELSE StartFunction(y, f)
      BY <1>1, <1>2, <1>6, <2>2, <2>3 DEF ParseFunctionDef
    <2>5. QED
      BY <1>1, <1>2, <1>3, <2>1, <2>3, <2>4, DefIsFinal
  <1>7. CASE ParseEndDef
    <2>1. Compiling(d) /\ k <= Len(p) /\ p[k] = enddef
      BY <1>1, <1>5, <1>7, LineIs DEF ParseEndDef, reading
    <2>2. e = IF d.functionType = NONE THEN error(d)
              ELSE IF d.pass = 1 THEN [d EXCEPT !.functionType = NONE] ELSE EndFunction(d)
      BY <1>1, <1>2, <1>7 DEF ParseEndDef
    <2>3. QED
      BY <1>1, <1>2, <1>3, <2>1, <2>2, EnddefIsFinal
  <1>8. CASE ParseDim
    <2>1. Compiling(d) /\ k <= Len(p) /\ p[k].kind = "dim"
      BY <1>1, <1>5, <1>8 DEF ParseDim, reading
    <2>2. PICK x : x = (IF p[k].init THEN [d EXCEPT !.intact = (d.function = NONE)] ELSE d)
      OBVIOUS
    <2>3. p[k].name \in Global
      BY <1>4, <2>1, LineIs, Names
    <2>4. c' = IF d.functionType # NONE
                 THEN IF d.pass > 1 /\ d.function = NONE THEN undefined(d) ELSE d
               ELSE IF d.pass = 1
                      THEN AddGlobalSymbol(IF p[k].init THEN [d EXCEPT !.intact = (d.function = NONE)] ELSE d,
                                           p[k].name)
                      ELSE IF p[k].init THEN [d EXCEPT !.intact = (d.function = NONE)] ELSE d
      BY <1>1, <1>8 DEF ParseDim
    <2>5. e = (IF d.functionType # NONE
                 THEN IF d.pass > 1 /\ d.function = NONE THEN undefined(d) ELSE d
               ELSE IF d.pass = 1 THEN AddGlobalSymbol(x, p[k].name) ELSE x)
      BY <1>2, <2>2, <2>4
    <2>6. QED
      BY <1>1, <1>2, <1>3, <2>1, <2>2, <2>3, <2>5, DimIsFinal
  <1>9. CASE ParseStatement
    <2>1. Compiling(d) /\ k <= Len(p) /\ p[k].kind = "use"
      BY <1>1, <1>5, <1>9 DEF ParseStatement, reading
    <2>2. PICK n \in Name : n = p[k].name
      BY <1>4, <2>1, LineIs
    <2>3. PICK y : y = start_main(d)
      OBVIOUS
    <2>4. e = (IF d.pass = 1 THEN d
               ELSE IF y.status # "compiling" THEN y
               ELSE IF y.function = NONE \/ ~ y.intact THEN undefined(y)
               ELSE [GetSymbolRef(y, n) EXCEPT !.tree = Append(@, n)])
      BY <1>1, <1>2, <1>9, <2>2, <2>3 DEF ParseStatement
    <2>5. QED
      BY <1>1, <1>2, <1>3, <2>1, <2>3, <2>4, UseIsFinal
  <1>10. CASE EndOfPass
    <2>1. Compiling(d)
      BY <1>1, <1>10 DEF EndOfPass, Compiling
    <2>2. PICK x : x = finish_main(d)
      OBVIOUS
    <2>3. e = (IF x.status # "compiling" THEN x
               ELSE [finish_pass(x) EXCEPT !.pass = @ + 1, !.mainState = "not_defined"])
      BY <1>1, <1>2, <1>10, <2>2 DEF EndOfPass
    <2>4. QED
      BY <1>1, <1>2, <1>3, <2>1, <2>2, <2>3, EndIsFinal
  <1>11. QED
    BY <1>6, <1>7, <1>8, <1>9, <1>10 DEF Next

(* What has an address keeps it in every later step: a word that holds an  *)
(* address is right for good, and code_globalref need not chain it.        *)
THEOREM AddressesStay == Spec => AddressesAreFinal
  <1>1. CompilerInvariant /\ [Next]_vars =>
          [\A n \in Name : where(c, n) # UNDEF => where(c', n) = where(c, n)]_vars
    <2>1. ASSUME CompilerInvariant, Next, NEW n \in Name, where(c, n) # UNDEF
          PROVE  where(c', n) = where(c, n)
      <3>1. Final(c, c')
        BY <2>1, StepIsFinal
      <3>2. n \in String \/ n \in Global
        BY Names
      <3>3. QED
        BY <2>1, <3>1, <3>2 DEF Final, where
    <2>2. QED
      BY <2>1
  <1>2. QED
    BY <1>1, CompilerInvariantHolds, PTL DEF Spec, AddressesAreFinal

=============================================================================
