----------------------------- MODULE MCCompiler -----------------------------
(* Small programs for the compiler: two functions, a variable and a        *)
(* string, whose bodies refer to each of these in every order.             *)
EXTENDS Compiler

F == {"f", "g"}
V == {"v"}
S == {"s"}
N == {"f", "g", "v", "s"}

MCuse(n) == [kind |-> "use", name |-> n]
MCdef(f) == [kind |-> "def", name |-> f]
MCdim(b) == [kind |-> "dim", name |-> "v", init |-> b]
MCenddef == [kind |-> "enddef"]

Uses(k) == UNION {[1 .. i -> {MCuse(n) : n \in N}] : i \in 0 .. k}
Body(f, uses) == <<MCdef(f)>> \o uses \o <<MCenddef>>

(* The main program before, between and after the functions. *)
Layouts(m, f, g) ==
  {m \o Body("f", f) \o Body("g", g),
   Body("f", f) \o m \o Body("g", g),
   Body("f", f) \o Body("g", g) \o m}
Dims == {<<>>, <<MCdim(TRUE)>>}

MCPrograms ==
  UNION {{d \o p : d \in Dims, p \in Layouts(m, f, g)} :
           m \in Uses(2), f \in Uses(2), g \in Uses(1)}

(* A variable is declared with a value in the middle of the main program.  *)
UsesOfF == {u \in Uses(1) : \A i \in DOMAIN u : u[i].name # "g"}
MCDimInMain ==
  {m \o <<MCdim(b)>> \o n \o Body("f", f) : m, n, f \in UsesOfF, b \in BOOLEAN}
=============================================================================
