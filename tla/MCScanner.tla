------------------------------ MODULE MCScanner ------------------------------
(* Texts for the scanner: all short ones over the characters of one part   *)
(* of the language, and sets of files that include each other. *)
EXTENDS ScannerText

MCKeywords ==
  [w \in {<<k>> : k \in {"REM", "INCLUDE", "DEF", "DIM", "ELSE", "IF", "END"}} |->
     CASE w = <<"REM">> -> "T_REM" [] w = <<"INCLUDE">> -> "T_INCLUDE" [] w = <<"DEF">> -> "T_DEF"
       [] w = <<"DIM">> -> "T_DIM" [] w = <<"ELSE">> -> "T_ELSE" [] w = <<"IF">> -> "T_IF" [] w = <<"END">> -> "T_END"]
MCPairs == [T_ELSE |-> [T_IF |-> "T_ELSE_IF"], T_END |-> [T_DEF |-> "T_END_DEF", T_IF |-> "T_END_IF"]]
MCIdentifierChars == {"REM", "INCLUDE", "DEF", "DIM", "ELSE", "IF", "END", "x", "b", "n", "m", "0", "1", "_"}
MCMain == <<"m">>

Up(chars, n) == UNION {[1..k -> chars] : k \in 0..n}
Alone(texts) == {[f \in {MCMain} |-> t] : t \in texts}
dim(rest) == <<"DIM", " ">> \o rest
include(f) == <<"INCLUDE", " ", "\"", f, "\"", "\n">>

Comments == Alone({dim(t) : t \in Up({"x", "/", "*", "\n"}, 5)}
                  \cup {<<"/", "*">> \o t : t \in Up({"x", "/", "*", "\n"}, 5)})
Strings == Alone({dim(t) : t \in Up({"\"", "/", "*", "\\", "n"}, 4)} \cup {dim(<<"'">> \o t) : t \in Up({"'", "n", "\\", "/"}, 3)})
Numbers == Alone({dim(t) : t \in Up({"0", "1", "b", "x", "_", "/"}, 3)} \cup {dim(t) : t \in Up({"<", ">", "=", "1", " "}, 3)})
Long == Alone({dim(t \o u) : t, u \in Up({"x", " "}, 2)} \cup {dim([i \in 1..k |-> "1"] \o <<"\n", "x">>) : k \in 1..9})
Words == Alone({<<"ELSE", " ", "IF">>, <<"x", ":", "x", ":", "DIM", "x">>}
               \cup Up({"ELSE", "END", "IF", "DEF", " ", "x"}, 4)
               \cup {<<w>> \o t \o <<"DIM", "\n">> : w \in {"REM", "DIM", "END", "x", "DEF"}, t \in Up({"/", "*", "x", "\n", ":", " "}, 2)}
               \cup {<<"DEF">> \o t : t \in Up({" ", "x", "=", "\n", "DIM"}, 4)})
Lines_of(n) == {FoldLeft(LAMBDA a, b : a \o b, <<>>, s) :
                  s \in Up({include("a"), include("b"), include("m"), dim(<<"x", "\n">>)}, n)}
Includes == {(MCMain :> t) @@ (<<"a">> :> u) @@ (<<"b">> :> v) : t \in Lines_of(2), u \in Lines_of(2), v \in Lines_of(1)}
Missing == {(MCMain :> (<<"x", ":">> \o include(f) \o t)) @@ (<<"a">> :> u) :
              f \in {"a", "b"}, t \in Lines_of(1), u \in Lines_of(1) \cup {<<"/", "*", "\n">>, <<"*", "/">>}}
MCPrograms == Comments \cup Strings \cup Numbers \cup Long \cup Words \cup Includes \cup Missing
==============================================================================
