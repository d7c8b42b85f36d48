------------------------------- MODULE Scanner -------------------------------
(***************************************************************************)
(* The input of the compiler: lines that are read from a stack of files    *)
(* and cut into tokens, three times over. Of the parser there is what it   *)
(* does to the input: the file of an INCLUDE is pushed, and of a statement *)
(* that has nothing to say in this pass the rest is not read.              *)
(***************************************************************************)
EXTENDS Lexer

CONSTANTS
  Programs,    \* functions from file names to sequences of characters
  Main,        \* the name of the main file
  MaxLine,     \* size of the line buffer
  Passes       \* three in the code

VARIABLES
  files,
  pass,
  currentFile,     \* the stack of open files, the current one last
  includedFiles,
  l,               \* the lexer
  statement,       \* "line" when a line is to be read, else what the statement is so far
  phase,           \* "compile", "done" or "error"
  read             \* by pass, the tokens read, with their places

vars == <<files, pass, currentFile, includedFiles, l, statement, phase, read>>

opened(name) == [name |-> name, rest |-> files[name], lineNumber |-> 0]
current == currentFile[Len(currentFile)]

Init ==
  /\ files \in Programs
  /\ pass = 1 /\ currentFile = <<opened(Main)>> /\ includedFiles = {}
  /\ l = Lexer(<<>>, FALSE) /\ statement = "line" /\ phase = "compile"
  /\ read = [p \in 1..Passes |-> <<>>]

(* fgets stops after an end of line or when the buffer is full; either way *)
(* the line gets an end. *)
fgets(rest) ==
  LET ends == {i \in DOMAIN rest : rest[i] = "\n"} \cup {Len(rest), MaxLine - 2}
  IN  CHOOSE i \in ends : \A j \in ends : i <= j
terminated(line) == IF line # <<>> /\ Last(line) = "\n" THEN line ELSE Append(line, "\n")

GetLine ==
  LET n == fgets(current.rest) IN
  /\ phase = "compile" /\ statement = "line" /\ currentFile # <<>> /\ current.rest # <<>>
  /\ currentFile' = [currentFile EXCEPT ![Len(currentFile)] =
                       [@ EXCEPT !.rest = SubSeq(@, n + 1, Len(@)), !.lineNumber = @ + 1]]
  /\ l' = Lexer(terminated(SubSeq(current.rest, 1, n)), l.inComment)
  /\ statement' = "none"
  /\ UNCHANGED <<files, pass, includedFiles, phase, read>>
PopFile ==
  /\ phase = "compile" /\ statement = "line" /\ currentFile # <<>> /\ current.rest = <<>>
  /\ currentFile' = Front(currentFile)
  /\ UNCHANGED <<files, pass, includedFiles, l, statement, phase, read>>

(* What the statement is after the token t. *)
ParseStatement(t) ==
  CASE t = "T_EOL"                      -> "line"
    [] t \in {"T_REM", "T_END_DEF"}     -> "line"
    [] t = "T_INCLUDE"                  -> "INCLUDE"
    [] t = "T_DEF"                      -> "DEF"
    [] t = "T_DIM"                      -> "body"
    [] t = "T_IDENTIFIER" /\ pass > 1   -> "identifier"
    [] OTHER                            -> IF pass = 1 THEN "line" ELSE "body"
after(t) ==
  CASE t = "error"               -> "error"
    [] t # "error" /\ statement = "none" -> ParseStatement(t)
    [] t # "error" /\ statement = "identifier" ->
         IF t = ":" THEN "none" ELSE IF t = "T_EOL" THEN "line" ELSE "body"
    [] t # "error" /\ statement = "INCLUDE" -> IF t = "T_STRING" THEN "INCLUDE name" ELSE "error"
    [] t # "error" /\ statement = "INCLUDE name" -> IF t = "T_EOL" THEN "push" ELSE "error"
    [] t # "error" /\ statement = "DEF" -> IF t = "T_IDENTIFIER" THEN "DEF name" ELSE "error"
    [] t # "error" /\ statement = "DEF name" ->
         IF t = "T_EOL" \/ (t = "=" /\ pass > 1) THEN "line" ELSE "body"
    [] t # "error" /\ statement = "body" -> IF t = "T_EOL" THEN "line" ELSE "body"

PushFile(name) ==
  IF name \in includedFiles THEN UNCHANGED <<currentFile, includedFiles, phase>>
  ELSE IF name \notin DOMAIN files THEN phase' = "error" /\ UNCHANGED <<currentFile, includedFiles>>
  ELSE /\ includedFiles' = includedFiles \cup {name}
       /\ currentFile' = Append(currentFile, opened(name))
       /\ UNCHANGED phase

token_read(n) ==
  [file |-> current.name, line |-> current.lineNumber, t |-> n.t,
   s |-> IF n.t \in {"T_IDENTIFIER", "T_STRING", "T_CHARACTER"} THEN n.s ELSE <<>>,
   n |-> IF n.t = "T_NUMBER" THEN n.n ELSE 0]
GetToken ==
  /\ phase = "compile" /\ statement # "line"
  /\ \E n \in {NextToken(l)} :
       /\ read' = [read EXCEPT ![pass] = Append(@, token_read(n))]
       /\ l' = n
       /\ IF after(n.t) = "push" THEN statement' = "line" /\ PushFile(n.s)
          ELSE /\ statement' = after(n.t)
               /\ phase' = IF statement' = "error" THEN "error" ELSE phase
               /\ UNCHANGED <<currentFile, includedFiles>>
  /\ UNCHANGED <<files, pass>>

EndOfPass ==
  /\ phase = "compile" /\ statement = "line" /\ currentFile = <<>>
  /\ includedFiles' = {}                                                \* ClearIncludedFiles
  /\ IF pass < Passes
     THEN pass' = pass + 1 /\ currentFile' = <<opened(Main)>> /\ UNCHANGED phase    \* RewindInput
     ELSE phase' = "done" /\ UNCHANGED <<pass, currentFile>>
  /\ UNCHANGED <<files, l, statement, read>>

Next == GetLine \/ PopFile \/ GetToken \/ EndOfPass
Spec == Init /\ [][Next]_vars
==============================================================================
