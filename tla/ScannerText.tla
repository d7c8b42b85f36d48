----------------------------- MODULE ScannerText -----------------------------
(***************************************************************************)
(* What the text of a program says, to compare the scanner with: comments  *)
(* are taken out first, what is left is cut into the longest words there   *)
(* are, and pairs of keywords are joined.                                  *)
(***************************************************************************)
EXTENDS Scanner

(* A line without its comments, and whether it ends inside one. Strings    *)
(* and character constants are kept whole. *)
step(m, ch) ==
  LET go(mode) == [m EXCEPT !.mode = mode]
      keep(mode, more) == [mode |-> mode, text |-> m.text \o more]
      code == IF ch = "/" THEN go("slash")
              ELSE keep(IF ch = "\"" THEN "string" ELSE IF ch = "'" THEN "character" ELSE "code", <<ch>>)
  IN  CASE m.mode = "code"      -> code
        [] m.mode = "slash"     -> IF ch = "/" THEN go("rest") ELSE IF ch = "*" THEN go("comment")
                                   ELSE keep(IF ch = "\"" THEN "string" ELSE IF ch = "'" THEN "character"
                                             ELSE "code", <<"/", ch>>)
        [] m.mode = "rest"      -> m
        [] m.mode = "comment"   -> IF ch = "*" THEN go("star") ELSE m
        [] m.mode = "star"      -> IF ch = "/" THEN go("code") ELSE IF ch = "*" THEN m ELSE go("comment")
        [] m.mode = "string"    -> keep(IF ch = "\"" THEN "code" ELSE IF ch = "\\" THEN "escape" ELSE "string", <<ch>>)
        [] m.mode = "escape"    -> keep("string", <<ch>>)
        [] m.mode = "character" -> keep("quote", <<ch>>)
        [] m.mode = "quote"     -> keep("code", <<ch>>)
Uncommented(line, inComment) ==
  FoldLeft(step, [mode |-> IF inComment THEN "comment" ELSE "code", text |-> <<>>], line)
open(m) == m.mode \in {"comment", "star"}

(* The tokens the characters w make, each with its characters and number. *)
all(w, chars) == \A i \in DOMAIN w : w[i] \in chars
digits_of(w) == SelectSeq(w, LAMBDA ch : ch # "_")
RECURSIVE valued(_, _)
valued(w, base) == IF w = <<>> THEN 0 ELSE valued(Front(w), base) * base + Digits[Last(w)]
escaped == [ch \in {"n", "r", "t"} |-> CASE ch = "n" -> "newline" [] ch = "r" -> "return" [] ch = "t" -> "tab"]
meant(ch) == IF ch \in DOMAIN escaped THEN escaped[ch] ELSE ch
RECURSIVE string(_)
string(w) ==
  IF w = <<>> THEN <<>>
  ELSE IF w[1] = "\\" THEN <<meant(w[2])>> \o string(SubSeq(w, 3, Len(w)))
  ELSE <<w[1]>> \o string(Tail(w))
signs == [w \in {<<"<", "=">>, <<"<", ">">>, <<"<", "<">>, <<">", "=">>, <<">", ">">>} |->
            CASE w = <<"<", "=">> -> "T_LE" [] w = <<"<", ">">> -> "T_NE" [] w = <<"<", "<">> -> "T_SHL"
              [] w = <<">", "=">> -> "T_GE" [] w = <<">", ">">> -> "T_SHR"]
based(w) == Len(w) >= 2 /\ w[1] = "0" /\ w[2] \in {"x", "b"}
base_of(w) == IF ~based(w) THEN 10 ELSE IF w[2] = "x" THEN 16 ELSE 2
numeral(w) == IF based(w) THEN SubSeq(w, 3, Len(w)) ELSE w
Number(w) == all(numeral(w), digits(base_of(w)) \cup {"_"}) /\ w[1] \in digits(10)
Word(w) == w[1] \in IdentifierChars \ digits(10) /\ all(w, IdentifierChars)
RECURSIVE Closed(_)
Closed(w) ==      \* w is the rest of a string, with its end
  /\ w # <<>>
  /\ IF w[1] = "\\" THEN Closed(SubSeq(w, 3, Len(w)))
     ELSE IF w[1] = "\"" THEN Len(w) = 1 ELSE Closed(Tail(w))
String(w) == w[1] = "\"" /\ Closed(Tail(w))
Token(w) ==
  LET made(t, s, n) == [t |-> t, s |-> s, n |-> n] IN
  IF Word(w) THEN IF Len(w) > MaxToken THEN made("long", <<>>, 0)
                  ELSE IF w \in DOMAIN Keywords THEN made(Keywords[w], <<>>, 0) ELSE made("T_IDENTIFIER", w, 0)
  ELSE IF Number(w) THEN made("T_NUMBER", <<>>, valued(digits_of(numeral(w)), base_of(w)))
  ELSE IF String(w) THEN LET s == string(SubSeq(w, 2, Len(w) - 1)) IN
                         IF Len(s) > MaxToken THEN made("error", <<>>, 0) ELSE made("T_STRING", s, 0)
  ELSE IF Len(w) = 3 THEN made("T_CHARACTER", <<meant(w[2])>>, 0)
  ELSE IF w \in DOMAIN signs THEN made(signs[w], <<>>, 0)
  ELSE IF w[1] \in {"\"", "'"} THEN made("error", <<>>, 0)
  ELSE made(w[1], <<>>, 0)
OneToken(w) ==
  \/ Word(w) \/ Number(w) \/ String(w) \/ w \in DOMAIN signs \/ Len(w) = 1
  \/ Len(w) = 3 /\ w[1] = "'" /\ w[3] = "'"
RECURSIVE Cut(_)
Cut(text) ==
  IF text = <<>> THEN <<>>
  ELSE IF isspace(text[1]) THEN Cut(Tail(text))
  ELSE LET n == CHOOSE n \in 1..Len(text) : /\ OneToken(SubSeq(text, 1, n))
                                            /\ \A k \in (n + 1)..Len(text) : ~OneToken(SubSeq(text, 1, k))
       IN  <<Token(SubSeq(text, 1, n))>> \o Cut(SubSeq(text, n + 1, Len(text)))
RECURSIVE Joined(_)
Joined(ts) ==
  LET pair == Len(ts) >= 2 /\ ts[1].t \in DOMAIN Pairs IN
  IF ts = <<>> THEN <<>>
  ELSE IF pair /\ ts[2].t = "long" THEN Tail(ts)
  ELSE IF pair /\ ts[2].t \in DOMAIN Pairs[ts[1].t]
       THEN <<[ts[2] EXCEPT !.t = Pairs[ts[1].t][ts[2].t]]>> \o Joined(SubSeq(ts, 3, Len(ts)))
  ELSE <<ts[1]>> \o Joined(Tail(ts))
Tokens(text) ==
  LET ended(ts) == [i \in DOMAIN ts |-> IF ts[i].t = "long" THEN [ts[i] EXCEPT !.t = "error"] ELSE ts[i]]
                   \o <<[t |-> "T_EOL", s |-> <<>>, n |-> 0]>>
  IN  ended(Joined(Cut(text)))

(* How much of a line counts in the pass p: nothing of a remark, and of    *)
(* statements the first pass wants the definitions only. *)
types(ts) == [i \in DOMAIN ts |-> ts[i].t]
label(t, p) ==      \* the tokens of the labels in front
  IF p = 1 THEN 0
  ELSE 2 * Max({k \in 0..(Len(t) \div 2) : \A i \in 1..k : t[2*i - 1] = "T_IDENTIFIER" /\ t[2*i] = ":"})
unlabelled(t, p) == SubSeq(t, label(t, p) + 1, Len(t))
Form == [T_INCLUDE |-> <<"T_INCLUDE", "T_STRING", "T_EOL">>, T_DEF |-> <<"T_DEF", "T_IDENTIFIER">>]
Wrong(t) ==      \* the places in a statement at which it is refused
  {i \in DOMAIN t : \/ t[i] = "error"
                    \/ t[1] \in DOMAIN Form /\ i <= Len(Form[t[1]]) /\ t[i] # Form[t[1]][i]}
Enough(t, p) ==
  {i \in DOMAIN t : \/ i = 1 /\ t[1] \in {"T_REM", "T_END_DEF"}
                    \/ i = 1 /\ p = 1 /\ t[1] \notin {"T_INCLUDE", "T_DEF", "T_DIM"}
                    \/ i = 3 /\ p > 1 /\ t[1] = "T_DEF" /\ t[3] = "="}
Counted(ts, p) ==
  LET t == unlabelled(types(ts), p)
      last == Min({Len(t)} \cup Wrong(t) \cup Enough(t, p))
  IN  SubSeq(ts, 1, label(types(ts), p) + last)

(* The text of a pass, line by line. A line that is longer than the buffer *)
(* counts as several. *)
RECURSIVE Lines(_, _, _)
Lines(name, text, line) ==
  IF text = <<>> THEN <<>>
  ELSE <<[file |-> name, line |-> line, text |-> terminated(SubSeq(text, 1, fgets(text)))]>>
       \o Lines(name, SubSeq(text, fgets(text) + 1, Len(text)), line + 1)

(* Every statement that closes a comment of several lines, or has one      *)
(* behind it, is on a line of its own: that is what a tidy program does.   *)
Untidy == <<[file |-> Main, line |-> 0, t |-> "untidy", s |-> <<>>, n |-> 0]>>
RECURSIVE TextRead(_, _, _, _)
TextRead(work, inComment, seen, p) ==
  LET name(ts) == ts[Len(ts) - 1].s
      more(m, ts, t, here) ==
        IF Wrong(t) # {} THEN here
        ELSE IF t # Form["T_INCLUDE"] \/ name(ts) \in seen THEN here \o TextRead(Tail(work), open(m), seen, p)
        ELSE IF name(ts) \notin DOMAIN files THEN here
        ELSE here \o TextRead(Lines(name(ts), files[name(ts)], 1) \o Tail(work), open(m), seen \cup {name(ts)}, p)
      counted(m, ts) ==
        more(m, ts, unlabelled(types(ts), p),
             [i \in DOMAIN ts |-> [file |-> work[1].file, line |-> work[1].line] @@ ts[i]])
      line(m) == IF open(m) /\ ~all(m.text, {" ", "\n"}) THEN Untidy ELSE counted(m, Counted(Tokens(m.text), p))
  IN  IF work # <<>> THEN line(Uncommented(work[1].text, inComment)) ELSE IF inComment THEN Untidy ELSE <<>>
Text(p) == TextRead(Lines(Main, files[Main], 1), FALSE, {}, p)

(* A file is never open twice, so that files which include each other come *)
(* to an end; the main file may, once, be included by name (PushFile looks *)
(* at the list of included files, which the main file is not on). *)
NoFileTwice ==
  \A i, j \in DOMAIN currentFile : i < j /\ currentFile[i].name = currentFile[j].name => i = 1 /\ currentFile[1].name = Main

(***************************************************************************)
(* When a pass ends it has read exactly the tokens the text of the program *)
(* has, each in its file and on its line: comments of one line or of       *)
(* several, strings with comment signs in them, numbers in three bases,    *)
(* operators of two characters, pairs of keywords, remarks, labels,        *)
(* included files (once each, whoever includes them) and lines that do not *)
(* fit into the buffer. An error comes at the token it is about.           *)
(***************************************************************************)
TokensOfTheText ==
  /\ NoFileTwice
  /\ (phase = "error" \/ (statement = "line" /\ currentFile = <<>>)) =>
       \E texts \in {[p \in 1..pass |-> Text(p)]} :
         \/ \E p \in 1..pass : texts[p] # <<>> /\ Last(texts[p]).t = "untidy"
         \/ read[pass] = texts[pass]
==============================================================================
