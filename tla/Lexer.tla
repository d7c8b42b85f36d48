-------------------------------- MODULE Lexer --------------------------------
(***************************************************************************)
(* From the characters of a line to its tokens, in the compiler and, with  *)
(* other words and characters, in the assembler. A lexer l has the line,   *)
(* the next character, whether it is inside a block comment, the character *)
(* read last and the token: its type, its characters and its number. A     *)
(* keyword is one character here.                                          *)
(***************************************************************************)
EXTENDS Integers, SequencesExt

CONSTANTS
  Keywords,           \* words that are tokens of their own, and their tokens
  Pairs,              \* the keywords that may take another word in: word to token
  IdentifierChars,    \* the characters of a word
  MaxToken            \* characters in the longest token

EOF == "EOF"
Digits == [ch \in {"0", "1", "2", "a", "b"} |->
             CASE ch = "0" -> 0 [] ch = "1" -> 1 [] ch = "2" -> 2 [] ch = "a" -> 10 [] ch = "b" -> 11]
digits(base) == {ch \in DOMAIN Digits : Digits[ch] < base}
isspace(ch) == ch \in {" ", "\n"}

Lexer(line, inComment) ==
  [buf |-> line, at |-> 1, inComment |-> inComment, ch |-> EOF, t |-> "T_NONE", s |-> <<>>, n |-> 0]
token(l, t) == [l EXCEPT !.t = t]
ParseError(l) == token(l, "error")

XGetC(l) ==
  IF l.at > Len(l.buf) THEN [l EXCEPT !.ch = EOF] ELSE [l EXCEPT !.ch = l.buf[l.at], !.at = @ + 1]
UngetC(l) == [l EXCEPT !.at = @ - 1]

RECURSIVE skip(_, _), uncommented(_), past_comment(_), spaces(_), collect(_, _, _), quoted_chars(_)
skip(n, lastch) ==      \* n has just read a character of the comment, after lastch
  IF n.ch = EOF THEN [n EXCEPT !.inComment = TRUE]
  ELSE IF lastch = "*" /\ n.ch = "/" THEN [n EXCEPT !.inComment = FALSE]
  ELSE skip(XGetC(n), n.ch)
SkipComment(l) == skip(XGetC(l), EOF)

(* The next character that is in no comment. *)
past_comment(s) == IF s.inComment THEN s ELSE uncommented(XGetC(s))
slash(m) ==
  CASE m.ch = "/" -> [m EXCEPT !.at = Len(m.buf) + 1, !.ch = EOF]
    [] m.ch = "*" -> past_comment(SkipComment(m))
    [] OTHER      -> [UngetC(m) EXCEPT !.ch = "/"]
uncommented(n) == IF n.ch = "/" THEN slash(XGetC(n)) ELSE n
GetChar_spaced(l) ==      \* (a variant) a comment is as good as a space
  LET spaced(n) == IF n.ch # EOF /\ ~l.inComment /\ n.at # l.at + 1 THEN [UngetC(n) EXCEPT !.ch = " "] ELSE n
  IN  spaced(IF l.inComment THEN past_comment(SkipComment(l)) ELSE uncommented(XGetC(l)))
GetChar(l) == IF l.inComment THEN past_comment(SkipComment(l)) ELSE uncommented(XGetC(l))

spaces(n) == IF isspace(n.ch) THEN spaces(GetChar(n)) ELSE n
SkipSpaces(l) == spaces(GetChar(l))

(* The characters of a token from n on, as long as they are in chars;      *)
(* those in ignored do not count. *)
collect(n, chars, ignored) ==
  CASE n.ch \in chars   -> collect(GetChar([n EXCEPT !.s = Append(@, n.ch)]), chars, ignored)
    [] n.ch \in ignored -> collect(GetChar(n), chars, ignored)
    [] OTHER            -> UngetC(n)

IdentifierToken(l) ==
  LET made(n) == IF Len(n.s) > MaxToken THEN ParseError(n)
                 ELSE token(n, IF n.s \in DOMAIN Keywords THEN Keywords[n.s] ELSE "T_IDENTIFIER")
  IN  made(collect(GetChar([l EXCEPT !.s = <<l.ch>>]), IdentifierChars, {}))
number_token(l, base) ==
  LET made(n) == token([n EXCEPT !.n = FoldLeft(LAMBDA v, ch : v * base + Digits[ch], 0, n.s)], "T_NUMBER")
  IN  made(collect(GetChar(l), digits(base), {"_"}))
base_by(ch) == CASE ch = "x" -> 16 [] ch = "b" -> 2 [] OTHER -> 10      \* the character behind a zero
NumberToken(l, next) ==
  IF l.ch = "0" /\ next.ch \in {"x", "b"} THEN number_token([next EXCEPT !.s = <<>>], base_by(next.ch))
  ELSE number_token([l EXCEPT !.s = <<l.ch>>], 10)

LiteralChar(l) ==
  [XGetC(l) EXCEPT !.ch = CASE @ = "n" -> "newline" [] @ = "r" -> "return" [] @ = "t" -> "tab"
                            [] @ = EOF -> "\\" [] OTHER -> @]
quoted_chars(n) ==
  LET put(ch) == quoted_chars(XGetC([ch EXCEPT !.s = Append(@, ch.ch)])) IN
  IF n.ch \in {EOF, "\""} THEN n
  ELSE IF Len(n.s) = MaxToken THEN ParseError(n)
  ELSE put(IF n.ch = "\\" THEN LiteralChar(n) ELSE n)
StringToken(l) ==
  LET ended(n) == IF n.ch = "\"" THEN n ELSE ParseError(n)
  IN  ended(quoted_chars(XGetC(token([l EXCEPT !.s = <<>>], "T_STRING"))))
CharToken(l) ==
  LET closed(n, close) == IF close.ch = "'" THEN token([close EXCEPT !.s = <<n.ch>>], "T_CHARACTER") ELSE ParseError(close)
      character(n) == closed(n, XGetC(n))
  IN  character(LiteralChar(l))

(* A pair of words is one token. If the second is another word the scanner *)
(* goes back to where it was, but not back into or out of a comment. *)
word_token(l) ==
  LET pair(word, second) ==
        IF second.t = "error" THEN second
        ELSE IF second.t \in DOMAIN Pairs[word.t] THEN token(second, Pairs[word.t][second.t])
        ELSE [word EXCEPT !.inComment = second.inComment]
      next(n) == IF n.ch \in IdentifierChars THEN IdentifierToken(n) ELSE token(n, "none")
      first(word) == IF word.t \in DOMAIN Pairs THEN pair(word, next(SkipSpaces(word))) ELSE word
  IN  first(IdentifierToken(l))

operator(l, seconds) ==
  LET two(n) == IF n.ch \in DOMAIN seconds THEN token(n, seconds[n.ch]) ELSE token(UngetC(n), l.ch)
  IN  two(GetChar(l))
token_at(n) ==
  CASE n.ch = EOF  -> token(n, "T_EOL")
    [] n.ch = "\"" -> StringToken(n)
    [] n.ch = "'"  -> CharToken(n)
    [] n.ch = "<"  -> operator(n, [ch \in {"=", ">", "<"} |->
                                     CASE ch = "=" -> "T_LE" [] ch = ">" -> "T_NE" [] ch = "<" -> "T_SHL"])
    [] n.ch = ">"  -> operator(n, [ch \in {"=", ">"} |-> IF ch = "=" THEN "T_GE" ELSE "T_SHR"])
    [] n.ch \in digits(10) -> NumberToken(n, GetChar(n))
    [] n.ch \in IdentifierChars \ digits(10) -> word_token(n)
    [] OTHER -> token(n, n.ch)
NextToken(l) == token_at(SkipSpaces(l))
=====
