----------------------------- MODULE BoardEditor -----------------------------
(***************************************************************************)
(* The dialog of the IDE that edits the board configuration                *)
(* (xbasic-qt/hardware.cpp, xbasicconfig.cpp, xbasicboard.cpp): it reads   *)
(* the file its own way, shows one board at a time in its fields, and      *)
(* writes all of them back.  Letters have no case here.                    *)
(***************************************************************************)
EXTENDS BoardConfig

CONSTANTS
  Suffixed,      \* numbers with k or m behind: to toInt they are not numbers
  Entries,       \* what the fields offer: <<tag, text, value>>
  NewNames,      \* names the user may type
  MaxEvents      \* bound on what the user does while the dialog is open

VARIABLES
  dialog,        \* before, open, done, or crashed
  boardNames,    \* the names, and
  boards,        \* the boards, meant to be in step with them
  items,         \* the list of the combo box, with
  currentIndex,  \* the item that is selected, and
  currentText,   \* the text in it
  fields,        \* what the other fields show
  saved,         \* the file was written
  events

editorVars == <<dialog, boardNames, boards, items, currentIndex, currentText, fields, saved, events>>

(* The order in which they are written. *)
propNames == <<"clkfreq", "clkmode", "baudrate", "rxpin", "txpin", "tvpin", "text", "data", "flash-size", "ram-size",
               "cache-driver", "cache-size", "cache-param1", "cache-param2">>
Props     == ToSet(propNames)
PinProps  == {"rxpin", "txpin", "tvpin"}
LineEdits == PinProps \cup {"clkfreq"}
KeptEdits == {"cache-driver", "cache-param1", "cache-param2"}    \* line edits that are never cleared
Combos    == Props \ (LineEdits \cup KeptEdits)
Offered(tag) == {e[2] : e \in {f \in Entries : f[1] = tag}}
-----------------------------------------------------------------------------
(* Reading the file. *)

split(l, p) ==
  LET cuts == <<0>> \o SelectSeq([i \in 1..Len(l) |-> i], LAMBDA i : l[i] = p) \o <<Len(l) + 1>>
  IN  [k \in 1..Len(cuts) - 1 |-> SubSeq(l, cuts[k] + 1, cuts[k + 1] - 1)]
blank(p) == p \in {"sp", "nl"}
trimmed(l) ==
  LET s == from(l, until(l, LAMBDA p : ~blank(p)))
  IN  SubSeq(s, 1, SelectLastInSeq(s, LAMBDA p : ~blank(p)))
before(l, p) == SubSeq(l, 1, until(l, LAMBDA x : x = p) - 1)

toInt(v) == IF Len(v) = 1 /\ v[1] \in DOMAIN Number \ Suffixed THEN Number[v[1]] ELSE 0

(* What is no frequency, or no pin that is free, is left aside; what is no *)
(* number at all passes for pin 0. *)
valid(prop, v) ==
  /\ prop = "clkfreq" => toInt(v) > 0
  /\ prop \in PinProps => toInt(v) \in 0..31 \ {28, 29}

XBasicBoard(name) == [name |-> name, prop |-> [p \in Props |-> <<>>], count |-> 0]

(* A tag with a space behind it is another tag; each tag counts. *)
parseConfig(board, file) ==
  LET lines == split(file, "nl")
      line  == [i \in 1..Len(lines) |-> trimmed(before(lines[i], "#"))]
      pairs == SelectSeq([i \in 1..Len(lines) |-> [tag |-> before(line[i], ":"), line |-> line[i]]], LAMBDA s : s.tag # s.line)
      value(s)   == trimmed(from(s.line, Len(s.tag) + 2))
      given(tag) == SelectSeq(pairs, LAMBDA s : s.tag = <<tag>> /\ valid(tag, value(s)))
  IN  [board EXCEPT !.count = Len(pairs),
                    !.prop = [p \in Props |-> IF given(p) = <<>> THEN <<>> ELSE value(Last(given(p)))]]

(* A part with no settings leaves a name without a board. *)
loadBoards(file) ==
  LET parts == SelectSeq(split(file, "["), LAMBDA part : part # <<>>)
      head  == [i \in 1..Len(parts) |-> before(parts[i], "]")]
      all   == [i \in 1..Len(parts) |->
                 parseConfig(XBasicBoard(trimmed(head[i])),
                             trimmed(IF head[i] = parts[i] THEN parts[i] ELSE from(parts[i], Len(head[i]) + 2)))]
  IN  [names |-> [i \in 1..Len(all) |-> all[i].name], boards |-> SelectSeq(all, LAMBDA b : b.count > 0)]
-----------------------------------------------------------------------------
(* The fields. *)

(* A combo box changes to what it offers; some line edits are only ever    *)
(* filled. *)
setDialogBoardInfo(board) ==
  fields' = [t \in Props |->
    CASE t \in LineEdits -> board.prop[t]
      [] t \in KeptEdits -> IF board.prop[t] # <<>> THEN board.prop[t] ELSE fields[t]
      [] t \in Combos    -> IF board.prop[t] \in Offered(t) THEN board.prop[t] ELSE fields[t]]

Optional == KeptEdits \cup {"tvpin", "cache-size", "flash-size", "ram-size"}
setBoardInfo(board) ==
  [board EXCEPT !.prop = [p \in Props |->
     IF (p \in Optional /\ fields[p] = <<>>) \/ ~valid(p, fields[p]) THEN board.prop[p] ELSE fields[p]]]

crash == dialog' = "crashed" /\ UNCHANGED fields
getBoardData(bs, name) == SelectInSeq(bs, LAMBDA b : b.name = name)
show(bs, name) ==
  LET n == getBoardData(bs, name) IN IF n = 0 THEN crash ELSE dialog' = "open" /\ setDialogBoardInfo(bs[n])

EditorInit ==
  /\ boardNames = <<>> /\ boards = <<>> /\ items = <<>> /\ currentIndex = 0 /\ currentText = <<>>
  /\ fields = [t \in Props |-> CASE t = "clkfreq" -> <<"80000000">> [] t = "rxpin" -> <<"31">> [] t = "txpin" -> <<"30">>
                                 [] t = "tvpin" -> <<"12">> [] t = "clkmode" -> <<"RCFAST">> [] t = "baudrate" -> <<"9600">>
                                 [] t \in {"text", "data"} -> <<"hub">> [] OTHER -> <<>>]
  /\ saved = FALSE /\ events = 0

OpenDialog ==
  /\ dialog = "before"
  /\ \E config \in {loadBoards(text)} :
       /\ boardNames' = config.names /\ boards' = config.boards
       /\ IF config.boards = <<>> THEN dialog' = "open" /\ UNCHANGED <<items, currentIndex, currentText, fields>>
          ELSE /\ items' = config.names /\ currentIndex' = 1 /\ currentText' = items'[1]
               /\ show(config.boards, currentText')
  /\ UNCHANGED <<configVars, saved, events>>
-----------------------------------------------------------------------------
(* What the user does. *)

event == dialog = "open" /\ events < MaxEvents /\ events' = events + 1

(* The combo box has an item activated, which is the only thing that the   *)
(* dialog hears of it. *)
boardChanged(list, i) ==
  /\ items' = list /\ currentIndex' = i /\ currentText' = list[i]
  /\ show(boards, list[i])
  /\ UNCHANGED <<configVars, boardNames, boards, saved>>

ChooseBoard == event /\ \E i \in 1..Len(items) : boardChanged(items, i)

(* The combo box is editable.  Whoever leaves it behind the name of another *)
(* item has chosen that item. *)
findText(name) == SelectInSeq(items, LAMBDA x : x = name)
TypeName ==
  /\ event
  /\ \E name \in NewNames :
       IF findText(name) \in {0, currentIndex} THEN
         currentText' = name
         /\ UNCHANGED <<configVars, dialog, boardNames, boards, items, currentIndex, fields, saved>>
       ELSE boardChanged(items, findText(name))

(* Enter inserts a name that is not listed as the last item, and activates *)
(* the item: there is no board of that name yet. *)
EnterName ==
  /\ event /\ currentText # <<>>
  /\ IF findText(currentText) = 0 THEN boardChanged(Append(items, currentText), Len(items) + 1)
     ELSE boardChanged(items, findText(currentText))

Edit ==
  /\ event
  /\ \E e \in Entries : fields' = [fields EXCEPT ![e[1]] = e[2]]
  /\ UNCHANGED <<configVars, dialog, boardNames, boards, items, currentIndex, currentText, saved>>

named(name) == SelectInSeq(boardNames, LAMBDA x : x = name)

(* A slip: the name goes and the board stays. *)
deleteBoardByName_only(name) ==
  LET n == named(name) IN
    /\ boardNames' = (IF n = 0 THEN boardNames ELSE RemoveAt(boardNames, n))
    /\ UNCHANGED boards
deleteBoardByName(name) ==
  LET n == named(name) IN
    /\ boardNames' = (IF n = 0 THEN boardNames ELSE RemoveAt(boardNames, n))
    /\ boards' = (IF n = 0 \/ n > Len(boards) THEN boards ELSE RemoveAt(boards, n))

(* The combo box selects another item, or none; the fields go on showing   *)
(* the board that is gone. *)
deleteBoard ==
  /\ event
  /\ deleteBoardByName(currentText)
  /\ items' = (IF currentIndex = 0 THEN items ELSE RemoveAt(items, currentIndex))
  /\ currentIndex' \in 0..Len(items')
  /\ currentText' = (IF currentIndex' = 0 THEN <<>> ELSE items'[currentIndex'])
  /\ UNCHANGED <<configVars, dialog, fields, saved>>

getFormattedConfig(board) ==
  <<"[">> \o board.name \o <<"]", "nl">>
  \o FlattenSeq([i \in 1..Len(propNames) |->
       LET v == board.prop[propNames[i]] IN IF v = <<>> THEN <<>> ELSE <<"sp", propNames[i], ":", "sp">> \o v \o <<"nl">>])
  \o <<"nl">>

(* A name that is listed but has no board, or no longer its own, is one    *)
(* behind the end of the list of boards. *)
saveBoards ==
  LET listed == IF named(currentText) = 0 THEN Append(items, currentText) ELSE items
      board(name) ==
        IF named(name) = 0 THEN setBoardInfo(XBasicBoard(name))
        ELSE IF name = currentText THEN setBoardInfo(boards[named(name)]) ELSE boards[named(name)]
      missing(name) == IF named(name) = 0 THEN name # currentText ELSE named(name) > Len(boards)
  IN  IF \E i \in 1..Len(listed) : missing(listed[i]) THEN crash /\ UNCHANGED <<text, items, saved>>
      ELSE /\ items' = listed
           /\ \/ text' = FlattenSeq([i \in 1..Len(listed) |-> getFormattedConfig(board(listed[i]))]) /\ saved' = TRUE
              \/ UNCHANGED <<text, saved>>     \* the question whether to save was answered with no
           /\ dialog' = "done" /\ UNCHANGED fields

accept ==
  /\ dialog = "open"
  /\ saveBoards
  /\ UNCHANGED <<boardConfigs, iValue, parsing, boardNames, boards, currentIndex, currentText, events>>

reject ==
  /\ dialog = "open" /\ dialog' = "done"
  /\ UNCHANGED <<configVars, boardNames, boards, items, currentIndex, currentText, fields, saved, events>>

EditorStep == OpenDialog \/ ChooseBoard \/ TypeName \/ EnterName \/ Edit \/ deleteBoard \/ accept \/ reject
=============================================================================
