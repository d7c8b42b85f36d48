---------------------------- MODULE BoardPromise -----------------------------
(***************************************************************************)
(* What xbcom, xload and the IDE promise about the board: the meaning of a *)
(* configuration, given board by board beside its text, and what has to    *)
(* reach the chip.                                                         *)
(***************************************************************************)
EXTENDS XBCom

(* What the description says of a board b; of a setting that is given      *)
(* twice, the last.  UNDEFINED is an expression that means nothing. *)
UNDEFINED == -1
ASSUME DescriptionAssumption ==
  \A t \in Tasks :
    /\ t.boards \in Seq(Range(t.boards))
    /\ \A b \in Range(t.boards) :
         /\ b.settings \in Seq(Range(b.settings))
         /\ \A s \in Range(b.settings) : s[1] \in NumericTags => s[3] = UNDEFINED \/ IsWord(s[3])

Described(name) == SelectInSeq(task.boards, LAMBDA b : b.name = name)
Given(b, tag)   == SelectLastInSeq(b.settings, LAMBDA s : s[1] = tag)
worth(s) ==
  IF s[1] \in StringTags THEN s[2]
  ELSE IF s[1] \in ByteTags /\ s[3] # UNDEFINED THEN s[3] % 256 ELSE s[3]
nothing(tag) == IF tag \in StringTags THEN NULL ELSE 0
MeantFor(b, tag) == IF Given(b, tag) = 0 THEN nothing(tag) ELSE worth(b.settings[Given(b, tag)])
MeantSections(b) ==
  LET given == SelectSeq(b.settings, LAMBDA s : s[1] \in SectionTags)
  IN  Append([i \in 1..Len(given) |-> IF given[i][1] = "ram-size" THEN NewSection("ram", RAM_BASE, given[i][3])
                                      ELSE NewSection("flash", FLASH_BASE, given[i][3])],
             NewSection("hub", HUB_BASE, HUB_SIZE))
Meant(tag) == MeantFor(task.boards[Described(task.board)], tag)
IsFor(tag, v) == Meant(tag) \in {UNDEFINED, v}

ConfigurationIsAsDescribed ==
  parsing = "done" /\ task.boards # <<>> /\ ~saved =>
    IF Described(task.board) = 0 THEN GetBoardConfig(task.board) = 0
    ELSE LET c == config IN
      /\ \A tag \in NumericTags : IsFor(tag, c.num[tag])
      /\ \A tag \in StringTags : c.str[tag] = Meant(tag)
      /\ c.sections = MeantSections(task.boards[Described(task.board)])

(* A file that the dialog understands: distinct boards, each with settings *)
(* that have no space before the colon, frequencies that are plain         *)
(* numbers, and pins that exist and are free. *)
Editable ==
  /\ task.layout = "compact" /\ task.boards # <<>>
  /\ \A i \in 1..Len(task.boards) :
       /\ \A j \in 1..i - 1 : task.boards[j].name # task.boards[i].name
       /\ task.boards[i].settings # <<>>
       /\ \A s \in ToSet(task.boards[i].settings) :
            /\ s[1] = "clkfreq" => Len(s[2]) = 1 /\ s[2][1] \notin Suffixed
            /\ s[1] \in {"rxpin", "txpin", "tvpin"} => s[3] \in 0..31 \ {28, 29}

(* A setting as the compiler reads it from the file, and as the dialog     *)
(* shows it. *)
ReadAs(c, tag) ==
  LET size(name) == IF GetSection(c, <<name>>) = 0 THEN 0 ELSE c.sections[GetSection(c, <<name>>)].size
  IN  CASE tag \in NumericTags -> c.num[tag]
        [] tag \in StringTags  -> c.str[tag]
        [] tag = "flash-size"  -> size("flash")
        [] tag = "ram-size"    -> size("ram")
Known == Entries \cup UNION {ToSet(task.boards[i].settings) : i \in 1..Len(task.boards)}
Shown(tag) ==
  IF fields[tag] = <<>> THEN nothing(tag) ELSE worth(CHOOSE s \in Known : s[1] = tag /\ s[2] = fields[tag])

(* Enter was pressed behind a name that no board has: it has become the    *)
(* last item, and is shown as if it were a board. *)
EnteredUnknown == items # <<>> /\ currentText = Last(items) /\ named(currentText) = 0

(* Who saves in the dialog changes one board, the one whose name it shows, *)
(* to what it shows; all the others that were not deleted are for the      *)
(* compiler what they were, in their order, whatever was selected, typed,  *)
(* edited and deleted in between.  The dialog crashes on a file that it    *)
(* understands in one way only: boardChanged uses the null board when      *)
(* Enter is pressed behind a name that no board has. *)
EditorKeepsBoards ==
  task.command = "edit" /\ Editable =>
    /\ dialog = "crashed" => EnteredUnknown
    /\ saved /\ currentText # <<>> => parsing # "error"
    /\ saved /\ parsing = "done" =>
         /\ [i \in 1..Len(boardConfigs) |-> boardConfigs[i].name] = items
         /\ \A i \in 1..Len(boardConfigs) :
              LET c == boardConfigs[i]
                  d == Described(c.name)
              IN  IF c.name # currentText THEN \A tag \in Props : ReadAs(c, tag) = MeantFor(task.boards[d], tag)
                  ELSE \A tag \in Props :
                         \/ ReadAs(c, tag) = Shown(tag)
                         \/ d # 0 /\ ReadAs(c, tag) = MeantFor(task.boards[d], tag)

(* Four bytes of an int, and the bytes of a Spin program for this board    *)
(* that do not depend on which of the three it is. *)
Word(p, i) == p[i] + 256 * (p[i + 1] + 256 * (p[i + 2] + 256 * p[i + 3]))
ForTheBoard(p, at_dat) ==
  /\ sum(p) = TARGET_CHECKSUM
  /\ IsFor("clkfreq", Word(p, 1)) /\ IsFor("clkmode", p[5])
  /\ IsFor("baudrate", Word(p, at_dat)) /\ IsFor("rxpin", p[at_dat + 4]) /\ IsFor("txpin", p[at_dat + 5])

HelperFits(p) == ForTheBoard(p, 9) /\ IsFor("tvpin", p[15]) /\ SubSeq(p, 17, Len(p)) = serial_helper
LoaderFits(p) ==
  /\ ForTheBoard(p, 13)
  /\ LET code == SubSeq(p, 21, Len(p)) IN
       IF Meant("cache-driver") # NULL THEN IsFor("cache-size", Word(p, 9)) /\ code = flash_loader
       ELSE /\ SubSeq(code, 1, Len(hub_loader)) = hub_loader
            /\ \A i \in 1..Len(image) : Word(code, Len(hub_loader) + 4 * i - 3) = image[i]
            /\ Len(code) = Len(hub_loader) + 4 * max_image_size

(* The boards of the configuration file are what the file describes, and   *)
(* what the Propeller runs, or has in its EEPROM, was made for the board   *)
(* that was asked for: its clock, its pins, its baud rate, with the        *)
(* checksum that the chip insists on.  Unless the line fails, the helper   *)
(* answers and the EEPROM is written. *)
ProgramIsForTheBoard ==
  /\ ConfigurationIsAsDescribed
  /\ (chip \in {"run", "program"} => HelperFits(ram)) /\ (eeprom # <<>> => LoaderFits(eeprom))
  /\ xpc = "connected" => chip = "program" \/ disturbed
  /\ bpc = "loaded" /\ ~disturbed => IF type = 1 THEN chip \in {"run", "program"} ELSE eeprom = dlbuf

(* The host finds a Propeller, whatever junk the port still had for it,    *)
(* unless the line fails; it does not take another device for one, nor     *)
(* reads another version; and the ring of the IDE, which never comes back  *)
(* to its start, is long enough for all that is said. *)
FindsThePropeller ==
  /\ bpc = "failed" /\ device = "propeller" => disturbed
  /\ bpc = "found" /\ ~disturbed => device = "propeller" /\ version = Version
  /\ host = "ide" => rxhead + Len(toHost) <= RingSize

(* The sections in the order of the image file, what its header says of    *)
(* each, and where each begins when they lie one behind the other. *)
order == [s \in 1..Len(sections) |-> IF s = 1 THEN textTarget ELSE IF s > textTarget THEN s ELSE s - 1]
field(s, k) == image[3 * s + 2 + k]
start[s \in 1..Len(sections) + 1] == IF s = 1 THEN 0 ELSE start[s - 1] + field(s - 1, 3)
Announced == [FLASH_WRITE |-> FLASH_BASE, RAM_WRITE |-> RAM_BASE, HUB_WRITE |-> HUB_BASE]
WholeImage ==
  /\ \A s \in 1..Len(sections) :
       /\ field(s, 1) = sections[order[s]].base
       /\ field(s, 2) = start[s]
       /\ \A i \in 1..Len(placed) :
            placed[i][1] = order[s] => image[field(s, 2) + placed[i][2] + 1] = placed[i][3]
  /\ Len(image) = start[Len(sections) + 1]
  /\ Announced[OpenAndProbeFile(image)] = sections[textTarget].base

(* The image file holds every word of the program where the section of its *)
(* address says, the sections lie one behind the other and fill the file,  *)
(* and the host announces it for the memory that its code is for. *)
ImageFileIsWhole == xpc = "port" /\ task.command = "xbcom" => WholeImage

(* A program that turns to the port comes to an end, whatever is there:    *)
(* every wait has its timeout and every retry its limit. *)
ComesToAnEnd == xpc \in {"port", "boot"} ~> xpc = "exit"
=============================================================================
