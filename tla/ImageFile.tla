------------------------------ MODULE ImageFile ------------------------------
(***************************************************************************)
(* The image file: how the compiler collects the sections of a program and *)
(* puts them into one file (src/compiler/db_wrimage.c), and how the host   *)
(* finds out where it goes (OpenAndProbeFile of src/loader/db_loader.c).   *)
(* Sizes and offsets are counted in words.                                 *)
(***************************************************************************)
EXTENDS BoardConfig

CONSTANTS IMAGE_TAG, IMAGE_VERSION, StackSize

VARIABLES
  sections,      \* sections of the board the program is compiled for
  textTarget,    \* which of them the code goes to, and
  dataTarget,    \* which the data
  offset,        \* next available offset of each
  fp,            \* contents of the file of each: the image or a scratch file
  placed         \* history: what was placed, and at which address

imageVars == <<sections, textTarget, dataTarget, offset, fp, placed>>

HEADER  == 8     \* words of an ImageFileHdr, with the first section, and
SECTION == 3     \* of each further ImageFileSection

ImageInit ==
  /\ sections = <<>> /\ offset = <<>> /\ fp = <<>> /\ placed = <<>>
  /\ textTarget = 0 /\ dataTarget = 0

(* A name that was not given is no section; the code compares a NULL, and  *)
(* ends one way or the other. *)
InitCompiler(config) ==
  /\ textTarget' = GetSection(config, config.str["text"])
  /\ dataTarget' = GetSection(config, config.str["data"])
  /\ sections' = config.sections
  /\ UNCHANGED <<offset, fp, placed>>

(* The text section is written into the image itself, behind the header. *)
dataOffset == HEADER + (Len(sections) - 1) * SECTION
StartImage ==
  /\ offset' = [s \in 1..Len(sections) |-> IF s = textTarget THEN dataOffset ELSE 0]
  /\ fp' = [s \in 1..Len(sections) |-> IF s = textTarget THEN [i \in 1..dataOffset |-> 0] ELSE <<>>]
  /\ UNCHANGED <<sections, textTarget, dataTarget, placed>>

(* WriteSection and its callers: the words go to the end of the section. *)
WriteSection(s, words) ==
  /\ fp' = [fp EXCEPT ![s] = @ \o words]
  /\ offset' = [offset EXCEPT ![s] = @ + Len(words)]
  /\ placed' = placed \o [i \in 1..Len(words) |-> <<s, offset[s] + i - 1, words[i]>>]
  /\ UNCHANGED <<sections, textTarget, dataTarget>>

ReadSectionOffset(s, o) == fp[s][o + 1]
WriteSectionOffset(s, o, value) ==
  /\ fp' = [fp EXCEPT ![s][o + 1] = value]
  /\ placed' = [i \in DOMAIN placed |-> IF placed[i][1] = s /\ placed[i][2] = o THEN <<s, o, value>> ELSE placed[i]]
  /\ UNCHANGED <<sections, textTarget, dataTarget, offset>>

(* The sections but the text section, in the order of the board. *)
others == [n \in 1..Len(sections) - 1 |-> IF n < textTarget THEN n ELSE n + 1]
sizes(n) ==
  LET sum[i \in 0..n] == IF i = 0 THEN offset[textTarget] ELSE sum[i - 1] + offset[others[i]]
  IN  sum[n]

(* Slips: the offset of a section leaves out the sections before it, or    *)
(* the text section. *)
entry_alone(n)  == <<sections[others[n]].base, offset[textTarget], offset[others[n]]>>
entry_behind(n) == <<sections[others[n]].base, sizes(n - 1) - offset[textTarget], offset[others[n]]>>
entry(n) == <<sections[others[n]].base, sizes(n - 1), offset[others[n]]>>

(* The header, and the file: the sections are copied behind each other. *)
header(mainCode) ==
  <<IMAGE_TAG, IMAGE_VERSION, mainCode, StackSize, Len(sections), sections[textTarget].base, 0, offset[textTarget]>>
  \o [k \in 1..SECTION * Len(others) |-> entry((k - 1) \div SECTION + 1)[((k - 1) % SECTION) + 1]]
joined(mainCode) ==
  LET file[n \in 0..Len(others)] ==
        IF n = 0 THEN header(mainCode) \o from(fp[textTarget], Len(header(mainCode)) + 1) ELSE file[n - 1] \o fp[others[n]]
  IN  file[Len(others)]
BuildImage(mainCode) ==
  /\ fp' = [fp EXCEPT ![textTarget] = joined(mainCode)]
  /\ UNCHANGED <<sections, textTarget, dataTarget, offset, placed>>

(* The packet that announces an image, by its first section. *)
OpenAndProbeFile(image) ==
  IF Len(image) < HEADER \/ image[1] # IMAGE_TAG \/ image[2] # IMAGE_VERSION THEN "error"
  ELSE CASE image[6] = FLASH_BASE -> "FLASH_WRITE"
         [] image[6] = RAM_BASE   -> "RAM_WRITE"
         [] image[6] = HUB_BASE   -> "HUB_WRITE"
         [] OTHER                 -> "error"
=============================================================================
