-------------------------------- MODULE XBCom --------------------------------
(***************************************************************************)
(* The way of a program to the board: xbcom (src/compiler/xbcom.c) reads   *)
(* the board configuration, compiles, and hands the image to the loader    *)
(* (LoadImage and its neighbours in src/loader/db_loader.c), which patches *)
(* a Spin program for the board and boots the chip with it.  xload loads   *)
(* an image compiled before; the IDE asks only whether a Propeller is at    *)
(* the port, or edits the configuration before xbcom reads it.  Composes   *)
(* BoardConfig, BoardEditor, ImageFile and Boot.                           *)
(***************************************************************************)
EXTENDS Boot, BoardEditor

CONSTANTS
  Tasks,           \* what the programs may be asked to do
  serial_helper,   \* code of the three Spin programs behind their headers
  hub_loader,
  flash_loader,
  max_image_size   \* words that fit into the hub loader; 18K in the code

(* The numbers of 32 bits, and the words that the first b blocks store.    *)
IsWord(w) == w \in Nat /\ w \div 16777216 < 256
Words == {w \in Nat : IsWord(w)}
stored(program, b) ==
  LET total[k \in 0..b] ==
        IF k = 0 THEN 0 ELSE total[k - 1] + (IF program[k].to = "fixup" THEN 0 ELSE Len(program[k].words))
  IN  total[b]

(* A program begins with code; words that it has stored are changed in the *)
(* end, when the references are known. *)
IsProgram(program) ==
  /\ program \in Seq(Range(program))
  /\ program # <<>> /\ program[1].to # "fixup" /\ program[1].words # <<>>
  /\ \A k \in 1..Len(program) : program[k].to = "fixup" => program[k].at \in 1..stored(program, k - 1) /\ program[k].value \in Words
  /\ \A k \in 1..Len(program) : program[k].to # "fixup" => program[k].words \in Seq(Words)
  /\ \A k \in 1..Len(program) - 1 : program[k].to = "fixup" => program[k + 1].to = "fixup"

(* Without an option xbcom stops after the compilation, and so it does     *)
(* where the user edits the boards.                                        *)
ASSUME TasksAssumption ==
  \A t \in Tasks :
    /\ t.option # "none" => t.command \in {"xbcom", "xload"} /\ t.boards # <<>>
    /\ t.file \in Seq(Range(t.file)) /\ t.image \in Seq(Words) /\ IsProgram(t.program)

(* Spin programs are whole longs, and small.                               *)
ASSUME SpinAssumption ==
  /\ \A code \in {serial_helper, hub_loader, flash_loader} :
       code \in Seq(0..255) /\ Len(code) % 4 = 0 /\ 5 + Len(code) \div 4 + max_image_size < 65536
  /\ max_image_size \in Nat /\ {IMAGE_TAG, IMAGE_VERSION, StackSize} \subseteq Words

VARIABLES
  task,            \* what was asked for
  xpc,             \* where the program is
  compiled,        \* blocks of the source stored so far
  outcome          \* exit status

boardVars == <<configVars, editorVars>>
vars == <<boardVars, imageVars, bootVars, task, xpc, compiled, outcome>>

image  == IF task.command = "xload" THEN task.image ELSE fp[textTarget]
config == boardConfigs[GetBoardConfig(task.board)]
cached == config.str["cache-driver"] # NULL

exit(how) == xpc' = "exit" /\ outcome' = how

Init ==
  /\ task \in Tasks
  /\ ConfigInit(task.file) /\ EditorInit /\ ImageInit /\ BootInit
  /\ dialog = IF task.command = "edit" THEN "before" ELSE "done"
  /\ host = IF task.command = "ide" THEN "ide" ELSE "loader"
  /\ device = task.device
  /\ dlbuf = <<>> /\ type = 0
  /\ xpc = IF task.command = "ide" THEN "boot" ELSE "config"
  /\ compiled = 0
  /\ outcome = "none"
-----------------------------------------------------------------------------
(* main of xbcom, and the compiler. *)

(* The user may edit the file first, with the dialog of the IDE. *)
EditConfiguration ==
  /\ xpc = "config"
  /\ \/ EditorStep /\ UNCHANGED <<xpc, outcome>>
     \/ dialog = "crashed" /\ exit("crash") /\ UNCHANGED boardVars
  /\ UNCHANGED <<imageVars, bootVars, task, compiled>>

ReadConfiguration ==
  /\ xpc = "config" /\ dialog = "done"
  /\ ParseConfigurationFile
  /\ UNCHANGED <<editorVars, imageVars, bootVars, task, xpc, compiled, outcome>>

ConfigurationError ==
  /\ xpc = "config" /\ parsing = "error"
  /\ exit("error")
  /\ UNCHANGED <<boardVars, imageVars, bootVars, task, compiled>>

SelectBoard ==
  /\ xpc = "config" /\ parsing = "done"
  /\ \/ GetBoardConfig(task.board) = 0 /\ exit("error") /\ UNCHANGED imageVars
     \/ /\ GetBoardConfig(task.board) # 0 /\ task.command = "xload"
        /\ xpc' = "port" /\ UNCHANGED <<outcome, imageVars>>
     \/ /\ GetBoardConfig(task.board) # 0 /\ task.command # "xload"
        /\ InitCompiler(config)
        /\ IF textTarget' = 0 \/ dataTarget' = 0 THEN exit("error") ELSE xpc' = "start" /\ UNCHANGED outcome
  /\ UNCHANGED <<boardVars, bootVars, task, compiled>>

(* The program is a list of blocks to store, and of words stored before    *)
(* that turn out otherwise. *)
section(block) ==
  CASE block.to = "text" -> textTarget [] block.to = "data" -> dataTarget [] OTHER -> GetSection(config, <<block.to>>)
StartCompile ==
  /\ xpc = "start" /\ StartImage
  /\ xpc' = "compile"
  /\ UNCHANGED <<boardVars, bootVars, task, compiled, outcome>>

CompileBlock ==
  /\ xpc = "compile" /\ compiled < Len(task.program)
  /\ compiled' = compiled + 1
  /\ LET block == task.program[compiled'] IN
       \/ /\ block.to = "fixup" /\ UNCHANGED <<xpc, outcome>>
          /\ WriteSectionOffset(placed[block.at][1], placed[block.at][2], block.value)
       \/ block.to # "fixup" /\ section(block) # 0 /\ WriteSection(section(block), block.words) /\ UNCHANGED <<xpc, outcome>>
       \/ block.to # "fixup" /\ section(block) = 0 /\ exit("error") /\ UNCHANGED imageVars
  /\ UNCHANGED <<boardVars, bootVars, task>>

FinishImage ==
  /\ xpc = "compile" /\ compiled = Len(task.program)
  /\ BuildImage(placed[1][2])
  /\ xpc' = "port"
  /\ UNCHANGED <<boardVars, bootVars, task, compiled, outcome>>

(* The port opens, with all its settings, or it does not. *)
serial_init == {TRUE, FALSE}
InitPort ==
  /\ xpc = "port"
  /\ IF task.option = "none" THEN exit("ok")
     ELSE \E opened \in serial_init :
            IF ~opened THEN exit("error")
            ELSE xpc' = (IF task.option = "run" \/ cached THEN "load" ELSE "write") /\ UNCHANGED outcome
  /\ UNCHANGED <<boardVars, imageVars, bootVars, task, compiled>>
-----------------------------------------------------------------------------
(* The Spin programs: clock and checksum in the header, the rest in the    *)
(* first words of the data. *)

binary(chksum, data) == le(config.num["clkfreq"]) \o <<config.num["clkmode"], chksum, 0, 0>> \o data
pins   == <<config.num["rxpin"], config.num["txpin"]>>
bytes(words) == [i \in 1..4 * Len(words) |-> le(words[(i - 1) \div 4 + 1])[((i - 1) % 4) + 1]]

checksum(data) == (TARGET_CHECKSUM - sum(binary(0, data))) % 256
patched(data) == binary(checksum(data), data)

ploadbuf(buf, download) ==
  /\ dlbuf' = buf /\ type' = download
  /\ bpc' = "reset" /\ retry' = 1
  /\ xpc' = "boot"
  /\ UNCHANGED <<host, device, toChip, toHost, chipVars, locals, ring, faults, disturbed, outcome>>

LoadImage ==
  /\ xpc = "load"
  /\ ploadbuf(patched(le(config.num["baudrate"]) \o pins \o <<config.num["tvpin"], 0>> \o serial_helper), 1)
  /\ UNCHANGED <<boardVars, imageVars, task, compiled>>

(* LoadImage has run before: it found the cache driver. *)
WriteFlashLoaderToEEPROM ==
  /\ xpc = "write" /\ cached
  /\ ploadbuf(patched(le(config.num["cache-size"]) \o le(config.num["baudrate"]) \o pins \o <<0, 0>>
                      \o flash_loader), 2)
  /\ UNCHANGED <<boardVars, imageVars, task, compiled>>

room == max_image_size - Len(image)
WriteHubLoaderToEEPROM ==
  /\ xpc = "write" /\ ~cached
  /\ IF room >= 0
       THEN ploadbuf(patched(le(0) \o le(config.num["baudrate"]) \o pins \o <<0, 0>> \o hub_loader
                             \o bytes(image) \o bytes([i \in 1..room |-> 0])), 2)
       ELSE exit("ok") /\ UNCHANGED bootVars
  /\ UNCHANGED <<boardVars, imageVars, task, compiled>>

(* What became of the EEPROM makes no difference to the exit of xbcom. *)
Booted ==
  /\ xpc = "boot" /\ UNCHANGED <<boardVars, imageVars, task, compiled>>
  /\ \/ bpc = "failed" /\ bpc' = "idle" /\ exit(IF type = 2 THEN "ok" ELSE "error")
     \/ bpc = "loaded" /\ type = 2 /\ bpc' = "idle" /\ exit("ok")
     \/ bpc = "loaded" /\ type = 1 /\ bpc' = "connect" /\ UNCHANGED <<xpc, outcome>>
  /\ UNCHANGED <<job, toChip, toHost, chipVars, retry, locals, ring, faults, disturbed>>

(* The IDE opens the port with an empty ring and closes it with the        *)
(* answer.  A port that does not open counts as one with a Propeller: its  *)
(* caller takes the -1 for a yes. *)
isDevice ==
  /\ xpc = "boot" /\ host = "ide" /\ UNCHANGED <<boardVars, imageVars, task, compiled>>
  /\ \/ bpc = "idle" /\ bpc' = "reset" /\ UNCHANGED <<xpc, outcome>>
     \/ bpc = "idle" /\ bpc' = "idle" /\ exit("found")
     \/ bpc = "found" /\ bpc' = "idle" /\ exit("found")
  /\ UNCHANGED <<job, toChip, toHost, chipVars, retry, locals, ring, faults, disturbed>>

WaitForInitialAck ==
  /\ xpc = "boot" /\ bpc = "connect"
  /\ \/ /\ heard(1)
        /\ IF first = ACK THEN xpc' = "connected" /\ bpc' = bpc /\ UNCHANGED outcome
                          ELSE exit("error") /\ bpc' = "idle"
     \/ rx_gives_up(TRUE) /\ exit("error") /\ bpc' = "idle"
  /\ UNCHANGED <<boardVars, imageVars, task, compiled, job, toChip, chipVars, retry, locals>>

(* The cache driver is looked for along the path. *)
ReadCogImage == task.driver_file

(* The rest of LoadImage, packet by packet, is XLoad: here it succeeds or  *)
(* fails. *)
LoadRest ==
  /\ xpc = "connected"
  /\ bpc' = "idle"
  /\ \/ exit("error")
     \/ /\ OpenAndProbeFile(image) # "error" /\ (cached => ReadCogImage)
        /\ IF task.option = "run" THEN exit("ok") ELSE xpc' = "write" /\ UNCHANGED outcome
  /\ UNCHANGED <<boardVars, imageVars, task, compiled, job, toChip, toHost, chipVars, retry, locals, ring, faults, disturbed>>

BootHost == BootStep /\ xpc = "boot" /\ UNCHANGED <<boardVars, imageVars, task, xpc, compiled, outcome>>
Line(A)  == A /\ xpc # "exit" /\ UNCHANGED <<boardVars, imageVars, task, xpc, compiled, outcome>>
Host ==
  \/ EditConfiguration \/ ReadConfiguration \/ ConfigurationError \/ SelectBoard \/ StartCompile \/ CompileBlock \/ FinishImage
HostAtPort ==
  \/ InitPort \/ LoadImage \/ WriteFlashLoaderToEEPROM \/ WriteHubLoaderToEEPROM
  \/ Booted \/ isDevice \/ WaitForInitialAck \/ LoadRest \/ BootHost

Exited == xpc = "exit" /\ UNCHANGED vars
Next == Host \/ HostAtPort \/ Line(ChipStep) \/ Line(Stray) \/ Line(Lost) \/ Exited
Spec == Init /\ [][Next]_vars /\ WF_vars(HostAtPort) /\ WF_vars(Line(ChipStep))
=============================================================================
