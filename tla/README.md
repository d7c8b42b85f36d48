# Verification of xbasic

xbasic is a BASIC system for the Parallax Propeller, a chip with eight processors ("cogs"). A
compiler on the host turns a program into an image of byte code; a loader sends it over a serial
line; on the Propeller one cog receives packets, one stores them, one pages external memory through
a cache, and one interprets the byte code. This directory holds TLA+ models of these parts, TLC
configurations that check them on small instances, and TLAPS proofs of what should hold on all.

Paths below are those of the repository. `PROJECT.json` lists every component, run, mutant, hazard,
finding and theorem, and for every definition the lines of the source that it stands for.

## 1. The system

### Load: host, line, packet driver, helper

| part | state | operations |
| --- | --- | --- |
| `src/loader/xload.c`, `db_loader.c`, `db_packet.c` | packet number, place in the script | `InitPort`, `WaitForInitialAck`, `SendPacket`, `WaitForAckNak`; `LoadImage`, `RunLoadedProgram` |
| `spin/packet_driver.spin` (a cog) | receive state, two payload buffers, transmit ring, mailbox | `receive`, `dispatch` and its states, `send_ack_nak`, `transmit`, `stopx` |
| `spin/serial_helper.spin` (a cog) | write mode, load address, images for cogs | packet loop, eight handlers |

The host sends a packet and waits for ACK. The driver cog acknowledges a packet once its CRC is
right and the mailbox is free, publishes it there, and receives the next into the other buffer. The
helper polls the mailbox, handles the packet and releases it. *Hard:* three actors and a line that
loses and damages bytes; nobody looks at packet numbers; the acknowledgement precedes the handling;
timeouts against late answers; flash is erased one block ahead of the data; the driver is stopped
while its last reply may be on its way. *Correct when* the target takes in the packets of the
script, once, in order and unaltered, acts on each, runs only a whole image, and the host claims
success only then.

### External memory: cache driver, helper, VM

| part | state | operations |
| --- | --- | --- |
| `spin/c3_cache.spin` (a cog; `ssf_cache.spin` is the same loop for other chips) | tags, dirty bits, cache lines, SPI chips | `waitcmd`, `miss`, `BREAD`, `BWRITE`, erase and program |
| `spin/cache_interface.spin` (in the helper) | none | `start`, `writeLong`, `eraseFlashBlock`, `writeFlash` |
| `spin/xbasic_vm.spin` lines 601-747 (VM cog) | the last page and its line | `cache_read`, `cache_write`, load and store |

A client posts a request, the driver brings the page into a line and answers with the line's
address, and the client itself reads or writes the line. *Hard:* the driver marks a line as written
before it is; the VM goes past the driver when it returns to its last page; a RAM page has two
names; flash commands go past the cache. *Correct when* clients see one flat memory.

### Compiler

| part | state | operations |
| --- | --- | --- |
| `src/compiler/db_compiler.c`, `db_symbols.c` | pass, symbol table, strings, dependencies, fixups, sections | `Compile`, `StoreCode`, `ApplyLocalFixups`, `GenerateDependencies`, `UpdateReferences` |
| `db_scan.c` | stack of open files, list of included files, line buffer, place in it, inside a comment | `PushFile`, `GetLine`, `GetToken` and a function per kind of token |
| `db_statement.c` | function under construction, its tree, labels, block stack | a parser per statement |
| `db_expr.c`, `db_types.c` | none; types of nodes | a parser per level of the grammar, constant folding, type checks |
| `db_generate.c` | code buffer, generate block stack, chains of branches in the code | a generator per node |
| `db_pasm.c` (a copy is the program `pasm/pasm.c`) | location counter, global and local names | two passes over instructions of a cog; `ParseAsm` and `Assemble` of `db_statement.c` call it |
| `db_wrimage.c`, `xb_api.c`, `xbcom.c` | section files | image writer, entry points |

Three passes read the same source: the first enters names, the second finds out which functions
call which, the third generates code for those that the main program reaches. *Hard:* addresses are
used before they are known, and waiting words are linked through the code itself; parser state
outlives functions, lines and passes; branches out of nested statements are chained, chains merged,
and offsets written into what was generated long before. *Correct when* what compiles is what the
grammar says, each reference in the image is the address of what it means, and the code does what its
source says.

### A running program

| part | state | operations |
| --- | --- | --- |
| `spin/xbasic_vm.spin` (VM cog), `src/runtime/db_vmint.c` (the same machine on the host) | pc, tos, sp, fp, stack | the instructions, traps |
| `spin/vm_interface.spin`, `vm_runtime.spin` (Spin cog) | mailbox of command, status and function; state vector | `read_long`, `poll`, `continue`; `load`, `run`, `single_step`, `process_requests`, `do_trap` |
| `spin/FullDuplexSerial.spin` (Spin cog and a cog of its own with two tasks) | a ring for each direction | `rxcheck`, `rx`, `tx`; `receive`, `transmit` |

The Spin cog loads the image by commands to the VM cog, lets it run, and polls the status: the
machine stops for each trap, for a step or with an error, and hub memory then has its registers.
Characters go through the rings to and from the serial cog. *Hard:* three cogs that share memory
word by word without locks; a command is seen when its word is there, whatever its arguments are;
rings that fill; registers that are stored in some exits and not in others. *Correct when* all this
together is the machine of the byte code, nothing is lost or reordered, and errors are shown.

### The way to the board

| part | state | operations |
| --- | --- | --- |
| `src/common/db_config.c` | boards, each with its settings and sections; the number parsed last | `ParseConfigurationFile`, `ParseNumericExpr`, `GetBoardConfig` |
| `xbasic-qt/hardware.cpp`, `xbasicconfig.cpp`, `xbasicboard.cpp` (a dialog of the IDE) | names and boards in two lists, one set of fields | `loadBoards`, `boardChanged`, `deleteBoard`, `saveBoards` |
| `src/compiler/db_wrimage.c` | an offset and a file for each section | `StartImage`, `WriteSection`, `WriteSectionOffset`, `BuildImage` |
| `src/compiler/xbcom.c`, `xb_api.c`, `src/loader/xload.c`, `db_loader.c` | options, port | `main`, `xbInit`, `LoadImage`, `WriteFlashLoaderToEEPROM`, `WriteHubLoaderToEEPROM` |
| `src/loader/PLoadLib.c` | shift register, retries | `hwfind`, `upload` |
| `xbasic-qt/PropellerID.cpp` | the same, and a ring that a thread fills | `findprop`, `hwfind`, `portHandler`, `rx_timeout` |

xbcom reads what the board is like, compiles for its sections, puts the sections into one image file,
finds the chip by a handshake of two streams of bits, patches a Spin program with clock, pins and
sizes, and has the boot loader in ROM run it or keep it in EEPROM. *Hard:* settings are small
expressions read without much of a check, and a second program rewrites their file; the line may hold
junk of before; everything is retried; results are passed on as -1, 0 or not at all. *Correct when*
what the chip runs was made for the board that was asked for, the file has every word in its place, a
Propeller is told from other devices, and the host comes to an end.

### The rest

`src/common/*` (heaps, files, ports); `spin/hub_loader.spin`, `flash_loader.spin` (start-up);
`include/*.bas` (library); the other windows of `xbasic-qt/` (IDE, with a vendored serial port
library); samples, TV drivers, file converters.

## 2. Modules

| module | models | lines stand for |
| --- | --- | --- |
| `PacketFormat` | frames, checksum, CRC | `SendPacket`, `updcrc` |
| `HostScript` | the packets of a load | `LoadImage`, `WriteFile`, `RunLoadedProgram` |
| `PacketDriver` | the cog, and the line with its faults | `packet_driver.spin` |
| `SerialHelper` | packet loop, memories | `serial_helper.spin`, `rcv_packetx` |
| `XLoad` | the host; extends the four above | `db_packet.c`, `xload.c` |
| `LoadPromise` | what a load promises; `XLoad` implements it | |
| `MemoryMap` | pages, chips, lines, requests | address arithmetic of the three clients |
| `FlatMemory` | what the cache promises; `CacheDriver` implements it | |
| `CacheDriver` | the cog and its two clients | `c3_cache.spin`, `cache_interface.spin`, the VM's cache |
| `Compiler` | three passes over a source program | `Compile` and what it calls |
| `StackVM` | the byte code machine, in its two versions | `db_vmint.c`, `_start` to `fast_div` of `xbasic_vm.spin` |
| `StructuredCode` | structured statements, labels, GOTO: parser and generator | `ParseIf` ... `ParseGoto`, `code_if_statement` ... `merge` |
| `StructuredProgram` | beside it, what the lines of a body mean | |
| `ExpressionCode` | declarations, functions, expressions, PRINT and INPUT: parser, types, generator | `db_expr.c`, `db_types.c`, `ParseDim`, `ParseDef`, `ParsePrint`, ... `code_expr`, ... |
| `ExpressionProgram` | beside it, what the tokens mean; the library | |
| `VMRuntime` | the three cogs of a running program | `vm_runtime.spin`, `vm_interface.spin`, `FullDuplexSerial.spin`, commands of `xbasic_vm.spin` |
| `Lexer` | a line and its tokens; used three times | `db_scan.c` from `NextToken` on, and the copies of it in the assemblers |
| `Scanner` | files and lines in three passes | `db_scan.c` up to `GetToken`, `ParseStatement` |
| `ScannerText` | beside it, the tokens of a text | |
| `Assembler` | both drivers of the assembler, and the disassembler | `db_pasm.c`, `pasm.c`, `ParseAsm`, `db_vmdebug.c` |
| `AssemblyText` | beside it, what an instruction says | |
| `BoardConfig` | the configuration file and its boards | `db_config.c` |
| `BoardEditor` | the dialog that edits it | `hardware.cpp`, `xbasicconfig.cpp`, `xbasicboard.cpp` |
| `ImageFile` | sections on their way into a file | `db_wrimage.c`, `OpenAndProbeFile` |
| `Boot` | chip, line, and both programs that look for the chip | `PLoadLib.c`, `PropellerID.cpp`, `rx_timeout` of `osint_*.c` |
| `XBCom` | what is done for a program, from its configuration to the board; extends the four above | `xbcom.c`, `xload.c`, `xb_api.c`, `db_loader.c` |
| `BoardPromise` | beside it, what the settings mean and what has to reach the chip | |
| `MCXLoad`, `MCCompiler`, `MCStructured`, `MCExpressions`, `MCVMRuntime`, `MCScanner`, `MCAssembler`, `MCXBCom` | instances for TLC | |
| `XLoadProofs` | theorems: types and held packets of `XLoad` | |
| `ScriptProofs` | lemmas: bytes of a frame, the CRC register, pieces of a script, bounded induction | |
| `LoadProofs` | theorems: memories and cogs while a load goes on | |
| `DeliveryProofs` | theorems: from bytes to packets, success, refinement of `LoadPromise` | |
| `CacheProofs` | theorems: coherence, refinement of `FlatMemory` | |
| `CompilerProofs` | theorems: references, reachable functions, addresses | |
| `VMRuntimeProofs` | theorems: order on the lines, registers, refinement of the machine | |
| `BoardProofs` | theorems: boards read from a file, the image file, the search for the chip, what reaches it | |

`XLoad` extends `SerialHelper`, `PacketDriver`, `PacketFormat` and `HostScript`; `CacheDriver` and
`FlatMemory` extend `MemoryMap`. `XLoad` refines `LoadPromise` by counting (`accepted` and
`handled` become lengths, `total` the length of the script); `CacheDriver` refines `FlatMemory` by `contents`, the chips overlaid
with
the lines, and `pending`, the request whose effect is still to come. `StructuredCode` and
`ExpressionCode` extend `StackVM`, so that what they generate runs on it; `VMRuntime` extends it with
the cogs around it and refines it by `whole`, the machine after its last complete instruction.
`Scanner` and `Assembler` each take instances of `Lexer`.

### From code to model: load

- `hstate` is the place in `main`: `connect` in `WaitForInitialAck`, `send` before `SendPacket`,
  `await` in `WaitForAckNak`, `exit`. `snd_pktn` is the variable of `db_packet.c`. `sent` and
  `acked` are places in `Packets`, the `Script` of the `job`: the sequence of calls that `LoadImage`
  makes for an image (`file`, `type`) on a board (`cache`: the configuration names a cache driver).
- `rcv_state`, `rcv_chk`, `rcv_type`, `rcv_length`, `rcv_cnt`, `crc`, `rcv_buf1` are the registers
  of the cog (`rcv_buf1`, `pkt_buffer` and `packet` are buffer numbers). A step of `receive` is a
  byte, dispatched to `do_soh` ... `do_crc_lo`; `publish` is the code after the CRC, its mailbox
  writes and the swap of buffers, up to the reply; `send_byte` and `transmit` are the reply and the
  ring. `status`, `pkt_type`, `pkt_length` are the mailbox.
- `lpc` is the place in the packet loop: `poll_status`, `check_status`, `reset_status`,
  `fetch_packet`, `handle`, `release_packet`. `mem` is flash, external RAM and hub memory; a cell
  is a byte or `ERASED`. A cell that is programmed without being erased keeps what it had.
- A line fault loses, alters or inserts bytes, at most `MaxFaults` times in a behaviour and, by
  `hits`, at most once in a frame. `accepted` and `handled` are history.

What is abstracted: a byte of a payload is one of a few values, and the CRC is a register that
tells apart any two payloads that differ in a byte or in length, as one fault makes them (a CRC-16
does for a single damaged or lost byte; two errors in one frame it may miss, hence `hits`). The
header is protected by an additive checksum only, which the model computes. Noise never
manufactures an ACK towards the host, and does not spell a whole valid frame. Flash is programmed
in cells of a byte. The results of `writeFlash` and of the erase are ignored by the code and by the
model. A DATA packet that ends on a block boundary erases the block after it, as the code does,
also when the image ends there.

### From code to model: cache

- `cmd` and `addr` are the two longs of the mailbox; `NOLINE` is hub address 0. `tags` and `dirty`
  are the cog's tag words; they begin as the zeros of the cog image until `vmflush`. `driver` is
  the place in the loop: answer, write back, read in, mark and reply are steps of their own, as
  clients may observe them. An SPI transfer is one step, because the client waits.
- `user` is the helper until RUN and the VM afterwards; `start`, `Run` and the VM's start
  follow the code. `cacheaddr` and `cacheptr` are the VM's registers. `client` is where the user
  is between posting a request and touching the line.
- Addresses are counted in pages of a line. `SamePageSameLine` says that two names of a page share
  a line: the code owes it to `RAM_BASE`, SRAM and cache being powers of two each of which divides
  the one before. The VM does not write to flash (no instruction or library does), and `writeFlash`
  programs erased pages only: `FlashHoldsPrefix` of `XLoad` is what shows that the helper does so.

### From code to model: compiler

- `c` is the `ParseContext`, one field per field of it that matters. A line of the source is one
  step, by the branch of `ParseStatement` it takes. A statement other than DEF, END DEF and DIM is
  reduced to the one name it refers to; its code is an opcode and a word. A DIM inside a function
  makes a local variable, which is left out, as are arguments, array initializers, constants and
  expressions.
- `text` is the text section; its first cell stands for the image header, so that offset 0 ends a
  chain, as in the file. There is one text and one data section. `words` is history: the offset of
  every reference, and to what.
- Dependency lists are sets: the code looks a name up before it adds it, and nothing depends on the
  order but where a pass over the list begins. A walk along a chain that writes into each of its
  words (`ApplyLocalFixups`, `UpdateReferences`) is one write of all of them; `chain` is the walk, a
  recursive function from steps to offsets. `GenerateDependencies` is the worklist of the code.
- A freed heap and a null `c->function` are undefined behaviour in C; the model goes to the status
  `undefined` as soon as the code uses them, whatever it would do then. `intact` says that the tree
  under construction is still in the heap. ParseError leaves by longjmp: status `error`.

### From code to model: statements and expressions

- A body is a list of lines; `next` is the line the parser is at, `blocks` its block stack
  (`bptr`), `tree` the nodes by the line they begin at. A condition reads a character, so that both
  outcomes of each test are tried, and the statement `mark` writes the number of its line: those are
  the events that `meaning`, which walks over the lines and knows neither tree nor code, has to
  agree with. `Generate` is one step from the tree to `code`: the generator has no other actor
  beside it. Code is a sequence of cells, so that a chain runs through its words as in the code
  buffer. Labels have the fields `state`, `offset` and `fixups` of the code.
- `ExpressionCode` reads tokens. A parser is an operator from a context to a context, in the order
  of the calls of the code; an error is a field of it, as longjmp is of no other use. The context has
  the symbol tables, the types (values, not shared objects), the image of the sections and the code.
  One line of the source is one step. The second and third pass, which do the same with an
  expression, are one, and a function is placed when its definition starts: the fixups between the
  passes are what `Compiler` is about.
- `ExpressionProgram` reads the same tokens in a way of its own: it cuts an expression at the
  operator that binds least, and carries out assignments on named variables. `c` is only asked where
  a variable was put. The library functions write their number and their arguments, `inputInt`
  reads, so that `io` tells how PRINT and INPUT call them. The bodies of `print.bas` and `input.bas`
  are not modelled otherwise.
- `StackVM` has a variable `vm` that tells the interpreter of the host from the one in the cog:
  they differ in shifts, division by zero, and in what they call an error. Words have `Width` bits.
  The loops of `fast_mul` and `fast_div` are recursive definitions with the registers of the cog. C
  leaves the most negative number divided by -1 undefined: any value.

### From code to model: a running program

A step has one access to memory that another cog may use. `cog` is the place in `xbasic_vm.spin`
(`get_command` to `end_command`, `_next`, one place per command); `spin` is the place in the Spin code
with its locals and the call of the interface under way; `serial` holds the places of the two tasks.
Every multi-word access (arguments, then command word; state vector, then status) is split. A
character that is typed is a step of its own that the code cannot refuse: the ring overruns, as it
does in `receive`. What `show_status` prints is one item that carries the registers it shows.

### From code to model: text and assembler

- A text is a sequence of characters, of which a word may be one ("DIM"), since only its parts
  that are digits or signs matter. `Lexer` has the line, the place in it, `inComment` and the token.
  `l` in `Scanner` is the state of the scanner between lines: `currentFile` is the stack of open
  files, `includedFiles` the list that a pass clears at its end. `fgets` cuts a line at
  `MaxLine`. `ParseStatement` reads what each pass reads of a line: the first the first token,
  the others all of it.
- `Assembler` is the parser of a line and two loops around it. The tables of opcodes, conditions and
  effects are those of the code; `bytes` puts the fields of an instruction where the shifts of the
  code do. A value is exact within 16 bits; the programs stay within them. `DecodeFunction` is what
  the disassembler lists, without its layout.

### From code to model: the way to the board

- `text` is the file, as a sequence of words, numbers and signs; `boardConfigs` is the list
  of boards, the last still open; a line is a step. `iValue` is the variable of
  `ParseConfigurationFile` that holds the last number, uninitialized at first. A line that does not fit
  the buffer (`MaxLine`) goes on as a line of its own. Letters have no case.
- `BoardEditor` is what the user does in the dialog, a click or an entry a step: `boards` and
  `boardNames` are the lists of `XBasicConfig`, `items`, `currentIndex` and `currentText` the
  combo box, `fields` the others. A name can be typed, and Enter inserts it as an item and activates it, which is what
  Qt does with an editable combo box whose insert policy is not changed; a name that is listed is chosen
  when the field is left, and a click on a button leaves it (as on Linux and Windows; where buttons take no
  focus the typed text would stay beside the old item). It changes `text` before the compiler reads it. A null board that is
  used is `crashed`. `propNames` is the order of `getAll`.
- `ImageFile` counts in words; a section of the board has its `offset` and its file `fp`, and the text
  section is written into the image itself. `WriteSection` writes at the end of its file, which is where
  the code's file position is, since every patch comes after the last block (`db_compiler.c:159`). What is compiled is a list of blocks with the section they
  go to, and patches of words written before (`CompileBlock`).
- `Boot`: `bpc` is the place in `hwfind` or `upload`, the variables of which have their names. A write
  to the port is one step and succeeds or fails as a whole; a read takes what is there or gives up.
  It gives up although an answer is under way only as a fault. `Fault` loses a bit of the answer or a byte of the program, inserts a byte, or makes
  a read or write fail, at most `MaxFaults` times; `disturbed` is history, and says that one of them
  hit an answer. The chip is external: it takes in the stream of bits, answers with the second half of
  it and its version, takes longs, and checks their sum. Another device is silent or an echo. The ring
  of the IDE is filled by `portHandler`; `place` is where its index goes, by a step longer with each
  byte of one call.
- `XBCom`: `xpc` is the place in `main`. `LoadImage` patches the helper and has it run; the packets of
  the image, which are `XLoad`, succeed or fail as one (`LoadRest`). The IDE begins with the search
  for a Propeller (`isDevice`). The terminal that `-t` opens afterwards is left out.

## 3. Runs

All runs finish in under five minutes. Unless a row says so, deadlock is checked.

| run | question | bounds |
| --- | --- | --- |
| `noisy` | Are packets taken in and handled in order and unaltered, is success true, does flash hold the prefix, is a lost packet noticed (fair), does the whole implement `LoadPromise`? | each kind of image on boards with and without cache driver, five bytes in frames of two, flash blocks of four; two faults anywhere, the host may time out at any time |
| `burst` | Can noise that looks like a frame or a bad header start a program on half an image? Does the host always end, and on a calm line with the program running (`QuietLoadRuns`)? (fair) | each kind of image on boards with and without cache driver, eleven bytes in frames of eight, a header look-alike in the payload; one fault, or one burst of noise, or a calm line: no faults, target faster than the host's timeout |
| `cache` | Flat memory, coherence, covered accesses, a current remembered line, and an answer to every request (fair) | a line each for RAM and flash, of two cells; two RAM pages with two names, a flash page |
| `compile` | Are references resolved, functions stored iff reachable, addresses final? | all programs of a main function of up to two references, functions of up to two and one, in three orders, with and without DIM |
| `structured` | Does the parser take the nested bodies and no others? Does the code do what the lines say, with a balanced stack, and get there (fair)? | blocks in blocks, all kinds; every way out of a block; all sequences of up to three lines behind an opening one; two labels with jumps in every order; machine of six bits with a stack of twelve, block stack of five |
| `expressions` | Is what compiles what the grammar and the types allow? Are variables and initial values where they belong? Is what is stored, printed and read what the tokens mean? | all pairs of operators between constants, variables and elements; all sequences of four tokens out of eight; calls, arrays by reference, locals, constants, PRINT, INPUT; arrays of every size up to four with too few and too many initializers; both machines |
| `runtime` | Is the program with its three cogs the machine? Do lines keep their order, do errors and output get out (fair), are the registers shown current? | seven kinds of programs: echo, sum of loaded words, a burst of output, division by zero, a full stack, an illegal opcode; running and stepping; images whose second section is absent, cut or whole; rings of three, four characters typed at any time |
| `scanner` | Are the tokens of each pass those of the text? Is no file open twice? | all texts of up to five characters of comments, four of strings and words, three of numbers and operators; lines beyond the buffer of ten; three files that include each other in all ways of up to two lines |
| `assembler` | Are words what was written? Does the disassembler list what was written? | every opcode, condition and combination of effects; trees of two operators; all programs of up to four lines with labels and jumps; ASM blocks of up to two instructions; texts that are no programs |
| `xbcom` | Is every board what its text says, and after editing one of them the others still? Is the image file whole, does the chip run what was made for its board, is a Propeller told from other devices, does the host end (fair)? | configurations of up to two boards in two layouts, with repeated settings, several sections, undefined words, missing sections; eleven texts that are wrong; four events in the dialog on files of three boards, names of new and of deleted boards typed; programs of up to nine blocks; four bits of handshake, two attempts and retries, up to two faults; Propeller, echo or nothing at the port |
| `dim_in_main` | Does the compiler compile or reject every program? No: finding | up to three references |
| `labels` | Are undefined and duplicate labels reported? No: findings | bodies of up to four lines in which one label is missing and one is defined twice |

Why the bounds are enough. *Load:* five bytes in chunks of two give two whole chunks, the second of
which ends on a block boundary, and a rest; the erase ahead happens at a boundary and not at one;
the third packet of data meets both buffers again. Two faults are a damaged frame and a damaged
reply to it, or a fault in the resynchronisation after a fault. The payload bytes include SOH and a
header look-alike. *Cache:* every pair of pages that share a line is there, under both names. With
one line for RAM no line stays while another is evicted; the theorems below cover every size. *Compiler:* two references to one symbol make a chain of two
in a function, and two functions splice chains; two functions call each other or themselves, before
and after the main program; a function that is reached only through another needs the closure.
*Statements:* a block in a
block, each kind in each other, has every chain that is merged with another; three jumps to a label
make a chain of three, with labels before, between and after. Both outcomes of each test are tried.
*Expressions:* two operators show precedence and grouping, three the short circuits; numbers are six
bits wide, so that they wrap. *Runtime:* rings of three hold two; four characters overrun one and
wrap its index; the output of the longest program fills the other. *Text:* a comment, its end and
what is next to it fit into five characters; two nested includes and a third file make every
recursion. *Way to the board:* the settings use each of the operators, and chains of four; two boards show
that one ends where the next begins; three events select, edit and delete, or delete twice, before
saving; two faults are a disturbed first attempt and a disturbed second; the ring of the IDE has
25 places, of which 22 would not do. *Assembler:* a chain of three local scopes shows which of them a name belongs to.

Programs end, so the runs `compile`, `structured`, `expressions`, `scanner`, `assembler`, `runtime` and
the two that find something do not check deadlock. `GetsThere`, `OutputDrains` and `ErrorsAreShown`
are what says that the two running ones do not stop too early. `Finished` stutters
when the host of `XLoad` has ended, and `Exited` when that of `XBCom` has; a client of the cache always has a request to make.

### Fairness

`FairSpec` of `XLoad`: the host process is scheduled and its clock advances (weak fairness of
`HostStep`, which includes the timeout), and each of the two cogs goes on executing (weak fairness
of the driver, and of the helper). Cogs have no scheduler that could starve them. The line owes
nothing. `calm` with `Silent` is not fairness but a bound on time: the host's timeouts are far
longer than the target's work, as long as no handler hangs; only jobs on a calm line assume it.
`CacheDriver`: weak fairness of the driver and of the client that waits for it; no client has to ask
for anything. `StructuredProgram`: weak fairness of the machine, which a cog or a process executes
for as long as it runs. `VMRuntime`: weak fairness of each of the three cogs; nobody has to type.
`XBCom`: weak fairness of the host at the port, whose waits all have a timeout, and of the device,
which answers or does not; the user need do nothing, and the line owes nothing. Strays are bounded
with the faults: a device that never stops talking would keep the loop that empties the port
(`PLoadLib.c:146`) for ever. The compiler, the scanner and the assembler state safety only: each of
their steps is enabled until they are done.

## 4. Proofs

TLAPS checks, for every value of the constants that satisfies the named assumptions, what follows.

Assumptions. `PKTMAXLENAssumption`: a packet fits 16 bits, which is the field the frame has for its
length. `HostScriptAssumption`: images and flags are bytes, and the cache parameters and the flags of
RUN fit a packet. `PacketDriverAssumption`: the transmit ring has two places. `SerialHelperAssumption`: sizes are
positive, and a packet copied as longs stays in its buffer. `XLoadAssumption`: an erase block is
filled by whole packets (4096 and 1024 in the code; the erase ahead looks at block boundaries only
where a packet ends), images fit the memory they go to, a job is of one of three types.
`MapAssumption`, `SamePageSameLine`: sizes of the cache are positive, ranges do not overlap, and two
names of a page share a line. `VMRuntimeAssumption`: the ring has two places, and an image is as the
compiler writes it (`IsImage`). `StackVMAssumption`: sizes are positive. `NamesAssumption`: names of
functions, variables and strings differ (a symbol table has one entry for a name, strings have a table
of their own), functions and variables are finitely many, addresses are numbers. `ProgramsAssumption`:
a program is a sequence of lines, and a name is that of a function because the program defines one;
nothing else is asked of it: it may define a function twice, end none, or use what it has not declared.
`NumbersAssumption`, `DescriptionAssumption`: numbers in a configuration are integers, a configuration
describes a list of boards, each with a list of settings, and a setting that means something means a word of 32 bits. `TasksAssumption`: words of images and programs are of 32 bits, a program
begins with code, and changes words only after all are stored (`IsProgram`, as `UpdateReferences` does); who loads
names a board. `SpinAssumption`: the Spin programs are bytes, whole longs, and small.
`BootAssumption`: the version is not zero and fits its bits. `PatienceAssumption`: a bit that is late is
waited for longer than the line fails. `RingAssumption`: the ring has room for what is said in both
attempts and for the strays (2 * 509 + 6 <= 1024 in the code: with more than six stray bytes nothing is claimed). `LfsrAssumption`: the bits that are
compared are not those that an echo returns; the 250 bits of the code satisfy it, as those of the runs do.

### The load

- `XLoadProofs!TypeCorrect`: `Spec => []TypeOK`. `TypeOK` is not
  inductive: that the packet the host sends next exists needs `HostInStep` (`acked`, `sent` and
  `hstate` agree). `TypeInv == TypeOK /\ HostInStep` is inductive, one lemma per action. Its
  content is in `LengthFits` and `HelperTypeOK`: the receiver never writes beyond a buffer, although
  it takes the length from the line, and handlers that copy whole longs stay inside the packet.
- `XLoadProofs!HeldPacket`: `Spec => []HeldPacketIsStable`, inductive by itself relative to
  `TypeOK`. Whatever comes over the line, a packet that is published or held is not received over.
- `LoadProofs!LoadInvariant`: `Spec => []LoadInv`, for any line. `HistoryInv` counts: nothing is
  handled that was not taken in. `ProgressInv` says that while the packets taken in are those of the
  script, the number handled determines how far the memories, the write mode, the load address and
  the images of the cogs are. `FlashIsKept` and `OnlyWholeIsRun` follow from it:
  `Spec => [](AcceptedInOrder => FlashHoldsPrefix)` and the same for `RunOnlyWholeImage`. The work
  is in the erase ahead: a chunk that ends on a block boundary erases the next block, and no chunk
  may find cells that are not erased, nor an erase find cells that are loaded.
- `DeliveryProofs!DeliveryInvariant`: `Spec /\ OutwardHolds => []DeliveryInv`. `OutwardHolds` says
  that the line loses, damages and inserts no byte on its way *to* the target; answers may be lost
  or damaged as before, and the host may give up waiting at any time. `UnderWay` says that the bytes
  on the line are what is left of the frame of the packet sent last, after as many as the state
  of the receiver says are consumed, and that the registers hold what those bytes leave in them;
  `Arrived` that nothing is on the line. `Answered` bounds the answers under way by the packets not
  yet acknowledged, which is why an ACK is never taken for that of the next packet. `Mailed` says
  that the helper has handled all but the packet in the mailbox.
- From it: `TakenInOrder` (`[]AcceptedInOrder`), `SuccessIsReal` (`[]SuccessIsTrue`),
  `WholeOnTheBoard` (`[](FlashHoldsPrefix /\ RunOnlyWholeImage)`) and the refinement
  `LoadKeepsPromise` (`KeepsPromise`): a step is `TakeIn`, `Handle`, an acknowledgement or a verdict
  of `LoadPromise`, or stutters. `CalmIsSafe` is the four safety properties from `Spec` alone, for the
  jobs on a calm line.

Why `OutwardHolds`. Without it the four properties are not theorems: for some values of the
constants, noise or the bytes of a payload behind a lost byte spell a whole frame that the
checksums accept, and the driver takes it in, since nobody looks at packet numbers. That the alphabet of the runs has
no such frame is a fact about the CRC and the number of faults, which the runs `noisy`
and `burst` check by enumeration.

### The cache

- `CacheProofs!TypeCorrect`, `LinesCoherent`, `AccessesCovered`, `RememberedLineCurrent`: the four
  invariants of `CacheDriver`, from `CacheInv == TypeOK /\ Coherent /\ InStep`. `Coherent` alone is
  not inductive: what a driver step does to a line depends on the request it is at, so `InStep`
  says which request mailbox, client and driver are about at each place of the driver.
- `CacheProofs!CacheIsInvisible`: `Spec => ImplementsFlat`. Every step maps to a step of
  `FlatMemory` or to a stutter: the store to `PerformWrite`, the load to `PerformRead`, the flash
  commands, when the driver zeroes the mailbox, to erase and program, and write-back and line fill
  to stutters. `ShownByLine` and `ShownByChip` say when a page shows through a line, by the fact
  that two lines never hold one page (`TagAtHome` with `SamePageSameLine`).

### The running program

- `VMRuntimeProofs!CogsInStep`: `Spec => []RuntimeInv`. The three cogs share hub memory word by word;
  the invariant says, for each place of the Spin cog, where the machine's cog can be, what
  the mailbox holds, how much of the image is loaded, which of the exits the registers were
  stored in, and how ring indices relate to what is in the rings.
- `OrderKept` (`[]LinesKeepOrder`): the rings are queues, with a write before the index is moved on
  one side and a read before it on the other; for typed characters up to the first overrun.
- `RegistersShown` (`[]ShowsCurrentRegisters`). The proof showed that the invariant the run had
  checked before was weaker than meant (it left out the stack pointer and the top of the stack); it is now stated for all five.
- `RuntimeImplementsMachine` (`Spec => ImplementsMachine`): an instruction of the machine's cog is one
  of the machine; a GETCHAR or PUTCHAR trap is one when the Spin cog has done its part and
  the machine goes on; all else stutters. What single instructions compute is opaque to this proof, as it is the same
  definition on both sides, and so it needs no arithmetic on bits.

### The compiler

- `CompilerProofs!CompilerInvariantHolds`: `Spec => []CompilerInvariant`, for every program. The
  properties look at finished images; the invariant says what holds before each line of each pass.
  `Scanned`: which definitions have been found. `Reading`: `functionType` and `function` are those of
  the line (`Followed`), dependency lists hold what has been used so far (`Depends`), the tree is made
  of known names, functions among them being used there (`Building`); or the second pass begins
  inside a function that was never ended, and rejects the program (`Stuck`). `Placed`: variables have
  the places that were counted out, and functions have one if they are needed and have been ended.
  `Sections`: a frame starts where a function says and nowhere else (`Framed`), strings and words are
  where the tables say (`Quoted`, `Worded`), and every reference without its address is on the one
  chain of its symbol (`Linked`).
- Chains carry the proof. `IsChain` says that a sequence of offsets is the walk from a fixup to the
  end of its chain; `ChainJoins` that `ApplyLocalFixups`, which hangs the chain of the section behind
  that of the function while it moves the latter, loses none of either; `StoreFacts` and
  `UpdateFacts` what storing a function and the last pass over all symbols leave in the section.
  The length of a chain is reached by induction on the naturals, stated as membership in a set, as
  the induction theorems of the library take operators.
- From it: `ReferencesAreResolved` (`[]ReferencesResolved`), `NothingIsForgotten`
  (`[]NothingForgotten`), `StoredAreReachable` (`[]StoredIsReachable`; the worklist ends with the least
  set that is closed under calls, which is how `Reachable` is defined from the source alone) and
  `AddressesStay` (`AddressesAreFinal`).
- `ContextIsValid` is false, see `dim_in_main` below; the theorems hold all the same, since the model
  stops where the code would go on with a freed tree.

### The board

- `BoardProofs!ImageIsWhole`: `Spec => []ImageFileIsWhole`, for every configuration file, board and
  program. It needs that what the parser makes of any text at all is a list of boards with numbers,
  names and sections of their own (`BoardsAreRead`): `ParseNumericExpr` yields an integer whatever the tokens
  are and whatever was in the uninitialized `iValue` (`ExpressionIs`, with operators on bits that are
  integers again), and each line of the file keeps it (`BoardSteps`). For this, division is
  that of C, towards zero, and a division by zero ends the parser, as it ends the program.
- `Compiles` says what a compilation has reached, block by block: `placed` lists every word of the
  program that was stored, in the order of the program, with its section and its offset there; fixups
  change the word in the file and in the list alike; no two entries have one address; the part of the text
  section in front of the code is as long as the header. From it `FinishBuilds` shows what `BuildImage`
  writes: the header names the sections in the order of the file (`HeaderIs`), what lies behind the
  header of the text section is not moved (`BehindHeader`), each further section begins where the
  header says (`SectionJoined`, `JoinedIs`: the file is as long as the sum of the sections up to
  there), and `WholeIs` that such a file is a `WholeImage`.
- `PropellerIsFound`: `Spec => []FindsThePropeller`, for every length of the handshake and every version, from
  the invariant `Search`, which is seven invariants that need each other. `Controlled`, `Counted`,
  `Register` and `Lines` say where the two sides can be, what they have counted, which state of the
  LFSR the register holds, and that bytes are under way. The others carry the argument:
  - `RingLasts`: what the ring of the IDE has received, what is under way to it, what was sent and may come
    back from an echo, what the attempts to come will say (`Ahead`), and the faults that are left,
    fit the ring together. Counting only what has arrived is not inductive. It follows that the
    index never wraps in the middle of a search, which is what makes `incoming`, the bytes that are
    still to be read, a simple list (`PortMoves`, `HearsNext`).
  - `InStep`, for a Propeller as long as no fault has hit an answer: the bits that the host has read
    and those it has still to read are the bits that the chip has answered, in order, so that each
    bit compares equal to the register (`LfsrIs`), the first attempt never fails, and the version is
    shifted in whole (`VersionArrives`, an induction over its bits).
    A bit can be late, but not oftener than the line fails (`to <= faults`).
  - `Astray`, for any other device: everything the host has read, has still to read, and has sent, is
    `Mirrored` from the bytes with which the host begins followed by the timing, or the timing alone,
    according to what the device did before the host began to wait. `LfsrAssumption` says that the bits of the
    chip are neither (`NoEchoPasses`), so that the comparison is never passed.
- `ProgramReachesTheBoard`: `Spec /\ []ConfigurationIsAsDescribed => []ProgramIsForTheBoard`. The hypothesis
  is the first conjunct of the property, that the text was read as it is meant; it is checked in the run
  `xbcom`, not proved, and the theorem derives the other four. For every Spin program, board and image:
  - `HelperIsForTheBoard`, `LoaderIsForTheBoard`: the patched programs have the fields of the board in
    their places, and their bytes add up to the target, because the checksum field makes up for what
    the patches changed (`SumChanges`, `PatchedIs`). A number that the description leaves open is not
    constrained.
  - The invariant `Upload`, which is four that need each other. `Jobs`: what is in `dlbuf` goes with
    the type that was asked for. `Order`: what the chip has been told, in bytes, is what the place
    of the host in `upload` says (count, data, the poll). `Uploaded`: the longs that the chip has shifted in,
    and those on their way, are the type, the count and the longs of the program, in order
    (`Carries`: `Received` behind, `OnWire` ahead, by position, so that a byte sent or taken moves
    nothing else); one that is damaged ends it (`garbled`). While the host resets the chip
    for the loader the helper may still run, so that `package` is then the program before. `Answers`: as long
    as no fault has hit the line the chip takes commands until the last long and the first poll of the host,
    answers that poll with one byte that says that the sum is right and, for a loader, the EEPROM
    written, and a helper that runs says `ACK` once; `upload` and `WaitForInitialAck` read them in that order.
  - `LongArrives`: eleven bytes of three bits each become the long they encode, bit by bit.

### What is only model-checked, and why

- Liveness (`QuietLoadRuns`, `HostFinishes`, `AcceptedIsHandled`, `EveryRequestEnds`, `OutputDrains`,
  `ErrorsAreShown`, `GetsThere`, `ComesToAnEnd`): fairness and ENABLED are beyond the prover.
- The load when bytes on their way to the target are lost, damaged or inserted, see above.
- What parsers, generators, the scanner and the assembler compute (`StructuredProgram`,
  `ExpressionProgram`, `ScannerText`, `AssemblyText`): recursions over data, in modules with RECURSIVE
  operators, about which tlapm proves nothing.
- That the text of a configuration is read as described, and kept by the dialog
  (`ConfigurationIsAsDescribed`, `EditorKeepsBoards`): a recursion over tokens and lines.
  `ProgramReachesTheBoard` has the first of them as its hypothesis.

## 5. What the runs found

- `dim_in_main` (`db_statement.c:651`): a DIM with a value among the statements of the main program
  empties the heap that holds the parse tree of the main function.
- `labels` (`db_statement.c:1494`): undefined labels are looked for before code generation has made
  the fixups that the check looks at; it never fires. In the same trace (`db_statement.c:1244`): a
  label that was first named by a GOTO stays undefined in the table and may be defined again and
  again.

Beside these two, TLC or the attempt to write a reference beside the code found the following; the
programs of the passing runs avoid them, or the property says so:

- Statements: a last DEF without END DEF is not reported, and the second pass starts inside a function
  it never began (`db_statement.c:94`). `IF expr THEN statement` in one line never compiles
  (`db_statement.c:852`). Statements between SELECT and its first CASE are accepted; so is RETURN in
  the main program. FOR tests `<=` whatever the sign of STEP, and NEXT ignores its variable.
- Scanner: `inComment` survives lines, while the first pass reads only the first token of a statement
  and ParseConstantDef and END DEF leave the rest of theirs unread in some passes: of a comment of
  several lines that opens there the passes see different parts, and a DIM inside it is handled by the
  first pass (`db_scan.c:696`). Texts in which that happens are excluded from `TokensOfTheText`
  ("untidy"). Character constants take `n` for a newline and refuse `\n`. A line that does not fit
  the buffer becomes two, and line numbers shift. The main file may be included once more.
- Expressions: `DIM a = 5, b` gives `b` the value 5 too; initializers that fill the buffer to the
  last byte are refused; byte elements are refused by unary operators; `f()` cannot be called; `@`
  of a local has no code; the result of AND and OR is an operand, not 0 or 1; `>>` of
  constants keeps the sign and that of the cog does not; an array passed for a plain parameter
  dereferences a null type (`db_types.c:69`), so no program here does it.
- Assembler: `^` is replaced by its right operand (`db_pasm.c:588`); CALL writes no target (545);
  `if_nc_or_nz` is encoded as the AND of both (237); a label that is used before it is defined counts
  as 0; the second pass begins with the local labels the first one ended with (456);
  NOT, REM and RETURN are keywords and no opcodes in an ASM block; a NATIVE line without an
  instruction writes a word that was never set. The programs contain no `^`, CALL, `if_nc_or_nz` or
  forward references.
- Machine: a GETCHAR trap pushes without looking at the stack's end in both versions; an error leaves
  the registers of the last store to be shown (`xbasic_vm.spin:582`).
- Configuration: a word that is no symbol is never reported, since the pointer that is tested behind
  the search is not NULL (`db_config.c:349`): the setting becomes what the last number was. A board
  without `text` or `data` compares a NULL name (`db_compiler.c:51`).
- Dialog: Enter behind a name that no board has makes the dialog crash (`hardware.cpp:194`): the combo
  box is editable (`hardware.cpp:15`), inserts the name and activates it, and `boardChanged` uses the
  null board that it finds. `EditorKeepsBoards` allows this crash and no other; a new board can only be
  saved by typing its name and going on with the mouse. The fields of the cache driver are only ever filled, and after a deletion all fields keep what
  the deleted board had, so that saving writes settings of one board into another
  (`hardware.cpp:234`, `186`); `clkfreq: 80M` is no number to it and is dropped
  (`xbasicboard.cpp:62`), a value the combo boxes do not offer is replaced, a tag with a space before
  its colon is lost; a comment before the first board, or a board without settings, makes names and
  boards differ in length and the dialog crash (`xbasicconfig.cpp:84`); deleting the last board saves a
  board without a name, which the compiler refuses. File names are written in capitals.
- Boot: `upload` returns 0 when the chip refuses or does not answer, although its comment promises a
  non-zero value (`PLoadLib.c:209`, `275`), and xbcom looks at no result of writing the EEPROM
  (`xbcom.c:193`): such a failure is reported as success. A bit of the version that is late is taken
  from what the buffer held (`PLoadLib.c:201`). The IDE takes a port that does not open for a
  Propeller (`PropellerID.cpp:399` returns -1 and `mainwindow.cpp:1189` tests for non-zero), and a
  failed write for a good one.

The run `compile` takes programs without these mistakes, so that what they show is not
hidden by them. Two facts that no document denies are stated inside the properties of the load:

- On a board without a cache driver a flash or RAM image makes the helper hang in the cache
  interface; the host sees a timeout (`AcceptedIsHandled`).
- The header of a damaged frame overwrites the status of a packet that has been acknowledged and not
  yet fetched: `send_nak` does not wait for the mailbox as `do_crc_lo` does. The packet is lost on
  the target. The host notices, since the answer to the damaged frame is NAK or nothing, and that is
  all that keeps a program from being started on the rest (`AcceptedIsHandled`,
  `RunOnlyWholeImage`). A burst of noise that spells a header with a bad checksum, after the last
  frame, can do the same to RUN itself: `SuccessIsTrue` promises everything but RUN.

## 6. Plan

1. The image file of `ImageFile` as what `vm_runtime.load` and `db_vmimage.c` read.
2. A theorem about `BoardEditor`: what the dialog keeps of the boards it does not show.
3. `LinearHeap`; the SSF cache driver as another `MemoryMap`; the packets of `XLoad` in place of
   `LoadRest`.

## 7. Not modelled, and why

- Paths, command lines, file converters and the map file of the compiler are straight-line input and
  output, as is the terminal after loading. `tools/PLoadLib.c` and `pload` of `PLoadLib.c`, which
  reads a file, are copies that nothing calls.
- The waiting loops of the start-up loaders have no partner but a clock.
- The SSF cache driver is the loop of the C3 driver before other chips. SD card commands and
  `erase_chip` of the cache drivers are posted by no code of the repository.
- The bodies of the library are programs in the language; samples are, too. The TV drivers and the
  serial port library of the IDE are third party; the windows of the IDE other than the
  two parts named above are user interface around the other programs.
- Time (bits, baud rates, milliseconds) appears only as "before" and "after a timeout"; allocation
  never fails; the width of a word is a parameter, and small in the runs.
