--------------------------- MODULE VMRuntimeProofs ---------------------------
(***************************************************************************)
(* Theorems about VMRuntime, for every image, stack, ring and alphabet.    *)
(***************************************************************************)
EXTENDS VMRuntime, SequenceTheorems, TLAPS

-----------------------------------------------------------------------------
(* The inductive invariant. Its first part is the shape of the records.    *)

Shape ==
  /\ vm = "xbasic_vm"
  /\ mbox = [cmd |-> mbox.cmd, sts |-> mbox.sts, fcn |-> mbox.fcn]
  /\ state = [fp |-> state.fp, sp |-> state.sp, tos |-> state.tos, pc |-> state.pc,
              stepping |-> state.stepping]
  /\ spin = [at |-> spin.at, then |-> spin.then, cmd |-> spin.cmd, arg |-> spin.arg, arg2 |-> spin.arg2,
             value |-> spin.value, words |-> spin.words, i |-> spin.i, base |-> spin.base,
             offset |-> spin.offset, size |-> spin.size, item |-> spin.item, mode |-> spin.mode]
  /\ serial = [cog |-> serial.cog, rx |-> serial.rx, tx |-> serial.tx, txdata |-> serial.txdata]

(* Where the Spin cog can be, and where it returns to from a call.         *)
Early == {"start", "cognew", "load", "load_word", "section", "section_word", "copy", "store", "init_serial"}
Late == {"serial_up", "run", "single_step", "process_requests", "halt", "halt_shown", "do_step",
         "step_shown", "space", "space_typed", "do_trap", "got_char", "char_out", "resume", "repeat"}
Calling == {"arguments", "command", "poll"}
Sending == {"tx", "tx_head"}
Receiving == {"rx", "rx_byte", "rx_tail"}
ReadLongs == {"load_word", "section_word", "store"}
ReadBytes == {"halt_shown", "step_shown"}
Returns(cmd) ==
  CASE cmd = "VM_ReadLong"  -> ReadLongs
    [] cmd = "VM_WriteLong" -> {"copy"}
    [] cmd = "VM_ReadByte"  -> ReadBytes
    [] cmd = "VM_Continue"  -> {"load", "process_requests"}
    [] OTHER                -> {}

SpinInStep ==
  /\ spin.at \in Early \cup Late \cup Calling \cup Sending \cup Receiving
  /\ spin.at \in Calling => spin.then \in Returns(spin.cmd)
  /\ spin.at = "arguments" => spin.cmd # "VM_Continue"
  /\ spin.at = "command" => spin.then # "load"
  /\ spin.at \in Sending => spin.then \in {"repeat", "space", "char_out"}
  /\ spin.at \in Receiving => spin.then \in {"space_typed", "got_char"}
  /\ spin.at \in {"start", "cognew"} => spin.cmd = "VM_Continue"
  /\ spin.at = "process_requests" => spin.cmd = "VM_Continue" /\ spin.then = "process_requests"
  /\ spin.mode \in {"run", "single_step"}

(* The mailbox: a command is there from when the Spin cog posts it until   *)
(* the machine has done it.                                                *)
Posted == spin.at = "poll" /\ mbox.cmd # "none"
Answered == spin.at = "poll" /\ mbox.cmd = "none"
Reporting == cog \in {"end_command", "done_command"}
MailboxInStep ==
  /\ spin.at = "start" => cog = "off" /\ mbox.cmd = "none"
  /\ spin.at = "cognew" => cog = "off" /\ mbox.cmd = "VM_Continue"
  /\ spin.at \notin {"start", "cognew", "poll"} \/ Answered => cog = "get_command" /\ mbox.cmd = "none"
  /\ Posted =>
       /\ mbox.cmd = spin.cmd
       /\ \/ Reporting
          \/ cog = "_init1" /\ spin.then = "load"
          \/ cog = "get_command" /\ spin.then # "load"
          \/ cog = "_start" /\ spin.then = "process_requests"

(* What the machine reports is where the Spin cog looks for it.            *)
Stops == {"STS_Step", "STS_Trap", "STS_Halt", "STS_StackOver", "STS_DivideZero", "STS_IllegalOpcode"}
Stopped == spin.at = "poll" /\ spin.then = "process_requests" /\ (Reporting \/ Answered)
ReportInStep ==
  /\ Reporting => r1 \in Stops \cup {"STS_Success"}
  /\ cog = "done_command" \/ Answered => mbox.sts = STS[r1]
  /\ Stopped \/ spin.at = "process_requests" => r1 \in Stops
  /\ spin.at = "process_requests" => spin.value = STS[r1] /\ mbox.sts = STS[r1]

-----------------------------------------------------------------------------
(* The rings. The n entries between tail and head are those that have been *)
(* put in and not been taken out.                                          *)

slot(i, k) == IF i + k < RingSize THEN i + k ELSE i + k - RingSize
Slot == 0 .. RingSize - 1

(* Received and in the ring, that is but the one whose head is not moved.  *)
arrived == Len(typed) - (IF serial.rx = "head" THEN 1 ELSE 0)
unread == arrived - Len(taken)
InOrder ==
  /\ unread \in 0 .. RingSize - 1
  /\ rx.head = slot(rx.tail, unread)
  /\ \A k \in 0 .. unread - 1 : rx.buffer[slot(rx.tail, k)] = typed[Len(taken) + 1 + k]
  /\ serial.rx = "head" => rx.buffer[rx.head] = typed[Len(typed)]
  /\ spin.at \in {"rx_byte", "rx_tail"} => unread > 0
  /\ spin.at = "rx_tail" => spin.value = typed[Len(taken) + 1]
  /\ \A k \in 1 .. Len(taken) : taken[k] = typed[k]
Overrun ==
  /\ \A i \in Slot : rx.buffer[i] \in ToSet(typed)
  /\ spin.at = "rx_tail" => spin.value \in ToSet(typed)
  /\ ToSet(taken) \subseteq ToSet(typed)
RxInStep ==
  /\ rx = [head |-> rx.head, tail |-> rx.tail, buffer |-> rx.buffer]
  /\ rx.head \in Slot /\ rx.tail \in Slot /\ DOMAIN rx.buffer = Slot
  /\ typed \in Seq(Chars) /\ taken \in Seq(Chars)
  /\ overrun \in BOOLEAN /\ serial.rx \in {"idle", "head"}
  /\ serial.rx = "head" => typed # <<>>
  /\ serial.cog = "running" => IF overrun THEN Overrun ELSE InOrder
  /\ spin.at = "got_char" => spin.value \in Chars

IsSeq(s) == s \in Seq(ToSet(s))
unsent == Len(put) - Len(sent)
TxInStep ==
  /\ tx = [head |-> tx.head, tail |-> tx.tail, buffer |-> tx.buffer]
  /\ tx.head \in Slot /\ tx.tail \in Slot /\ DOMAIN tx.buffer = Slot
  /\ IsSeq(put) /\ IsSeq(sent)
  /\ unsent \in 0 .. RingSize - 1 /\ (spin.at = "tx_head" => unsent < RingSize - 1)
  /\ tx.head = slot(tx.tail, unsent)
  /\ \A k \in 0 .. unsent - 1 : tx.buffer[slot(tx.tail, k)] = put[Len(sent) + 1 + k]
  /\ spin.at = "tx_head" => tx.buffer[tx.head] = spin.item
  /\ serial.tx \in {"idle", "tail"}
  /\ serial.tx = "tail" => unsent > 0 /\ serial.txdata = put[Len(sent) + 1]
  /\ \A k \in 1 .. Len(sent) : sent[k] = put[k]

Unborn ==
  /\ typed = <<>> /\ taken = <<>> /\ put = <<>> /\ sent = <<>> /\ ~ overrun
  /\ serial.rx = "idle" /\ serial.tx = "idle"
Loading == spin.at \in Early \/ (spin.at \in Calling /\ spin.then \in Early)
SerialInStep ==
  /\ serial.cog \in {"off", "entry", "running"}
  /\ serial.cog = "off" <=> Loading
  /\ serial.cog = "entry" => spin.at = "serial_up" /\ rx.head = 1
  /\ serial.cog # "running" => Unborn /\ rx.tail = 0
  /\ spin.at = "serial_up" /\ rx.head = 0 => serial.cog = "running"
RingsInStep == SerialInStep /\ RxInStep /\ TxInStep

-----------------------------------------------------------------------------
(* Loading. Seen are the words of memory that have been copied, of section *)
(* i the first n bytes.                                                    *)

NoTrap == [op |-> "none", char |-> 0]
EmptyStack == [i \in -1 .. StackSize |-> 0]
Seen(m, i, n, a) ==
  \E j \in copied(m) : inside(m, j, a) /\ (j < i \/ (j = i /\ a < base_of(m, j) + n))
Partly(m, i, n) == [a \in DOMAIN m |-> IF Seen(m, i, n, a) THEN Loaded(m)[a] ELSE m[a]]

(* The word that is asked for, and what has been read so far.              *)
WordAt(k, i) ==
  IF k = 1 THEN IMAGE_MAIN_CODE
  ELSE IF k = 2 THEN IMAGE_STACK_SIZE
  ELSE IF k = 3 THEN IMAGE_SECTION_COUNT
  ELSE IF k = 4 THEN header(i)
  ELSE IF k = 5 THEN header(i) + SECTION_OFFSET
  ELSE header(i) + SECTION_SIZE
read == Len(Words)
WordsRead(m) ==
  /\ Words \in Seq(Int) /\ read <= 6
  /\ spin.i \in 0 .. m[IMAGE_SECTION_COUNT]
  /\ read < 3 => spin.i = 0
  /\ read > 3 => spin.i < m[IMAGE_SECTION_COUNT]
  /\ \A k \in 1 .. read : Words[k] = m[WordAt(k, spin.i)]
  /\ read >= 2 => state.pc = Words[1] /\ state.sp = StackSize /\ state.fp = StackSize
Returning(l) == spin.at = l \/ (spin.at \in Calling /\ spin.then = l)
Copying == Returning("copy") \/ Returning("store")
(* The commands have reached the machine as they were meant, and what it   *)
(* read is what is there.                                                  *)
Asking == spin.at = "command" \/ (Posted /\ cog = "get_command")
ReadInStep ==
  /\ Asking /\ spin.cmd # "VM_Continue" => mbox.sts = spin.arg
  /\ Asking /\ spin.cmd = "VM_WriteLong" => mbox.fcn = spin.arg2
  /\ spin.at = "poll" /\ (Reporting \/ Answered) =>
       /\ spin.cmd = "VM_ReadLong" => mbox.fcn = mem[spin.arg]
       /\ spin.cmd = "VM_ReadByte" => mbox.fcn = spin.arg
  /\ spin.at \in ReadLongs => spin.value = mem[spin.arg]
  /\ spin.at \in ReadBytes => spin.value = spin.arg
  /\ Returning("step_shown") => spin.arg = state.pc

WordsInStep(m) ==
  /\ WordsRead(m)
  /\ spin.at \in {"start", "cognew"} \/ (spin.at = "poll" /\ spin.then = "load") => Words = <<>>
  /\ Returning("load") => read < 3
  /\ Returning("load_word") => read < 3 /\ spin.arg = WordAt(read + 1, 0)
  /\ Returning("section") => read >= 3
  /\ Returning("section_word") =>
       /\ read \in 3 .. 5 /\ spin.i < m[IMAGE_SECTION_COUNT]
       /\ spin.arg = WordAt(read + 1, spin.i)
  /\ Copying => read = 6
  /\ spin.at = "init_serial" => spin.i = m[IMAGE_SECTION_COUNT]

(* The copy of a section has come to spin.base; the word before it may     *)
(* still have to be written.                                               *)
ToWrite ==
  Returning("copy") /\ (spin.at \in {"arguments", "command"} \/ (Posted /\ cog = "get_command"))
bytes(m) == spin.base - base_of(m, spin.i)
CopyInStep(m) ==
  Copying =>
    /\ spin.base \in Int /\ bytes(m) \in Nat /\ bytes(m) % WordSize = 0
    /\ spin.offset = offset_of(m, spin.i) + bytes(m)
    /\ spin.size = (IF spin.i = 0 THEN 0 ELSE size_of(m, spin.i)) - bytes(m)
    /\ spin.i = 0 => spin.at = "copy" /\ spin.size = 0
    /\ Returning("store") => spin.arg = spin.offset /\ spin.size > 0
    /\ ToWrite =>
         /\ bytes(m) >= WordSize /\ spin.arg = spin.base - WordSize
         /\ inside(m, spin.i, spin.arg)
         /\ spin.arg \in DOMAIN m => spin.arg2 = m[source(m, spin.i, spin.arg)]
written(m) == IF Copying THEN bytes(m) - (IF ToWrite THEN WordSize ELSE 0) ELSE 0

LoadedFrom(p) ==
  /\ code = p.code
  /\ whole = completed(p.mem[IMAGE_MAIN_CODE], 0, StackSize, StackSize, EmptyStack, Loaded(p.mem),
                       "STS_Success", NoTrap)
  /\ stack = EmptyStack /\ status = "STS_Success" /\ trap = NoTrap /\ tos = 0 /\ state.tos = 0
  /\ WordsInStep(p.mem) /\ CopyInStep(p.mem)
  /\ mem = Partly(p.mem, spin.i, written(p.mem))
LoadInStep == Loading => \E p \in Programs : LoadedFrom(p)

-----------------------------------------------------------------------------
(* The machine. While it runs, whole is what it has; while it waits in     *)
(* front of an instruction, whole is what the state vector holds; in a     *)
(* trap the state vector is on its way from whole to what the trap leaves. *)

Running ==
  status = "STS_Success" /\ whole = completed(pc, tos, sp, fp, stack, mem, status, trap)
Parked == status = "STS_Success" /\ whole = saved

InTrap ==
  /\ Machine!at({"OP_TRAP"}) /\ mbox.fcn = Machine!imm
  /\ whole.status = status /\ whole.mem = mem
  /\ state.pc = Machine!past /\ state.fp = whole.fp
Trapped ==
  InTrap /\ trap = whole.trap /\ stack = whole.stack /\ state.sp = whole.sp /\ state.tos = whole.tos
Getting ==
  /\ InTrap /\ mbox.fcn = TRAP_GetChar /\ trap = whole.trap
  /\ stack = [whole.stack EXCEPT ![whole.sp - 1] = whole.tos] /\ state.sp = whole.sp - 1
Putting == Trapped /\ mbox.fcn = TRAP_PutChar
Got ==
  /\ InTrap /\ mbox.fcn = TRAP_GetChar
  /\ stack = [whole.stack EXCEPT ![whole.sp - 1] = whole.tos] /\ state.sp = whole.sp - 1
  /\ state.tos \in Chars /\ trap = [op |-> "GetChar", char |-> state.tos]
PutOut ==
  /\ InTrap /\ mbox.fcn = TRAP_PutChar
  /\ stack = whole.stack /\ state.sp = whole.sp + 1
  /\ state.tos = whole.stack[whole.sp] /\ trap = [op |-> "PutChar", char |-> whole.tos]
Ignored == Trapped /\ mbox.fcn \notin {TRAP_GetChar, TRAP_PutChar}

Waiting ==
  \/ spin.at \in {"serial_up", "run", "single_step", "do_step", "space", "space_typed"}
  \/ Returning("step_shown")
  \/ Asking /\ spin.then = "process_requests"
  \/ spin.at \in Sending /\ spin.then = "space"
  \/ spin.at \in Receiving /\ spin.then = "space_typed"
MachineInStep ==
  /\ Waiting => Parked
  /\ cog = "_start" => Running
  /\ Stopped \/ spin.at = "process_requests" => (r1 = "STS_Step" => Parked) /\ (r1 = "STS_Trap" => Trapped)
  /\ spin.at = "do_trap" => Trapped
  /\ spin.at = "got_char" \/ (spin.at \in Receiving /\ spin.then = "got_char") => Getting
  /\ spin.at = "char_out" \/ (spin.at \in Sending /\ spin.then = "char_out") => Putting
  /\ spin.at = "resume" => Got \/ PutOut \/ Ignored
  /\ spin.at \in Sending /\ spin.then = "space" =>
       spin.item.shows = <<whole.pc, whole.pc, whole.fp, whole.sp, whole.tos>>

InStep == SpinInStep /\ MailboxInStep /\ ReportInStep
RuntimeInv == Shape /\ InStep /\ RingsInStep /\ ReadInStep /\ LoadInStep /\ MachineInStep

-----------------------------------------------------------------------------
(* The shape of the records. *)

LEMMA InitShape == Init => Shape
BY DEF Init, Shape, registers, char_item

LEMMA MachineKeeps ==
  ASSUME Instruction
  PROVE  UNCHANGED <<vm, code>>
BY DEF Instruction, Halt, Branch, BranchTest, BranchShortCircuit, UnaryOp, BinaryOp, Index, Literal, Dup,
       Drop, Clean, Native, Load, LoadByte, Store, LocalRef, LocalSet, PushJ, PopJ, Frame, Return, ReturnZero,
       Trap, GetChar, PutChar, NoSuchTrap, IllegalOpcode, stop, fixed, compute, push, leave

LEMMA VMCogShape ==
  ASSUME Shape, VMCog
  PROVE  Shape'
<1> USE DEF Shape, machine, hub, vmcog, history, others, no_instruction, no_vm, no_rings, spin_and, spin_only, goto, at_spin, no_others
<1>1. CASE _init1
  BY <1>1 DEF _init1, report, registers
<1>2. CASE end_command
  BY <1>2 DEF end_command
<1>3. CASE done_command
  BY <1>3 DEF done_command
<1>4. CASE _VM_Continue
  BY <1>4 DEF _VM_Continue, command, completed
<1>5. CASE _VM_ReadLong
  BY <1>5 DEF _VM_ReadLong, command, report
<1>6. CASE _VM_WriteLong
  BY <1>6 DEF _VM_WriteLong, command, report
<1>7. CASE _VM_ReadByte
  BY <1>7 DEF _VM_ReadByte, command, report
<1>8. CASE _start
  BY <1>8, MachineKeeps DEF _start, _next, report, store_state
<1>9. CASE _OP_TRAP
  BY <1>9 DEF _OP_TRAP, report, store_state
<1> QED
  BY <1>1, <1>2, <1>3, <1>4, <1>5, <1>6, <1>7, <1>8, <1>9 DEF VMCog

LEMMA SpinCogShape ==
  ASSUME Shape, SpinCog
  PROVE  Shape'
<1> USE DEF Shape, machine, hub, vmcog, history, others, no_instruction, no_vm, no_rings, spin_and, spin_only, goto, at_spin, no_others
<1>1. CASE set_arguments
  BY <1>1 DEF set_arguments
<1>2. CASE set_command
  BY <1>2 DEF set_command
<1>3. CASE poll
  BY <1>3 DEF poll
<1>4. CASE start
  BY <1>4 DEF start
<1>5. CASE cognew
  BY <1>5 DEF cognew
<1>6. CASE load
  BY <1>6 DEF load, read_long, call
<1>7. CASE load_word
  BY <1>7 DEF load_word
<1>8. CASE section
  BY <1>8 DEF section, read_long, call
<1>9. CASE section_word
  BY <1>9 DEF section_word
<1>10. CASE copy
  BY <1>10 DEF copy, read_long, call
<1>11. CASE store
  BY <1>11 DEF store
<1>12. CASE init_serial
  BY <1>12 DEF init_serial
<1>13. CASE serial_up
  BY <1>13 DEF serial_up
<1>14. CASE run
  BY <1>14 DEF run, continue
<1>15. CASE single_step
  BY <1>15 DEF single_step
<1>16. CASE process_requests
  BY <1>16 DEF process_requests
<1>17. CASE halt
  BY <1>17 DEF halt, show_status, call
<1>18. CASE do_step
  BY <1>18 DEF do_step, show_status, call
<1>19. CASE shown
  BY <1>19 DEF shown, print
<1>20. CASE space
  BY <1>20 DEF space
<1>21. CASE space_typed
  BY <1>21 DEF space_typed, continue
<1>22. CASE do_trap
  BY <1>22 DEF do_trap, print
<1>23. CASE got_char
  BY <1>23 DEF got_char
<1>24. CASE char_out
  BY <1>24 DEF char_out
<1>25. CASE resume
  BY <1>25 DEF resume, continue
<1>26. CASE tx_room
  BY <1>26 DEF tx_room
<1>27. CASE tx_head
  BY <1>27 DEF tx_head
<1>28. CASE rxcheck
  BY <1>28 DEF rxcheck
<1>29. CASE rx_byte
  BY <1>29 DEF rx_byte
<1>30. CASE rx_tail
  BY <1>30 DEF rx_tail
<1> QED
  BY <1>1, <1>2, <1>3, <1>4, <1>5, <1>6, <1>7, <1>8, <1>9, <1>10, <1>11, <1>12, <1>13, <1>14, <1>15, <1>16, <1>17, <1>18, <1>19, <1>20, <1>21, <1>22, <1>23, <1>24, <1>25, <1>26, <1>27, <1>28, <1>29, <1>30 DEF SpinCog

LEMMA SerialCogShape ==
  ASSUME Shape, SerialCog \/ receive
  PROVE  Shape'
<1> USE DEF Shape, machine, hub, vmcog, history, others, no_instruction, no_vm, no_rings, spin_and, spin_only, goto, at_spin, no_others
<1>1. CASE entry
  BY <1>1 DEF entry
<1>2. CASE receive_head
  BY <1>2 DEF receive_head
<1>3. CASE transmit
  BY <1>3 DEF transmit
<1>4. CASE transmit_tail
  BY <1>4 DEF transmit_tail
<1>5. CASE receive
  BY <1>5 DEF receive
<1> QED
  BY <1>1, <1>2, <1>3, <1>4, <1>5 DEF SerialCog

-----------------------------------------------------------------------------
(* What the ways of the Spin cog to go on do to the fields of spin. *)

request == <<spin.then, spin.cmd, spin.arg, spin.arg2>>
loader == <<spin.words, spin.i, spin.base, spin.offset, spin.size>>
shows == <<spin.item, spin.mode>>

LEMMA GotoFields ==
  ASSUME Shape, NEW l, goto(l)
  PROVE  spin'.at = l /\ UNCHANGED <<request, loader, shows, spin.value>>
BY DEF Shape, goto, request, loader, shows

LEMMA CallFields ==
  ASSUME Shape, NEW c, NEW a, NEW v, NEW l, call(c, a, v, l)
  PROVE  /\ spin'.at = "arguments" /\ spin'.then = l /\ spin'.cmd = c /\ spin'.arg = a /\ spin'.arg2 = v
         /\ UNCHANGED <<loader, shows, spin.value>>
BY DEF Shape, call, loader, shows

LEMMA ContinueFields ==
  ASSUME Shape, continue
  PROVE  /\ spin'.at = "command" /\ spin'.then = "process_requests" /\ spin'.cmd = "VM_Continue"
         /\ UNCHANGED <<loader, shows, spin.arg, spin.arg2, spin.value>>
BY DEF Shape, continue, loader, shows

LEMMA PrintFields ==
  ASSUME Shape, NEW item, NEW l, print(item, l)
  PROVE  /\ spin'.at = "tx" /\ spin'.then = l /\ spin'.item = item
         /\ UNCHANGED <<loader, spin.cmd, spin.arg, spin.arg2, spin.value, spin.mode>>
BY DEF Shape, print, loader

LEMMA PollFields ==
  ASSUME Shape, poll
  PROVE  /\ spin'.at = spin.then
         /\ spin'.value = IF spin.cmd = "VM_Continue" THEN mbox.sts ELSE mbox.fcn
         /\ UNCHANGED <<request, loader, shows>>
BY DEF Shape, poll, request, loader, shows

LEMMA CognewFields ==
  ASSUME Shape, cognew
  PROVE  /\ spin'.at = "poll" /\ spin'.then = "load"
         /\ UNCHANGED <<loader, shows, spin.cmd, spin.arg, spin.arg2, spin.value>>
BY DEF Shape, cognew, loader, shows

LEMMA LoadWordFields ==
  ASSUME Shape, load_word
  PROVE  /\ spin'.at = IF read = 2 THEN "section" ELSE "load"
         /\ spin'.words = Append(Words, spin.value)
         /\ UNCHANGED <<request, shows, spin.value, spin.i, spin.base, spin.offset, spin.size>>
BY DEF Shape, load_word, request, shows, Words, read

LEMMA SectionFields ==
  ASSUME Shape, section, spin.i # count, ~ (part < 3)
  PROVE  /\ spin'.at = "copy" /\ spin'.base = Words[4] /\ spin'.offset = Words[5]
         /\ spin'.size = IF spin.i > 0 THEN Words[6] ELSE 0
         /\ UNCHANGED <<request, shows, spin.value, spin.words, spin.i>>
BY DEF Shape, section, request, shows, Words, read

LEMMA SectionWordFields ==
  ASSUME Shape, section_word
  PROVE  /\ spin'.at = "section" /\ spin'.words = Append(Words, spin.value)
         /\ UNCHANGED <<request, shows, spin.value, spin.i, spin.base, spin.offset, spin.size>>
BY DEF Shape, section_word, request, shows, Words, read

LEMMA CopyFields ==
  ASSUME Shape, copy, ~ (spin.size > 0)
  PROVE  /\ spin'.at = "section" /\ spin'.words = SubSeq(Words, 1, 3) /\ spin'.i = spin.i + 1
         /\ UNCHANGED <<request, shows, spin.value, spin.base, spin.offset, spin.size>>
BY DEF Shape, copy, request, shows, Words, read

LEMMA StoreFields ==
  ASSUME Shape, store
  PROVE  /\ spin'.at = "arguments" /\ spin'.then = "copy" /\ spin'.cmd = "VM_WriteLong"
         /\ spin'.arg = spin.base /\ spin'.arg2 = spin.value
         /\ spin'.base = spin.base + WordSize /\ spin'.offset = spin.offset + WordSize
         /\ spin'.size = spin.size - WordSize
         /\ UNCHANGED <<shows, spin.value, spin.words, spin.i>>
BY DEF Shape, store, shows

LEMMA SpaceFields ==
  ASSUME Shape, space
  PROVE  /\ spin'.at = "rx" /\ spin'.then = "space_typed"
         /\ UNCHANGED <<loader, shows, spin.cmd, spin.arg, spin.arg2, spin.value>>
BY DEF Shape, space, loader, shows

LEMMA GetTrapFields ==
  ASSUME Shape, do_trap, mbox.fcn = TRAP_GetChar
  PROVE  /\ spin'.at = "rx" /\ spin'.then = "got_char"
         /\ UNCHANGED <<loader, shows, spin.cmd, spin.arg, spin.arg2, spin.value>>
BY DEF Shape, do_trap, loader, shows

LEMMA ReadFields ==
  ASSUME Shape, rx_byte
  PROVE  /\ spin'.at = "rx_tail" /\ spin'.value = rx.buffer[rx.tail]
         /\ UNCHANGED <<request, loader, shows>>
BY DEF Shape, rx_byte, request, loader, shows

(* What they do to the mailbox. *)

LEMMA ArgumentFields ==
  ASSUME Shape, set_arguments
  PROVE  /\ mbox'.sts = spin.arg /\ mbox'.fcn = IF spin.cmd = "VM_WriteLong" THEN spin.arg2 ELSE mbox.fcn
         /\ UNCHANGED mbox.cmd
BY DEF Shape, set_arguments

LEMMA CommandFields ==
  ASSUME Shape, set_command
  PROVE  mbox'.cmd = spin.cmd /\ UNCHANGED <<mbox.sts, mbox.fcn>>
BY DEF Shape, set_command

LEMMA StartFields ==
  ASSUME Shape, start
  PROVE  mbox'.cmd = "VM_Continue" /\ UNCHANGED <<mbox.sts, mbox.fcn>>
BY DEF Shape, start

LEMMA ReportFields ==
  ASSUME Shape, end_command
  PROVE  mbox'.sts = STS[r1] /\ UNCHANGED <<mbox.cmd, mbox.fcn>>
BY DEF Shape, end_command

LEMMA DoneFields ==
  ASSUME Shape, done_command
  PROVE  mbox'.cmd = "none" /\ UNCHANGED <<mbox.sts, mbox.fcn>>
BY DEF Shape, done_command

LEMMA AnswerFields ==
  ASSUME Shape, NEW v, mbox' = [mbox EXCEPT !.fcn = v]
  PROVE  mbox'.fcn = v /\ UNCHANGED <<mbox.cmd, mbox.sts>>
BY DEF Shape

-----------------------------------------------------------------------------
(* The steps of the Spin cog, the mailbox and the reports. *)

LEMMA InitInStep == Init => InStep
BY DEF Init, InStep, SpinInStep, MailboxInStep, ReportInStep, Early, Late, Calling, Sending, Receiving,
       Answered, Posted, Reporting, Stopped

LEMMA SpinCogSpin ==
  ASSUME Shape, SpinInStep, SpinCog
  PROVE  SpinInStep'
<1> USE DEF request, loader, shows, SpinInStep, Early, Late, Calling, Sending, Receiving, ReadLongs, ReadBytes, Returns, machine, hub, vmcog, history, others, no_instruction, no_vm, no_rings, spin_and, spin_only, at_spin, no_others
<1>1. CASE set_arguments
  BY <1>1, GotoFields DEF set_arguments
<1>2. CASE set_command
  BY <1>2, GotoFields DEF set_command
<1>3. CASE poll
  BY <1>3, PollFields DEF poll
<1>4. CASE start
  BY <1>4, GotoFields DEF start
<1>5. CASE cognew
  BY <1>5, CognewFields DEF cognew
<1>6. CASE load
  BY <1>6, CallFields DEF load, read_long
<1>7. CASE load_word
  BY <1>7, LoadWordFields DEF load_word
<1>8. CASE section
  BY <1>8, GotoFields, CallFields, SectionFields DEF section, read_long
<1>9. CASE section_word
  BY <1>9, SectionWordFields DEF section_word
<1>10. CASE copy
  BY <1>10, CallFields, CopyFields DEF copy, read_long
<1>11. CASE store
  BY <1>11, StoreFields DEF store
<1>12. CASE init_serial
  BY <1>12, GotoFields DEF init_serial
<1>13. CASE serial_up
  BY <1>13, GotoFields DEF serial_up
<1>14. CASE run
  BY <1>14, ContinueFields DEF run
<1>15. CASE single_step
  BY <1>15, GotoFields DEF single_step
<1>16. CASE process_requests
  BY <1>16, GotoFields DEF process_requests
<1>17. CASE halt
  BY <1>17, CallFields DEF halt, show_status
<1>18. CASE do_step
  BY <1>18, CallFields DEF do_step, show_status
<1>19. CASE shown
  BY <1>19, PrintFields DEF shown
<1>20. CASE space
  BY <1>20, SpaceFields DEF space
<1>21. CASE space_typed
  BY <1>21, GotoFields, ContinueFields DEF space_typed
<1>22. CASE do_trap
  BY <1>22, GotoFields, PrintFields, GetTrapFields DEF do_trap
<1>23. CASE got_char
  BY <1>23, GotoFields DEF got_char
<1>24. CASE char_out
  BY <1>24, GotoFields DEF char_out
<1>25. CASE resume
  BY <1>25, GotoFields, ContinueFields DEF resume
<1>26. CASE tx_room
  BY <1>26, GotoFields DEF tx_room
<1>27. CASE tx_head
  BY <1>27, GotoFields DEF tx_head
<1>28. CASE rxcheck
  BY <1>28, GotoFields DEF rxcheck
<1>29. CASE rx_byte
  BY <1>29, ReadFields DEF rx_byte
<1>30. CASE rx_tail
  BY <1>30, GotoFields DEF rx_tail
<1> QED
  BY <1>1, <1>2, <1>3, <1>4, <1>5, <1>6, <1>7, <1>8, <1>9, <1>10, <1>11, <1>12, <1>13, <1>14, <1>15, <1>16, <1>17, <1>18, <1>19, <1>20, <1>21, <1>22, <1>23, <1>24, <1>25, <1>26, <1>27, <1>28, <1>29, <1>30 DEF SpinCog

LEMMA SpinCogMailbox ==
  ASSUME Shape, InStep, SpinCog
  PROVE  MailboxInStep'
<1> USE DEF request, loader, shows, InStep, SpinInStep, MailboxInStep, Posted, Answered, Reporting, Early, Late, Calling, Sending, Receiving, ReadLongs, ReadBytes, Returns, machine, hub, vmcog, history, others, no_instruction, no_vm, no_rings, spin_and, spin_only, at_spin, no_others
<1>1. CASE set_arguments
  BY <1>1, GotoFields, ArgumentFields DEF set_arguments
<1>2. CASE set_command
  BY <1>2, GotoFields, CommandFields DEF set_command
<1>3. CASE poll
  BY <1>3, PollFields DEF poll
<1>4. CASE start
  BY <1>4, GotoFields, StartFields DEF start
<1>5. CASE cognew
  BY <1>5, CognewFields DEF cognew
<1>6. CASE load
  BY <1>6, CallFields DEF load, read_long
<1>7. CASE load_word
  BY <1>7, LoadWordFields DEF load_word
<1>8. CASE section
  BY <1>8, GotoFields, CallFields, SectionFields DEF section, read_long
<1>9. CASE section_word
  BY <1>9, SectionWordFields DEF section_word
<1>10. CASE copy
  BY <1>10, CallFields, CopyFields DEF copy, read_long
<1>11. CASE store
  BY <1>11, StoreFields DEF store
<1>12. CASE init_serial
  BY <1>12, GotoFields DEF init_serial
<1>13. CASE serial_up
  BY <1>13, GotoFields DEF serial_up
<1>14. CASE run
  BY <1>14, ContinueFields DEF run
<1>15. CASE single_step
  BY <1>15, GotoFields DEF single_step
<1>16. CASE process_requests
  BY <1>16, GotoFields DEF process_requests
<1>17. CASE halt
  BY <1>17, CallFields DEF halt, show_status
<1>18. CASE do_step
  BY <1>18, CallFields DEF do_step, show_status
<1>19. CASE shown
  BY <1>19, PrintFields DEF shown
<1>20. CASE space
  BY <1>20, SpaceFields DEF space
<1>21. CASE space_typed
  BY <1>21, GotoFields, ContinueFields DEF space_typed
<1>22. CASE do_trap
  BY <1>22, GotoFields, PrintFields, GetTrapFields DEF do_trap
<1>23. CASE got_char
  BY <1>23, GotoFields DEF got_char
<1>24. CASE char_out
  BY <1>24, GotoFields DEF char_out
<1>25. CASE resume
  BY <1>25, GotoFields, ContinueFields DEF resume
<1>26. CASE tx_room
  BY <1>26, GotoFields DEF tx_room
<1>27. CASE tx_head
  BY <1>27, GotoFields DEF tx_head
<1>28. CASE rxcheck
  BY <1>28, GotoFields DEF rxcheck
<1>29. CASE rx_byte
  BY <1>29, ReadFields DEF rx_byte
<1>30. CASE rx_tail
  BY <1>30, GotoFields DEF rx_tail
<1> QED
  BY <1>1, <1>2, <1>3, <1>4, <1>5, <1>6, <1>7, <1>8, <1>9, <1>10, <1>11, <1>12, <1>13, <1>14, <1>15, <1>16, <1>17, <1>18, <1>19, <1>20, <1>21, <1>22, <1>23, <1>24, <1>25, <1>26, <1>27, <1>28, <1>29, <1>30 DEF SpinCog

LEMMA SpinCogReport ==
  ASSUME Shape, InStep, SpinCog
  PROVE  ReportInStep'
<1> USE DEF request, loader, shows, InStep, SpinInStep, MailboxInStep, ReportInStep, Stopped, Posted, Answered, Reporting, Early, Late, Calling, Sending, Receiving, ReadLongs, ReadBytes, Returns, machine, hub, vmcog, history, others, no_instruction, no_vm, no_rings, spin_and, spin_only, at_spin, no_others
<1>1. CASE set_arguments
  BY <1>1, GotoFields, ArgumentFields DEF set_arguments
<1>2. CASE set_command
  BY <1>2, GotoFields, CommandFields DEF set_command
<1>3. CASE poll
  BY <1>3, PollFields DEF poll
<1>4. CASE start
  BY <1>4, GotoFields, StartFields DEF start
<1>5. CASE cognew
  BY <1>5, CognewFields DEF cognew
<1>6. CASE load
  BY <1>6, CallFields DEF load, read_long
<1>7. CASE load_word
  BY <1>7, LoadWordFields DEF load_word
<1>8. CASE section
  BY <1>8, GotoFields, CallFields, SectionFields DEF section, read_long
<1>9. CASE section_word
  BY <1>9, SectionWordFields DEF section_word
<1>10. CASE copy
  BY <1>10, CallFields, CopyFields DEF copy, read_long
<1>11. CASE store
  BY <1>11, StoreFields DEF store
<1>12. CASE init_serial
  BY <1>12, GotoFields DEF init_serial
<1>13. CASE serial_up
  BY <1>13, GotoFields DEF serial_up
<1>14. CASE run
  BY <1>14, ContinueFields DEF run
<1>15. CASE single_step
  BY <1>15, GotoFields DEF single_step
<1>16. CASE process_requests
  BY <1>16, GotoFields DEF process_requests
<1>17. CASE halt
  BY <1>17, CallFields DEF halt, show_status
<1>18. CASE do_step
  BY <1>18, CallFields DEF do_step, show_status
<1>19. CASE shown
  BY <1>19, PrintFields DEF shown
<1>20. CASE space
  BY <1>20, SpaceFields DEF space
<1>21. CASE space_typed
  BY <1>21, GotoFields, ContinueFields DEF space_typed
<1>22. CASE do_trap
  BY <1>22, GotoFields, PrintFields, GetTrapFields DEF do_trap
<1>23. CASE got_char
  BY <1>23, GotoFields DEF got_char
<1>24. CASE char_out
  BY <1>24, GotoFields DEF char_out
<1>25. CASE resume
  BY <1>25, GotoFields, ContinueFields DEF resume
<1>26. CASE tx_room
  BY <1>26, GotoFields DEF tx_room
<1>27. CASE tx_head
  BY <1>27, GotoFields DEF tx_head
<1>28. CASE rxcheck
  BY <1>28, GotoFields DEF rxcheck
<1>29. CASE rx_byte
  BY <1>29, ReadFields DEF rx_byte
<1>30. CASE rx_tail
  BY <1>30, GotoFields DEF rx_tail
<1> QED
  BY <1>1, <1>2, <1>3, <1>4, <1>5, <1>6, <1>7, <1>8, <1>9, <1>10, <1>11, <1>12, <1>13, <1>14, <1>15, <1>16, <1>17, <1>18, <1>19, <1>20, <1>21, <1>22, <1>23, <1>24, <1>25, <1>26, <1>27, <1>28, <1>29, <1>30 DEF SpinCog

LEMMA InstructionEnds ==
  ASSUME Instruction, vm = "xbasic_vm"
  PROVE  status' \in {"STS_Success", "STS_Halt", "STS_StackOver", "STS_DivideZero", "STS_IllegalOpcode"}
BY DEF Instruction, Halt, Branch, BranchTest, BranchShortCircuit, UnaryOp, BinaryOp, Index, Literal, Dup,
       Drop, Clean, Native, Load, LoadByte, Store, LocalRef, LocalSet, PushJ, PopJ, Frame, Return, ReturnZero,
       Trap, GetChar, PutChar, NoSuchTrap, IllegalOpcode, stop, fixed, compute, push, leave, at, running, quiet

LEMMA VMCogInStep ==
  ASSUME Shape, InStep, VMCog
  PROVE  InStep'
<1> USE DEF InStep, SpinInStep, MailboxInStep, ReportInStep, Stopped, Stops, Posted, Answered, Reporting, Early, Late, Calling, Sending, Receiving, ReadLongs, ReadBytes, Returns, machine, hub, vmcog, history, others, no_instruction, no_vm, no_rings, spin_and, spin_only, at_spin, no_others
<1>1. CASE _init1
  BY <1>1 DEF _init1, report, registers
<1>2. CASE end_command
  BY <1>2, ReportFields DEF end_command
<1>3. CASE done_command
  BY <1>3, DoneFields DEF done_command
<1>4. CASE _VM_Continue
  BY <1>4 DEF _VM_Continue, command, completed
<1>5. CASE _VM_ReadLong
  BY <1>5, AnswerFields DEF _VM_ReadLong, command, report
<1>6. CASE _VM_WriteLong
  BY <1>6 DEF _VM_WriteLong, command, report
<1>7. CASE _VM_ReadByte
  BY <1>7, AnswerFields DEF _VM_ReadByte, command, report
<1>8. CASE _start
  <2>1. status' \in {"STS_Success", "STS_Halt", "STS_StackOver", "STS_DivideZero", "STS_IllegalOpcode"}
    BY <1>8, InstructionEnds DEF _start, Shape
  <2> QED
    BY <1>8, <2>1 DEF _start, _next, report, store_state
<1>9. CASE _OP_TRAP
  BY <1>9, AnswerFields DEF _OP_TRAP, report, store_state
<1> QED
  BY <1>1, <1>2, <1>3, <1>4, <1>5, <1>6, <1>7, <1>8, <1>9 DEF VMCog

LEMMA SerialCogInStep ==
  ASSUME InStep, SerialCog \/ receive
  PROVE  InStep'
BY DEF SerialCog, entry, receive_head, transmit, transmit_tail, receive, no_others, hub, vmcog,
       InStep, SpinInStep, MailboxInStep, ReportInStep, Stopped, Posted, Answered, Reporting

LEMMA NextInStep ==
  ASSUME Shape, InStep, Next
  PROVE  Shape' /\ InStep'
BY VMCogShape, SpinCogShape, SerialCogShape, SpinCogSpin, SpinCogMailbox, SpinCogReport, VMCogInStep, SerialCogInStep
   DEF Next, InStep

-----------------------------------------------------------------------------
(* The arithmetic of a ring. *)

LEMMA AfterIsNext ==
  ASSUME NEW i \in Slot
  PROVE  after(i) = slot(i, 1) /\ after(i) \in Slot
<1> USE VMRuntimeAssumption DEF Slot, slot, after
<1>1. CASE i + 1 < RingSize
  <2>1. (i + 1) % RingSize = i + 1
    BY <1>1
  <2> QED
    BY <1>1, <2>1
<1>2. CASE i + 1 = RingSize
  <2>1. RingSize % RingSize = 0
    OBVIOUS
  <2> QED
    BY <1>2, <2>1
<1> QED
  BY <1>1, <1>2

LEMMA SlotInRing ==
  ASSUME NEW i \in Slot, NEW k \in 0 .. RingSize
  PROVE  slot(i, k) \in Slot
BY VMRuntimeAssumption DEF Slot, slot

LEMMA NextSlot ==
  ASSUME NEW i \in Slot, NEW k \in 0 .. RingSize - 1
  PROVE  /\ after(slot(i, k)) = slot(i, k + 1)
         /\ slot(after(i), k) = slot(i, k + 1)
BY VMRuntimeAssumption, AfterIsNext, SlotInRing DEF Slot, slot

LEMMA SlotsDiffer ==
  ASSUME NEW i \in Slot, NEW j \in 0 .. RingSize - 1, NEW k \in 0 .. RingSize - 1, slot(i, j) = slot(i, k)
  PROVE  j = k
BY VMRuntimeAssumption DEF Slot, slot

LEMMA SlotsCover ==
  ASSUME NEW i \in Slot, NEW s \in Slot
  PROVE  \E k \in 0 .. RingSize - 1 : s = slot(i, k)
<1> USE VMRuntimeAssumption DEF Slot, slot
<1>1. CASE i <= s
  <2>1. s - i \in 0 .. RingSize - 1 /\ s = slot(i, s - i)
    BY <1>1
  <2> QED
    BY <2>1
<1>2. CASE s < i
  <2>1. s - i + RingSize \in 0 .. RingSize - 1 /\ s = slot(i, s - i + RingSize)
    BY <1>2
  <2> QED
    BY <2>1
<1> QED
  BY <1>1, <1>2

LEMMA SlotEnds ==
  ASSUME NEW i \in Slot
  PROVE  slot(i, 0) = i /\ slot(i, RingSize) = i
BY VMRuntimeAssumption DEF Slot, slot

(* Sequences of anything. *)

LEMMA SeqFacts ==
  ASSUME NEW s, IsSeq(s)
  PROVE  /\ Len(s) \in Nat /\ DOMAIN s = 1 .. Len(s)
         /\ \A k \in 1 .. Len(s) : s[k] \in ToSet(s)
BY LenProperties, ElementOfSeq DEF IsSeq

LEMMA SeqIsSeq ==
  ASSUME NEW S, NEW s \in Seq(S)
  PROVE  IsSeq(s)
<1>1. Len(s) \in Nat /\ s \in [1 .. Len(s) -> S]
  BY LenProperties
<1>2. s \in [1 .. Len(s) -> ToSet(s)]
  BY <1>1 DEF ToSet
<1> QED
  BY <1>1, <1>2, SeqDef DEF IsSeq

LEMMA AppendFacts ==
  ASSUME NEW s, IsSeq(s), NEW e
  PROVE  /\ IsSeq(Append(s, e)) /\ Len(Append(s, e)) = Len(s) + 1
         /\ \A k \in 1 .. Len(s) : Append(s, e)[k] = s[k]
         /\ Append(s, e)[Len(s) + 1] = e
         /\ ToSet(s) \subseteq ToSet(Append(s, e)) /\ e \in ToSet(Append(s, e))
         /\ \A x \in ToSet(Append(s, e)) : x \in ToSet(s) \/ x = e
<1> DEFINE T == ToSet(s) \cup {e}
           a == Append(s, e)
<1>1. s \in Seq(T) /\ e \in T
  BY SeqMonotonic DEF IsSeq
<1> HIDE DEF T
<1>2. a \in Seq(T) /\ Len(a) = Len(s) + 1 /\ Len(s) \in Nat
  BY <1>1
<1>3. \A k \in 1 .. Len(s) : a[k] = s[k]
  BY <1>1
<1>4. a[Len(s) + 1] = e
  BY <1>1
<1>5. DOMAIN s = 1 .. Len(s) /\ DOMAIN a = 1 .. Len(s) + 1
  BY <1>1, <1>2, LenProperties
<1>6. IsSeq(a)
  BY <1>2, SeqIsSeq
<1>7. ToSet(s) \subseteq ToSet(a) /\ e \in ToSet(a) /\ \A x \in ToSet(a) : x \in ToSet(s) \/ x = e
  BY <1>2, <1>3, <1>4, <1>5 DEF ToSet
<1> QED
  BY <1>2, <1>3, <1>4, <1>6, <1>7

LEMMA EmptyFacts == IsSeq(<<>>) /\ Len(<<>>) = 0
BY SeqIsSeq, EmptySeq

LEMMA PrefixByElements ==
  ASSUME NEW s, IsSeq(s), NEW t, IsSeq(t), Len(s) <= Len(t), \A k \in 1 .. Len(s) : s[k] = t[k]
  PROVE  IsPrefix(s, t)
<1> DEFINE T == ToSet(s) \cup ToSet(t)
<1>1. s \in Seq(T) /\ t \in Seq(T)
  BY SeqMonotonic DEF IsSeq
<1>2. \A k \in 1 .. Len(s) : s[k] \in T /\ t[k] \in T
  BY SeqFacts
<1> HIDE DEF T
<1>3. Len(s) \in Nat
  BY SeqFacts
<1>4. SubSeq(s, 1, Len(s)) \in Seq(T) /\ SubSeq(t, 1, Len(s)) \in Seq(T)
  BY <1>2, <1>3, SubSeqProperties
<1>5. /\ Len(SubSeq(s, 1, Len(s))) = Len(s) /\ Len(SubSeq(t, 1, Len(s))) = Len(s)
      /\ \A k \in 1 .. Len(s) : SubSeq(s, 1, Len(s))[k] = s[k] /\ SubSeq(t, 1, Len(s))[k] = t[k]
  BY <1>2, <1>3, SubSeqProperties
<1>6. SubSeq(s, 1, Len(s)) = SubSeq(t, 1, Len(s))
  BY <1>4, <1>5, SeqEqual
<1> QED
  BY <1>6 DEF IsPrefix

-----------------------------------------------------------------------------
(* The ring of what is typed. *)

LEMMA InitRings == Init => RingsInStep
<1> SUFFICES ASSUME Init PROVE RingsInStep
  OBVIOUS
<1>1. 0 \in Slot /\ slot(0, 0) = 0
  BY VMRuntimeAssumption DEF Slot, slot
<1>2. spin.at = "start" /\ serial.cog = "off" /\ serial.rx = "idle" /\ serial.tx = "idle"
  BY DEF Init
<1>3. Unborn
  BY DEF Init, Unborn
<1>4. /\ rx = [head |-> 0, tail |-> 0, buffer |-> [i \in Slot |-> 0]]
      /\ tx = [head |-> 0, tail |-> 0, buffer |-> [i \in Slot |-> char_item(0)]]
  BY DEF Init, Slot
<1>5. SerialInStep
  BY <1>2, <1>3, <1>4 DEF SerialInStep, Loading, Early
<1>6. RxInStep
  <2>1. typed \in Seq(Chars) /\ taken \in Seq(Chars) /\ overrun = FALSE
    BY EmptySeq DEF Init
  <2>2. rx.head = 0 /\ rx.tail = 0 /\ rx.buffer = [i \in Slot |-> 0]
    BY <1>4
  <2> QED
    BY <1>1, <1>2, <1>4, <2>1, <2>2 DEF RxInStep
<1>7. TxInStep
  BY <1>1, <1>2, <1>3, <1>4, EmptyFacts, VMRuntimeAssumption DEF TxInStep, Unborn, unsent
<1> QED
  BY <1>5, <1>6, <1>7 DEF RingsInStep

(* The steps that leave the rings alone, and those of the Spin cog that    *)
(* read.                                                                   *)
LEMMA OthersKeepRx ==
  ASSUME RxInStep, UNCHANGED <<rx, typed, taken, overrun, serial>>,
         spin.at' \notin {"rx_byte", "rx_tail", "got_char"} \/ UNCHANGED spin
  PROVE  RxInStep'
BY DEF RxInStep, Overrun, InOrder, unread, arrived

LEMMA OthersKeepTx ==
  ASSUME TxInStep, UNCHANGED <<tx, put, sent, serial>>,
         spin.at' # "tx_head" \/ UNCHANGED spin
  PROVE  TxInStep'
BY DEF TxInStep, unsent

LEMMA CheckRx ==
  ASSUME Shape, SerialInStep, RxInStep, rxcheck
  PROVE  RxInStep'
<1>1. spin'.at = "rx_byte" /\ UNCHANGED <<rx, typed, taken, overrun, serial>> /\ spin.at = "rx"
  BY GotoFields DEF rxcheck, at_spin, spin_only, spin_and, no_vm, no_rings, history
<1>2. serial.cog = "running"
  BY <1>1 DEF SerialInStep, Loading, Early, Calling
<1>3. CASE overrun
  BY <1>1, <1>2, <1>3 DEF RxInStep, Overrun
<1>4. CASE ~ overrun
  <2>1. unread > 0
    BY <1>2, <1>4, SlotEnds, VMRuntimeAssumption DEF rxcheck, RxInStep, InOrder
  <2> QED
    BY <1>1, <1>2, <1>4, <2>1 DEF RxInStep, InOrder, unread, arrived
<1> QED
  BY <1>3, <1>4 DEF RxInStep

LEMMA ReadRx ==
  ASSUME Shape, SerialInStep, RxInStep, rx_byte
  PROVE  RxInStep'
<1>1. /\ spin'.at = "rx_tail" /\ spin'.value = rx.buffer[rx.tail] /\ spin.at = "rx_byte"
      /\ UNCHANGED <<rx, typed, taken, overrun, serial>>
  BY ReadFields DEF rx_byte, at_spin, spin_only, spin_and, no_vm, no_rings, history
<1>2. serial.cog = "running"
  BY <1>1 DEF SerialInStep, Loading, Early, Calling
<1>3. CASE overrun
  BY <1>1, <1>2, <1>3 DEF RxInStep, Overrun
<1>4. CASE ~ overrun
  <2>1. unread > 0 /\ unread \in Nat /\ Len(taken) \in Nat
    BY <1>1, <1>2, <1>4, LenProperties, VMRuntimeAssumption DEF RxInStep, InOrder
  <2>2. rx.buffer[rx.tail] = typed[Len(taken) + 1]
    BY <1>2, <1>4, <2>1, SlotEnds DEF RxInStep, InOrder
  <2> QED
    BY <1>1, <1>2, <1>4, <2>1, <2>2 DEF RxInStep, InOrder, unread, arrived
<1> QED
  BY <1>3, <1>4 DEF RxInStep

LEMMA TakeRx ==
  ASSUME Shape, SerialInStep, SpinInStep, RxInStep, rx_tail
  PROVE  RxInStep'
<1>1. /\ spin'.at = spin.then /\ spin'.value = spin.value /\ spin.at = "rx_tail"
      /\ spin.then \in {"space_typed", "got_char"}
      /\ taken' = Append(taken, spin.value)
      /\ UNCHANGED <<typed, overrun, serial>>
  BY GotoFields DEF rx_tail, at_spin, no_vm, SpinInStep, Receiving
<1>2. serial.cog = "running"
  BY <1>1 DEF SerialInStep, Loading, Early, Calling
<1>3. /\ rx'.tail = after(rx.tail) /\ UNCHANGED <<rx.head, rx.buffer>>
      /\ rx' = [head |-> rx'.head, tail |-> rx'.tail, buffer |-> rx'.buffer]
  BY DEF rx_tail, RxInStep
<1>4. rx'.tail \in Slot
  BY <1>3, AfterIsNext DEF RxInStep
<1>5. IsSeq(typed) /\ IsSeq(taken) /\ Len(typed) \in Nat /\ Len(taken) \in Nat
  BY SeqIsSeq, LenProperties DEF RxInStep
<1>6. CASE overrun
  <2>1. spin.value \in Chars
    BY <1>1, <1>2, <1>6, <1>5, ElementOfSeq, LenProperties DEF RxInStep, Overrun, ToSet
  <2>2. taken' \in Seq(Chars)
    BY <1>1, <2>1 DEF RxInStep
  <2>3. Overrun'
    BY <1>1, <1>2, <1>3, <1>5, <1>6, AppendFacts DEF RxInStep, Overrun
  <2> QED
    BY <1>1, <1>3, <1>4, <1>6, <2>1, <2>2, <2>3 DEF RxInStep
<1>7. CASE ~ overrun
  <2> DEFINE n == unread
             T == Len(taken)
  <2>1. n \in 1 .. RingSize - 1 /\ spin.value = typed[T + 1] /\ rx.head = slot(rx.tail, n)
    BY <1>1, <1>2, <1>7, VMRuntimeAssumption DEF RxInStep, InOrder
  <2>2. T + n <= Len(typed) /\ T + n = arrived
    BY <1>5, <2>1 DEF RxInStep, unread, arrived
  <2>3. spin.value \in Chars
    BY <1>5, <2>1, <2>2, ElementOfSeq, VMRuntimeAssumption DEF RxInStep
  <2>4. /\ Len(taken') = T + 1 /\ taken' \in Seq(Chars)
        /\ \A k \in 1 .. T : taken'[k] = taken[k]
        /\ taken'[T + 1] = spin.value
    BY <1>1, <1>5, <2>3, AppendFacts DEF RxInStep
  <2>5. unread' = n - 1
    BY <1>1, <1>5, <2>4 DEF RxInStep, unread, arrived
  <2>6. rx'.head = slot(rx'.tail, n - 1)
    BY <1>3, <2>1, NextSlot, VMRuntimeAssumption DEF RxInStep
  <2>7. \A k \in 0 .. n - 2 : rx'.buffer[slot(rx'.tail, k)] = typed'[T + 1 + 1 + k]
    <3> SUFFICES ASSUME NEW k \in 0 .. n - 2
                 PROVE  rx'.buffer[slot(rx'.tail, k)] = typed'[T + 1 + 1 + k]
      OBVIOUS
    <3>1. slot(rx'.tail, k) = slot(rx.tail, k + 1) /\ k + 1 \in 0 .. n - 1
      BY <1>3, <2>1, NextSlot, VMRuntimeAssumption DEF RxInStep
    <3>2. rx.buffer[slot(rx.tail, k + 1)] = typed[T + 1 + (k + 1)]
      BY <1>2, <1>7, <3>1 DEF RxInStep, InOrder
    <3> QED
      BY <1>1, <1>3, <1>5, <3>1, <3>2
  <2>8. \A k \in 1 .. T + 1 : taken'[k] = typed'[k]
    BY <1>1, <1>2, <1>5, <1>7, <2>1, <2>4 DEF RxInStep, InOrder
  <2>9. InOrder'
    <3>1. unread' \in 0 .. RingSize - 1 /\ rx'.head = slot(rx'.tail, unread')
      BY <2>1, <2>5, <2>6, VMRuntimeAssumption
    <3>2. \A k \in 0 .. unread' - 1 : rx'.buffer[slot(rx'.tail, k)] = typed'[Len(taken') + 1 + k]
      BY <1>5, <2>1, <2>4, <2>5, <2>7
    <3>3. serial'.rx = "head" => rx'.buffer[rx'.head] = typed'[Len(typed')]
      BY <1>1, <1>2, <1>3, <1>7 DEF RxInStep, InOrder
    <3>4. \A k \in 1 .. Len(taken') : taken'[k] = typed'[k]
      BY <2>4, <2>8
    <3> QED
      BY <1>1, <3>1, <3>2, <3>3, <3>4 DEF InOrder
  <2> QED
    BY <1>1, <1>3, <1>4, <1>7, <2>3, <2>4, <2>9 DEF RxInStep
<1> QED
  BY <1>6, <1>7 DEF RxInStep

(* The serial cog. *)

LEMMA StartRx ==
  ASSUME Shape, SerialInStep, RxInStep, init_serial \/ entry
  PROVE  RxInStep'
<1>1. 0 \in Slot /\ 1 \in Slot /\ slot(0, 0) = 0
  BY VMRuntimeAssumption DEF Slot, slot
<1>2. CASE init_serial
  <2>1. spin'.at = "serial_up" /\ serial'.cog = "entry" /\ serial'.rx = serial.rx /\ UNCHANGED history
    BY <1>2, GotoFields DEF init_serial, Shape
  <2>2. rx' = [head |-> 1, tail |-> 0, buffer |-> rx.buffer]
    BY <1>2 DEF init_serial, RxInStep
  <2> QED
    BY <1>1, <2>1, <2>2 DEF RxInStep, history
<1>3. CASE entry
  <2>1. UNCHANGED <<spin, history>> /\ serial'.cog = "running" /\ serial'.rx = serial.rx
    BY <1>3 DEF entry, no_others, Shape
  <2>2. rx' = [head |-> 0, tail |-> rx.tail, buffer |-> rx.buffer]
    BY <1>3 DEF entry, RxInStep
  <2>3. Unborn /\ rx.tail = 0 /\ spin.at = "serial_up"
    BY <1>3 DEF entry, SerialInStep
  <2>4. InOrder'
    BY <1>1, <2>1, <2>2, <2>3, EmptyFacts, VMRuntimeAssumption DEF InOrder, unread, arrived, Unborn, history
  <2> QED
    BY <1>1, <2>1, <2>2, <2>3, <2>4 DEF RxInStep, Unborn, history
<1> QED
  BY <1>2, <1>3

LEMMA ReceiveRx ==
  ASSUME Shape, SerialInStep, RxInStep, receive
  PROVE  RxInStep'
<1>1. PICK c \in Chars : rx' = [rx EXCEPT !.buffer[rx.head] = c] /\ typed' = Append(typed, c)
  BY DEF receive
<1>2. /\ UNCHANGED <<spin, taken, overrun>> /\ serial.cog = "running" /\ serial'.cog = "running"
      /\ serial.rx = "idle" /\ serial'.rx = "head"
  BY DEF receive, no_others, Shape
<1>3. /\ rx' = [head |-> rx.head, tail |-> rx.tail, buffer |-> [rx.buffer EXCEPT ![rx.head] = c]]
      /\ rx.head \in Slot /\ rx.tail \in Slot /\ DOMAIN rx'.buffer = Slot
      /\ rx'.buffer[rx.head] = c /\ \A i \in Slot : i # rx.head => rx'.buffer[i] = rx.buffer[i]
  BY <1>1 DEF RxInStep
<1>4. IsSeq(typed) /\ IsSeq(taken) /\ Len(typed) \in Nat /\ Len(taken) \in Nat
  BY SeqIsSeq, LenProperties DEF RxInStep
<1>5. /\ typed' \in Seq(Chars) /\ Len(typed') = Len(typed) + 1 /\ typed' # <<>>
      /\ \A k \in 1 .. Len(typed) : typed'[k] = typed[k]
      /\ typed'[Len(typed')] = c
      /\ ToSet(typed) \subseteq ToSet(typed') /\ c \in ToSet(typed')
  BY <1>1, <1>4, AppendFacts, EmptyFacts DEF RxInStep
<1>6. CASE overrun
  <2>1. Overrun'
    BY <1>2, <1>3, <1>5, <1>6 DEF RxInStep, Overrun
  <2> QED
    BY <1>1, <1>2, <1>3, <1>5, <1>6, <2>1 DEF RxInStep
<1>7. CASE ~ overrun
  <2> DEFINE n == unread
             T == Len(taken)
  <2>1. n \in 0 .. RingSize - 1 /\ rx.head = slot(rx.tail, n) /\ T + n = Len(typed)
    BY <1>2, <1>4, <1>7, VMRuntimeAssumption DEF RxInStep, InOrder, unread, arrived
  <2>2. unread' = n
    BY <1>2, <1>4, <1>5, <2>1 DEF unread, arrived
  <2>3. \A k \in 0 .. n - 1 : rx'.buffer[slot(rx'.tail, k)] = typed'[T + 1 + k]
    <3> SUFFICES ASSUME NEW k \in 0 .. n - 1
                 PROVE  rx'.buffer[slot(rx'.tail, k)] = typed'[T + 1 + k]
      OBVIOUS
    <3>1. slot(rx.tail, k) \in Slot /\ slot(rx.tail, k) # rx.head
      BY <1>3, <2>1, SlotInRing, SlotsDiffer, VMRuntimeAssumption
    <3>2. rx.buffer[slot(rx.tail, k)] = typed[T + 1 + k]
      BY <1>2, <1>7 DEF RxInStep, InOrder
    <3>3. T + 1 + k \in 1 .. Len(typed)
      BY <1>4, <2>1, VMRuntimeAssumption
    <3> QED
      BY <1>3, <1>5, <3>1, <3>2, <3>3
  <2>4. \A k \in 1 .. T : taken[k] = typed'[k]
    BY <1>2, <1>4, <1>5, <1>7, <2>1, VMRuntimeAssumption DEF RxInStep, InOrder
  <2>5. spin.at = "rx_tail" => spin.value = typed'[T + 1]
    BY <1>2, <1>4, <1>5, <1>7, <2>1, VMRuntimeAssumption DEF RxInStep, InOrder
  <2>6. spin.at \in {"rx_byte", "rx_tail"} => n > 0
    BY <1>2, <1>7 DEF RxInStep, InOrder
  <2>7. InOrder'
    <3>1. unread' \in 0 .. RingSize - 1 /\ rx'.head = slot(rx'.tail, unread')
      BY <1>3, <2>1, <2>2
    <3>2. rx'.buffer[rx'.head] = typed'[Len(typed')]
      BY <1>3, <1>5
    <3> QED
      BY <1>2, <2>2, <2>3, <2>4, <2>5, <2>6, <3>1, <3>2 DEF InOrder
  <2> QED
    BY <1>1, <1>2, <1>3, <1>5, <1>7, <2>7 DEF RxInStep
<1> QED
  BY <1>6, <1>7 DEF RxInStep

LEMMA ReceiveHeadRx ==
  ASSUME Shape, SerialInStep, RxInStep, receive_head
  PROVE  RxInStep'
<1>1. /\ UNCHANGED <<spin, taken, typed>> /\ serial.rx = "head" /\ serial'.rx = "idle"
      /\ serial'.cog = serial.cog /\ overrun' = (overrun \/ after(rx.head) = rx.tail)
  BY DEF receive_head, no_others, Shape
<1>2. serial.cog = "running"
  BY <1>1 DEF SerialInStep, Unborn
<1>3. /\ rx' = [head |-> after(rx.head), tail |-> rx.tail, buffer |-> rx.buffer]
      /\ rx.head \in Slot /\ rx.tail \in Slot /\ after(rx.head) \in Slot
  BY AfterIsNext DEF receive_head, RxInStep
<1>4. IsSeq(typed) /\ IsSeq(taken) /\ Len(typed) \in Nat /\ Len(taken) \in Nat /\ DOMAIN typed = 1 .. Len(typed)
  BY SeqIsSeq, SeqFacts, LenProperties DEF RxInStep
<1>5. CASE overrun
  <2>1. Overrun'
    BY <1>1, <1>2, <1>3, <1>5 DEF RxInStep, Overrun
  <2> QED
    BY <1>1, <1>3, <1>5, <2>1 DEF RxInStep
<1>6. CASE ~ overrun
  <2> DEFINE n == unread
             T == Len(taken)
  <2>0. InOrder
    BY <1>2, <1>6 DEF RxInStep
  <2>1. /\ n \in 0 .. RingSize - 1 /\ rx.head = slot(rx.tail, n) /\ T + n + 1 = Len(typed)
        /\ after(rx.head) = slot(rx.tail, n + 1)
        /\ rx.buffer[rx.head] = typed[T + 1 + n]
    BY <1>1, <1>3, <1>4, <2>0, NextSlot, VMRuntimeAssumption DEF InOrder, unread, arrived
  <2>2. \A k \in 0 .. n : rx.buffer[slot(rx.tail, k)] = typed[T + 1 + k]
    BY <2>0, <2>1, VMRuntimeAssumption DEF InOrder
  <2>3. \A k \in 1 .. T : taken[k] = typed[k]
    BY <2>0 DEF InOrder
  <2>4. spin.at = "rx_tail" => spin.value = typed[T + 1] /\ n > 0
    BY <2>0 DEF InOrder
  <2>5. CASE n = RingSize - 1
    <3>1. overrun'
      <4>1. n + 1 = RingSize
        BY <2>5, VMRuntimeAssumption
      <4>2. after(rx.head) = rx.tail
        BY <1>3, <2>1, <4>1, SlotEnds, Zenon
      <4> QED
        BY <1>1, <4>2
    <3>2. \A k \in 1 .. Len(typed) : typed[k] \in ToSet(typed)
      BY <1>4, SeqFacts
    <3>3. \A i \in Slot : rx.buffer[i] \in ToSet(typed)
      <4> SUFFICES ASSUME NEW i \in Slot PROVE rx.buffer[i] \in ToSet(typed)
        OBVIOUS
      <4>1. PICK k \in 0 .. RingSize - 1 : i = slot(rx.tail, k)
        BY <1>3, SlotsCover
      <4>2. rx.buffer[i] = typed[T + 1 + k] /\ T + 1 + k \in 1 .. Len(typed)
        BY <1>4, <2>1, <2>2, <2>5, <4>1, VMRuntimeAssumption
      <4> QED
        BY <3>2, <4>2
    <3>4. spin.at = "rx_tail" => spin.value \in ToSet(typed)
      BY <1>4, <2>1, <2>4, <3>2, VMRuntimeAssumption
    <3>5. ToSet(taken) \subseteq ToSet(typed)
      <4> SUFFICES ASSUME NEW x \in ToSet(taken) PROVE x \in ToSet(typed)
        OBVIOUS
      <4>1. PICK k \in 1 .. T : x = taken[k]
        BY <1>4, SeqFacts DEF ToSet
      <4> QED
        BY <1>4, <2>1, <2>3, <3>2, <4>1, VMRuntimeAssumption
    <3>6. Overrun'
      BY <1>1, <1>3, <3>3, <3>4, <3>5 DEF Overrun
    <3> QED
      BY <1>1, <1>3, <3>1, <3>6 DEF RxInStep
  <2>6. CASE n < RingSize - 1
    <3>1. ~ overrun'
      <4>1. n + 1 \in 0 .. RingSize - 1 /\ 0 \in 0 .. RingSize - 1 /\ n + 1 # 0
        BY <2>1, <2>6, VMRuntimeAssumption
      <4>2. after(rx.head) # rx.tail
        BY <1>3, <2>1, <4>1, SlotEnds, SlotsDiffer, Zenon
      <4> QED
        BY <1>1, <1>6, <4>2
    <3>2. unread' = n + 1
      BY <1>1, <1>4, <2>1, VMRuntimeAssumption DEF unread, arrived
    <3>3. \A k \in 0 .. unread' - 1 : rx'.buffer[slot(rx'.tail, k)] = typed'[Len(taken') + 1 + k]
      BY <1>1, <1>3, <2>1, <2>2, <3>2, VMRuntimeAssumption
    <3>4. unread' \in 0 .. RingSize - 1 /\ unread' > 0 /\ rx'.head = slot(rx'.tail, unread')
      BY <1>3, <2>1, <2>6, <3>2, VMRuntimeAssumption
    <3>5. InOrder'
      BY <1>1, <2>3, <2>4, <3>3, <3>4 DEF InOrder
    <3> QED
      BY <1>1, <1>3, <3>1, <3>5 DEF RxInStep
  <2> QED
    BY <2>1, <2>5, <2>6, VMRuntimeAssumption
<1> QED
  BY <1>5, <1>6 DEF RxInStep

-----------------------------------------------------------------------------
(* The ring of what is printed. *)

LEMMA StartTx ==
  ASSUME Shape, SerialInStep, TxInStep, init_serial
  PROVE  TxInStep'
<1>1. 0 \in Slot /\ slot(0, 0) = 0
  BY VMRuntimeAssumption DEF Slot, slot
<1>2. spin'.at = "serial_up" /\ serial'.tx = serial.tx /\ UNCHANGED <<put, sent>>
  BY GotoFields DEF init_serial, Shape, history
<1>3. tx' = [head |-> 0, tail |-> 0, buffer |-> tx.buffer]
  BY DEF init_serial, TxInStep
<1>4. put = <<>> /\ sent = <<>> /\ serial.tx = "idle"
  BY DEF init_serial, at_spin, SerialInStep, Loading, Early, Unborn
<1> QED
  BY <1>1, <1>2, <1>3, <1>4, EmptyFacts, VMRuntimeAssumption DEF TxInStep, unsent

LEMMA RoomTx ==
  ASSUME Shape, TxInStep, tx_room
  PROVE  TxInStep'
<1>1. /\ spin'.at = "tx_head" /\ spin'.item = spin.item /\ UNCHANGED <<put, sent, serial>>
      /\ tx.tail # after(tx.head)
  BY GotoFields DEF tx_room, no_vm, history, shows
<1>2. /\ tx' = [head |-> tx.head, tail |-> tx.tail, buffer |-> [tx.buffer EXCEPT ![tx.head] = spin.item]]
      /\ tx.head \in Slot /\ tx.tail \in Slot /\ DOMAIN tx'.buffer = Slot
      /\ tx'.buffer[tx.head] = spin.item /\ \A i \in Slot : i # tx.head => tx'.buffer[i] = tx.buffer[i]
  BY DEF tx_room, TxInStep
<1> DEFINE n == unsent
<1>3. n \in 0 .. RingSize - 1 /\ tx.head = slot(tx.tail, n)
  BY DEF TxInStep
<1>4. n < RingSize - 1
  <2>1. after(tx.head) = slot(tx.tail, n + 1)
    BY <1>2, <1>3, NextSlot
  <2>2. n = RingSize - 1 => after(tx.head) = tx.tail
    BY <1>2, <2>1, SlotEnds, VMRuntimeAssumption
  <2> QED
    BY <1>1, <1>3, <2>2, VMRuntimeAssumption
<1>5. \A k \in 0 .. n - 1 : tx'.buffer[slot(tx'.tail, k)] = put[Len(sent) + 1 + k]
  <2> SUFFICES ASSUME NEW k \in 0 .. n - 1
               PROVE  tx'.buffer[slot(tx'.tail, k)] = put[Len(sent) + 1 + k]
    OBVIOUS
  <2>1. slot(tx.tail, k) \in Slot /\ slot(tx.tail, k) # tx.head
    BY <1>2, <1>3, SlotInRing, SlotsDiffer, VMRuntimeAssumption
  <2> QED
    BY <1>2, <2>1 DEF TxInStep
<1>6. unsent' = n
  BY <1>1 DEF unsent
<1> QED
  BY <1>1, <1>2, <1>3, <1>4, <1>5, <1>6 DEF TxInStep

LEMMA HeadTx ==
  ASSUME Shape, SpinInStep, TxInStep, tx_head
  PROVE  TxInStep'
<1>1. /\ spin.at = "tx_head" /\ spin'.at # "tx_head" /\ put' = Append(put, spin.item)
      /\ UNCHANGED <<sent, serial>>
  BY GotoFields DEF tx_head, at_spin, no_vm, SpinInStep, Sending
<1>2. /\ tx' = [head |-> after(tx.head), tail |-> tx.tail, buffer |-> tx.buffer]
      /\ tx.head \in Slot /\ tx.tail \in Slot /\ after(tx.head) \in Slot
  BY AfterIsNext DEF tx_head, TxInStep
<1> DEFINE n == unsent
<1>3. /\ n \in 0 .. RingSize - 1 /\ n < RingSize - 1 /\ tx.head = slot(tx.tail, n)
      /\ tx.buffer[tx.head] = spin.item
  BY <1>1 DEF TxInStep
<1>4. IsSeq(put) /\ IsSeq(sent) /\ Len(put) \in Nat /\ Len(sent) \in Nat /\ n = Len(put) - Len(sent)
  BY SeqFacts DEF TxInStep, unsent
<1>5. /\ IsSeq(put') /\ Len(put') = Len(put) + 1 /\ put'[Len(put) + 1] = spin.item
      /\ \A k \in 1 .. Len(put) : put'[k] = put[k]
  BY <1>1, <1>4, AppendFacts
<1>6. unsent' = n + 1
  BY <1>1, <1>4, <1>5 DEF unsent
<1>7. after(tx.head) = slot(tx.tail, n + 1)
  BY <1>2, <1>3, NextSlot
<1>8. \A k \in 0 .. n : tx.buffer[slot(tx.tail, k)] = put'[Len(sent) + 1 + k]
  <2> SUFFICES ASSUME NEW k \in 0 .. n
               PROVE  tx.buffer[slot(tx.tail, k)] = put'[Len(sent) + 1 + k]
    OBVIOUS
  <2>1. CASE k = n
    <3>1. Len(sent) + 1 + k = Len(put) + 1
      BY <1>4, <2>1
    <3> QED
      BY <1>3, <1>5, <2>1, <3>1
  <2>2. CASE k # n
    <3>1. k \in 0 .. n - 1 /\ Len(sent) + 1 + k \in 1 .. Len(put)
      BY <1>3, <1>4, <2>2, VMRuntimeAssumption
    <3> QED
      BY <1>5, <3>1 DEF TxInStep
  <2> QED
    BY <2>1, <2>2
<1>9. \A k \in 1 .. Len(sent) : sent[k] = put'[k]
  BY <1>3, <1>4, <1>5, VMRuntimeAssumption DEF TxInStep
<1>10. serial.tx = "tail" => serial.txdata = put'[Len(sent) + 1]
  <2>1. serial.tx = "tail" => n > 0 /\ serial.txdata = put[Len(sent) + 1]
    BY DEF TxInStep
  <2> QED
    BY <1>3, <1>4, <1>5, <2>1, VMRuntimeAssumption
<1>11. unsent' \in 0 .. RingSize - 1 /\ unsent' > 0 /\ tx'.head = slot(tx'.tail, unsent')
  BY <1>2, <1>3, <1>6, <1>7, VMRuntimeAssumption
<1>12. \A k \in 0 .. unsent' - 1 : tx'.buffer[slot(tx'.tail, k)] = put'[Len(sent') + 1 + k]
  <2>1. unsent' - 1 = n
    BY <1>3, <1>6, VMRuntimeAssumption
  <2>2. sent' = sent /\ tx'.buffer = tx.buffer /\ tx'.tail = tx.tail
    BY <1>1, <1>2
  <2> QED
    BY <1>8, <2>1, <2>2, Zenon
<1> QED
  BY <1>1, <1>2, <1>4, <1>5, <1>9, <1>10, <1>11, <1>12 DEF TxInStep

LEMMA TransmitTx ==
  ASSUME Shape, TxInStep, transmit
  PROVE  TxInStep'
<1>1. /\ UNCHANGED <<spin, tx, put, sent>> /\ tx.head # tx.tail
      /\ serial'.tx = "tail" /\ serial'.txdata = tx.buffer[tx.tail]
  BY DEF transmit, no_others, Shape, history
<1>2. unsent > 0 /\ unsent \in 0 .. RingSize - 1
  BY <1>1, SlotEnds, VMRuntimeAssumption DEF TxInStep
<1>3. tx.buffer[tx.tail] = put[Len(sent) + 1]
  <2>1. tx.buffer[slot(tx.tail, 0)] = put[Len(sent) + 1 + 0]
    BY <1>2, VMRuntimeAssumption DEF TxInStep
  <2>2. Len(sent) \in Nat
    BY SeqFacts DEF TxInStep
  <2> QED
    BY <2>1, <2>2, SlotEnds DEF TxInStep
<1> QED
  BY <1>1, <1>2, <1>3 DEF TxInStep, unsent

LEMMA TailTx ==
  ASSUME Shape, TxInStep, transmit_tail
  PROVE  TxInStep'
<1>1. /\ UNCHANGED <<spin, put>> /\ serial.tx = "tail" /\ serial'.tx = "idle"
      /\ sent' = Append(sent, serial.txdata)
  BY DEF transmit_tail, no_others, Shape
<1>2. /\ tx' = [head |-> tx.head, tail |-> after(tx.tail), buffer |-> tx.buffer]
      /\ tx.head \in Slot /\ tx.tail \in Slot /\ after(tx.tail) \in Slot
  BY AfterIsNext DEF transmit_tail, TxInStep
<1> DEFINE n == unsent
<1>3. n \in 1 .. RingSize - 1 /\ tx.head = slot(tx.tail, n) /\ serial.txdata = put[Len(sent) + 1]
  BY <1>1, VMRuntimeAssumption DEF TxInStep
<1>4. IsSeq(put) /\ IsSeq(sent) /\ Len(put) \in Nat /\ Len(sent) \in Nat /\ n = Len(put) - Len(sent)
  BY SeqFacts DEF TxInStep, unsent
<1>5. /\ IsSeq(sent') /\ Len(sent') = Len(sent) + 1 /\ sent'[Len(sent) + 1] = serial.txdata
      /\ \A k \in 1 .. Len(sent) : sent'[k] = sent[k]
  BY <1>1, <1>4, AppendFacts
<1>6. unsent' = n - 1
  BY <1>1, <1>4, <1>5 DEF unsent
<1>7. tx'.head = slot(tx'.tail, n - 1)
  BY <1>2, <1>3, NextSlot, VMRuntimeAssumption
<1>8. \A k \in 0 .. unsent' - 1 : tx'.buffer[slot(tx'.tail, k)] = put'[Len(sent') + 1 + k]
  <2> SUFFICES ASSUME NEW k \in 0 .. n - 2
               PROVE  tx'.buffer[slot(tx'.tail, k)] = put[Len(sent) + 1 + 1 + k]
    BY <1>1, <1>3, <1>4, <1>5, <1>6
  <2>1. slot(tx'.tail, k) = slot(tx.tail, k + 1) /\ k + 1 \in 0 .. n - 1
    BY <1>2, <1>3, NextSlot, VMRuntimeAssumption
  <2>2. tx.buffer[slot(tx.tail, k + 1)] = put[Len(sent) + 1 + (k + 1)]
    BY <2>1 DEF TxInStep
  <2> QED
    BY <1>2, <1>4, <2>1, <2>2
<1>9. \A k \in 1 .. Len(sent') : sent'[k] = put'[k]
  BY <1>1, <1>3, <1>4, <1>5 DEF TxInStep
<1>10. unsent' \in 0 .. RingSize - 1 /\ unsent' < RingSize - 1 /\ tx'.head = slot(tx'.tail, unsent')
  BY <1>3, <1>6, <1>7, VMRuntimeAssumption
<1> QED
  BY <1>1, <1>2, <1>4, <1>5, <1>8, <1>9, <1>10 DEF TxInStep

-----------------------------------------------------------------------------
(* The rings in every step. *)

LEMMA InitSerialFields ==
  ASSUME init_serial, SerialInStep, RxInStep, Shape
  PROVE  serial'.cog = "entry" /\ rx'.head = 1 /\ rx'.tail = 0 /\ UNCHANGED <<serial.rx, serial.tx>>
BY DEF init_serial, RxInStep, Shape

LEMMA SpinCogSerial ==
  ASSUME Shape, InStep, SerialInStep, RxInStep, SpinCog
  PROVE  SerialInStep'
<1> USE DEF request, loader, shows, InStep, SpinInStep, MailboxInStep, SerialInStep, Unborn, Loading, Answered, Early, Late, Calling, Sending, Receiving, ReadLongs, ReadBytes, Returns, machine, hub, vmcog, history, others, no_instruction, no_vm, no_rings, spin_and, spin_only, at_spin, no_others
<1>1. CASE set_arguments
  BY <1>1, GotoFields, ArgumentFields DEF set_arguments
<1>2. CASE set_command
  BY <1>2, GotoFields, CommandFields DEF set_command
<1>3. CASE poll
  BY <1>3, PollFields DEF poll
<1>4. CASE start
  BY <1>4, GotoFields, StartFields DEF start
<1>5. CASE cognew
  BY <1>5, CognewFields DEF cognew
<1>6. CASE load
  BY <1>6, CallFields DEF load, read_long
<1>7. CASE load_word
  BY <1>7, LoadWordFields DEF load_word
<1>8. CASE section
  BY <1>8, GotoFields, CallFields, SectionFields DEF section, read_long
<1>9. CASE section_word
  BY <1>9, SectionWordFields DEF section_word
<1>10. CASE copy
  BY <1>10, CallFields, CopyFields DEF copy, read_long
<1>11. CASE store
  BY <1>11, StoreFields DEF store
<1>12. CASE init_serial
  BY <1>12, GotoFields, InitSerialFields DEF init_serial
<1>13. CASE serial_up
  BY <1>13, GotoFields DEF serial_up
<1>14. CASE run
  BY <1>14, ContinueFields DEF run
<1>15. CASE single_step
  BY <1>15, GotoFields DEF single_step
<1>16. CASE process_requests
  BY <1>16, GotoFields DEF process_requests
<1>17. CASE halt
  BY <1>17, CallFields DEF halt, show_status
<1>18. CASE do_step
  BY <1>18, CallFields DEF do_step, show_status
<1>19. CASE shown
  BY <1>19, PrintFields DEF shown
<1>20. CASE space
  BY <1>20, SpaceFields DEF space
<1>21. CASE space_typed
  BY <1>21, GotoFields, ContinueFields DEF space_typed
<1>22. CASE do_trap
  BY <1>22, GotoFields, PrintFields, GetTrapFields DEF do_trap
<1>23. CASE got_char
  BY <1>23, GotoFields DEF got_char
<1>24. CASE char_out
  BY <1>24, GotoFields DEF char_out
<1>25. CASE resume
  BY <1>25, GotoFields, ContinueFields DEF resume
<1>26. CASE tx_room
  BY <1>26, GotoFields DEF tx_room
<1>27. CASE tx_head
  BY <1>27, GotoFields DEF tx_head
<1>28. CASE rxcheck
  BY <1>28, GotoFields DEF rxcheck
<1>29. CASE rx_byte
  BY <1>29, ReadFields DEF rx_byte
<1>30. CASE rx_tail
  BY <1>30, GotoFields DEF rx_tail
<1> QED
  BY <1>1, <1>2, <1>3, <1>4, <1>5, <1>6, <1>7, <1>8, <1>9, <1>10, <1>11, <1>12, <1>13, <1>14, <1>15, <1>16, <1>17, <1>18, <1>19, <1>20, <1>21, <1>22, <1>23, <1>24, <1>25, <1>26, <1>27, <1>28, <1>29, <1>30 DEF SpinCog

LEMMA SpinCogRings ==
  ASSUME Shape, InStep, SerialInStep, RxInStep, TxInStep, SpinCog
  PROVE  RxInStep' /\ TxInStep'
<1> USE DEF request, loader, shows, InStep, SpinInStep, MailboxInStep, Early, Late, Calling, Sending, Receiving, ReadLongs, ReadBytes, Returns, machine, hub, vmcog, history, others, no_instruction, no_vm, no_rings, spin_and, spin_only, at_spin, no_others
<1>1. CASE set_arguments
  BY <1>1, GotoFields, ArgumentFields, OthersKeepRx, OthersKeepTx DEF set_arguments
<1>2. CASE set_command
  BY <1>2, GotoFields, CommandFields, OthersKeepRx, OthersKeepTx DEF set_command
<1>3. CASE poll
  BY <1>3, PollFields, OthersKeepRx, OthersKeepTx DEF poll
<1>4. CASE start
  BY <1>4, GotoFields, StartFields, OthersKeepRx, OthersKeepTx DEF start
<1>5. CASE cognew
  BY <1>5, CognewFields, OthersKeepRx, OthersKeepTx DEF cognew
<1>6. CASE load
  BY <1>6, CallFields, OthersKeepRx, OthersKeepTx DEF load, read_long
<1>7. CASE load_word
  BY <1>7, LoadWordFields, OthersKeepRx, OthersKeepTx DEF load_word
<1>8. CASE section
  BY <1>8, GotoFields, CallFields, SectionFields, OthersKeepRx, OthersKeepTx DEF section, read_long
<1>9. CASE section_word
  BY <1>9, SectionWordFields, OthersKeepRx, OthersKeepTx DEF section_word
<1>10. CASE copy
  BY <1>10, CallFields, CopyFields, OthersKeepRx, OthersKeepTx DEF copy, read_long
<1>11. CASE store
  BY <1>11, StoreFields, OthersKeepRx, OthersKeepTx DEF store
<1>12. CASE init_serial
  BY <1>12, StartRx, StartTx
<1>13. CASE serial_up
  BY <1>13, GotoFields, OthersKeepRx, OthersKeepTx DEF serial_up
<1>14. CASE run
  BY <1>14, ContinueFields, OthersKeepRx, OthersKeepTx DEF run
<1>15. CASE single_step
  BY <1>15, GotoFields, OthersKeepRx, OthersKeepTx DEF single_step
<1>16. CASE process_requests
  BY <1>16, GotoFields, OthersKeepRx, OthersKeepTx DEF process_requests
<1>17. CASE halt
  BY <1>17, CallFields, OthersKeepRx, OthersKeepTx DEF halt, show_status
<1>18. CASE do_step
  BY <1>18, CallFields, OthersKeepRx, OthersKeepTx DEF do_step, show_status
<1>19. CASE shown
  BY <1>19, PrintFields, OthersKeepRx, OthersKeepTx DEF shown
<1>20. CASE space
  BY <1>20, SpaceFields, OthersKeepRx, OthersKeepTx DEF space
<1>21. CASE space_typed
  BY <1>21, GotoFields, ContinueFields, OthersKeepRx, OthersKeepTx DEF space_typed
<1>22. CASE do_trap
  BY <1>22, GotoFields, PrintFields, GetTrapFields, OthersKeepRx, OthersKeepTx DEF do_trap
<1>23. CASE got_char
  BY <1>23, GotoFields, OthersKeepRx, OthersKeepTx DEF got_char
<1>24. CASE char_out
  BY <1>24, GotoFields, OthersKeepRx, OthersKeepTx DEF char_out
<1>25. CASE resume
  BY <1>25, GotoFields, ContinueFields, OthersKeepRx, OthersKeepTx DEF resume
<1>26. CASE tx_room
  BY <1>26, GotoFields, OthersKeepRx, RoomTx DEF tx_room
<1>27. CASE tx_head
  BY <1>27, GotoFields, OthersKeepRx, HeadTx DEF tx_head
<1>28. CASE rxcheck
  BY <1>28, GotoFields, CheckRx, OthersKeepTx DEF rxcheck
<1>29. CASE rx_byte
  BY <1>29, ReadFields, ReadRx, OthersKeepTx DEF rx_byte
<1>30. CASE rx_tail
  BY <1>30, GotoFields, TakeRx, OthersKeepTx DEF rx_tail
<1> QED
  BY <1>1, <1>2, <1>3, <1>4, <1>5, <1>6, <1>7, <1>8, <1>9, <1>10, <1>11, <1>12, <1>13, <1>14, <1>15, <1>16, <1>17, <1>18, <1>19, <1>20, <1>21, <1>22, <1>23, <1>24, <1>25, <1>26, <1>27, <1>28, <1>29, <1>30 DEF SpinCog


LEMMA NextRings ==
  ASSUME Shape, InStep, RingsInStep, Next
  PROVE  RingsInStep'
<1> USE DEF RingsInStep
<1>1. CASE VMCog
  <2>1. UNCHANGED <<spin, rx, tx, serial, history>>
    BY <1>1 DEF VMCog, _init1, end_command, done_command, _VM_Continue, _VM_ReadLong, _VM_WriteLong, _VM_ReadByte,
                _start, _OP_TRAP, others
  <2>2. SerialInStep'
    BY <2>1 DEF SerialInStep, Loading, Unborn, history
  <2> QED
    BY <2>1, <2>2, OthersKeepRx, OthersKeepTx DEF history
<1>2. CASE SpinCog
  BY <1>2, SpinCogSerial, SpinCogRings
<1>3. CASE SerialCog \/ receive
  <2>1. CASE entry
    <3>1. UNCHANGED <<spin, tx, history>> /\ serial'.cog = "running" /\ UNCHANGED <<serial.rx, serial.tx>>
          /\ rx'.head = 0 /\ spin.at = "serial_up"
      BY <2>1 DEF entry, no_others, SerialInStep, RxInStep, Shape
    <3>2. SerialInStep' /\ TxInStep'
      <4>1. SerialInStep'
        BY <3>1 DEF SerialInStep, Loading, Early, Calling, history
      <4>2. serial.txdata' = serial.txdata
        BY <2>1 DEF entry, Shape
      <4> QED
        BY <3>1, <4>1, <4>2 DEF TxInStep, unsent, history
    <3> QED
      BY <2>1, <3>2, StartRx
  <2>2. CASE receive
    <3>1. UNCHANGED <<spin, tx, put, sent>> /\ serial.cog = "running" /\ serial'.cog = "running"
          /\ UNCHANGED <<serial.tx, serial.txdata>>
      BY <2>2 DEF receive, no_others, Shape
    <3> QED
      BY <2>2, <3>1, ReceiveRx DEF SerialInStep, Loading, TxInStep, unsent
  <2>3. CASE receive_head
    <3>1. UNCHANGED <<spin, tx, put, sent>> /\ serial.rx = "head"
          /\ UNCHANGED <<serial.cog, serial.tx, serial.txdata>>
      BY <2>3 DEF receive_head, no_others, Shape
    <3> QED
      BY <2>3, <3>1, ReceiveHeadRx DEF SerialInStep, Unborn, Loading, TxInStep, unsent
  <2>4. CASE transmit
    <3>1. UNCHANGED <<spin, rx, history>> /\ serial.cog = "running" /\ UNCHANGED <<serial.cog, serial.rx>>
      BY <2>4 DEF transmit, no_others, Shape
    <3> QED
      BY <2>4, <3>1, TransmitTx
         DEF SerialInStep, Loading, RxInStep, Overrun, InOrder, unread, arrived, history
  <2>5. CASE transmit_tail
    <3>1. UNCHANGED <<spin, rx, typed, taken, overrun>> /\ serial.tx = "tail"
          /\ UNCHANGED <<serial.cog, serial.rx>>
      BY <2>5 DEF transmit_tail, no_others, Shape
    <3> QED
      BY <2>5, <3>1, TailTx
         DEF SerialInStep, Unborn, Loading, RxInStep, Overrun, InOrder, unread, arrived
  <2> QED
    BY <1>3, <2>1, <2>2, <2>3, <2>4, <2>5 DEF SerialCog
<1> QED
  BY <1>1, <1>2, <1>3 DEF Next

LEMMA RingsHoldOrder ==
  ASSUME RingsInStep
  PROVE  LinesKeepOrder
<1>1. IsPrefix(sent, put)
  <2>1. Len(sent) <= Len(put)
    BY SeqFacts, VMRuntimeAssumption DEF RingsInStep, TxInStep, unsent
  <2> QED
    BY <2>1, PrefixByElements DEF RingsInStep, TxInStep
<1>2. IF overrun THEN ToSet(taken) \subseteq ToSet(typed) ELSE IsPrefix(taken, typed)
  <2>1. IsSeq(typed) /\ IsSeq(taken) /\ Len(typed) \in Nat /\ Len(taken) \in Nat
    BY SeqIsSeq, LenProperties DEF RingsInStep, RxInStep
  <2>2. CASE serial.cog # "running"
    <3>1. typed = <<>> /\ taken = <<>> /\ ~ overrun
      BY <2>2 DEF RingsInStep, SerialInStep, Unborn
    <3> QED
      BY <2>1, <3>1, EmptyFacts, PrefixByElements
  <2>3. CASE serial.cog = "running" /\ overrun
    BY <2>3 DEF RingsInStep, RxInStep, Overrun
  <2>4. CASE serial.cog = "running" /\ ~ overrun
    <3>1. InOrder /\ unread >= 0 /\ serial.rx \in {"idle", "head"}
      BY <2>4, VMRuntimeAssumption DEF RingsInStep, RxInStep, InOrder
    <3>2. Len(taken) <= Len(typed)
      BY <2>1, <3>1 DEF unread, arrived
    <3> QED
      BY <2>1, <2>4, <3>1, <3>2, PrefixByElements DEF InOrder
  <2> QED
    BY <2>2, <2>3, <2>4
<1> QED
  BY <1>1, <1>2 DEF LinesKeepOrder, RingsInStep, RxInStep, TxInStep, Slot

-----------------------------------------------------------------------------
(* What is asked and answered. *)

LEMMA SpinCogRead ==
  ASSUME Shape, InStep, ReadInStep, SpinCog
  PROVE  ReadInStep'
<1> USE DEF request, loader, shows, InStep, SpinInStep, MailboxInStep, ReadInStep, Posted, Answered, Reporting, Asking, Returning, Early, Late, Calling, Sending, Receiving, ReadLongs, ReadBytes, Returns, machine, hub, vmcog, history, others, no_instruction, no_vm, no_rings, spin_and, spin_only, at_spin, no_others
<1>1. CASE set_arguments
  BY <1>1, GotoFields, ArgumentFields DEF set_arguments
<1>2. CASE set_command
  BY <1>2, GotoFields, CommandFields DEF set_command
<1>3. CASE poll
  BY <1>3, PollFields DEF poll
<1>4. CASE start
  BY <1>4, GotoFields, StartFields DEF start
<1>5. CASE cognew
  BY <1>5, CognewFields DEF cognew
<1>6. CASE load
  BY <1>6, CallFields DEF load, read_long
<1>7. CASE load_word
  BY <1>7, LoadWordFields DEF load_word
<1>8. CASE section
  BY <1>8, GotoFields, CallFields, SectionFields DEF section, read_long
<1>9. CASE section_word
  BY <1>9, SectionWordFields DEF section_word
<1>10. CASE copy
  BY <1>10, CallFields, CopyFields DEF copy, read_long
<1>11. CASE store
  BY <1>11, StoreFields DEF store
<1>12. CASE init_serial
  BY <1>12, GotoFields DEF init_serial
<1>13. CASE serial_up
  BY <1>13, GotoFields DEF serial_up
<1>14. CASE run
  BY <1>14, ContinueFields DEF run
<1>15. CASE single_step
  BY <1>15, GotoFields DEF single_step
<1>16. CASE process_requests
  BY <1>16, GotoFields DEF process_requests
<1>17. CASE halt
  BY <1>17, CallFields DEF halt, show_status
<1>18. CASE do_step
  BY <1>18, CallFields DEF do_step, show_status
<1>19. CASE shown
  BY <1>19, PrintFields DEF shown
<1>20. CASE space
  BY <1>20, SpaceFields DEF space
<1>21. CASE space_typed
  BY <1>21, GotoFields, ContinueFields DEF space_typed
<1>22. CASE do_trap
  BY <1>22, GotoFields, PrintFields, GetTrapFields DEF do_trap
<1>23. CASE got_char
  BY <1>23, GotoFields DEF got_char
<1>24. CASE char_out
  BY <1>24, GotoFields DEF char_out
<1>25. CASE resume
  BY <1>25, GotoFields, ContinueFields DEF resume
<1>26. CASE tx_room
  BY <1>26, GotoFields DEF tx_room
<1>27. CASE tx_head
  BY <1>27, GotoFields DEF tx_head
<1>28. CASE rxcheck
  BY <1>28, GotoFields DEF rxcheck
<1>29. CASE rx_byte
  BY <1>29, ReadFields DEF rx_byte
<1>30. CASE rx_tail
  BY <1>30, GotoFields DEF rx_tail
<1> QED
  BY <1>1, <1>2, <1>3, <1>4, <1>5, <1>6, <1>7, <1>8, <1>9, <1>10, <1>11, <1>12, <1>13, <1>14, <1>15, <1>16, <1>17, <1>18, <1>19, <1>20, <1>21, <1>22, <1>23, <1>24, <1>25, <1>26, <1>27, <1>28, <1>29, <1>30 DEF SpinCog

LEMMA VMCogRead ==
  ASSUME Shape, InStep, ReadInStep, VMCog
  PROVE  ReadInStep'
<1> USE DEF InStep, SpinInStep, MailboxInStep, ReadInStep, Posted, Answered, Reporting, Asking, Returning, Early, Late, Calling, Sending, Receiving, ReadLongs, ReadBytes, Returns, machine, hub, vmcog, history, others, no_instruction, no_vm, no_rings, spin_and, spin_only, at_spin, no_others
<1>1. CASE _init1
  BY <1>1 DEF _init1, report, registers
<1>2. CASE end_command
  BY <1>2, ReportFields DEF end_command
<1>3. CASE done_command
  BY <1>3, DoneFields DEF done_command
<1>4. CASE _VM_Continue
  BY <1>4 DEF _VM_Continue, command, completed
<1>5. CASE _VM_ReadLong
  BY <1>5, AnswerFields DEF _VM_ReadLong, command, report
<1>6. CASE _VM_WriteLong
  BY <1>6 DEF _VM_WriteLong, command, report
<1>7. CASE _VM_ReadByte
  BY <1>7, AnswerFields DEF _VM_ReadByte, command, report
<1>8. CASE _start
  BY <1>8 DEF _start, _next, report, store_state
<1>9. CASE _OP_TRAP
  BY <1>9, AnswerFields DEF _OP_TRAP, report, store_state
<1> QED
  BY <1>1, <1>2, <1>3, <1>4, <1>5, <1>6, <1>7, <1>8, <1>9 DEF VMCog


LEMMA NextRead ==
  ASSUME Shape, InStep, ReadInStep, Next
  PROVE  ReadInStep'
<1>1. SerialCog \/ receive => UNCHANGED <<machine, hub, vmcog, spin>>
  BY DEF SerialCog, entry, receive_head, transmit, transmit_tail, receive, no_others, no_instruction
<1>2. SerialCog \/ receive => ReadInStep'
  BY <1>1 DEF machine, hub, vmcog, ReadInStep, Posted, Answered, Reporting, Asking, Returning
<1> QED
  BY <1>2, SpinCogRead, VMCogRead DEF Next

-----------------------------------------------------------------------------
(* The memory of an image that is partly in place. *)

LEMMA MultipleNext ==
  ASSUME NEW n \in Nat, NEW w \in Nat \ {0}, n % w = 0
  PROVE  (n + w) % w = 0 /\ (n >= w => (n - w) % w = 0)
<1>1. n = w * (n \div w) /\ n \div w \in Int
  OBVIOUS
<1>2. n + w = w * ((n \div w) + 1) /\ n - w = w * ((n \div w) - 1)
  BY <1>1
<1>3. \A q \in Int : (w * q) % w = 0
  OBVIOUS
<1> QED
  BY <1>1, <1>2, <1>3

LEMMA MultipleOnly ==
  ASSUME NEW n \in Nat, NEW x \in Nat, NEW w \in Nat \ {0}, n % w = 0, x % w = 0, n <= x, x < n + w
  PROVE  x = n
<1>1. PICK q \in Int : n = w * q
  <2>1. n = w * (n \div w) /\ n \div w \in Int
    OBVIOUS
  <2> QED
    BY <2>1
<1>2. PICK r \in Int : x = w * r
  <2>1. x = w * (x \div w) /\ x \div w \in Int
    OBVIOUS
  <2> QED
    BY <2>1
<1>3. w * (r - q) >= 0 /\ w * (r - q) < w
  BY <1>1, <1>2
<1>4. r - q < 1
  BY <1>3
<1>5. r - q > -1
  BY <1>3
<1> QED
  BY <1>1, <1>2, <1>4, <1>5

LEMMA TimesDiv ==
  ASSUME NEW n \in Nat, NEW w \in Nat \ {0}
  PROVE  (n * w) \div w = n
OBVIOUS

LEMMA SectionUnique ==
  ASSUME NEW m, IsImage(m), NEW a \in DOMAIN m, NEW i \in copied(m), inside(m, i, a)
  PROVE  Loaded(m)[a] = m[source(m, i, a)]
<1>1. \A j \in copied(m) : inside(m, j, a) => j = i
  BY DEF IsImage
<1>2. covered(m, a) /\ (CHOOSE j \in copied(m) : inside(m, j, a)) = i
  BY <1>1 DEF covered
<1> QED
  BY <1>2 DEF Loaded

LEMMA UncoveredStays ==
  ASSUME NEW m, NEW i, NEW n, NEW a \in DOMAIN m, ~ covered(m, a)
  PROVE  Partly(m, i, n)[a] = m[a]
BY DEF Partly, Seen, covered

LEMMA HeaderStays ==
  ASSUME NEW m, IsImage(m), NEW i, NEW n, NEW a \in header_words(m)
  PROVE  a \in DOMAIN m /\ m[a] \in Int /\ Partly(m, i, n)[a] = m[a]
BY UncoveredStays DEF IsImage

LEMMA SourceStays ==
  ASSUME NEW m, IsImage(m), NEW j, NEW n, NEW a \in DOMAIN m, NEW i \in copied(m), inside(m, i, a)
  PROVE  Partly(m, j, n)[source(m, i, a)] = m[source(m, i, a)]
BY UncoveredStays DEF IsImage

LEMMA CountFacts ==
  ASSUME NEW m, IsImage(m)
  PROVE  /\ m[IMAGE_SECTION_COUNT] \in Nat \ {0} /\ copied(m) \subseteq Nat \ {0}
         /\ \A i \in 0 .. m[IMAGE_SECTION_COUNT] - 1 :
              /\ header(i) \in header_words(m) /\ header(i) + SECTION_OFFSET \in header_words(m)
              /\ header(i) + SECTION_SIZE \in header_words(m)
              /\ base_of(m, i) \in Int /\ offset_of(m, i) \in Int /\ size_of(m, i) \in Int
<1>1. m[IMAGE_SECTION_COUNT] \in Nat \ {0}
  BY DEF IsImage
<1>2. ASSUME NEW i \in 0 .. m[IMAGE_SECTION_COUNT] - 1
      PROVE  /\ header(i) \in header_words(m) /\ header(i) + SECTION_OFFSET \in header_words(m)
             /\ header(i) + SECTION_SIZE \in header_words(m)
  <2>1. header(i) + 0 = header(i)
    BY <1>1 DEF header, IMAGE_SECTIONS, _SECTION_SIZE
  <2> QED
    BY <2>1 DEF header_words
<1> QED
  BY <1>1, <1>2 DEF IsImage, base_of, offset_of, size_of, copied

LEMMA NothingCopied ==
  ASSUME NEW m, IsImage(m)
  PROVE  Partly(m, 0, 0) = m
<1>1. \A a \in DOMAIN m : ~ Seen(m, 0, 0, a)
  BY CountFacts DEF Seen
<1> QED
  BY <1>1 DEF Partly, IsImage

LEMMA WordCopied ==
  ASSUME NEW m, IsImage(m), NEW i \in copied(m), NEW n \in Nat, n % WordSize = 0, NEW v,
         inside(m, i, base_of(m, i) + n),
         base_of(m, i) + n \in DOMAIN m => v = m[source(m, i, base_of(m, i) + n)]
  PROVE  [Partly(m, i, n) EXCEPT ![base_of(m, i) + n] = v] = Partly(m, i, n + WordSize)
<1> DEFINE b == base_of(m, i) + n
<1>1. i \in Nat /\ i \in 0 .. m[IMAGE_SECTION_COUNT] - 1 /\ base_of(m, i) \in Int /\ WordSize \in Nat \ {0}
  BY CountFacts, StackVMAssumption DEF copied
<1>2. \A a \in DOMAIN m : a # b => (Seen(m, i, n, a) <=> Seen(m, i, n + WordSize, a))
  <2> SUFFICES ASSUME NEW a \in DOMAIN m, a # b, NEW j \in copied(m), inside(m, j, a)
               PROVE  j = i => (a < base_of(m, j) + n <=> a < base_of(m, j) + (n + WordSize))
    BY DEF Seen
  <2> SUFFICES ASSUME j = i, a < base_of(m, i) + (n + WordSize), ~ (a < base_of(m, i) + n)
               PROVE  FALSE
    <3>1. a \in Int
      BY DEF IsImage
    <3> QED
      BY <1>1, <3>1
  <2>1. a \in Int /\ (a - base_of(m, i)) % WordSize = 0
    BY DEF IsImage
  <2>2. a - base_of(m, i) \in Nat /\ n <= a - base_of(m, i) /\ a - base_of(m, i) < n + WordSize
    BY <1>1, <2>1
  <2>3. a - base_of(m, i) = n
    BY <1>1, <2>1, <2>2, MultipleOnly
  <2> QED
    BY <1>1, <2>1, <2>3
<1>3. b \in DOMAIN m => Partly(m, i, n + WordSize)[b] = v
  <2> SUFFICES ASSUME b \in DOMAIN m
               PROVE  Partly(m, i, n + WordSize)[b] = v
    OBVIOUS
  <2>1. b < base_of(m, i) + (n + WordSize)
    BY <1>1
  <2>2. Seen(m, i, n + WordSize, b)
    BY <2>1 DEF Seen
  <2> QED
    BY <2>2, SectionUnique DEF Partly
<1> HIDE DEF b
<1>4. \A a \in DOMAIN m : a # b => Partly(m, i, n)[a] = Partly(m, i, n + WordSize)[a]
  BY <1>2 DEF Partly
<1>5. [Partly(m, i, n) EXCEPT ![b] = v] = Partly(m, i, n + WordSize)
  BY <1>3, <1>4 DEF Partly
<1> QED
  BY <1>5 DEF b

LEMMA SectionCopied ==
  ASSUME NEW m, IsImage(m), NEW i \in 0 .. m[IMAGE_SECTION_COUNT] - 1, NEW n \in Nat, i = 0 \/ size_of(m, i) <= n
  PROVE  Partly(m, i, n) = Partly(m, i + 1, 0)
<1>1. \A a \in DOMAIN m : Seen(m, i, n, a) <=> Seen(m, i + 1, 0, a)
  <2> SUFFICES ASSUME NEW a \in DOMAIN m, NEW j \in copied(m), inside(m, j, a)
               PROVE  (j < i \/ (j = i /\ a < base_of(m, j) + n))
                        <=> (j < i + 1 \/ (j = i + 1 /\ a < base_of(m, j) + 0))
    BY DEF Seen
  <2>1. j \in Nat \ {0} /\ i \in Nat /\ a \in Int /\ base_of(m, j) \in Int /\ size_of(m, j) \in Int
    BY CountFacts DEF IsImage, copied
  <2>2. base_of(m, j) <= a /\ a < base_of(m, j) + size_of(m, j)
    BY DEF inside
  <2> QED
    BY <2>1, <2>2
<1> QED
  BY <1>1 DEF Partly

LEMMA AllCopied ==
  ASSUME NEW m, IsImage(m)
  PROVE  Partly(m, m[IMAGE_SECTION_COUNT], 0) = Loaded(m)
<1>1. \A j \in copied(m) : j < m[IMAGE_SECTION_COUNT]
  BY CountFacts DEF copied
<1>2. \A a \in DOMAIN m : Seen(m, m[IMAGE_SECTION_COUNT], 0, a) <=> covered(m, a)
  BY <1>1 DEF Seen, covered
<1>3. \A a \in DOMAIN m : Partly(m, m[IMAGE_SECTION_COUNT], 0)[a] = Loaded(m)[a]
  BY <1>2 DEF Partly, Loaded
<1> QED
  BY <1>3 DEF Partly, Loaded

-----------------------------------------------------------------------------
(* Loading. Nothing of the machine but its memory is used, and there is no *)
(* way back to it.                                                         *)

LoadingSpin == set_arguments \/ set_command \/ poll \/ start \/ cognew \/ load
               \/ load_word \/ section \/ section_word \/ copy \/ store
LoadingVM == _init1 \/ end_command \/ done_command \/ _VM_ReadLong \/ _VM_WriteLong

LEMMA SpinCogLoading ==
  ASSUME Shape, InStep, Loading', SpinCog
  PROVE  Loading /\ LoadingSpin
<1> USE DEF request, loader, shows, InStep, SpinInStep, MailboxInStep, Posted, Answered, Reporting, Loading, Early, Late, Calling, Sending, Receiving, ReadLongs, ReadBytes, Returns, LoadingSpin, machine, hub, vmcog, history, others, no_instruction, no_vm, no_rings, spin_and, spin_only, at_spin, no_others
<1>1. CASE set_arguments
  BY <1>1, GotoFields, ArgumentFields DEF set_arguments
<1>2. CASE set_command
  BY <1>2, GotoFields, CommandFields DEF set_command
<1>3. CASE poll
  BY <1>3, PollFields DEF poll
<1>4. CASE start
  BY <1>4, GotoFields, StartFields DEF start
<1>5. CASE cognew
  BY <1>5, CognewFields DEF cognew
<1>6. CASE load
  BY <1>6, CallFields DEF load, read_long
<1>7. CASE load_word
  BY <1>7, LoadWordFields DEF load_word
<1>8. CASE section
  BY <1>8, GotoFields, CallFields, SectionFields DEF section, read_long
<1>9. CASE section_word
  BY <1>9, SectionWordFields DEF section_word
<1>10. CASE copy
  BY <1>10, CallFields, CopyFields DEF copy, read_long
<1>11. CASE store
  BY <1>11, StoreFields DEF store
<1>12. CASE init_serial
  BY <1>12, GotoFields DEF init_serial
<1>13. CASE serial_up
  BY <1>13, GotoFields DEF serial_up
<1>14. CASE run
  BY <1>14, ContinueFields DEF run
<1>15. CASE single_step
  BY <1>15, GotoFields DEF single_step
<1>16. CASE process_requests
  BY <1>16, GotoFields DEF process_requests
<1>17. CASE halt
  BY <1>17, CallFields DEF halt, show_status
<1>18. CASE do_step
  BY <1>18, CallFields DEF do_step, show_status
<1>19. CASE shown
  BY <1>19, PrintFields DEF shown
<1>20. CASE space
  BY <1>20, SpaceFields DEF space
<1>21. CASE space_typed
  BY <1>21, GotoFields, ContinueFields DEF space_typed
<1>22. CASE do_trap
  BY <1>22, GotoFields, PrintFields, GetTrapFields DEF do_trap
<1>23. CASE got_char
  BY <1>23, GotoFields DEF got_char
<1>24. CASE char_out
  BY <1>24, GotoFields DEF char_out
<1>25. CASE resume
  BY <1>25, GotoFields, ContinueFields DEF resume
<1>26. CASE tx_room
  BY <1>26, GotoFields DEF tx_room
<1>27. CASE tx_head
  BY <1>27, GotoFields DEF tx_head
<1>28. CASE rxcheck
  BY <1>28, GotoFields DEF rxcheck
<1>29. CASE rx_byte
  BY <1>29, ReadFields DEF rx_byte
<1>30. CASE rx_tail
  BY <1>30, GotoFields DEF rx_tail
<1> QED
  BY <1>1, <1>2, <1>3, <1>4, <1>5, <1>6, <1>7, <1>8, <1>9, <1>10, <1>11, <1>12, <1>13, <1>14, <1>15, <1>16, <1>17, <1>18, <1>19, <1>20, <1>21, <1>22, <1>23, <1>24, <1>25, <1>26, <1>27, <1>28, <1>29, <1>30 DEF SpinCog

LEMMA VMCogLoading ==
  ASSUME Shape, InStep, Loading', VMCog
  PROVE  Loading /\ LoadingVM
<1> USE DEF InStep, SpinInStep, MailboxInStep, Posted, Answered, Reporting, Loading, Early, Late, Calling, Sending, Receiving, ReadLongs, ReadBytes, Returns, LoadingVM, machine, hub, vmcog, history, others, no_instruction, no_vm, no_rings, spin_and, spin_only, at_spin, no_others
<1>1. CASE _init1
  BY <1>1 DEF _init1, report, registers
<1>2. CASE end_command
  BY <1>2, ReportFields DEF end_command
<1>3. CASE done_command
  BY <1>3, DoneFields DEF done_command
<1>4. CASE _VM_Continue
  BY <1>4 DEF _VM_Continue, command, completed
<1>5. CASE _VM_ReadLong
  BY <1>5, AnswerFields DEF _VM_ReadLong, command, report
<1>6. CASE _VM_WriteLong
  BY <1>6 DEF _VM_WriteLong, command, report
<1>7. CASE _VM_ReadByte
  BY <1>7, AnswerFields DEF _VM_ReadByte, command, report
<1>8. CASE _start
  BY <1>8 DEF _start, _next, report, store_state
<1>9. CASE _OP_TRAP
  BY <1>9, AnswerFields DEF _OP_TRAP, report, store_state
<1> QED
  BY <1>1, <1>2, <1>3, <1>4, <1>5, <1>6, <1>7, <1>8, <1>9 DEF VMCog


LEMMA LoadingStays ==
  ASSUME InStep, Loading, LoadingSpin \/ LoadingVM
  PROVE  /\ UNCHANGED <<code, stack, status, trap, tos, whole>>
         /\ ~ _VM_WriteLong => UNCHANGED mem
BY DEF LoadingSpin, LoadingVM, set_arguments, set_command, poll, start, cognew, load, load_word, section,
       section_word, copy, store, _init1, end_command, done_command, _VM_ReadLong, _VM_WriteLong,
       spin_only, spin_and, no_vm, no_instruction, machine

LEMMA RequestKeepsLoad ==
  ASSUME Shape, InStep, NEW m, WordsInStep(m), CopyInStep(m), Loading, Loading',
         set_arguments \/ set_command \/ poll \/ start \/ cognew
  PROVE  WordsInStep(m)' /\ CopyInStep(m)' /\ written(m)' = written(m) /\ UNCHANGED <<spin.i, state.tos>>
<1> USE DEF request, loader, InStep, SpinInStep, MailboxInStep, Posted, Answered, Reporting, Early, Late, Calling, Sending, Receiving, ReadLongs, ReadBytes, Returns, WordsInStep, WordsRead, Words, read, Returning, Copying, CopyInStep, ToWrite, bytes, written, machine, hub, vmcog, no_instruction, no_vm, spin_and, spin_only, at_spin, Loading
<1>1. CASE set_arguments
  BY <1>1, GotoFields, ArgumentFields DEF set_arguments
<1>2. CASE set_command
  <2>1. /\ spin.at = "command" /\ spin'.at = "poll" /\ UNCHANGED <<request, loader, state, cog>>
        /\ mbox'.cmd = spin.cmd
    BY <1>2, GotoFields, CommandFields DEF set_command
  <2>2. cog = "get_command" /\ spin.then # "load"
    BY <2>1
  <2>3. spin.then # "load" /\ spin.cmd # "none"
    BY <2>1
  <2> QED
    BY <2>1, <2>2, <2>3
<1>3. CASE poll
  BY <1>3, PollFields DEF poll
<1>4. CASE start
  BY <1>4, GotoFields, StartFields DEF start
<1>5. CASE cognew
  BY <1>5, CognewFields DEF cognew
<1> QED
  BY <1>1, <1>2, <1>3, <1>4, <1>5

LEMMA AnswerKeepsLoad ==
  ASSUME Shape, InStep, NEW m, WordsInStep(m), CopyInStep(m), Loading,
         end_command \/ done_command \/ _VM_ReadLong
  PROVE  WordsInStep(m)' /\ CopyInStep(m)' /\ written(m)' = written(m) /\ UNCHANGED <<spin.i, state.tos>>
<1> USE DEF request, loader, InStep, SpinInStep, MailboxInStep, Posted, Answered, Reporting, Early, Late, Calling, Sending, Receiving, ReadLongs, ReadBytes, Returns, WordsInStep, WordsRead, Words, read, Returning, Copying, CopyInStep, ToWrite, bytes, written, machine, hub, vmcog, no_instruction, no_vm, spin_and, spin_only, at_spin, Loading, others
<1>1. CASE end_command
  BY <1>1, ReportFields DEF end_command
<1>2. CASE done_command
  BY <1>2, DoneFields DEF done_command
<1>3. CASE _VM_ReadLong
  BY <1>3, AnswerFields DEF _VM_ReadLong, command, report
<1> QED
  BY <1>1, <1>2, <1>3

LEMMA WordsKept ==
  ASSUME NEW m, WordsRead(m), UNCHANGED <<spin.words, spin.i>>, read >= 2 => UNCHANGED state
  PROVE  WordsRead(m)' /\ Words' = Words /\ read' = read
BY DEF WordsRead, Words, read

LEMMA WordFacts ==
  ASSUME NEW m, IsImage(m), WordsRead(m)
  PROVE  /\ Words \in Seq(Int) /\ read \in 0 .. 6 /\ (Words = <<>> <=> read = 0)
         /\ m[IMAGE_SECTION_COUNT] \in Nat /\ spin.i \in 0 .. m[IMAGE_SECTION_COUNT]
         /\ read < 3 => spin.i = 0
         /\ read > 3 => spin.i \in 0 .. m[IMAGE_SECTION_COUNT] - 1
         /\ \A k \in 1 .. read : Words[k] = m[WordAt(k, spin.i)]
<1>1. Words \in Seq(Int)
  BY DEF WordsRead
<1>2. read \in Nat
  BY <1>1 DEF read
<1>3. Words = <<>> <=> read = 0
  BY <1>1, EmptySeq DEF read
<1>4. read <= 6 /\ (read < 3 => spin.i = 0) /\ (read > 3 => spin.i < m[IMAGE_SECTION_COUNT])
  BY Zenon DEF WordsRead
<1>5. read \in 0 .. 6
  BY <1>2, <1>4
<1>6. m[IMAGE_SECTION_COUNT] \in Nat
  BY CountFacts
<1>7. spin.i \in 0 .. m[IMAGE_SECTION_COUNT]
  BY DEF WordsRead
<1>8. read > 3 => spin.i \in 0 .. m[IMAGE_SECTION_COUNT] - 1
  BY <1>4, <1>6, <1>7
<1>9. \A k \in 1 .. read : Words[k] = m[WordAt(k, spin.i)]
  BY DEF WordsRead
<1> QED
  BY <1>1, <1>3, <1>4, <1>5, <1>6, <1>7, <1>8, <1>9, Zenon

(* A word more has been read. *)
LEMMA WordAdded ==
  ASSUME NEW m, IsImage(m), WordsRead(m), read < 6,
         spin.value \in Int, spin.value = m[WordAt(read + 1, spin.i)],
         spin'.words = Append(Words, spin.value), spin'.i = spin.i, read >= 3 => spin.i < m[IMAGE_SECTION_COUNT],
         read + 1 >= 2 => state'.pc = Words'[1] /\ state'.sp = StackSize /\ state'.fp = StackSize
  PROVE  WordsRead(m)' /\ read' = read + 1 /\ read \in 0 .. 5
<1>1. Words \in Seq(Int) /\ Words' = Append(Words, spin.value)
  BY WordFacts, Zenon DEF Words
<1>2. read \in 0 .. 5 /\ (read < 3 => spin.i = 0)
  BY WordFacts
<1>3. Words' \in Seq(Int) /\ read' = read + 1 /\ Words'[read + 1] = spin.value
  BY <1>1 DEF read
<1>4. \A k \in 1 .. read : Words'[k] = Words[k]
  BY <1>1 DEF read
<1>5. \A k \in 1 .. read : Words[k] = m[WordAt(k, spin.i)]
  BY WordFacts, Zenon
<1>6. \A k \in 1 .. read + 1 : Words'[k] = m[WordAt(k, spin'.i)]
  <2> SUFFICES ASSUME NEW k \in 1 .. read + 1
               PROVE  Words'[k] = m[WordAt(k, spin.i)]
    OBVIOUS
  <2>1. CASE k = read + 1
    BY <1>3, <2>1, Zenon
  <2>2. CASE k # read + 1
    <3>1. k \in 1 .. read
      BY <1>2, <2>2
    <3> QED
      BY <1>4, <1>5, <3>1, Zenon
  <2> QED
    BY <2>1, <2>2
<1>7. spin'.i \in 0 .. m[IMAGE_SECTION_COUNT]
  BY WordFacts, Zenon
<1>8. /\ read + 1 <= 6 /\ (read + 1 < 3 => spin'.i = 0) /\ (read + 1 > 3 => spin'.i < m[IMAGE_SECTION_COUNT])
  BY <1>2
<1> QED
  BY <1>2, <1>3, <1>6, <1>7, <1>8, Zenon DEF WordsRead

LEMMA InitKeepsLoad ==
  ASSUME Shape, InStep, NEW m, WordsInStep(m), CopyInStep(m), Loading, _init1
  PROVE  WordsInStep(m)' /\ CopyInStep(m)' /\ written(m)' = written(m) /\ UNCHANGED spin.i /\ state'.tos = tos
<1>1. spin.at = "poll" /\ spin.then = "load" /\ Words = <<>> /\ UNCHANGED <<spin, mbox>> /\ state'.tos = tos
  BY DEF _init1, InStep, MailboxInStep, Posted, Answered, Reporting, WordsInStep, others, registers
<1>2. ~ Copying /\ ~ Copying' /\ Len(<<>>) = 0
  BY <1>1, EmptyFacts DEF Copying, Returning
<1>3. WordsRead(m)' /\ Words' = Words /\ read' = read
  <2>1. UNCHANGED <<spin.words, spin.i>>
    BY <1>1, Zenon
  <2>2. read = 0
    BY <1>1, <1>2, Zenon DEF read
  <2>3. ~ (read >= 2)
    BY <2>2
  <2> QED
    BY <2>1, <2>3, WordsKept, Zenon DEF WordsInStep
<1> QED
  BY <1>1, <1>2, <1>3 DEF WordsInStep, Returning, CopyInStep, written

LEMMA LoadAsks ==
  ASSUME Shape, InStep, NEW m, IsImage(m), WordsInStep(m), load
  PROVE  WordsInStep(m)' /\ CopyInStep(m)' /\ written(m)' = written(m) /\ UNCHANGED <<spin.i, state.tos>>
<1>1. spin.at = "load" /\ read < 3
  BY DEF WordsInStep, Returning, load, at_spin
<1>2. read \in 0 .. 2 /\ (Words = <<>> <=> read = 0) /\ spin.i = 0
  <2>1. Words = <<>> <=> read = 0
    BY WordFacts, Zenon DEF WordsInStep
  <2>2. read \in 0 .. 6 /\ (read < 3 => spin.i = 0)
    BY WordFacts, Zenon DEF WordsInStep
  <2>3. read \in 0 .. 2
    BY <1>1, <2>2
  <2> QED
    BY <1>1, <2>1, <2>2, <2>3, Zenon
<1> DEFINE a == IF Words = <<>> THEN IMAGE_MAIN_CODE
                ELSE IF read = 1 THEN IMAGE_STACK_SIZE ELSE IMAGE_SECTION_COUNT
<1>3. a = WordAt(read + 1, 0)
  <2>1. (IF read = 0 THEN IMAGE_MAIN_CODE ELSE IF read = 1 THEN IMAGE_STACK_SIZE ELSE IMAGE_SECTION_COUNT)
          = WordAt(read + 1, 0)
    BY <1>2 DEF WordAt
  <2> QED
    BY <1>2, <2>1, Zenon DEF read
<1>4. call("VM_ReadLong", a, 0, "load_word")
  BY Zenon DEF load, read_long, read
<1> HIDE DEF a
<1>5. UNCHANGED <<loader, state>> /\ spin'.at = "arguments" /\ spin'.then = "load_word" /\ spin'.arg = a
  BY <1>4, CallFields DEF load, spin_only, hub
<1>6. WordsRead(m)' /\ Words' = Words /\ read' = read
  BY <1>5, WordsKept DEF WordsInStep, loader
<1>7. ~ Copying /\ ~ Copying'
  BY <1>1, <1>5 DEF Copying, Returning, Calling
<1>8. WordsInStep(m)'
  <2>1. spin'.arg = WordAt(read' + 1, 0) /\ read' < 3
    BY <1>1, <1>3, <1>5, <1>6
  <2> QED
    BY <1>5, <1>6, <1>7, <2>1, Zenon DEF WordsInStep, Returning, Calling
<1> QED
  BY <1>5, <1>7, <1>8 DEF CopyInStep, written, loader

LEMMA WordRead ==
  ASSUME ReadInStep, NEW m, IsImage(m), NEW i, NEW n, mem = Partly(m, i, n), spin.at \in ReadLongs,
         spin.arg \in header_words(m)
  PROVE  spin.value = m[spin.arg] /\ spin.value \in Int
BY HeaderStays DEF ReadInStep

LEMMA LoadTakes ==
  ASSUME Shape, InStep, ReadInStep, NEW m, IsImage(m), WordsInStep(m), mem = Partly(m, spin.i, written(m)), load_word
  PROVE  WordsInStep(m)' /\ CopyInStep(m)' /\ written(m)' = written(m) /\ UNCHANGED <<spin.i, state.tos>>
<1>1. spin.at = "load_word" /\ read < 3 /\ spin.arg = WordAt(read + 1, 0) /\ WordsRead(m)
  BY DEF WordsInStep, Returning, load_word, at_spin
<1>2. read \in 0 .. 2 /\ spin.i = 0
  <2>1. read \in 0 .. 6 /\ (read < 3 => spin.i = 0)
    BY <1>1, WordFacts, Zenon
  <2> QED
    BY <1>1, <2>1
<1>3. spin.arg \in header_words(m)
  <2>1. WordAt(read + 1, 0) \in {IMAGE_MAIN_CODE, IMAGE_STACK_SIZE, IMAGE_SECTION_COUNT}
    BY <1>2 DEF WordAt
  <2> QED
    BY <1>1, <2>1 DEF header_words
<1>4. spin.value = m[spin.arg] /\ spin.value \in Int
  BY <1>1, <1>3, WordRead DEF ReadLongs
<1>5. /\ spin'.at = IF read = 2 THEN "section" ELSE "load"
      /\ spin'.words = Append(Words, spin.value) /\ spin'.i = spin.i
  BY LoadWordFields
<1>6. read + 1 >= 2 => state'.pc = Words'[1] /\ state'.sp = StackSize /\ state'.fp = StackSize
  <2>1. CASE read = 0
    BY <2>1
  <2>2. CASE read >= 1
    <3>1. Words'[1] = Words[1]
      <4>1. Words \in Seq(Int) /\ Words' = Append(Words, spin.value)
        BY <1>1, <1>5, WordFacts, Zenon DEF Words, read
      <4> QED
        BY <2>2, <4>1 DEF read
    <3>2. CASE read = 1
      <4>1. state' = [state EXCEPT !.pc = Words[1], !.sp = spin.value \div WordSize, !.fp = spin.value \div WordSize]
        BY <3>2, Zenon DEF load_word, read
      <4>2. spin.value = StackSize * WordSize
        <5>1. spin.arg = IMAGE_STACK_SIZE
          BY <1>1, <3>2 DEF WordAt
        <5> QED
          BY <1>4, <5>1 DEF IsImage
      <4>3. spin.value \div WordSize = StackSize
        BY <4>2, TimesDiv, StackVMAssumption
      <4>4. state'.pc = Words[1] /\ state'.sp = spin.value \div WordSize /\ state'.fp = spin.value \div WordSize
        BY <4>1 DEF Shape
      <4> QED
        BY <3>1, <4>3, <4>4
    <3>3. CASE read = 2
      <4>1. state' = state
        <5>1. read # 1
          BY <3>3
        <5> QED
          BY <5>1, Zenon DEF load_word, read
      <4>2. read >= 2
        BY <3>3
      <4>3. state.pc = Words[1] /\ state.sp = StackSize /\ state.fp = StackSize
        BY <1>1, <4>2, Zenon DEF WordsRead
      <4> QED
        BY <3>1, <4>1, <4>3
    <3> QED
      BY <1>2, <2>2, <3>2, <3>3
  <2> QED
    BY <1>2, <2>1, <2>2
<1>7. WordsRead(m)' /\ read' = read + 1
  <2>1. read < 6 /\ ~ (read >= 3)
    BY <1>2
  <2> QED
    BY <1>1, <1>2, <1>4, <1>5, <1>6, <2>1, WordAdded
<1>8. UNCHANGED state.tos
  BY DEF load_word, Shape
<1>9. ~ Copying /\ ~ Copying'
  BY <1>1, <1>5 DEF Copying, Returning, Calling
<1>10. IF spin'.at = "section" THEN read' >= 3 ELSE spin'.at = "load" /\ read' < 3
  BY <1>2, <1>5, <1>7
<1>11. WordsInStep(m)'
  BY <1>7, <1>9, <1>10 DEF WordsInStep, Returning, Calling
<1> QED
  BY <1>5, <1>8, <1>9, <1>11 DEF CopyInStep, written

LEMMA SectionAsks ==
  ASSUME Shape, InStep, NEW m, IsImage(m), WordsInStep(m), CopyInStep(m), section
  PROVE  WordsInStep(m)' /\ CopyInStep(m)' /\ written(m)' = written(m) /\ UNCHANGED <<spin.i, state.tos>>
<1>1. spin.at = "section" /\ read >= 3 /\ WordsRead(m)
  BY DEF WordsInStep, Returning, section, at_spin
<1>2. read \in 3 .. 6 /\ spin.i \in 0 .. m[IMAGE_SECTION_COUNT] /\ m[IMAGE_SECTION_COUNT] \in Nat
  <2>1. read \in 0 .. 6 /\ spin.i \in 0 .. m[IMAGE_SECTION_COUNT] /\ m[IMAGE_SECTION_COUNT] \in Nat
    BY <1>1, WordFacts, Zenon
  <2> QED
    BY <1>1, <2>1
<1>3. \A k \in 1 .. read : Words[k] = m[WordAt(k, spin.i)]
  BY <1>1, WordFacts, Zenon
<1>4. count = m[IMAGE_SECTION_COUNT]
  <2>1. Words[3] = m[WordAt(3, spin.i)]
    BY <1>2, <1>3
  <2> QED
    BY <2>1 DEF count, WordAt
<1>6. UNCHANGED state /\ ~ Copying
  BY <1>1 DEF section, spin_only, hub, Copying, Returning, Calling
<1>50. CASE spin.i = count
  <2>1. spin'.at = "init_serial" /\ UNCHANGED loader
    BY <1>50, GotoFields DEF section
  <2>2. WordsRead(m)' /\ Words' = Words /\ read' = read
    BY <1>1, <1>6, <2>1, WordsKept DEF loader
  <2>3. ~ Copying'
    BY <2>1 DEF Copying, Returning, Calling
  <2>4. spin'.i = m[IMAGE_SECTION_COUNT]
    BY <1>4, <1>50, <2>1 DEF loader
  <2>5. WordsInStep(m)'
    BY <2>1, <2>2, <2>3, <2>4 DEF WordsInStep, Returning, Calling
  <2> QED
    BY <1>6, <2>1, <2>3, <2>5 DEF loader, CopyInStep, written
<1> SUFFICES ASSUME spin.i # count
             PROVE  WordsInStep(m)' /\ CopyInStep(m)' /\ written(m)' = written(m) /\ UNCHANGED <<spin.i, state.tos>>
  BY <1>50
<1>5. spin.i # count /\ spin.i < m[IMAGE_SECTION_COUNT]
  BY <1>2, <1>4
<1>7. CASE read # 6
  <2>1. part < 3 /\ part + 1 = read - 2
    <3>1. part = read - 3
      BY Zenon DEF part, read
    <3> QED
      BY <1>2, <1>7, <3>1
  <2>2. call("VM_ReadLong", WordAt(read + 1, spin.i), 0, "section_word")
    <3> DEFINE a(k) == IMAGE_SECTIONS + spin.i * _SECTION_SIZE + <<0, SECTION_OFFSET, SECTION_SIZE>>[k]
    <3>1. call("VM_ReadLong", a(read - 2), 0, "section_word")
      <4>1. call("VM_ReadLong", a(part + 1), 0, "section_word")
        BY <1>5, <2>1, Zenon DEF section, read_long
      <4> QED
        BY <2>1, <4>1, Zenon
    <3>2. a(1) = WordAt(4, spin.i) /\ a(2) = WordAt(5, spin.i) /\ a(3) = WordAt(6, spin.i)
      BY <1>2 DEF WordAt, header, IMAGE_SECTIONS, _SECTION_SIZE, SECTION_OFFSET, SECTION_SIZE
    <3> HIDE DEF a
    <3>3. a(read - 2) = WordAt(read + 1, spin.i)
      <4>1. CASE read = 3
        BY <3>2, <4>1
      <4>2. CASE read = 4
        BY <3>2, <4>2
      <4>3. CASE read = 5
        BY <3>2, <4>3
      <4> QED
        BY <1>2, <1>7, <4>1, <4>2, <4>3
    <3> QED
      BY <3>1, <3>3, Zenon
  <2>3. /\ UNCHANGED loader /\ spin'.at = "arguments" /\ spin'.then = "section_word"
        /\ spin'.arg = WordAt(read + 1, spin.i)
    BY <2>2, CallFields
  <2>4. WordsRead(m)' /\ Words' = Words /\ read' = read
    BY <1>1, <1>6, <2>3, WordsKept DEF loader, read
  <2>5. ~ Copying'
    BY <2>3 DEF Copying, Returning
  <2>6. read \in 3 .. 5
    BY <1>2, <1>7
  <2>7. WordsInStep(m)'
    BY <1>5, <2>3, <2>4, <2>5, <2>6 DEF loader, WordsInStep, Returning, Calling
  <2> QED
    BY <1>6, <2>3, <2>5, <2>7 DEF loader, CopyInStep, written
<1>8. CASE read = 6
  <2>1. ~ (part < 3)
    <3>1. part = read - 3
      BY Zenon DEF part, read
    <3> QED
      BY <1>8, <3>1
  <2>2. /\ spin'.at = "copy" /\ spin'.base = Words[4] /\ spin'.offset = Words[5]
        /\ spin'.size = IF spin.i > 0 THEN Words[6] ELSE 0
        /\ UNCHANGED <<spin.words, spin.i>>
    BY <1>5, <2>1, SectionFields
  <2>3. /\ Words[4] = base_of(m, spin.i) /\ Words[5] = offset_of(m, spin.i) /\ Words[6] = size_of(m, spin.i)
    <3>1. Words[4] = m[WordAt(4, spin.i)] /\ Words[5] = m[WordAt(5, spin.i)] /\ Words[6] = m[WordAt(6, spin.i)]
      BY <1>3, <1>8
    <3> QED
      BY <3>1 DEF WordAt, base_of, offset_of, size_of
  <2>4. base_of(m, spin.i) \in Int /\ offset_of(m, spin.i) \in Int /\ size_of(m, spin.i) \in Int
    <3>1. spin.i \in 0 .. m[IMAGE_SECTION_COUNT] - 1
      BY <1>2, <1>5
    <3> QED
      BY <3>1, CountFacts
  <2>5. Copying' /\ ~ ToWrite' /\ ~ Returning("store")' /\ Returning("copy")'
    BY <2>2 DEF Copying, Returning, ToWrite, Calling, Posted
  <2>6. bytes(m)' = 0
    BY <2>2, <2>3, <2>4 DEF bytes, base_of
  <2>7. 0 % WordSize = 0
    BY StackVMAssumption
  <2>8. written(m)' = 0 /\ written(m) = 0
    BY <1>6, <2>5, <2>6 DEF written
  <2>9. CopyInStep(m)'
    <3>1. spin'.base \in Int /\ spin'.offset = offset_of(m, spin.i) + 0
      BY <2>2, <2>3, <2>4
    <3>2. spin'.size = (IF spin.i = 0 THEN 0 ELSE size_of(m, spin.i)) - 0
      BY <1>2, <2>2, <2>3, <2>4
    <3>3. spin.i = 0 => spin'.size = 0
      BY <2>2
    <3> QED
      BY <2>2, <2>5, <2>6, <2>7, <3>1, <3>2, <3>3 DEF CopyInStep, offset_of, size_of
  <2>10. WordsRead(m)' /\ Words' = Words /\ read' = read
    BY <1>1, <1>6, <2>2, WordsKept DEF read
  <2>11. WordsInStep(m)'
    BY <1>8, <2>2, <2>10 DEF WordsInStep, Returning, Calling
  <2> QED
    BY <1>6, <2>2, <2>8, <2>9, <2>11
<1> QED
  BY <1>7, <1>8

LEMMA SectionTakes ==
  ASSUME Shape, InStep, ReadInStep, NEW m, IsImage(m), WordsInStep(m), mem = Partly(m, spin.i, written(m)), section_word
  PROVE  WordsInStep(m)' /\ CopyInStep(m)' /\ written(m)' = written(m) /\ UNCHANGED <<spin.i, state.tos>>
<1>1. /\ spin.at = "section_word" /\ WordsRead(m) /\ read \in 3 .. 5
      /\ spin.arg = WordAt(read + 1, spin.i) /\ spin.i < m[IMAGE_SECTION_COUNT]
  BY DEF WordsInStep, Returning, section_word, at_spin
<1>2. spin.i \in 0 .. m[IMAGE_SECTION_COUNT] - 1
  <2>1. spin.i \in 0 .. m[IMAGE_SECTION_COUNT] /\ m[IMAGE_SECTION_COUNT] \in Nat
    BY <1>1, WordFacts, Zenon
  <2> QED
    BY <1>1, <2>1
<1>3. spin.arg \in header_words(m)
  BY <1>1, <1>2, CountFacts DEF WordAt
<1>4. spin.value = m[spin.arg] /\ spin.value \in Int
  BY <1>1, <1>3, WordRead DEF ReadLongs
<1>5. spin'.at = "section" /\ spin'.words = Append(Words, spin.value) /\ spin'.i = spin.i /\ UNCHANGED state
  BY SectionWordFields DEF section_word, spin_only, hub
<1>6. Words'[1] = Words[1] /\ read >= 2
  <2>1. Words \in Seq(Int) /\ Words' = Append(Words, spin.value)
    BY <1>1, <1>5, WordFacts, Zenon DEF Words
  <2> QED
    BY <1>1, <2>1 DEF read
<1>7. state'.pc = Words'[1] /\ state'.sp = StackSize /\ state'.fp = StackSize
  <2>1. state.pc = Words[1] /\ state.sp = StackSize /\ state.fp = StackSize
    BY <1>1, <1>6, Zenon DEF WordsRead
  <2> QED
    BY <1>5, <1>6, <2>1
<1>8. WordsRead(m)' /\ read' = read + 1
  <2>1. read < 6
    BY <1>1
  <2> QED
    BY <1>1, <1>4, <1>5, <1>7, <2>1, WordAdded
<1>9. ~ Copying /\ ~ Copying'
  BY <1>1, <1>5 DEF Copying, Returning, Calling
<1>10. read' >= 3
  BY <1>1, <1>8
<1>11. WordsInStep(m)'
  BY <1>5, <1>8, <1>9, <1>10 DEF WordsInStep, Returning, Calling
<1> QED
  BY <1>5, <1>9, <1>11 DEF CopyInStep, written

LEMMA CopyAsks ==
  ASSUME Shape, InStep, NEW m, IsImage(m), WordsInStep(m), CopyInStep(m), copy
  PROVE  /\ WordsInStep(m)' /\ CopyInStep(m)' /\ UNCHANGED state.tos
         /\ Partly(m, spin.i, written(m))' = Partly(m, spin.i, written(m))
<1>1. /\ spin.at = "copy" /\ Copying /\ read = 6 /\ Words \in Seq(Int) /\ UNCHANGED state
      /\ spin.i \in 0 .. m[IMAGE_SECTION_COUNT] - 1 /\ spin.i \in Nat
  <2>1. spin.at = "copy" /\ Copying /\ UNCHANGED state
    BY DEF Copying, Returning, copy, at_spin, spin_only, hub
  <2>2. WordsRead(m) /\ read = 6
    BY <2>1, Zenon DEF WordsInStep
  <2>3. read > 3
    BY <2>2
  <2>4. Words \in Seq(Int) /\ spin.i \in 0 .. m[IMAGE_SECTION_COUNT] - 1 /\ m[IMAGE_SECTION_COUNT] \in Nat
    BY <2>2, <2>3, WordFacts, Zenon
  <2> QED
    BY <2>1, <2>2, <2>4
<1>2. /\ spin.base \in Int /\ bytes(m) \in Nat /\ bytes(m) % WordSize = 0
      /\ spin.offset = offset_of(m, spin.i) + bytes(m)
      /\ spin.size = (IF spin.i = 0 THEN 0 ELSE size_of(m, spin.i)) - bytes(m)
      /\ spin.i = 0 => spin.size = 0
      /\ written(m) = bytes(m)
  <2>1. ~ ToWrite
    BY <1>1 DEF ToWrite, Posted
  <2> QED
    BY <1>1, <2>1 DEF CopyInStep, written
<1>3. size_of(m, spin.i) \in Int /\ base_of(m, spin.i) \in Int /\ offset_of(m, spin.i) \in Int
  BY <1>1, CountFacts
<1>4. CASE spin.size > 0
  <2>1. UNCHANGED loader /\ spin'.at = "arguments" /\ spin'.then = "store" /\ spin'.arg = spin.offset
    BY <1>4, CallFields DEF copy, read_long
  <2>2. Copying' /\ ~ ToWrite' /\ UNCHANGED bytes(m)
    BY <2>1 DEF loader, Copying, Returning, ToWrite, Calling, bytes, base_of
  <2>3. spin.i # 0
    BY <1>2, <1>4
  <2>4. CopyInStep(m)'
    BY <1>2, <1>4, <2>1, <2>2, <2>3 DEF CopyInStep, loader
  <2>5. WordsInStep(m)'
    <3>1. WordsRead(m)' /\ Words' = Words /\ read' = read
      BY <1>1, <2>1, WordsKept, Zenon DEF loader, WordsInStep
    <3> QED
      BY <1>1, <2>1, <3>1 DEF WordsInStep, Returning, Calling
  <2>6. written(m)' = written(m) /\ UNCHANGED spin.i
    BY <1>2, <2>1, <2>2 DEF loader, written
  <2> QED
    BY <1>1, <2>4, <2>5, <2>6 DEF Partly, Seen
<1>5. CASE ~ (spin.size > 0)
  <2>1. spin'.at = "section" /\ spin'.words = SubSeq(Words, 1, 3) /\ spin'.i = spin.i + 1
    BY <1>5, CopyFields
  <2>2. ~ Copying' /\ written(m)' = 0
    BY <2>1 DEF Copying, Returning, Calling, written
  <2>3. Partly(m, spin.i, bytes(m)) = Partly(m, spin.i + 1, 0)
    BY <1>1, <1>2, <1>3, <1>5, SectionCopied
  <2>4. Partly(m, spin'.i, 0) = Partly(m, spin.i, written(m))
    BY <1>2, <2>1, <2>3
  <2>5. /\ Words' \in Seq(Int) /\ read' = 3 /\ \A k \in 1 .. 3 : Words'[k] = Words[k]
    BY <1>1, <2>1 DEF Words, read
  <2>60. \A k \in 1 .. 6 : Words[k] = m[WordAt(k, spin.i)]
    BY <1>1, WordFacts, Zenon DEF WordsInStep
  <2>6. \A k \in 1 .. 3 : Words'[k] = m[WordAt(k, spin'.i)]
    BY <2>5, <2>60 DEF WordAt
  <2>7. WordsRead(m)'
    <3>1. state'.pc = Words'[1] /\ state'.sp = StackSize /\ state'.fp = StackSize
      <4>1. read >= 2 /\ 1 \in 1 .. 3
        BY <1>1
      <4>2. state.pc = Words[1] /\ state.sp = StackSize /\ state.fp = StackSize
        BY <4>1, Zenon DEF WordsInStep, WordsRead
      <4> QED
        BY <1>1, <2>5, <4>1, <4>2, Zenon
    <3>2. spin'.i \in 0 .. m[IMAGE_SECTION_COUNT]
      <4>1. m[IMAGE_SECTION_COUNT] \in Nat
        BY CountFacts
      <4> QED
        BY <1>1, <2>1, <4>1
    <3>3. read' <= 6 /\ ~ (read' < 3) /\ ~ (read' > 3)
      BY <2>5
    <3> QED
      BY <2>5, <2>6, <3>1, <3>2, <3>3, Zenon DEF WordsRead
  <2>8. WordsInStep(m)'
    BY <2>1, <2>5, <2>7 DEF WordsInStep, Returning, Calling, Copying
  <2>9. Partly(m, spin.i, written(m))' = Partly(m, spin'.i, 0)
    BY <2>2 DEF Partly, Seen
  <2> QED
    BY <1>1, <2>2, <2>4, <2>8, <2>9 DEF CopyInStep
<1> QED
  BY <1>4, <1>5

LEMMA StoreAsks ==
  ASSUME Shape, InStep, ReadInStep, NEW m, IsImage(m), WordsInStep(m), CopyInStep(m),
         mem = Partly(m, spin.i, written(m)), store
  PROVE  WordsInStep(m)' /\ CopyInStep(m)' /\ written(m)' = written(m) /\ UNCHANGED <<spin.i, state.tos>>
<1>1. /\ spin.at = "store" /\ Copying /\ Returning("store") /\ read = 6 /\ Words \in Seq(Int)
      /\ UNCHANGED state /\ spin.i \in 0 .. m[IMAGE_SECTION_COUNT] - 1 /\ spin.i \in Nat
  <2>1. spin.at = "store" /\ Copying /\ Returning("store") /\ UNCHANGED state
    BY DEF Copying, Returning, store, at_spin, spin_only, hub
  <2>2. WordsRead(m) /\ read = 6
    BY <2>1, Zenon DEF WordsInStep
  <2>3. read > 3
    BY <2>2
  <2>4. Words \in Seq(Int) /\ spin.i \in 0 .. m[IMAGE_SECTION_COUNT] - 1 /\ m[IMAGE_SECTION_COUNT] \in Nat
    BY <2>2, <2>3, WordFacts, Zenon
  <2> QED
    BY <2>1, <2>2, <2>4
<1>2. /\ spin.base \in Int /\ bytes(m) \in Nat /\ bytes(m) % WordSize = 0
      /\ spin.offset = offset_of(m, spin.i) + bytes(m)
      /\ spin.size = size_of(m, spin.i) - bytes(m) /\ spin.size > 0 /\ spin.arg = spin.offset
      /\ spin.i # 0 /\ written(m) = bytes(m)
  <2>1. ~ ToWrite
    BY <1>1 DEF ToWrite, Returning, Calling
  <2>2. written(m) = bytes(m)
    <3>1. bytes(m) \in Nat
      BY <1>1 DEF CopyInStep
    <3> QED
      BY <1>1, <2>1, <3>1 DEF written
  <2> QED
    BY <1>1, <2>2 DEF CopyInStep
<1>3. size_of(m, spin.i) \in Int /\ base_of(m, spin.i) \in Int /\ offset_of(m, spin.i) \in Int
      /\ spin.i \in copied(m) /\ WordSize \in Nat \ {0}
  BY <1>1, <1>2, CountFacts, StackVMAssumption DEF copied
<1>4. spin.base = base_of(m, spin.i) + bytes(m)
  BY <1>2, <1>3 DEF bytes
<1>5. inside(m, spin.i, spin.base)
  BY <1>2, <1>3, <1>4 DEF inside
<1>6. source(m, spin.i, spin.base) = spin.arg
  BY <1>2, <1>3, <1>4 DEF source
<1>7. spin.base \in DOMAIN m => spin.value = m[source(m, spin.i, spin.base)]
  <2>1. spin.value = mem[spin.arg]
    BY <1>1 DEF ReadInStep, ReadLongs
  <2> QED
    BY <1>3, <1>5, <1>6, <2>1, SourceStays
<1>8. /\ spin'.at = "arguments" /\ spin'.then = "copy" /\ spin'.arg = spin.base /\ spin'.arg2 = spin.value
      /\ spin'.base = spin.base + WordSize /\ spin'.offset = spin.offset + WordSize
      /\ spin'.size = spin.size - WordSize /\ UNCHANGED <<spin.words, spin.i>>
  BY StoreFields
<1>9. Copying' /\ ToWrite' /\ ~ Returning("store")'
  BY <1>8 DEF Copying, Returning, ToWrite, Calling
<1>10. bytes(m)' = bytes(m) + WordSize
  BY <1>2, <1>3, <1>8 DEF bytes, base_of
<1>11. written(m)' = bytes(m)
  BY <1>2, <1>3, <1>9, <1>10 DEF written
<1>12. (bytes(m) + WordSize) % WordSize = 0
  BY <1>2, <1>3, MultipleNext
<1>13. spin'.base - WordSize = spin.base
  BY <1>2, <1>3, <1>8
<1>14. CopyInStep(m)'
  <2>1. /\ spin'.base \in Int /\ bytes(m)' \in Nat /\ bytes(m)' % WordSize = 0 /\ bytes(m)' >= WordSize
        /\ spin'.offset = offset_of(m, spin.i) + bytes(m)'
        /\ spin'.size = size_of(m, spin.i) - bytes(m)'
    BY <1>2, <1>3, <1>8, <1>10, <1>12
  <2>2. (spin.i # 0)' /\ spin'.arg = spin'.base - WordSize
    BY <1>2, <1>8, <1>13
  <2>3. inside(m, spin.i, spin.arg)'
    BY <1>5, <1>8 DEF inside, base_of, size_of
  <2>4. (spin.arg \in DOMAIN m => spin.arg2 = m[source(m, spin.i, spin.arg)])'
    BY <1>7, <1>8 DEF source, offset_of, base_of
  <2> QED
    BY <1>8, <1>9, <2>1, <2>2, <2>3, <2>4 DEF CopyInStep, offset_of, size_of
<1>15. WordsInStep(m)'
  <2>1. WordsRead(m)' /\ Words' = Words /\ read' = read
    BY <1>1, <1>8, WordsKept, Zenon DEF WordsInStep
  <2> QED
    BY <1>1, <1>8, <2>1 DEF WordsInStep, Returning, Calling
<1> QED
  BY <1>1, <1>2, <1>8, <1>11, <1>14, <1>15

LEMMA WordWritten ==
  ASSUME Shape, InStep, ReadInStep, NEW m, IsImage(m), WordsInStep(m), CopyInStep(m), Loading,
         mem = Partly(m, spin.i, written(m)), _VM_WriteLong
  PROVE  WordsInStep(m)' /\ CopyInStep(m)' /\ mem' = Partly(m, spin.i, written(m))' /\ UNCHANGED state.tos
<1>1. /\ cog = "get_command" /\ Posted /\ spin.cmd = "VM_WriteLong" /\ spin.at = "poll" /\ spin.then = "copy"
      /\ UNCHANGED <<spin, mbox, state>> /\ cog' = "end_command"
  BY DEF _VM_WriteLong, command, report, others, hub, InStep, SpinInStep, MailboxInStep, Posted, Answered, Reporting,
         Calling, Returns
<1>2. Copying /\ Copying' /\ ToWrite /\ ~ ToWrite' /\ ~ Returning("store")'
  BY <1>1 DEF Copying, Returning, ToWrite, Calling, Posted
<1>3. read = 6 /\ spin.i \in 0 .. m[IMAGE_SECTION_COUNT] - 1
  <2>2. WordsRead(m) /\ read = 6
    BY <1>2, Zenon DEF WordsInStep
  <2>3. read > 3
    BY <2>2
  <2> QED
    BY <2>2, <2>3, WordFacts, Zenon
<1>4. /\ spin.base \in Int /\ bytes(m) \in Nat /\ bytes(m) % WordSize = 0
      /\ bytes(m) >= WordSize /\ spin.arg = spin.base - WordSize /\ spin.i # 0
      /\ inside(m, spin.i, spin.arg)
      /\ spin.arg \in DOMAIN m => spin.arg2 = m[source(m, spin.i, spin.arg)]
  BY <1>1, <1>2 DEF CopyInStep
<1>5. spin.i \in copied(m) /\ base_of(m, spin.i) \in Int /\ WordSize \in Nat \ {0}
  BY <1>3, <1>4, CountFacts, StackVMAssumption DEF copied
<1> DEFINE n == bytes(m) - WordSize
<1>6. n \in Nat /\ n % WordSize = 0 /\ n + WordSize = bytes(m) /\ spin.arg = base_of(m, spin.i) + n
  <2>1. spin.base = base_of(m, spin.i) + bytes(m)
    BY <1>4, <1>5 DEF bytes
  <2> QED
    BY <1>4, <1>5, <2>1, MultipleNext
<1>7. written(m) = n /\ written(m)' = bytes(m)
  <2>1. UNCHANGED bytes(m)
    BY <1>1 DEF bytes, base_of
  <2> QED
    BY <1>2, <1>4, <2>1 DEF written
<1>8. mem' = [mem EXCEPT ![spin.arg] = spin.arg2]
  BY <1>1 DEF _VM_WriteLong, ReadInStep, Asking
<1> HIDE DEF n
<1>9. [Partly(m, spin.i, n) EXCEPT ![spin.arg] = spin.arg2] = Partly(m, spin.i, n + WordSize)
  <2>1. base_of(m, spin.i) + n \in DOMAIN m => spin.arg2 = m[source(m, spin.i, base_of(m, spin.i) + n)]
    BY <1>4, <1>6
  <2>2. inside(m, spin.i, base_of(m, spin.i) + n)
    BY <1>4, <1>6
  <2> QED
    BY <1>5, <1>6, <2>1, <2>2, WordCopied
<1>10. Partly(m, spin.i, written(m))' = Partly(m, spin.i, bytes(m))
  BY <1>1, <1>7 DEF Partly, Seen
<1>11. WordsInStep(m)'
  <2>1. WordsRead(m)' /\ Words' = Words /\ read' = read
    BY <1>1, WordsKept, Zenon DEF WordsInStep
  <2> QED
    BY <1>1, <1>2, <1>3, <2>1 DEF WordsInStep, Returning, Calling
<1>12. CopyInStep(m)'
  BY <1>1, <1>2 DEF CopyInStep, bytes, Returning
<1> QED
  BY <1>1, <1>6, <1>7, <1>8, <1>9, <1>10, <1>11, <1>12

LEMMA InitLoad == Init => LoadInStep
<1> SUFFICES ASSUME Init PROVE LoadInStep
  OBVIOUS
<1>1. PICK p \in Programs :
        /\ code = p.code /\ mem = p.mem
        /\ whole = completed(p.mem[IMAGE_MAIN_CODE], 0, StackSize, StackSize, EmptyStack, Loaded(p.mem),
                             "STS_Success", NoTrap)
  BY DEF Init, EmptyStack, NoTrap
<1>2. IsImage(p.mem)
  BY VMRuntimeAssumption
<1>3. /\ spin.at = "start" /\ Words = <<>> /\ spin.i = 0 /\ state.tos = 0 /\ tos = 0 /\ stack = EmptyStack
      /\ status = "STS_Success" /\ trap = NoTrap
  BY DEF Init, registers, Words, read, EmptyStack, NoTrap
<1>4. ~ Copying
  BY <1>3 DEF Copying, Returning, Calling
<1>5. WordsInStep(p.mem)
  <2>1. Words \in Seq(Int) /\ read = 0
    BY <1>3, EmptyFacts, EmptySeq DEF read
  <2>2. spin.i \in 0 .. p.mem[IMAGE_SECTION_COUNT]
    BY <1>2, <1>3, CountFacts
  <2>3. WordsRead(p.mem)
    BY <1>3, <2>1, <2>2 DEF WordsRead
  <2> QED
    BY <1>3, <1>4, <2>3 DEF WordsInStep, Returning, Calling
<1>6. CopyInStep(p.mem) /\ written(p.mem) = 0
  BY <1>4 DEF CopyInStep, written
<1>7. LoadedFrom(p)
  BY <1>1, <1>2, <1>3, <1>5, <1>6, NothingCopied DEF LoadedFrom
<1> QED
  BY <1>7 DEF LoadInStep

LEMMA LoadedStep ==
  ASSUME Shape, InStep, ReadInStep, NEW p \in Programs, LoadedFrom(p), Loading, Loading',
         LoadingSpin \/ LoadingVM
  PROVE  LoadedFrom(p)'
<1> DEFINE m == p.mem
<1>1. IsImage(m) /\ WordsInStep(m) /\ CopyInStep(m) /\ mem = Partly(m, spin.i, written(m))
  BY VMRuntimeAssumption DEF LoadedFrom
<1>2. tos = 0 /\ state.tos = 0
  BY DEF LoadedFrom
<1> HIDE DEF m
<1>3. WordsInStep(m)' /\ CopyInStep(m)' /\ mem' = Partly(m, spin.i, written(m))' /\ state'.tos = 0
  <2>1. CASE _VM_WriteLong
    BY <1>1, <1>2, <2>1, WordWritten
  <2>2. CASE copy
    BY <1>1, <1>2, <2>2, CopyAsks, LoadingStays DEF copy, spin_only, spin_and, no_instruction, machine
  <2>3. CASE ~ _VM_WriteLong /\ ~ copy
    <3>1. WordsInStep(m)' /\ CopyInStep(m)' /\ written(m)' = written(m) /\ spin'.i = spin.i /\ state'.tos = 0
      <4>2. CASE set_arguments \/ set_command \/ poll \/ start \/ cognew
        BY <1>1, <1>2, <4>2, RequestKeepsLoad
      <4>3. CASE end_command \/ done_command \/ _VM_ReadLong
        BY <1>1, <1>2, <4>3, AnswerKeepsLoad
      <4>4. CASE _init1
        BY <1>1, <1>2, <4>4, InitKeepsLoad
      <4>5. CASE load \/ load_word
        BY <1>1, <1>2, <4>5, LoadAsks, LoadTakes
      <4>6. CASE section \/ section_word
        BY <1>1, <1>2, <4>6, SectionAsks, SectionTakes
      <4>7. CASE store
        BY <1>1, <1>2, <4>7, StoreAsks
      <4> QED
        BY <2>3, <4>2, <4>3, <4>4, <4>5, <4>6, <4>7, Zenon DEF LoadingSpin, LoadingVM
    <3>2. mem' = mem
      BY <2>3, LoadingStays
    <3>3. Partly(m, spin.i, written(m))' = Partly(m, spin.i, written(m))
      BY <3>1 DEF Partly, Seen
    <3> QED
      BY <1>1, <3>1, <3>2, <3>3
  <2> QED
    BY <2>1, <2>2, <2>3
<1>4. UNCHANGED <<code, stack, status, trap, tos, whole>>
  BY LoadingStays
<1> QED
  BY <1>3, <1>4 DEF m, LoadedFrom, EmptyStack, NoTrap, Loaded, covered, completed

-----------------------------------------------------------------------------
(* The machine beside what a reader of whole is told. *)

LEMMA ParkedKept ==
  ASSUME UNCHANGED <<mem, stack, status, trap, state.pc, state.tos, state.sp, state.fp, whole>>
  PROVE  Parked' = Parked
BY DEF Parked, saved, completed

LEMMA MachineUnchanged ==
  ASSUME UNCHANGED <<code, mem, stack, status, trap, mbox.fcn, state, whole>>
  PROVE  /\ Parked' = Parked /\ Trapped' = Trapped /\ Getting' = Getting
         /\ Putting' = Putting /\ Got' = Got /\ PutOut' = PutOut /\ Ignored' = Ignored
<1>1. saved' = saved /\ InTrap' = InTrap
  BY DEF saved, completed, InTrap, Machine!at, Machine!running, Machine!op, Machine!imm, Machine!past
<1> QED
  BY <1>1 DEF Parked, Trapped, Getting, Putting, Got, PutOut, Ignored

LEMMA SteppingParks ==
  ASSUME Shape, NEW b, state' = [state EXCEPT !.stepping = b], UNCHANGED <<machine, whole>>
  PROVE  Parked' = Parked
<1>1. UNCHANGED <<state.pc, state.tos, state.sp, state.fp>>
  BY DEF Shape
<1> QED
  BY <1>1, ParkedKept DEF machine

LEMMA LoadEnds ==
  ASSUME Shape, InStep, LoadInStep, init_serial
  PROVE  Parked'
<1>1. spin.at = "init_serial" /\ UNCHANGED <<machine, hub, whole>>
  BY DEF init_serial, at_spin, no_instruction
<1>2. PICK p \in Programs : LoadedFrom(p)
  BY <1>1 DEF LoadInStep, Loading, Early
<1> DEFINE m == p.mem
<1>3. IsImage(m) /\ WordsInStep(m) /\ mem = Partly(m, spin.i, written(m))
  BY <1>2, VMRuntimeAssumption DEF LoadedFrom
<1>4. spin.i = m[IMAGE_SECTION_COUNT] /\ written(m) = 0
  BY <1>1, <1>3 DEF WordsInStep, written, Copying, Returning, Calling
<1>5. mem = Loaded(m)
  BY <1>3, <1>4, AllCopied
<1>6. state.pc = m[IMAGE_MAIN_CODE] /\ state.sp = StackSize /\ state.fp = StackSize
  <2>1. spin.i # 0
    BY <1>3, <1>4, CountFacts
  <2>2. WordsRead(m)
    BY <1>3 DEF WordsInStep
  <2>3. read \in 0 .. 6 /\ (read < 3 => spin.i = 0) /\ \A k \in 1 .. read : Words[k] = m[WordAt(k, spin.i)]
    BY <1>3, <2>2, WordFacts, Zenon
  <2>4. read >= 2 /\ 1 \in 1 .. read
    BY <2>1, <2>3
  <2>5. Words[1] = m[WordAt(1, spin.i)]
    BY <2>3, <2>4, Zenon
  <2>6. state.pc = Words[1] /\ state.sp = StackSize /\ state.fp = StackSize
    BY <2>2, <2>4, Zenon DEF WordsRead
  <2> QED
    BY <2>5, <2>6 DEF WordAt
<1>7. Parked
  BY <1>2, <1>5, <1>6 DEF LoadedFrom, Parked, saved
<1> QED
  BY <1>1, <1>7, ParkedKept DEF machine, hub

LEMMA TrapServed ==
  ASSUME Shape, Trapped, do_trap
  PROVE  /\ mbox.fcn = TRAP_GetChar => Getting'
         /\ mbox.fcn = TRAP_PutChar => Putting'
         /\ mbox.fcn \notin {TRAP_GetChar, TRAP_PutChar} => Ignored'
<1>1. UNCHANGED <<code, mem, status, trap, mbox, whole>> /\ mbox'.fcn = mbox.fcn
  BY DEF do_trap, no_vm
<1>2. UNCHANGED state.pc /\ UNCHANGED state.fp
  BY DEF do_trap, Shape
<1>3. InTrap' /\ InTrap
  BY <1>1, <1>2 DEF Trapped, InTrap, Machine!at, Machine!running, Machine!op, Machine!imm, Machine!past
<1>4. CASE mbox.fcn = TRAP_GetChar
  <2>1. stack' = [stack EXCEPT ![state.sp - 1] = state.tos] /\ state'.sp = state.sp - 1
    BY <1>4 DEF do_trap, Shape
  <2> QED
    BY <1>1, <1>3, <1>4, <2>1 DEF Trapped, Getting, TRAP_GetChar, TRAP_PutChar
<1>5. CASE mbox.fcn # TRAP_GetChar
  <2>1. UNCHANGED <<stack, state>>
    BY <1>5 DEF do_trap
  <2> QED
    BY <1>1, <1>3, <1>5, <2>1 DEF Trapped, Putting, Ignored
<1> QED
  BY <1>4, <1>5

LEMMA CharGot ==
  ASSUME Shape, Getting, got_char, spin.value \in Chars
  PROVE  Got'
<1>1. UNCHANGED <<code, mem, stack, status, mbox, whole>> /\ mbox'.fcn = mbox.fcn
  BY DEF got_char, no_vm
<1>2. /\ UNCHANGED <<state.pc, state.sp, state.fp>> /\ state'.tos = spin.value
      /\ trap' = [op |-> "GetChar", char |-> spin.value]
  BY DEF got_char, Shape
<1>3. InTrap'
  BY <1>1, <1>2 DEF Getting, InTrap, Machine!at, Machine!running, Machine!op, Machine!imm, Machine!past
<1> QED
  BY <1>1, <1>2, <1>3 DEF Getting, Got

LEMMA CharPut ==
  ASSUME Shape, Putting, char_out
  PROVE  PutOut'
<1>1. UNCHANGED <<code, mem, stack, status, mbox, whole>> /\ mbox'.fcn = mbox.fcn
  BY DEF char_out, no_vm
<1>2. /\ UNCHANGED <<state.pc, state.fp>> /\ state'.tos = stack[state.sp] /\ state'.sp = state.sp + 1
      /\ trap' = [op |-> "PutChar", char |-> state.tos]
  BY DEF char_out, Shape
<1>3. InTrap'
  BY <1>1, <1>2 DEF Putting, Trapped, InTrap, Machine!at, Machine!running, Machine!op, Machine!imm, Machine!past
<1> QED
  BY <1>1, <1>2, <1>3 DEF Putting, Trapped, PutOut

LEMMA TrapEnds ==
  ASSUME resume, Got \/ PutOut \/ Ignored
  PROVE  Parked'
<1>1. whole' = saved /\ UNCHANGED <<mem, stack, status, trap, state>>
  BY DEF resume, no_instruction, machine, hub
<1>2. status = "STS_Success"
  BY DEF Got, PutOut, Ignored, Trapped, InTrap, Machine!at, Machine!running
<1>3. saved' = saved
  BY <1>1 DEF saved, completed
<1> QED
  BY <1>1, <1>2, <1>3 DEF Parked

LEMMA SpinCogMachine ==
  ASSUME Shape, InStep, ReadInStep, RingsInStep, LoadInStep, MachineInStep, SpinCog
  PROVE  MachineInStep'
<1> USE DEF request, loader, shows, InStep, SpinInStep, MailboxInStep, ReportInStep, MachineInStep, Waiting, Stopped, Asking, Posted, Answered, Reporting, Returning, Early, Late, Calling, Sending, Receiving, ReadLongs, ReadBytes, Returns, machine, hub, vmcog, history, others, no_instruction, no_vm, no_rings, spin_and, spin_only, at_spin, no_others
<1>1. CASE set_arguments
  BY <1>1, GotoFields, ParkedKept DEF set_arguments
<1>2. CASE set_command
  BY <1>2, GotoFields, CommandFields, MachineUnchanged DEF set_command
<1>3. CASE poll
  BY <1>3, PollFields, MachineUnchanged DEF poll
<1>4. CASE start
  BY <1>4, GotoFields, StartFields, MachineUnchanged DEF start
<1>5. CASE cognew
  BY <1>5, CognewFields, MachineUnchanged DEF cognew
<1>6. CASE load
  BY <1>6, CallFields, MachineUnchanged DEF load, read_long
<1>7. CASE load_word
  BY <1>7, LoadWordFields DEF load_word
<1>8. CASE section
  BY <1>8, GotoFields, CallFields, SectionFields, MachineUnchanged DEF section, read_long
<1>9. CASE section_word
  BY <1>9, SectionWordFields, MachineUnchanged DEF section_word
<1>10. CASE copy
  BY <1>10, CallFields, CopyFields, MachineUnchanged DEF copy, read_long
<1>11. CASE store
  BY <1>11, StoreFields, MachineUnchanged DEF store
<1>12. CASE init_serial
  BY <1>12, GotoFields, LoadEnds DEF init_serial
<1>13. CASE serial_up
  BY <1>13, GotoFields, MachineUnchanged DEF serial_up
<1>14. CASE run
  BY <1>14, ContinueFields, SteppingParks DEF run
<1>15. CASE single_step
  BY <1>15, GotoFields, MachineUnchanged DEF single_step
<1>16. CASE process_requests
  BY <1>16, GotoFields, MachineUnchanged DEF process_requests, Stops, STS
<1>17. CASE halt
  BY <1>17, CallFields, MachineUnchanged DEF halt, show_status
<1>18. CASE do_step
  BY <1>18, CallFields, MachineUnchanged DEF do_step, show_status
<1>19. CASE shown
  <2>1. spin'.at = "tx" /\ spin'.item = registers_item(spin.value)
        /\ spin'.then = IF at_spin("halt_shown") THEN "repeat" ELSE "space"
    BY <1>19, PrintFields DEF shown
  <2>2. spin.at = "step_shown" => spin'.item.shows = <<whole.pc, whole.pc, whole.fp, whole.sp, whole.tos>>
    BY <2>1, <1>19 DEF shown, registers_item, ReadInStep, Parked, saved, completed
  <2> QED
    BY <1>19, <2>1, <2>2, MachineUnchanged DEF shown
<1>20. CASE space
  BY <1>20, SpaceFields, MachineUnchanged DEF space
<1>21. CASE space_typed
  <2>1. spin.at = "space_typed" /\ Parked /\ UNCHANGED <<machine, vmcog, whole, mbox>>
    BY <1>21 DEF space_typed
  <2>2. CASE spin.value = Space
    <3>1. Parked' = Parked
      BY <1>21, <2>1, <2>2, SteppingParks DEF space_typed
    <3>2. spin'.at = "command" /\ spin'.then = "process_requests"
      BY <1>21, <2>2, ContinueFields DEF space_typed
    <3> QED
      BY <2>1, <3>1, <3>2
  <2>3. CASE spin.value # Space
    <3>1. UNCHANGED state /\ spin'.at = "space"
      BY <1>21, <2>3, GotoFields DEF space_typed
    <3> QED
      BY <2>1, <3>1, MachineUnchanged
  <2> QED
    BY <2>2, <2>3
<1>22. CASE do_trap
  BY <1>22, GotoFields, PrintFields, GetTrapFields, TrapServed DEF do_trap
<1>23. CASE got_char
  BY <1>23, GotoFields, CharGot DEF got_char, RingsInStep, RxInStep
<1>24. CASE char_out
  BY <1>24, GotoFields, CharPut DEF char_out
<1>25. CASE resume
  BY <1>25, GotoFields, ContinueFields, TrapEnds DEF resume
<1>26. CASE tx_room
  BY <1>26, GotoFields, MachineUnchanged DEF tx_room
<1>27. CASE tx_head
  BY <1>27, GotoFields, MachineUnchanged DEF tx_head
<1>28. CASE rxcheck
  BY <1>28, GotoFields, MachineUnchanged DEF rxcheck
<1>29. CASE rx_byte
  BY <1>29, ReadFields, MachineUnchanged DEF rx_byte
<1>30. CASE rx_tail
  BY <1>30, GotoFields, MachineUnchanged DEF rx_tail
<1> QED
  BY <1>1, <1>2, <1>3, <1>4, <1>5, <1>6, <1>7, <1>8, <1>9, <1>10, <1>11, <1>12, <1>13, <1>14, <1>15, <1>16, <1>17, <1>18, <1>19, <1>20, <1>21, <1>22, <1>23, <1>24, <1>25, <1>26, <1>27, <1>28, <1>29, <1>30 DEF SpinCog

LEMMA VMCogMachine ==
  ASSUME Shape, InStep, ReadInStep, MachineInStep, VMCog
  PROVE  MachineInStep'
<1> USE DEF InStep, SpinInStep, MailboxInStep, ReportInStep, MachineInStep, Waiting, Stopped, Stops, Asking, Posted, Answered, Reporting, Returning, Early, Late, Calling, Sending, Receiving, ReadLongs, ReadBytes, Returns, machine, hub, vmcog, history, others, no_instruction, no_vm, no_rings, spin_and, spin_only, at_spin, no_others
<1>1. CASE _init1
  BY <1>1 DEF _init1, report, registers
<1>2. CASE end_command
  BY <1>2, ReportFields, MachineUnchanged DEF end_command
<1>3. CASE done_command
  BY <1>3, DoneFields, MachineUnchanged DEF done_command
<1>4. CASE _VM_Continue
  <2>1. Parked /\ spin.at = "poll" /\ spin.then = "process_requests" /\ UNCHANGED <<spin, mbox, status, trap, stack, mem>>
    BY <1>4 DEF _VM_Continue, command
  <2>2. Running'
    BY <1>4, <2>1 DEF _VM_Continue, Parked, Running, saved, completed
  <2> QED
    BY <1>4, <2>1, <2>2 DEF _VM_Continue, command
<1>5. CASE _VM_ReadLong
  BY <1>5, AnswerFields, ParkedKept DEF _VM_ReadLong, command, report
<1>6. CASE _VM_WriteLong
  BY <1>6, ParkedKept DEF _VM_WriteLong, command, report
<1>7. CASE _VM_ReadByte
  BY <1>7, AnswerFields, ParkedKept DEF _VM_ReadByte, command, report
<1>8. CASE _start
  <2>1. spin.at = "poll" /\ spin.then = "process_requests" /\ UNCHANGED <<spin, mbox>>
    BY <1>8 DEF _start
  <2>2. status' \in {"STS_Success", "STS_Halt", "STS_StackOver", "STS_DivideZero", "STS_IllegalOpcode"}
    BY <1>8, InstructionEnds DEF _start, Shape
  <2>3. whole' = completed(pc', tos', sp', fp', stack', mem', status', trap')
    BY <1>8 DEF _start
  <2>4. cog' = "_start" => Running'
    BY <1>8, <2>3 DEF _start, _next, report, Running
  <2>5. Reporting' /\ r1' = "STS_Step" => Parked'
    BY <1>8, <2>2, <2>3 DEF _start, _next, report, store_state, Parked, saved
  <2>6. Reporting' => r1' # "STS_Trap"
    BY <1>8, <2>2 DEF _start, _next, report
  <2>7. cog' # "get_command" /\ mbox.cmd # "none"
    BY <1>8 DEF _start, _next, report
  <2> QED
    BY <2>1, <2>4, <2>5, <2>6, <2>7
<1>9. CASE _OP_TRAP
  <2>1. spin.at = "poll" /\ spin.then = "process_requests" /\ UNCHANGED spin /\ mbox'.fcn = imm
        /\ UNCHANGED <<whole, code, mem, stack, status, trap>> /\ r1' = "STS_Trap" /\ cog' = "end_command"
    BY <1>9, AnswerFields DEF _OP_TRAP, report
  <2>2. Running
    BY <1>9 DEF _OP_TRAP
  <2>3. state'.pc = past /\ state'.fp = fp /\ state'.sp = sp /\ state'.tos = tos
    BY <1>9 DEF _OP_TRAP, store_state
  <2>4. Trapped'
    BY <1>9, <2>1, <2>2, <2>3
       DEF _OP_TRAP, Running, completed, Trapped, InTrap, at, running, op, imm, past, Machine!at, Machine!running,
           Machine!op, Machine!imm, Machine!past
  <2> QED
    BY <2>1, <2>4
<1> QED
  BY <1>1, <1>2, <1>3, <1>4, <1>5, <1>6, <1>7, <1>8, <1>9 DEF VMCog


LEMMA InitMachine == Init => MachineInStep
BY DEF Init, MachineInStep, Waiting, Returning, Asking, Posted, Stopped, Answered, Reporting, Calling, Sending, Receiving

LEMMA NextLoadAndMachine ==
  ASSUME RuntimeInv, Next
  PROVE  LoadInStep' /\ MachineInStep'
<1> USE DEF RuntimeInv
<1>1. CASE SerialCog \/ receive
  <2>1. UNCHANGED <<machine, hub, vmcog, spin, whole>>
    BY <1>1 DEF SerialCog, entry, receive_head, transmit, transmit_tail, receive, no_others, no_instruction
  <2>2. MachineInStep'
    BY <2>1, MachineUnchanged
       DEF machine, hub, vmcog, MachineInStep, Waiting, Returning, Asking, Posted, Stopped, Answered, Reporting,
           Running, completed
  <2>3. LoadInStep'
    BY <2>1 DEF machine, hub, vmcog, LoadInStep, Loading, LoadedFrom, completed, WordsInStep, WordsRead, Words, read,
                CopyInStep, bytes, written, Copying, Returning, ToWrite, Posted, Partly, Seen
  <2> QED
    BY <2>2, <2>3
<1>2. CASE SpinCog \/ VMCog
  <2>1. MachineInStep'
    BY <1>2, SpinCogMachine, VMCogMachine
  <2>2. SUFFICES ASSUME Loading'
                 PROVE  LoadInStep'
    BY <2>1 DEF LoadInStep
  <2>3. Loading /\ (LoadingSpin \/ LoadingVM)
    BY <1>2, <2>2, SpinCogLoading, VMCogLoading
  <2>4. PICK p \in Programs : LoadedFrom(p)
    BY <2>3 DEF LoadInStep
  <2>5. LoadedFrom(p)'
    BY <2>2, <2>3, <2>4, LoadedStep
  <2> QED
    BY <2>1, <2>5 DEF LoadInStep
<1> QED
  BY <1>1, <1>2 DEF Next

-----------------------------------------------------------------------------
(* The instructions, of the machine in the cog and of the one told by      *)
(* whole, are the same.                                                    *)

LEMMA SameArithmetic ==
  /\ \A n : Machine!signed(n) = signed(n)
  /\ \A o, b : Machine!unary(o, b) = unary(o, b)
  /\ \A o, a, b : Machine!xbasic_vm(o, a, b) = xbasic_vm(o, a, b)
  /\ \A o, a, b : Machine!db_vmint(o, a, b) = db_vmint(o, a, b)
  /\ \A a, b : Machine!overflows(a, b) = overflows(a, b)
<1>1. Machine!Modulus = Modulus
  BY DEF Modulus, Machine!Modulus
<1>2. \A n : Machine!unsigned(n) = unsigned(n) /\ Machine!signed(n) = signed(n) /\ Machine!abs(n) = abs(n)
  BY <1>1 DEF unsigned, Machine!unsigned, signed, Machine!signed, abs, Machine!abs
<1>3. \A b : Machine!truth(b) = truth(b)
  BY DEF truth, Machine!truth
<1>4. \A n : Machine!bits_of(n) = bits_of(n)
  BY DEF bits_of, Machine!bits_of
<1>5. \A S : Machine!of_bits(S) = of_bits(S)
  BY <1>2 DEF of_bits, Machine!of_bits
<1>6. \A a, b : Machine!quotient(a, b) = quotient(a, b) /\ Machine!overflows(a, b) = overflows(a, b)
  BY <1>1, <1>2 DEF quotient, Machine!quotient, overflows, Machine!overflows
<1>7. \A o, a, b : Machine!common(o, a, b) = common(o, a, b)
  <2> SUFFICES ASSUME NEW o, NEW a, NEW b
               PROVE  Machine!common(o, a, b) = common(o, a, b)
    OBVIOUS
  <2>1. /\ Machine!signed(a + b) = signed(a + b) /\ Machine!signed(a - b) = signed(a - b)
        /\ Machine!unsigned(b) = unsigned(b)
        /\ Machine!signed(a * 2 ^ (unsigned(b) % Width)) = signed(a * 2 ^ (unsigned(b) % Width))
    BY <1>2, Zenon
  <2>2. /\ Machine!bits_of(a) = bits_of(a) /\ Machine!bits_of(b) = bits_of(b)
        /\ Machine!of_bits(bits_of(a) \cap bits_of(b)) = of_bits(bits_of(a) \cap bits_of(b))
        /\ Machine!of_bits(bits_of(a) \cup bits_of(b)) = of_bits(bits_of(a) \cup bits_of(b))
        /\ Machine!of_bits((bits_of(a) \cup bits_of(b)) \ (bits_of(a) \cap bits_of(b)))
             = of_bits((bits_of(a) \cup bits_of(b)) \ (bits_of(a) \cap bits_of(b)))
    BY <1>4, <1>5, Zenon
  <2>3. /\ Machine!truth(a < b) = truth(a < b) /\ Machine!truth(a <= b) = truth(a <= b)
        /\ Machine!truth(a = b) = truth(a = b) /\ Machine!truth(a # b) = truth(a # b)
        /\ Machine!truth(a >= b) = truth(a >= b) /\ Machine!truth(a > b) = truth(a > b)
    BY <1>3, Zenon
  <2> QED
    BY <2>1, <2>2, <2>3, Zenon DEF common, Machine!common
<1>8. \A a, b : Machine!mul_loop(a, b) = mul_loop(a, b)
  BY <1>2, <1>4 DEF mul_loop, Machine!mul_loop
<1>9. \A a, b : Machine!fast_mul(a, b) = fast_mul(a, b)
  BY <1>2, <1>8 DEF fast_mul, Machine!fast_mul
<1>10. \A a : Machine!align_loop(a) = align_loop(a)
  BY <1>1 DEF align_loop, Machine!align_loop
<1>11. \A a, b, n : Machine!div_loop(a, b, n) = div_loop(a, b, n)
  BY DEF div_loop, Machine!div_loop
<1>12. \A a, b, r : Machine!fast_div(a, b, r) = fast_div(a, b, r)
  BY <1>2, <1>10, <1>11 DEF fast_div, Machine!fast_div
<1>13. \A o, b : Machine!unary(o, b) = unary(o, b)
  BY <1>2, <1>3 DEF unary, Machine!unary
<1>14. \A o, a, b : Machine!xbasic_vm(o, a, b) = xbasic_vm(o, a, b)
  BY <1>2, <1>7, <1>9, <1>12 DEF xbasic_vm, Machine!xbasic_vm
<1>15. \A o, a, b : Machine!db_vmint(o, a, b) = db_vmint(o, a, b)
  BY <1>2, <1>6, <1>7 DEF db_vmint, Machine!db_vmint
<1> QED
  BY <1>2, <1>6, <1>13, <1>14, <1>15

LEMMA InstructionIsShared ==
  ASSUME Running, Instruction, whole' = completed(pc', tos', sp', fp', stack', mem', status', trap')
  PROVE  Machine!Instruction
<1>1. /\ whole.pc = pc /\ whole.tos = tos /\ whole.sp = sp /\ whole.fp = fp
      /\ whole.stack = stack /\ whole.mem = mem /\ whole.status = status /\ whole.trap = trap
      /\ whole'.pc = pc' /\ whole'.tos = tos' /\ whole'.sp = sp' /\ whole'.fp = fp'
      /\ whole'.stack = stack' /\ whole'.mem = mem' /\ whole'.status = status' /\ whole'.trap = trap'
  BY DEF Running, completed
<1>2. /\ Machine!running = running /\ Machine!op = op /\ Machine!imm = imm /\ Machine!past = past
      /\ \A S : Machine!at(S) = at(S)
  BY <1>1 DEF Machine!running, Machine!op, Machine!imm, Machine!past, Machine!at, running, op, imm, past, at
<1>3. Halt => Machine!Halt
  BY <1>1, <1>2 DEF Halt, stop, Machine!Halt, Machine!stop
<1>4. Branch => Machine!Branch
  BY <1>1, <1>2 DEF Branch, fixed, quiet, Machine!Branch, Machine!fixed, Machine!quiet
<1>5. BranchTest => Machine!BranchTest
  BY <1>1, <1>2 DEF BranchTest, pop_tos, pop, fixed, quiet, Machine!BranchTest,
      Machine!pop_tos, Machine!pop, Machine!fixed, Machine!quiet
<1>6. BranchShortCircuit => Machine!BranchShortCircuit
  BY <1>1, <1>2 DEF BranchShortCircuit, pop_tos, pop, fixed, quiet,
      Machine!BranchShortCircuit, Machine!pop_tos, Machine!pop, Machine!fixed, Machine!quiet
<1>7. UnaryOp => Machine!UnaryOp
  <2>1. Machine!Unary = Unary /\ Machine!unary(op, tos) = unary(op, tos)
    BY SameArithmetic, Zenon DEF Unary, Machine!Unary
  <2> QED
    BY <1>1, <1>2, <2>1 DEF UnaryOp, compute, fixed, quiet, Machine!UnaryOp, Machine!compute,
      Machine!fixed, Machine!quiet
<1>8. BinaryOp => Machine!BinaryOp
  <2> DEFINE result == IF vm = "xbasic_vm" THEN xbasic_vm(op, pop, tos) ELSE db_vmint(op, pop, tos)
             shared == IF vm = "xbasic_vm" THEN Machine!xbasic_vm(op, pop, tos) ELSE Machine!db_vmint(op, pop, tos)
  <2>1. /\ Machine!Binary = Binary /\ Machine!pop = pop /\ shared = result
        /\ Machine!overflows(pop, tos) = overflows(pop, tos)
    <3>1. Machine!xbasic_vm(op, pop, tos) = xbasic_vm(op, pop, tos) /\ Machine!db_vmint(op, pop, tos) = db_vmint(op, pop, tos)
          /\ Machine!overflows(pop, tos) = overflows(pop, tos)
      BY SameArithmetic, Zenon
    <3>2. Machine!Binary = Binary
      BY DEF Binary, Machine!Binary
    <3>3. Machine!pop = pop
      BY <1>1 DEF pop, Machine!pop
    <3> QED
      BY <3>1, <3>2, <3>3, Zenon
  <2>2. compute(result, 1) => Machine!compute(result, 1)
    BY <1>1, <1>2 DEF compute, fixed, quiet, Machine!compute, Machine!fixed, Machine!quiet
  <2>3. \A w : stop(w) => Machine!stop(w)
    BY <1>1 DEF stop, Machine!stop
  <2>4. Machine!compute(result, 1) = Machine!compute(shared, 1)
    BY <2>1, Zenon
  <2>5. Machine!BinaryOp =
          /\ Machine!at(Binary)
          /\ IF vm = "xbasic_vm" /\ op \in {"OP_DIV", "OP_REM"} /\ tos = 0 THEN Machine!stop("STS_DivideZero")
             ELSE IF vm = "db_vmint" /\ op \in {"OP_DIV", "OP_REM"} /\ overflows(pop, tos) THEN Machine!stop("undefined")
             ELSE Machine!compute(shared, 1)
    BY <1>1, <1>2, <2>1, Zenon DEF Machine!BinaryOp
  <2> HIDE DEF result, shared
  <2> SUFFICES ASSUME BinaryOp
               PROVE  Machine!BinaryOp
    OBVIOUS
  <2>6. Machine!at(Binary)
    BY <1>2 DEF BinaryOp
  <2> QED
    BY <2>2, <2>3, <2>4, <2>5, <2>6 DEF BinaryOp, result
<1>9. Index => Machine!Index
  BY <1>1, <1>2, SameArithmetic DEF Index, compute, pop, fixed, quiet, Machine!Index, Machine!compute,
      Machine!pop, Machine!fixed, Machine!quiet
<1>10. Literal => Machine!Literal
  BY <1>1, <1>2 DEF Literal, push, stop, fixed, quiet, Machine!Literal, Machine!push,
      Machine!stop, Machine!fixed, Machine!quiet
<1>11. Dup => Machine!Dup
  BY <1>1, <1>2 DEF Dup, push, stop, fixed, quiet, Machine!Dup, Machine!push, Machine!stop,
      Machine!fixed, Machine!quiet
<1>12. Drop => Machine!Drop
  BY <1>1, <1>2 DEF Drop, compute, pop, fixed, quiet, Machine!Drop, Machine!compute,
      Machine!pop, Machine!fixed, Machine!quiet
<1>13. Clean => Machine!Clean
  BY <1>1, <1>2 DEF Clean, compute, fixed, quiet, Machine!Clean, Machine!compute,
      Machine!fixed, Machine!quiet
<1>14. Native => Machine!Native
  BY <1>1, <1>2 DEF Native, fixed, quiet, Machine!Native, Machine!fixed, Machine!quiet
<1>15. Load => Machine!Load
  BY <1>1, <1>2 DEF Load, compute, fixed, quiet, Machine!Load, Machine!compute,
      Machine!fixed, Machine!quiet
<1>16. LoadByte => Machine!LoadByte
  BY <1>1, <1>2 DEF LoadByte, compute, fixed, quiet, Machine!LoadByte, Machine!compute,
      Machine!fixed, Machine!quiet
<1>17. Store => Machine!Store
  BY <1>1, <1>2 DEF Store, pop, fixed, quiet, Machine!Store, Machine!pop, Machine!fixed,
      Machine!quiet
<1>18. LocalRef => Machine!LocalRef
  BY <1>1, <1>2 DEF LocalRef, push, stop, fixed, quiet, Machine!LocalRef, Machine!push,
      Machine!stop, Machine!fixed, Machine!quiet
<1>19. LocalSet => Machine!LocalSet
  BY <1>1, <1>2 DEF LocalSet, fixed, quiet, Machine!LocalSet, Machine!fixed, Machine!quiet
<1>20. PushJ => Machine!PushJ
  BY <1>1, <1>2 DEF PushJ, fixed, quiet, Machine!PushJ, Machine!fixed, Machine!quiet
<1>21. PopJ => Machine!PopJ
  BY <1>1, <1>2 DEF PopJ, pop_tos, pop, fixed, quiet, Machine!PopJ, Machine!pop_tos,
      Machine!pop, Machine!fixed, Machine!quiet
<1>22. Frame => Machine!Frame
  BY <1>1, <1>2 DEF Frame, stop, fixed, quiet, F_FP, Machine!Frame, Machine!stop,
      Machine!fixed, Machine!quiet, Machine!F_FP
<1>23. Return => Machine!Return
  BY <1>1, <1>2 DEF Return, leave, fixed, quiet, F_FP, Machine!Return, Machine!leave,
      Machine!fixed, Machine!quiet, Machine!F_FP
<1>24. ReturnZero => Machine!ReturnZero
  BY <1>1, <1>2 DEF ReturnZero, leave, stop, fixed, quiet, F_FP, Machine!ReturnZero,
      Machine!leave, Machine!stop, Machine!fixed, Machine!quiet, Machine!F_FP
<1>25. Trap => Machine!Trap
  BY <1>1, <1>2 DEF Trap, GetChar, PutChar, NoSuchTrap, pop_tos, pop, stop, fixed, quiet,
      TRAP_GetChar, TRAP_PutChar, Machine!Trap, Machine!GetChar, Machine!PutChar, Machine!NoSuchTrap,
      Machine!pop_tos, Machine!pop, Machine!stop, Machine!fixed, Machine!quiet, Machine!TRAP_GetChar,
      Machine!TRAP_PutChar
<1>26. IllegalOpcode => Machine!IllegalOpcode
  BY <1>1, <1>2 DEF IllegalOpcode, stop, running, Opcodes, Unary, Binary,
      Machine!IllegalOpcode, Machine!stop, Machine!running, Machine!Opcodes, Machine!Unary, Machine!Binary
<1> QED
  BY <1>3, <1>4, <1>5, <1>6, <1>7, <1>8, <1>9, <1>10, <1>11, <1>12, <1>13, <1>14, <1>15, <1>16, <1>17,
    <1>18, <1>19, <1>20, <1>21, <1>22, <1>23, <1>24, <1>25, <1>26 DEF Instruction, Machine!Instruction

LEMMA TrapIsTrap ==
  ASSUME Got \/ PutOut \/ Ignored, vm = "xbasic_vm", resume
  PROVE  Machine!Trap
<1> USE DEF Machine!Trap, Machine!GetChar, Machine!PutChar, Machine!NoSuchTrap, Machine!TRAP_GetChar,
            Machine!TRAP_PutChar, Machine!pop_tos, Machine!pop, Machine!fixed, Machine!quiet, TRAP_GetChar, TRAP_PutChar
<1>1. /\ whole'.pc = state.pc /\ whole'.tos = state.tos /\ whole'.sp = state.sp /\ whole'.fp = state.fp
      /\ whole'.stack = stack /\ whole'.mem = mem /\ whole'.status = status /\ whole'.trap = trap
      /\ UNCHANGED <<vm, code>>
  BY DEF resume, saved, completed, no_instruction, machine
<1>2. InTrap => /\ Machine!at({"OP_TRAP"}) /\ mbox.fcn = Machine!imm
                /\ whole'.pc = Machine!past /\ whole'.fp = whole.fp /\ whole'.mem = whole.mem
                /\ whole'.status = whole.status
  BY <1>1 DEF InTrap
<1>3. CASE Got
  <2>1. Machine!GetChar
    BY <1>1, <1>2, <1>3 DEF Got
  <2> QED
    BY <1>2, <1>3, <2>1 DEF Got
<1>4. CASE PutOut
  <2>1. Machine!PutChar
    BY <1>1, <1>2, <1>4 DEF PutOut
  <2> QED
    BY <1>2, <1>4, <2>1 DEF PutOut
<1>5. CASE Ignored
  <2>1. Machine!NoSuchTrap
    BY <1>1, <1>2, <1>5 DEF Ignored, Trapped
  <2> QED
    BY <1>2, <1>5, <2>1 DEF Ignored, Trapped
<1> QED
  BY <1>3, <1>4, <1>5

LEMMA StepImplements ==
  ASSUME RuntimeInv, [Next]_vars
  PROVE  [Machine!Instruction]_(Machine!machine)
<1> USE DEF RuntimeInv, InStep, Machine!machine
<1>1. CASE _start
  <2>1. Running
    BY <1>1 DEF _start, MachineInStep
  <2>2. Machine!Instruction
    BY <1>1, <2>1, InstructionIsShared DEF _start
  <2> QED
    BY <2>2
<1>2. CASE _VM_Continue
  <2>1. Parked
    BY <1>2 DEF _VM_Continue, command, MachineInStep, Waiting, Asking, MailboxInStep, Posted, Answered, Reporting, SpinInStep,
                Calling, Returns
  <2>2. UNCHANGED <<vm, code, whole>>
    BY <1>2, <2>1 DEF _VM_Continue, Parked, saved, completed
  <2> QED
    BY <2>2
<1>3. CASE resume
  <2>1. Got \/ PutOut \/ Ignored
    BY <1>3 DEF resume, at_spin, MachineInStep
  <2>2. Machine!Trap
    BY <1>3, <2>1, TrapIsTrap DEF Shape
  <2> QED
    BY <2>2 DEF Machine!Instruction
<1>4. CASE ~ _start /\ ~ _VM_Continue /\ ~ resume
  <2>1. UNCHANGED <<vm, code, whole>>
    <3>1. CASE UNCHANGED vars
      BY <3>1 DEF vars, machine
    <3>2. CASE VMCog
      BY <1>4, <3>2 DEF VMCog, _init1, end_command, done_command, _VM_ReadLong, _VM_WriteLong, _VM_ReadByte, _OP_TRAP,
                        no_instruction, machine
    <3>3. CASE SpinCog
      BY <1>4, <3>3
         DEF SpinCog, set_arguments, set_command, poll, start, cognew, load, load_word, section, section_word, copy,
             store, init_serial, serial_up, run, single_step, process_requests, halt, do_step, shown, space,
             space_typed, do_trap, got_char, char_out, tx_room, tx_head, rxcheck, rx_byte, rx_tail,
             no_instruction, machine, no_vm, spin_and, spin_only
    <3>4. CASE SerialCog \/ receive
      BY <3>4 DEF SerialCog, entry, receive_head, transmit, transmit_tail, receive, no_others, no_instruction, machine
    <3> QED
      BY <3>1, <3>2, <3>3, <3>4 DEF Next
  <2> QED
    BY <2>1
<1> QED
  BY <1>1, <1>2, <1>3, <1>4

-----------------------------------------------------------------------------
(* The theorems. *)

LEMMA InvKept == RuntimeInv /\ [Next]_vars => RuntimeInv'
<1> SUFFICES ASSUME RuntimeInv, [Next]_vars
             PROVE  RuntimeInv'
  OBVIOUS
<1>1. CASE Next
  BY <1>1, NextInStep, NextRings, NextRead, NextLoadAndMachine DEF RuntimeInv
<1>2. CASE UNCHANGED vars
  <2> USE <1>2 DEF vars, machine, hub, vmcog, history, RuntimeInv
  <2>1. Shape' /\ InStep'
    BY DEF Shape, InStep, SpinInStep, MailboxInStep, ReportInStep, Stopped, Posted, Answered, Reporting
  <2>2. RingsInStep'
    BY DEF RingsInStep, SerialInStep, Unborn, Loading, RxInStep, Overrun, InOrder, unread, arrived, TxInStep, unsent
  <2>3. ReadInStep'
    BY DEF ReadInStep, Asking, Posted, Answered, Reporting, Returning
  <2>4. LoadInStep'
    BY DEF LoadInStep, Loading, LoadedFrom, completed, WordsInStep, WordsRead, Words, read, CopyInStep, bytes, written,
           Copying, Returning, ToWrite, Posted, Partly, Seen
  <2>5. MachineInStep'
    BY MachineUnchanged
       DEF MachineInStep, Waiting, Returning, Asking, Posted, Stopped, Answered, Reporting, Running, completed
  <2> QED
    BY <2>1, <2>2, <2>3, <2>4, <2>5
<1> QED
  BY <1>1, <1>2

LEMMA InitInv == Init => RuntimeInv
<1> SUFFICES ASSUME Init
             PROVE  RuntimeInv
  OBVIOUS
<1>1. ReadInStep
  BY DEF Init, ReadInStep, Asking, Posted, Answered, Returning, ReadLongs, ReadBytes, Calling
<1> QED
  BY <1>1, InitShape, InitInStep, InitRings, InitLoad, InitMachine DEF RuntimeInv

(* The inductive invariant of the three cogs: they agree on who has the    *)
(* mailbox, on what has been loaded, on what is in the rings, and on what  *)
(* the machine has come to (vm_runtime.spin, vm_interface.spin,            *)
(* xbasic_vm.spin, FullDuplexSerial.spin).                                 *)
THEOREM CogsInStep == Spec => []RuntimeInv
BY InitInv, InvKept, PTL DEF Spec

(* On both lines order is kept: what the runtime prints goes out as it was *)
(* printed, and what is typed is read as it was typed until a ring that is *)
(* full has been overtaken (FullDuplexSerial.spin), for rings of any size, *)
(* any image and any typing.                                               *)
THEOREM OrderKept == Spec => []LinesKeepOrder
<1>1. RuntimeInv => LinesKeepOrder
  BY RingsHoldOrder DEF RuntimeInv
<1> QED
  BY <1>1, CogsInStep, PTL

(* What do_step of vm_runtime.spin shows are the registers after the last  *)
(* instruction or trap that is complete.                                   *)
THEOREM RegistersShown == Spec => []ShowsCurrentRegisters
<1>1. RuntimeInv => ShowsCurrentRegisters
  BY DEF RuntimeInv, MachineInStep, ShowsCurrentRegisters, at_spin, Sending
<1> QED
  BY <1>1, CogsInStep, PTL

(* Three cogs that load an image, run it, serve its traps and step through *)
(* it do what the machine of xbasic_vm.spin does by itself: each step is   *)
(* one instruction of it, or none.                                         *)
THEOREM RuntimeImplementsMachine == Spec => ImplementsMachine
<1>1. Init => Machine!Started(whole.pc)
  BY DEF Init, completed, Machine!Started
<1>2. RuntimeInv /\ [Next]_vars => [Machine!Instruction]_(Machine!machine)
  BY StepImplements
<1> QED
  BY <1>1, <1>2, CogsInStep, PTL DEF Spec, ImplementsMachine
=============================================================================
