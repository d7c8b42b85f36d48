------------------------------ MODULE VMRuntime ------------------------------
(***************************************************************************)
(* A program that runs on the Propeller. Three cogs share hub memory: one  *)
(* runs the virtual machine (xbasic_vm.spin), one the Spin code that       *)
(* starts it, loads the image and serves its traps (vm_runtime.spin,       *)
(* vm_interface.spin), one the serial line (FullDuplexSerial.spin). The    *)
(* first two meet in a mailbox of three longs and in a state vector, the   *)
(* last two in a ring of bytes for each direction.                         *)
(*                                                                         *)
(* A step has at most one access to memory that another cog may use at     *)
(* that moment. What the runtime prints about a stopped machine is one     *)
(* item. One Spin cog prints, so nothing ever waits for txlock or strlock. *)
(***************************************************************************)
EXTENDS StackVM, SequencesExt

CONSTANTS
  RingSize,    \* bytes of a ring; 16 in the code
  Space,       \* the character that asks for a step
  MaxTyped,    \* bound: characters that arrive
  Programs     \* [code, mem]: the code and memory with the image at address 0

VARIABLES
  mbox,        \* [cmd, sts, fcn]
  state,       \* the state vector
  cog,         \* where the machine's cog is
  r1,          \* the status it is about to report
  stepping,    \* its register
  spin,        \* the Spin cog: where it is, its pending call and its locals
  rx, tx,      \* [head, tail, buffer] of the rings
  serial,      \* [cog, rx, tx, txdata]: where the serial cog and its two tasks are
  typed, taken, put, sent,    \* history: what came in and was read, what was printed and went out
  overrun,     \* history: unread characters have been overtaken
  whole          \* history: the machine after its last complete instruction

hub == <<mbox, state>>
vmcog == <<cog, r1, stepping>>
history == <<typed, taken, put, sent, overrun>>
vars == <<machine, hub, vmcog, spin, rx, tx, serial, history, whole>>

STS == [STS_Fail |-> 0, STS_Halt |-> 1, STS_Step |-> 2, STS_Trap |-> 3, STS_Success |-> 4,
        STS_StackOver |-> 5, STS_DivideZero |-> 6, STS_IllegalOpcode |-> 7]

IMAGE_MAIN_CODE == 8
IMAGE_STACK_SIZE == 12
IMAGE_SECTION_COUNT == 16
IMAGE_SECTIONS == 20
SECTION_OFFSET == 4
SECTION_SIZE == 8
_SECTION_SIZE == 12

registers == [fp |-> fp, sp |-> sp, tos |-> tos, pc |-> pc, stepping |-> stepping]
completed(p, t, s, f, st, m, why, tr) ==
  [pc |-> p, tos |-> t, sp |-> s, fp |-> f, stack |-> st, mem |-> m, status |-> why, trap |-> tr]
saved == completed(state.pc, state.tos, state.sp, state.fp, stack, mem, status, trap)

-----------------------------------------------------------------------------
(* The cog of the machine.                                                 *)

report(sts) == r1' = sts /\ cog' = "end_command"
no_instruction == UNCHANGED machine
others == UNCHANGED <<spin, rx, tx, serial, history>>

_init1 ==
  /\ cog = "_init1"
  /\ state' = registers
  /\ report("STS_Step")
  /\ no_instruction /\ others /\ UNCHANGED <<mbox, stepping, whole>>
end_command ==
  /\ cog = "end_command"
  /\ mbox' = [mbox EXCEPT !.sts = STS[r1]]
  /\ cog' = "done_command"
  /\ no_instruction /\ others /\ UNCHANGED <<state, r1, stepping, whole>>
done_command ==
  /\ cog = "done_command"
  /\ mbox' = [mbox EXCEPT !.cmd = "none"]
  /\ cog' = "get_command"
  /\ no_instruction /\ others /\ UNCHANGED <<state, r1, stepping, whole>>

command(c) == cog = "get_command" /\ mbox.cmd = c
_VM_Continue_tos_kept ==
  /\ command("VM_Continue")
  /\ fp' = state.fp /\ sp' = state.sp /\ tos' = tos /\ pc' = state.pc
  /\ stepping' = state.stepping
  /\ cog' = "_start"
  /\ whole' = completed(pc', tos', sp', fp', stack, mem, status, trap)
  /\ others /\ UNCHANGED <<vm, code, mem, stack, status, trap, hub, r1>>
_VM_Continue ==
  /\ command("VM_Continue")
  /\ fp' = state.fp /\ sp' = state.sp /\ tos' = state.tos /\ pc' = state.pc
  /\ stepping' = state.stepping
  /\ cog' = "_start"
  /\ whole' = completed(pc', tos', sp', fp', stack, mem, status, trap)
  /\ others /\ UNCHANGED <<vm, code, mem, stack, status, trap, hub, r1>>
_VM_ReadLong ==
  /\ command("VM_ReadLong")
  /\ mbox' = [mbox EXCEPT !.fcn = mem[mbox.sts]]
  /\ report("STS_Success")
  /\ no_instruction /\ others /\ UNCHANGED <<state, stepping, whole>>
_VM_WriteLong ==
  /\ command("VM_WriteLong")
  /\ mem' = [mem EXCEPT ![mbox.sts] = mbox.fcn]
  /\ report("STS_Success")
  /\ others /\ UNCHANGED <<vm, code, pc, tos, sp, fp, stack, status, trap, hub, stepping, whole>>
_VM_ReadByte ==
  /\ command("VM_ReadByte")
  /\ mbox' = [mbox EXCEPT !.fcn = mbox.sts]     \* the byte there, known by its address
  /\ report("STS_Success")
  /\ no_instruction /\ others /\ UNCHANGED <<state, stepping, whole>>

(* An instruction, and what _next, HALT and the error exits do after it.   *)
store_state == state' = [fp |-> fp', sp |-> sp', tos |-> tos', pc |-> pc', stepping |-> stepping]
_next_unstored ==
  IF status' = "STS_Halt" THEN store_state /\ report(status')
  ELSE IF status' # "STS_Success" THEN UNCHANGED state /\ report(status')
  ELSE IF stepping THEN UNCHANGED state /\ report("STS_Step")
  ELSE UNCHANGED <<state, cog, r1>>
_next ==
  IF status' = "STS_Halt" THEN store_state /\ report(status')
  ELSE IF status' # "STS_Success" THEN UNCHANGED state /\ report(status')
  ELSE IF stepping THEN store_state /\ report("STS_Step")
  ELSE UNCHANGED <<state, cog, r1>>
_start ==
  /\ cog = "_start" /\ ~at({"OP_TRAP"})
  /\ Instruction
  /\ _next
  /\ whole' = completed(pc', tos', sp', fp', stack', mem', status', trap')
  /\ others /\ UNCHANGED <<mbox, stepping>>
_OP_TRAP ==
  /\ cog = "_start" /\ at({"OP_TRAP"})
  /\ mbox' = [mbox EXCEPT !.fcn = imm]
  /\ pc' = past /\ UNCHANGED <<vm, code, mem, tos, sp, fp, stack, status, trap>>
  /\ store_state /\ report("STS_Trap")
  /\ others /\ UNCHANGED <<stepping, whole>>

VMCog ==
  \/ _init1 \/ end_command \/ done_command \/ _VM_Continue \/ _VM_ReadLong \/ _VM_WriteLong
  \/ _VM_ReadByte \/ _start \/ _OP_TRAP

-----------------------------------------------------------------------------
(* The Spin cog, and its calls to the machine.                             *)

at_spin(l) == spin.at = l
goto(l) == spin' = [spin EXCEPT !.at = l]
no_vm == UNCHANGED <<vmcog, serial, whole>>
no_rings == UNCHANGED <<rx, tx, history>>
spin_and == no_instruction /\ no_vm /\ no_rings
spin_only == spin_and /\ UNCHANGED hub

call(c, a, v, then) ==
  spin' = [spin EXCEPT !.at = "arguments", !.cmd = c, !.arg = a, !.arg2 = v, !.then = then]
set_arguments ==
  /\ at_spin("arguments")
  /\ mbox' = IF spin.cmd = "VM_WriteLong" THEN [mbox EXCEPT !.sts = spin.arg, !.fcn = spin.arg2]
             ELSE [mbox EXCEPT !.sts = spin.arg]
  /\ goto("command")
  /\ spin_and /\ UNCHANGED state
set_command ==
  /\ at_spin("command")
  /\ mbox' = [mbox EXCEPT !.cmd = spin.cmd]
  /\ goto("poll")
  /\ spin_and /\ UNCHANGED state
poll ==
  /\ at_spin("poll") /\ mbox.cmd = "none"
  /\ spin' = [spin EXCEPT !.at = spin.then,
                !.value = IF spin.cmd = "VM_Continue" THEN mbox.sts ELSE mbox.fcn]
  /\ spin_only

continue == spin' = [spin EXCEPT !.at = "command", !.cmd = "VM_Continue", !.then = "process_requests"]

(* vm.start posts a command that the new cog takes away when it is up.     *)
start ==
  /\ at_spin("start")
  /\ mbox' = [mbox EXCEPT !.cmd = "VM_Continue"]
  /\ goto("cognew")
  /\ spin_and /\ UNCHANGED state
cognew ==
  /\ at_spin("cognew")
  /\ cog' = "_init1"
  /\ spin' = [spin EXCEPT !.at = "poll", !.then = "load"]
  /\ no_instruction /\ no_rings /\ UNCHANGED <<hub, r1, stepping, serial, whole>>

(* load: the header, the registers, then the sections but the first. What  *)
(* has been read is in spin.words.                                         *)
read_long(a, then) == call("VM_ReadLong", a, 0, then)
Words == spin.words
load ==
  /\ at_spin("load")
  /\ read_long(IF Words = <<>> THEN IMAGE_MAIN_CODE
               ELSE IF Len(Words) = 1 THEN IMAGE_STACK_SIZE ELSE IMAGE_SECTION_COUNT, "load_word")
  /\ spin_only
load_word ==
  /\ at_spin("load_word")
  /\ spin' = [spin EXCEPT !.words = Append(@, spin.value),
                !.at = IF Len(Words) = 2 THEN "section" ELSE "load"]
  /\ state' = IF Len(Words) = 1
              THEN [state EXCEPT !.pc = Words[1], !.sp = spin.value \div WordSize, !.fp = spin.value \div WordSize]
              ELSE state
  /\ spin_and /\ UNCHANGED mbox
count == Words[3]
part == Len(Words) - 3       \* how many longs of the section's header have been read
section ==
  /\ at_spin("section")
  /\ IF spin.i = count THEN goto("init_serial")
     ELSE IF part < 3
     THEN read_long(IMAGE_SECTIONS + spin.i * _SECTION_SIZE + <<0, SECTION_OFFSET, SECTION_SIZE>>[part + 1], "section_word")
     ELSE spin' = [spin EXCEPT !.at = "copy", !.base = Words[4], !.offset = Words[5],
                               !.size = IF spin.i > 0 THEN Words[6] ELSE 0]
  /\ spin_only
section_word ==
  /\ at_spin("section_word")
  /\ spin' = [spin EXCEPT !.words = Append(@, spin.value), !.at = "section"]
  /\ spin_only
copy ==
  /\ at_spin("copy")
  /\ IF spin.size > 0 THEN read_long(spin.offset, "store")
     ELSE spin' = [spin EXCEPT !.at = "section", !.i = @ + 1, !.words = SubSeq(@, 1, 3)]
  /\ spin_only
store ==
  /\ at_spin("store")
  /\ spin' = [spin EXCEPT !.base = @ + WordSize, !.offset = @ + WordSize, !.size = @ - WordSize,
                          !.cmd = "VM_WriteLong", !.arg = spin.base, !.arg2 = spin.value,
                          !.at = "arguments", !.then = "copy"]
  /\ spin_only

(* ser.start waits for its cog; then the machine runs or is stepped.       *)
init_serial ==
  /\ at_spin("init_serial")
  /\ rx' = [rx EXCEPT !.head = 1, !.tail = 0] /\ tx' = [tx EXCEPT !.head = 0, !.tail = 0]
  /\ serial' = [serial EXCEPT !.cog = "entry"]
  /\ goto("serial_up")
  /\ no_instruction /\ UNCHANGED <<hub, vmcog, history, whole>>
serial_up ==
  /\ at_spin("serial_up") /\ rx.head = 0
  /\ goto(spin.mode)
  /\ spin_only
run ==
  /\ at_spin("run")
  /\ state' = [state EXCEPT !.stepping = FALSE]
  /\ continue
  /\ spin_and /\ UNCHANGED mbox
single_step ==
  /\ at_spin("single_step")
  /\ goto("do_step")
  /\ spin_only

(* After a halt the loop polls again, though nothing has been posted.      *)
process_requests_overflow_missed ==
  /\ at_spin("process_requests")
  /\ IF spin.value = STS.STS_Step THEN goto("do_step")
     ELSE IF spin.value = STS.STS_Trap THEN goto("do_trap")
     ELSE IF spin.value = STS.STS_Halt \/ spin.value = STS.STS_StackOver THEN goto("poll")
     ELSE goto("halt")
  /\ spin_only
process_requests ==
  /\ at_spin("process_requests")
  /\ IF spin.value = STS.STS_Step THEN goto("do_step")
     ELSE IF spin.value = STS.STS_Trap THEN goto("do_trap")
     ELSE IF spin.value = STS.STS_Halt THEN goto("poll")
     ELSE goto("halt")
  /\ spin_only

show_status(then) == call("VM_ReadByte", state.pc, 0, then)
halt ==
  /\ at_spin("halt")
  /\ show_status("halt_shown")
  /\ spin_only
do_step ==
  /\ at_spin("do_step")
  /\ show_status("step_shown")
  /\ spin_only
char_item(c) == [kind |-> "char", shows |-> <<c>>]
registers_item(byte) ==
  [kind |-> "registers", shows |-> <<state.pc, byte, state.fp, state.sp, state.tos>>]
print(item, then) == spin' = [spin EXCEPT !.at = "tx", !.item = item, !.then = then]
shown ==
  /\ spin.at \in {"halt_shown", "step_shown"}
  /\ print(registers_item(spin.value),
           IF at_spin("halt_shown") THEN "repeat" ELSE "space")
  /\ spin_only
space ==
  /\ at_spin("space")
  /\ spin' = [spin EXCEPT !.at = "rx", !.then = "space_typed"]
  /\ spin_only
space_typed ==
  /\ at_spin("space_typed")
  /\ IF spin.value = Space THEN continue /\ state' = [state EXCEPT !.stepping = TRUE]
     ELSE goto("space") /\ UNCHANGED state
  /\ spin_and /\ UNCHANGED mbox

do_trap ==
  /\ at_spin("do_trap")
  /\ IF mbox.fcn = TRAP_GetChar
     THEN /\ stack' = [stack EXCEPT ![state.sp - 1] = state.tos]        \* push_tos
          /\ state' = [state EXCEPT !.sp = @ - 1]
          /\ spin' = [spin EXCEPT !.at = "rx", !.then = "got_char"]
     ELSE /\ IF mbox.fcn = TRAP_PutChar THEN print(char_item(state.tos), "char_out") ELSE goto("resume")
          /\ UNCHANGED <<stack, state>>
  /\ no_vm /\ no_rings /\ UNCHANGED <<vm, code, mem, pc, tos, sp, fp, status, trap, mbox>>
got_char ==
  /\ at_spin("got_char")
  /\ state' = [state EXCEPT !.tos = spin.value]
  /\ trap' = [op |-> "GetChar", char |-> spin.value]
  /\ goto("resume")
  /\ no_vm /\ no_rings /\ UNCHANGED <<vm, code, mem, pc, tos, sp, fp, stack, status, mbox>>
char_out ==
  /\ at_spin("char_out")
  /\ trap' = [op |-> "PutChar", char |-> state.tos]
  /\ state' = [state EXCEPT !.tos = stack[state.sp], !.sp = @ + 1]      \* pop_tos
  /\ goto("resume")
  /\ no_vm /\ no_rings /\ UNCHANGED <<vm, code, mem, pc, tos, sp, fp, stack, status, mbox>>
resume ==
  /\ at_spin("resume")
  /\ IF state.stepping THEN goto("do_step") ELSE continue
  /\ whole' = saved
  /\ no_instruction /\ no_rings /\ UNCHANGED <<hub, vmcog, serial>>

-----------------------------------------------------------------------------
(* The rings, from the side of the Spin cog.                               *)

after(i) == (i + 1) % RingSize
tx_room_unchecked ==
  /\ at_spin("tx")
  /\ tx' = [tx EXCEPT !.buffer[tx.head] = spin.item]
  /\ goto("tx_head")
  /\ no_instruction /\ no_vm /\ UNCHANGED <<hub, rx, history>>
tx_room ==
  /\ at_spin("tx") /\ tx.tail # after(tx.head)
  /\ tx' = [tx EXCEPT !.buffer[tx.head] = spin.item]
  /\ goto("tx_head")
  /\ no_instruction /\ no_vm /\ UNCHANGED <<hub, rx, history>>
tx_head ==
  /\ at_spin("tx_head")
  /\ tx' = [tx EXCEPT !.head = after(@)]
  /\ put' = Append(put, spin.item)
  /\ goto(spin.then)
  /\ no_instruction /\ no_vm /\ UNCHANGED <<hub, rx, typed, taken, sent, overrun>>
rxcheck ==
  /\ at_spin("rx") /\ rx.tail # rx.head
  /\ goto("rx_byte")
  /\ spin_only
rx_byte ==
  /\ at_spin("rx_byte")
  /\ spin' = [spin EXCEPT !.value = rx.buffer[rx.tail], !.at = "rx_tail"]
  /\ spin_only
rx_tail ==
  /\ at_spin("rx_tail")
  /\ rx' = [rx EXCEPT !.tail = after(@)]
  /\ taken' = Append(taken, spin.value)
  /\ goto(spin.then)
  /\ no_instruction /\ no_vm /\ UNCHANGED <<hub, tx, typed, put, sent, overrun>>

SpinCog ==
  \/ set_arguments \/ set_command \/ poll \/ start \/ cognew
  \/ load \/ load_word \/ section \/ section_word \/ copy \/ store
  \/ init_serial \/ serial_up \/ run \/ single_step \/ process_requests
  \/ halt \/ do_step \/ shown \/ space \/ space_typed
  \/ do_trap \/ got_char \/ char_out \/ resume
  \/ tx_room \/ tx_head \/ rxcheck \/ rx_byte \/ rx_tail

-----------------------------------------------------------------------------
(* The serial cog: two tasks, each of which goes on while the other waits  *)
(* for the end of a bit.                                                   *)

no_others == no_instruction /\ UNCHANGED <<hub, vmcog, spin, whole>>
entry ==
  /\ serial.cog = "entry"
  /\ rx' = [rx EXCEPT !.head = 0]
  /\ serial' = [serial EXCEPT !.cog = "running"]
  /\ no_others /\ UNCHANGED <<tx, history>>
receive ==
  /\ serial.cog = "running" /\ serial.rx = "idle" /\ Len(typed) < MaxTyped
  /\ \E c \in Chars :
       rx' = [rx EXCEPT !.buffer[rx.head] = c] /\ typed' = Append(typed, c)
  /\ serial' = [serial EXCEPT !.rx = "head"]
  /\ no_others /\ UNCHANGED <<tx, taken, put, sent, overrun>>
receive_head ==
  /\ serial.rx = "head"
  /\ rx' = [rx EXCEPT !.head = after(@)]
  /\ overrun' = (overrun \/ after(rx.head) = rx.tail)
  /\ serial' = [serial EXCEPT !.rx = "idle"]
  /\ no_others /\ UNCHANGED <<tx, typed, taken, put, sent>>
transmit ==
  /\ serial.cog = "running" /\ serial.tx = "idle" /\ tx.head # tx.tail
  /\ serial' = [serial EXCEPT !.tx = "tail", !.txdata = tx.buffer[tx.tail]]
  /\ no_others /\ UNCHANGED <<rx, tx, history>>
transmit_tail_lost ==
  /\ serial.tx = "tail"
  /\ tx' = [tx EXCEPT !.tail = tx.head]
  /\ sent' = Append(sent, serial.txdata)
  /\ serial' = [serial EXCEPT !.tx = "idle"]
  /\ no_others /\ UNCHANGED <<rx, typed, taken, put, overrun>>
transmit_tail ==
  /\ serial.tx = "tail"
  /\ tx' = [tx EXCEPT !.tail = after(@)]
  /\ sent' = Append(sent, serial.txdata)
  /\ serial' = [serial EXCEPT !.tx = "idle"]
  /\ no_others /\ UNCHANGED <<rx, typed, taken, put, overrun>>

SerialCog == entry \/ receive_head \/ transmit \/ transmit_tail

-----------------------------------------------------------------------------
(* Memory when the sections of the image at 0 have been copied.            *)
header(i) == IMAGE_SECTIONS + i * _SECTION_SIZE
base_of(m, i) == m[header(i)]
offset_of(m, i) == m[header(i) + SECTION_OFFSET]
size_of(m, i) == m[header(i) + SECTION_SIZE]
copied(m) == 1 .. m[IMAGE_SECTION_COUNT] - 1
inside(m, i, a) == base_of(m, i) <= a /\ a < base_of(m, i) + size_of(m, i)
source(m, i, a) == offset_of(m, i) + (a - base_of(m, i))
covered(m, a) == \E i \in copied(m) : inside(m, i, a)
Loaded(m) ==
  [a \in DOMAIN m |->
     IF covered(m, a) THEN m[source(m, CHOOSE i \in copied(m) : inside(m, i, a), a)] ELSE m[a]]

(* What the image writer sees to: a section is a number of words, no two   *)
(* have a word in common, and none of them lies over the image.            *)
header_words(m) ==
  {IMAGE_MAIN_CODE, IMAGE_STACK_SIZE, IMAGE_SECTION_COUNT}
  \cup {header(i) + o : i \in 0 .. m[IMAGE_SECTION_COUNT] - 1, o \in {0, SECTION_OFFSET, SECTION_SIZE}}
IsImage(m) ==
  /\ m = [a \in DOMAIN m |-> m[a]] /\ DOMAIN m \subseteq Int
  /\ m[IMAGE_STACK_SIZE] = StackSize * WordSize
  /\ m[IMAGE_SECTION_COUNT] \in Nat \ {0}
  /\ header_words(m) \subseteq DOMAIN m
  /\ \A a \in header_words(m) : m[a] \in Int /\ ~ covered(m, a)
  /\ \A i \in copied(m) : \A a \in {b \in DOMAIN m : inside(m, i, b)} :
       /\ (a - base_of(m, i)) % WordSize = 0
       /\ \A j \in copied(m) : inside(m, j, a) => j = i
       /\ source(m, i, a) \in DOMAIN m /\ ~ covered(m, source(m, i, a))
ASSUME VMRuntimeAssumption ==
  /\ RingSize \in Nat /\ RingSize > 1
  /\ MaxTyped \in Nat
  /\ \A p \in Programs : IsImage(p.mem)

Init ==
  /\ vm = "xbasic_vm"
  /\ \E p \in Programs :
       /\ code = p.code /\ mem = p.mem
       /\ whole = completed(p.mem[IMAGE_MAIN_CODE], 0, StackSize, StackSize,
                          [i \in -1 .. StackSize |-> 0], Loaded(p.mem), "STS_Success",
                          [op |-> "none", char |-> 0])
  /\ pc = 0 /\ tos = 0 /\ sp = 0 /\ fp = 0 /\ stack = [i \in -1 .. StackSize |-> 0]
  /\ status = "STS_Success" /\ trap = [op |-> "none", char |-> 0]
  /\ mbox = [cmd |-> "none", sts |-> 0, fcn |-> 0]
  /\ stepping = FALSE /\ state = registers
  /\ cog = "off" /\ r1 = "none"
  /\ \E mode \in {"run", "single_step"} :
       spin = [at |-> "start", then |-> "none", cmd |-> "VM_Continue", arg |-> 0, arg2 |-> 0,
               value |-> 0, words |-> <<>>, i |-> 0, base |-> 0, offset |-> 0, size |-> 0,
               item |-> char_item(0), mode |-> mode]
  /\ rx = [head |-> 0, tail |-> 0, buffer |-> [i \in 0 .. RingSize - 1 |-> 0]] 
  /\ tx = [rx EXCEPT !.buffer = [i \in 0 .. RingSize - 1 |-> char_item(0)]]
  /\ serial = [cog |-> "off", rx |-> "idle", tx |-> "idle", txdata |-> char_item(0)]
  /\ typed = <<>> /\ taken = <<>> /\ put = <<>> /\ sent = <<>> /\ overrun = FALSE

Next == VMCog \/ SpinCog \/ SerialCog \/ receive
(* Cogs do not stop; nobody has to type. *)
Spec == Init /\ [][Next]_vars /\ WF_vars(VMCog) /\ WF_vars(SpinCog) /\ WF_vars(SerialCog)

-----------------------------------------------------------------------------
(* Properties.                                                             *)

(* What starting, loading, mailbox, traps and stepping do together is what *)
(* the machine does by itself: it begins with the image in place, and      *)
(* every instruction that is complete, traps included, was one instruction *)
(* of the machine.                                                         *)
Machine == INSTANCE StackVM WITH
  pc <- whole.pc, tos <- whole.tos, sp <- whole.sp, fp <- whole.fp, stack <- whole.stack, mem <- whole.mem,
  status <- whole.status, trap <- whole.trap
ImplementsMachine == Machine!Started(whole.pc) /\ [][Machine!Instruction]_(Machine!machine)

(* The line carries what was printed, in order, and the program reads what *)
(* was typed, in order, as long as there was room for what it had not read *)
(* yet. After an overrun nothing is read that was never typed.             *)
LinesKeepOrder ==
  /\ {rx.head, rx.tail, tx.head, tx.tail} \subseteq 0 .. RingSize - 1
  /\ IsPrefix(sent, put)
  /\ IF overrun THEN ToSet(taken) \subseteq ToSet(typed) ELSE IsPrefix(taken, typed)

(* The registers that the runtime shows before it waits for the space are  *)
(* those after the last complete instruction. (After an error they are     *)
(* those of the last time the machine stored them.)                        *)
ShowsCurrentRegisters ==
  at_spin("tx") /\ spin.then = "space" =>
    spin.item.shows = <<whole.pc, whole.pc, whole.fp, whole.sp, whole.tos>>

(* What is printed goes out.                                               *)
OutputDrains == \A n \in 1 .. 4 : Len(put) >= n ~> Len(sent) >= n

(* An error of the machine ends with the runtime showing it.               *)
ErrorsAreShown ==
  status \in {"STS_StackOver", "STS_DivideZero", "STS_IllegalOpcode"} ~> at_spin("repeat") /\ put = sent
=============================================================================
