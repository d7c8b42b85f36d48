------------------------------ MODULE StackVM ------------------------------
(***************************************************************************)
(* The virtual machine that runs compiled code. There are two of them: the *)
(* interpreter for the host, db_vmint.c, and the one in a cog of the       *)
(* Propeller, xbasic_vm.spin. They share the instructions and the layout   *)
(* of the stack, and differ in their arithmetic and in what they call an   *)
(* error.                                                                  *)
(*                                                                         *)
(* Code is a sequence of cells: an opcode or a byte operand takes one, a   *)
(* word WordSize of them, the first of which holds its value. A cell tells *)
(* an opcode from an operand. An address in the stack counts longs from    *)
(* the end the stack grows to; the cell before that end is memory that     *)
(* belongs to somebody else.                                               *)
(***************************************************************************)
EXTENDS Integers, Sequences

CONSTANTS
  StackSize,   \* longs in the stack
  WordSize,    \* bytes of a word, in code and in memory
  Width,       \* bits of a word in arithmetic
  ByteBits,    \* bits of a byte
  Chars        \* what GetChar can return

VARIABLES
  vm,          \* "db_vmint" or "xbasic_vm"
  code,        \* the cells, from address 0
  mem,         \* the value at each data address: a long, or a byte of a byte array
  pc, tos, sp, fp,
  stack,
  status,      \* "STS_Success" while it runs
  trap         \* the last trap: its code and the character that passed

machine == <<vm, code, mem, pc, tos, sp, fp, stack, status, trap>>

ASSUME StackVMAssumption ==
  /\ StackSize \in Nat \ {0} /\ WordSize \in Nat \ {0}
  /\ Width \in Nat \ {0} /\ ByteBits \in 1 .. Width

opcode(o) == <<[op |-> o, arg |-> 0]>>
operand(v) == <<[op |-> "operand", arg |-> v]>>
word(w) == [i \in 1 .. WordSize |-> [op |-> "operand", arg |-> IF i = 1 THEN w ELSE 0]]

Modulus == 2 ^ Width
unsigned(n) == n % Modulus
signed(n) == LET u == unsigned(n) IN IF u >= Modulus \div 2 THEN u - Modulus ELSE u
truth(b) == IF b THEN 1 ELSE 0

(* The numbers of the bits of a word that are set, and the word they make. *)
bits_of(n) == {i \in 0 .. Width - 1 : (n \div 2 ^ i) % 2 = 1}
of_bits(S) ==
  LET sum[i \in 0 .. Width] == IF i = 0 THEN 0 ELSE sum[i - 1] + (IF i - 1 \in S THEN 2 ^ (i - 1) ELSE 0)
  IN  signed(sum[Width])

-----------------------------------------------------------------------------
(* Arithmetic. Operands are a (below) and b (the top of the stack).        *)

Unary == {"OP_NOT", "OP_NEG", "OP_BNOT"}
Binary == {"OP_ADD", "OP_SUB", "OP_MUL", "OP_DIV", "OP_REM", "OP_BAND", "OP_BOR", "OP_BXOR",
           "OP_SHL", "OP_SHR", "OP_LT", "OP_LE", "OP_EQ", "OP_NE", "OP_GE", "OP_GT"}

unary(op, b) ==
  CASE op = "OP_NOT"  -> truth(b = 0)
    [] op = "OP_NEG"  -> signed(-b)
    [] op = "OP_BNOT" -> -1 - b

abs(n) == IF n < 0 THEN -n ELSE n
overflows(a, b) == a = -(Modulus \div 2) /\ b = -1     \* the division that C leaves undefined
quotient(a, b) == (IF (a < 0) # (b < 0) THEN -1 ELSE 1) * (abs(a) \div abs(b))    \* C rounds to zero
common(op, a, b) ==
  CASE op = "OP_ADD" -> signed(a + b)
    [] op = "OP_SUB" -> signed(a - b)
    [] op = "OP_BAND" -> of_bits(bits_of(a) \cap bits_of(b))
    [] op = "OP_BOR"  -> of_bits(bits_of(a) \cup bits_of(b))
    [] op = "OP_BXOR" -> of_bits((bits_of(a) \cup bits_of(b)) \ (bits_of(a) \cap bits_of(b)))
    [] op = "OP_SHL"  -> signed(a * 2 ^ (unsigned(b) % Width))
    [] op = "OP_LT" -> truth(a < b)
    [] op = "OP_LE" -> truth(a <= b)
    [] op = "OP_EQ" -> truth(a = b)
    [] op = "OP_NE" -> truth(a # b)
    [] op = "OP_GE" -> truth(a >= b)
    [] op = "OP_GT" -> truth(a > b)

db_vmint(op, a, b) ==
  CASE op = "OP_MUL" -> signed(a * b)
    [] op = "OP_DIV" -> IF b = 0 THEN 0 ELSE signed(quotient(a, b))
    [] op = "OP_REM" -> IF b = 0 THEN 0 ELSE a - b * quotient(a, b)
    [] op = "OP_SHR" -> a \div 2 ^ (unsigned(b) % Width)
    [] OTHER         -> common(op, a, b)

(* The multiplier and the divider of the cog work on magnitudes, a bit of  *)
(* the smaller factor or of the quotient at a time.                        *)
mul_loop(r3, r1) ==
  LET acc[i \in 0 .. Width] ==
        IF i = 0 THEN 0
        ELSE IF i - 1 \in bits_of(r3) THEN unsigned(acc[i - 1] + r1 * 2 ^ (i - 1)) ELSE acc[i - 1]
  IN  acc[Width]
fast_mul(r1, t) ==
  LET x == unsigned(abs(t))
      y == IF t < 0 THEN signed(-r1) ELSE r1
      z == unsigned(abs(y))
      small == IF x < z THEN x ELSE z
      large == IF x < z THEN z ELSE x
  IN  signed(mul_loop(small, IF y < 0 THEN unsigned(-large) ELSE large))

align_loop(r2) == CHOOSE n \in 1 .. Width : r2 * 2 ^ n \in Modulus .. 2 * Modulus - 1
div_loop(r1, r2, n) ==
  LET parts[i \in 0 .. n] ==
        IF i = 0 THEN <<0, r1>>
        ELSE LET p == parts[i - 1]
                 d == r2 * 2 ^ (n - i)
             IN  IF p[2] >= d THEN <<2 * p[1] + 1, p[2] - d>> ELSE <<2 * p[1], p[2]>>
  IN  parts[n]
fast_div(r1, t, remainder) ==
  LET divisor == unsigned(abs(t))
      parts == div_loop(unsigned(abs(r1)), divisor, align_loop(divisor))
      negative == IF remainder THEN r1 < 0 ELSE (r1 < 0) # (t < 0)
      value == IF remainder THEN parts[2] ELSE parts[1]
  IN  signed(IF negative THEN -value ELSE value)

xbasic_vm(op, a, b) ==
  CASE op = "OP_MUL" -> fast_mul(a, b)
    [] op = "OP_DIV" -> fast_div(a, b, FALSE)
    [] op = "OP_REM" -> fast_div(a, b, TRUE)
    [] op = "OP_SHR" -> signed(unsigned(a) \div 2 ^ (unsigned(b) % Width))
    [] OTHER         -> common(op, a, b)

-----------------------------------------------------------------------------
(* The machine starts with an empty stack and whatever is in tos.          *)
Started(entry) ==
  /\ pc = entry /\ sp = StackSize /\ fp = StackSize
  /\ tos = 0
  /\ stack = [i \in -1 .. StackSize |-> 0]
  /\ status = "STS_Success"
  /\ trap = [op |-> "none", char |-> 0]

running == status = "STS_Success"
op == code[pc + 1].op
imm == code[pc + 2].arg
at(ops) == running /\ pc \in 0 .. Len(code) - 1 /\ op \in ops
past == IF op \in {"OP_LIT", "OP_BR", "OP_BRT", "OP_BRTSC", "OP_BRF", "OP_BRFSC", "OP_NATIVE"}
        THEN pc + 1 + WordSize
        ELSE IF op \in {"OP_SLIT", "OP_LREF", "OP_LSET", "OP_CLEAN", "OP_FRAME", "OP_TRAP"}
        THEN pc + 2 ELSE pc + 1

fixed == UNCHANGED <<vm, code>>
stop(why) == status' = why /\ UNCHANGED <<vm, code, mem, pc, tos, sp, fp, stack, trap>>
quiet == UNCHANGED <<status, trap>>

(* Push with the check for overflow, and pop; v becomes the top. *)
push(v) ==
  IF sp - 1 < 0 THEN stop("STS_StackOver")
  ELSE /\ stack' = [stack EXCEPT ![sp - 1] = tos] /\ sp' = sp - 1 /\ tos' = v
       /\ pc' = past /\ fixed /\ quiet /\ UNCHANGED <<mem, fp>>
pop == stack[sp]
pop_tos == tos' = pop /\ sp' = sp + 1 /\ UNCHANGED stack

Halt == at({"OP_HALT"}) /\ stop("STS_Halt")

Branch ==
  /\ at({"OP_BR"})
  /\ pc' = past + imm
  /\ fixed /\ quiet /\ UNCHANGED <<mem, tos, sp, fp, stack>>
BranchTest ==
  /\ at({"OP_BRT", "OP_BRF"})
  /\ pc' = IF (op = "OP_BRT") = (tos # 0) THEN past + imm ELSE past
  /\ pop_tos /\ fixed /\ quiet /\ UNCHANGED <<mem, fp>>
BranchShortCircuit ==
  /\ at({"OP_BRTSC", "OP_BRFSC"})
  /\ IF (op = "OP_BRTSC") = (tos # 0)
     THEN pc' = past + imm /\ UNCHANGED <<tos, sp, stack>>
     ELSE pc' = past /\ pop_tos
  /\ fixed /\ quiet /\ UNCHANGED <<mem, fp>>

compute(v, below) ==
  /\ tos' = v /\ sp' = sp + below /\ pc' = past
  /\ fixed /\ quiet /\ UNCHANGED <<mem, fp, stack>>
UnaryOp == at(Unary) /\ compute(unary(op, tos), 0)
BinaryOp ==
  /\ at(Binary)
  /\ IF vm = "xbasic_vm" /\ op \in {"OP_DIV", "OP_REM"} /\ tos = 0 THEN stop("STS_DivideZero")
     ELSE IF vm = "db_vmint" /\ op \in {"OP_DIV", "OP_REM"} /\ overflows(pop, tos) THEN stop("undefined")
     ELSE compute(IF vm = "xbasic_vm" THEN xbasic_vm(op, pop, tos) ELSE db_vmint(op, pop, tos), 1)
Index == at({"OP_INDEX"}) /\ compute(signed(pop + tos * WordSize), 1)

Literal == at({"OP_LIT", "OP_SLIT"}) /\ push(imm)
Dup == at({"OP_DUP"}) /\ push(tos)
Drop == at({"OP_DROP"}) /\ compute(pop, 1)
Clean == at({"OP_CLEAN"}) /\ compute(tos, imm)
Native ==
  /\ at({"OP_NATIVE"}) /\ pc' = past
  /\ fixed /\ quiet /\ UNCHANGED <<mem, tos, sp, fp, stack>>

Load == at({"OP_LOAD"}) /\ compute(mem[tos], 0)
LoadByte == at({"OP_LOADB"}) /\ compute(mem[tos] % 2 ^ ByteBits, 0)
Store ==
  /\ at({"OP_STORE", "OP_STOREB"})
  /\ mem' = [mem EXCEPT ![tos] = IF op = "OP_STORE" THEN pop ELSE pop % 2 ^ ByteBits]
  /\ tos' = stack[sp + 1] /\ sp' = sp + 2 /\ pc' = past
  /\ fixed /\ quiet /\ UNCHANGED <<fp, stack>>

LocalRef == at({"OP_LREF"}) /\ push(stack[fp + imm])
LocalSet ==
  /\ at({"OP_LSET"})
  /\ stack' = [stack EXCEPT ![fp + imm] = tos]
  /\ tos' = stack'[sp] /\ sp' = sp + 1 /\ pc' = past
  /\ fixed /\ quiet /\ UNCHANGED <<mem, fp>>

PushJ ==
  /\ at({"OP_PUSHJ"}) /\ pc' = tos /\ tos' = past
  /\ fixed /\ quiet /\ UNCHANGED <<mem, sp, fp, stack>>
PopJ ==
  /\ at({"OP_POPJ"}) /\ pc' = tos /\ pop_tos
  /\ fixed /\ quiet /\ UNCHANGED <<mem, fp>>

(* The old fp is kept at fp[F_FP]. The C machine clears what it reserves. *)
F_FP == -1
F_SIZE == 1
Frame ==
  /\ at({"OP_FRAME"})
  /\ IF sp - imm < 0 THEN stop("STS_StackOver")
     ELSE /\ stack' = [i \in DOMAIN stack |->
                         IF i = sp + F_FP THEN fp
                         ELSE IF vm = "db_vmint" /\ i \in sp - imm .. sp - 1 THEN 0 ELSE stack[i]]
          /\ fp' = sp /\ sp' = sp - imm /\ pc' = past
          /\ fixed /\ quiet /\ UNCHANGED <<mem, tos>>

(* RETURNZ pushes the top, which is the return address, as RETURN's value  *)
(* has pushed it already.                                                  *)
leave(cells, top, value) ==
  /\ pc' = cells[top] /\ tos' = value
  /\ sp' = fp /\ fp' = cells[fp + F_FP] /\ stack' = cells
  /\ fixed /\ quiet /\ UNCHANGED mem
Return == at({"OP_RETURN"}) /\ leave(stack, sp, tos)
ReturnZero ==
  /\ at({"OP_RETURNZ"})
  /\ IF sp - 1 < 0 THEN stop("STS_StackOver")
     ELSE leave([stack EXCEPT ![sp - 1] = tos], sp - 1, 0)

(* Traps. GetChar pushes without the check that the machine makes. Of a    *)
(* trap that does not exist the cog takes no notice.                       *)
TRAP_GetChar == 0
TRAP_PutChar == 1
GetChar ==
  /\ \E c \in Chars :
       /\ stack' = [stack EXCEPT ![sp - 1] = tos] /\ sp' = sp - 1 /\ tos' = c
       /\ trap' = [op |-> "GetChar", char |-> c]
  /\ pc' = past /\ fixed /\ UNCHANGED <<mem, fp, status>>
PutChar ==
  /\ trap' = [op |-> "PutChar", char |-> tos]
  /\ pop_tos /\ pc' = past /\ fixed /\ UNCHANGED <<mem, fp, status>>
NoSuchTrap ==
  IF vm = "db_vmint" THEN stop("STS_IllegalOpcode")
  ELSE pc' = past /\ fixed /\ quiet /\ UNCHANGED <<mem, tos, sp, fp, stack>>
Trap ==
  /\ at({"OP_TRAP"})
  /\ IF imm = TRAP_GetChar THEN GetChar ELSE IF imm = TRAP_PutChar THEN PutChar ELSE NoSuchTrap

Opcodes == Unary \cup Binary \cup
  {"OP_HALT", "OP_BRT", "OP_BRTSC", "OP_BRF", "OP_BRFSC", "OP_BR", "OP_LIT", "OP_SLIT", "OP_LOAD",
   "OP_LOADB", "OP_STORE", "OP_STOREB", "OP_LREF", "OP_LSET", "OP_INDEX", "OP_PUSHJ", "OP_POPJ",
   "OP_CLEAN", "OP_FRAME", "OP_RETURN", "OP_RETURNZ", "OP_DROP", "OP_DUP", "OP_NATIVE", "OP_TRAP"}
IllegalOpcode ==
  running /\ (pc \in 0 .. Len(code) - 1 => op \notin Opcodes) /\ stop("STS_IllegalOpcode")

Instruction ==
  \/ Halt \/ Branch \/ BranchTest \/ BranchShortCircuit \/ UnaryOp \/ BinaryOp \/ Index
  \/ Literal \/ Dup \/ Drop \/ Clean \/ Native \/ Load \/ LoadByte \/ Store
  \/ LocalRef \/ LocalSet \/ PushJ \/ PopJ \/ Frame \/ Return \/ ReturnZero
  \/ Trap \/ IllegalOpcode
=============================================================================
