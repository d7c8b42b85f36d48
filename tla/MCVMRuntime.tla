---------------------------- MODULE MCVMRuntime ----------------------------
(* Small programs for the runtime.                                         *)
EXTENDS VMRuntime

lit(v) == opcode("OP_SLIT") \o operand(v)
long(v) == opcode("OP_LIT") \o word(v)
get == opcode("OP_TRAP") \o operand(TRAP_GetChar)
put_char == opcode("OP_TRAP") \o operand(TRAP_PutChar)
back(n) == opcode("OP_BR") \o word(-n)

Echo == get \o put_char \o back(9)
Sum == long(100) \o opcode("OP_LOAD") \o long(104) \o opcode("OP_LOAD") \o opcode("OP_ADD")
         \o opcode("OP_DUP") \o long(104) \o opcode("OP_STORE") \o put_char \o opcode("OP_HALT")
Burst == lit(1) \o put_char \o lit(2) \o put_char \o lit(3) \o put_char \o opcode("OP_HALT")
Divide == get \o lit(0) \o opcode("OP_DIV") \o put_char
Deep == get \o lit(1) \o lit(1) \o lit(1) \o lit(1)
Odd == lit(1) \o opcode("OP_TRAP") \o operand(2) \o put_char \o put_char \o opcode("OP_HALT")
Wild == lit(1) \o put_char \o opcode("BAD")

(* The image: header, two sections, and the words of the second.           *)
image(size) ==
  [a \in {4 * i : i \in 0 .. 13} \cup {100, 104, 108} |->
     CASE a = IMAGE_MAIN_CODE -> 0
       [] a = IMAGE_STACK_SIZE -> StackSize * WordSize
       [] a = IMAGE_SECTION_COUNT -> 2
       [] a = IMAGE_SECTIONS + _SECTION_SIZE -> 100
       [] a = IMAGE_SECTIONS + _SECTION_SIZE + SECTION_OFFSET -> 44
       [] a = IMAGE_SECTIONS + _SECTION_SIZE + SECTION_SIZE -> size
       [] a = IMAGE_SECTIONS + SECTION_SIZE -> 4
       [] a = 44 -> 1
       [] a = 48 -> 2
       [] a = 52 -> 3
       [] OTHER -> 0]
MCPrograms ==
  {[code |-> c, mem |-> image(8)] : c \in {Echo, Burst, Divide, Deep, Odd, Wild}}
  \cup {[code |-> Sum, mem |-> image(s)] : s \in {0, 4, 6}}
=============================================================================
