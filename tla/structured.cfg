\* Nested and badly nested bodies of a function, run on the machine of the cog.
CONSTANTS
  Label <- L
  Vars <- V
  MaxBlocks = 5
  StackSize = 12
  WordSize = 4
  Width = 6
  ByteBits = 4
  Chars = {0, 1, 2}
  Fuel = 24
  VMs = {"xbasic_vm", "db_vmint"}
  Bodies <- MCBodies
SPECIFICATION Spec
INVARIANTS
  AcceptsNestedBodies
  FollowsTheSource
  StatementsBalance
PROPERTIES
  GetsThere
CHECK_DEADLOCK FALSE
