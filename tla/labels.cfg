\* Short bodies of labels and jumps.
CONSTANTS
  Label <- L
  Vars <- V
  MaxBlocks = 5
  StackSize = 12
  WordSize = 4
  Width = 6
  ByteBits = 4
  Chars = {0, 1, 2}
  Fuel = 24
  VMs = {"xbasic_vm", "db_vmint"}
  Bodies <- MCJumps
SPECIFICATION Spec
INVARIANT LabelsAreChecked
CHECK_DEADLOCK FALSE
