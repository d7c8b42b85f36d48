----------------------------- MODULE FlatMemory -----------------------------
(***************************************************************************)
(* What the cache promises: the chips are one flat memory, and every       *)
(* request takes effect on it at one instant, once.                        *)
(***************************************************************************)
EXTENDS MemoryMap

VARIABLES
  mem,      \* contents of every page of the chips
  op,       \* the request under way, or NoOp
  result    \* what the last read returned

vars == <<mem, op, result>>

Init ==
  /\ mem \in [ChipPage -> Data]
  /\ op = NoOp
  /\ result = ERASED

Request(r) ==
  /\ op = NoOp
  /\ op' = r
  /\ UNCHANGED <<mem, result>>

PerformRead ==
  /\ op.kind = "read"
  /\ result' = mem[chip_page(op.page)][op.at]
  /\ UNCHANGED mem

PerformWrite ==
  /\ op.kind = "write"
  /\ mem' = [mem EXCEPT ![chip_page(op.page)] = [@ EXCEPT ![op.at] = op.value]]
  /\ UNCHANGED result

PerformErase ==
  /\ op.kind = "erase"
  /\ mem' = [c \in ChipPage |-> IF \E p \in erase_block(op.page) : chip_page(p) = c
                                  THEN [i \in Offset |-> ERASED] ELSE mem[c]]
  /\ UNCHANGED result

PerformProgram ==
  /\ op.kind = "program"
  /\ mem' = [mem EXCEPT ![chip_page(op.page)] = op.data]
  /\ UNCHANGED result

Perform ==
  /\ op' = NoOp
  /\ PerformRead \/ PerformWrite \/ PerformErase \/ PerformProgram

Next == (\E r \in Access \cup Extended : Request(r)) \/ Perform

Spec == Init /\ [][Next]_vars
=============================================================================
