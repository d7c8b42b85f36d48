------------------------------ MODULE MemoryMap ------------------------------
(***************************************************************************)
(* The external memory of a board with a cache driver, in pages of one     *)
(* cache line each.  The serial helper stores a RAM image at virtual       *)
(* addresses from 0, the VM finds the same bytes at RAM_BASE: two page     *)
(* numbers for one page of the SRAM chip.                                  *)
(***************************************************************************)
EXTENDS Integers

CONSTANTS
  IndexCount,   \* cache lines for RAM, and as many again for flash
  LineSize,     \* cells of a line
  SramPages,    \* pages of the SRAM chip
  FlashPages,   \* pages of the flash chip
  BlockPages,   \* pages that one erase command clears
  RAM_BASE,     \* page number of the VM's first RAM page
  FLASH_BASE,   \* page number of the first flash page
  Value,        \* contents of a cell
  ERASED        \* what a cell of an erased flash block holds

HelperRam == 0 .. SramPages - 1
VmRam     == RAM_BASE .. RAM_BASE + SramPages - 1
Flash     == FLASH_BASE .. FLASH_BASE + FlashPages - 1
Page      == HelperRam \cup VmRam \cup Flash

Line   == 0 .. 2 * IndexCount - 1
Offset == 0 .. LineSize - 1
Data   == [Offset -> Value]

(* The upper lines are for flash. *)
is_flash(page) == page >= FLASH_BASE
line_of(page)  == (page % IndexCount) + (IF is_flash(page) THEN IndexCount ELSE 0)

(* Where a page lives: the SRAM sees the low bits of the address only. *)
chip_page(page) == IF is_flash(page) THEN <<"flash", page - FLASH_BASE>>
                                     ELSE <<"sram", page % SramPages>>

ChipPage == {"sram"} \X HelperRam \cup {"flash"} \X (0 .. FlashPages - 1)

(* The flash pages that go when the block of page is erased. *)
erase_block(page) ==
  {p \in Flash : (p - FLASH_BASE) \div BlockPages = (page - FLASH_BASE) \div BlockPages}

(* Reads by the VM, stores by the VM and by the helper, and the flash      *)
(* commands of the helper.                                                 *)
Read(page, at)     == [kind |-> "read", page |-> page, at |-> at]
Write(page, at, v) == [kind |-> "write", page |-> page, at |-> at, value |-> v]
Erase(page)        == [kind |-> "erase", page |-> page]
Program(page, d)   == [kind |-> "program", page |-> page, data |-> d]

Access ==
  [kind : {"read"}, page : Page, at : Offset]
    \cup [kind : {"write"}, page : HelperRam \cup VmRam, at : Offset, value : Value]
Extended ==
  [kind : {"erase"}, page : Flash] \cup [kind : {"program"}, page : Flash, data : Data]
NoOp == [kind |-> "none"]

ASSUME MapAssumption ==
  /\ IndexCount \in Nat \ {0}
  /\ LineSize \in Nat \ {0}
  /\ SramPages \in Nat \ {0}
  /\ FlashPages \in Nat
  /\ BlockPages \in Nat \ {0}
  /\ RAM_BASE \in Nat /\ SramPages <= RAM_BASE
  /\ FLASH_BASE \in Nat /\ RAM_BASE + SramPages <= FLASH_BASE
  /\ ERASED \in Value

(* What the code owes to RAM_BASE, to the chip and to the cache being      *)
(* powers of two, each of which divides the one before it.                 *)
ASSUME SamePageSameLine ==
  \A p, q \in Page : chip_page(p) = chip_page(q) => line_of(p) = line_of(q)
=============================================================================
