----------------------------- MODULE CacheDriver -----------------------------
(***************************************************************************)
(* The cache driver cog of the C3 board and the two programs that use it,  *)
(* one after the other: the serial helper while an image is loaded, and    *)
(* then the VM cog.  They share a mailbox of two longs in hub memory, cmd  *)
(* and addr, and the cache lines: the driver moves lines between the chips *)
(* and hub memory, and its client reads and writes the line itself.        *)
(***************************************************************************)
EXTENDS MemoryMap

VARIABLES
  cmd,        \* mailbox: the request, BUSY before the driver runs, or NoOp
  addr,       \* mailbox: the cache line of the last request
  lines,      \* hub memory: the cache lines
  tags,       \* driver: the page in every line
  dirty,      \* driver: the lines that were asked for to be written
  driver,     \* driver: what it does
  chips,      \* the SRAM and the flash chip
  user,       \* who uses the cache
  client,     \* what the user does
  op,         \* the request the user has under way, or NoOp
  cacheaddr,  \* VM: the page it used last, 0 before it used one
  cacheptr,   \* VM: the line that page is in
  result      \* what the last read returned

mailbox  == <<cmd, addr>>
cacheVM  == <<cacheaddr, cacheptr>>
vars     == <<mailbox, lines, tags, dirty, driver, chips, user, client, op, cacheVM, result>>

BUSY   == [kind |-> "busy"]
EMPTY  == -1      \* the tag of a line that holds no page
NOLINE == -1      \* hub address 0, which is no cache line

-----------------------------------------------------------------------------
(* The driver starts on tags that are the zeros of its cog image.          *)
Init ==
  /\ cmd = BUSY /\ addr = NOLINE
  /\ lines \in [Line -> Data]
  /\ tags = [l \in Line |-> 0] /\ dirty = {}
  /\ driver = "flush"
  /\ chips \in [ChipPage -> Data]
  /\ user = "helper" /\ client = "start" /\ op = NoOp
  /\ cacheaddr = 0 /\ cacheptr = NOLINE
  /\ result = ERASED

-----------------------------------------------------------------------------
(* The driver.                                                             *)

vmflush ==
  /\ driver = "flush"
  /\ tags' = [l \in Line |-> EMPTY]
  /\ dirty' = {}
  /\ cmd' = NoOp
  /\ driver' = "waitcmd"
  /\ UNCHANGED <<addr, lines, chips, user, client, op, cacheVM, result>>

line == line_of(cmd.page)

(* The line is chosen and its hub address returned before the tag is       *)
(* looked at.                                                              *)
on_miss_keep_chip == "bread"
on_miss == IF line \in dirty THEN "bwrite" ELSE "bread"
waitcmd ==
  /\ driver = "waitcmd"
  /\ cmd.kind \in {"read", "write"}
  /\ addr' = line
  /\ driver' = IF tags[line] = cmd.page THEN "reply" ELSE on_miss
  /\ UNCHANGED <<cmd, lines, tags, dirty, chips, user, client, op, cacheVM, result>>

(* Nothing is ever written back to flash. *)
BWRITE ==
  /\ driver = "bwrite"
  /\ chips' = IF is_flash(tags[line]) THEN chips
              ELSE [chips EXCEPT ![chip_page(tags[line])] = lines[line]]
  /\ driver' = "bread"
  /\ UNCHANGED <<mailbox, lines, tags, dirty, user, client, op, cacheVM, result>>

(* The new tag replaces the dirty bit of the old one too. *)
BREAD ==
  /\ driver = "bread"
  /\ lines' = [lines EXCEPT ![line] = chips[chip_page(cmd.page)]]
  /\ tags' = [tags EXCEPT ![line] = cmd.page]
  /\ dirty' = dirty \ {line}
  /\ driver' = "reply"
  /\ UNCHANGED <<mailbox, chips, user, client, op, cacheVM, result>>

dirty_with_swapped(kind) == IF kind = "write" THEN dirty ELSE dirty \cup {line}
dirty_with(kind) == IF kind = "write" THEN dirty \cup {line} ELSE dirty
reply_unzeroed ==
  /\ driver = "reply"
  /\ dirty' = dirty_with(cmd.kind)
  /\ driver' = "waitcmd"
  /\ UNCHANGED <<mailbox, lines, tags, chips, user, client, op, cacheVM, result>>
reply ==
  /\ driver = "reply"
  /\ dirty' = dirty_with(cmd.kind)
  /\ cmd' = NoOp
  /\ driver' = "waitcmd"
  /\ UNCHANGED <<addr, lines, tags, chips, user, client, op, cacheVM, result>>

(* The flash commands leave the lines and their tags alone, and overwrite  *)
(* the returned address with the chip's status.                            *)
erase_4k_block_handler ==
  /\ driver = "waitcmd"
  /\ cmd.kind = "erase"
  /\ chips' = [c \in ChipPage |-> IF \E p \in erase_block(cmd.page) : chip_page(p) = c
                                    THEN [i \in Offset |-> ERASED] ELSE chips[c]]
  /\ addr' = NOLINE
  /\ cmd' = NoOp
  /\ UNCHANGED <<lines, tags, dirty, driver, user, client, op, cacheVM, result>>

write_data_handler ==
  /\ driver = "waitcmd"
  /\ cmd.kind = "program"
  /\ chips' = [chips EXCEPT ![chip_page(cmd.page)] = cmd.data]
  /\ addr' = NOLINE
  /\ cmd' = NoOp
  /\ UNCHANGED <<lines, tags, dirty, driver, user, client, op, cacheVM, result>>

DriverStep ==
  \/ vmflush \/ waitcmd \/ BWRITE \/ BREAD \/ reply
  \/ erase_4k_block_handler \/ write_data_handler

-----------------------------------------------------------------------------
(* The serial helper, through cache_interface.                             *)

start ==
  /\ client = "start"
  /\ cmd = NoOp
  /\ client' = "idle"
  /\ UNCHANGED <<mailbox, lines, tags, dirty, driver, chips, user, op, cacheVM, result>>

post(r) ==
  /\ op' = r
  /\ cmd' = r
  /\ client' = "wait"
  /\ UNCHANGED <<addr, lines, tags, dirty, driver, chips, user, result>>

helper_idle == user = "helper" /\ client = "idle"

writeLong(page, at, v) ==
  helper_idle /\ post(Write(page, at, v)) /\ UNCHANGED cacheVM

eraseFlashBlock(page) ==
  helper_idle /\ post(Erase(page)) /\ UNCHANGED cacheVM

(* The helper programs what it has erased, and only that. *)
writeFlash(page, data) ==
  /\ helper_idle
  /\ chips[chip_page(page)] = [i \in Offset |-> ERASED]
  /\ post(Program(page, data))
  /\ UNCHANGED cacheVM

(* The packet RUN: from now on the VM cog uses the cache, and only it.     *)
Run ==
  /\ helper_idle
  /\ user' = "vm"
  /\ UNCHANGED <<mailbox, lines, tags, dirty, driver, chips, client, op, cacheVM, result>>

-----------------------------------------------------------------------------
(* The VM cog.                                                             *)

vm_idle == user = "vm" /\ client = "idle"

remember_raw(page) == cacheaddr' = 4 * page + 3 /\ UNCHANGED cacheptr   \* READ_CMD left in
remember(page) == cacheaddr' = page /\ UNCHANGED cacheptr

(* A read of the line that was used last does not ask the driver. *)
is_cached(page) == cacheaddr = page
cache_read(page, at) ==
  /\ vm_idle
  /\ \/ /\ is_cached(page)
        /\ op' = Read(page, at)
        /\ client' = "access"
        /\ UNCHANGED <<mailbox, lines, tags, dirty, driver, chips, user, cacheVM, result>>
     \/ /\ ~ is_cached(page)
        /\ post(Read(page, at))
        /\ remember(page)

(* A write always asks: the driver has to mark the line. *)
cache_write_forgotten(page, at, v) ==
  /\ vm_idle
  /\ post(Write(page, at, v))
  /\ UNCHANGED cacheVM
cache_write_short(page, at, v) ==
  /\ vm_idle
  /\ IF is_cached(page)
       THEN /\ op' = Write(page, at, v)
            /\ client' = "access"
            /\ UNCHANGED <<mailbox, lines, tags, dirty, driver, chips, user, cacheVM, result>>
       ELSE post(Write(page, at, v)) /\ remember(page)
cache_write(page, at, v) ==
  /\ vm_idle
  /\ post(Write(page, at, v))
  /\ remember(page)

-----------------------------------------------------------------------------
(* Both: the answer, and the access to the line.                           *)

waitres ==
  /\ client = "wait"
  /\ cmd = NoOp
  /\ op.kind \in {"read", "write"}
  /\ client' = "access"
  /\ cacheptr' = IF user = "vm" THEN addr ELSE cacheptr
  /\ UNCHANGED <<mailbox, lines, tags, dirty, driver, chips, user, op, cacheaddr, result>>

extended_done ==
  /\ client = "wait"
  /\ cmd = NoOp
  /\ op.kind \in {"erase", "program"}
  /\ client' = "idle"
  /\ op' = NoOp
  /\ UNCHANGED <<mailbox, lines, tags, dirty, driver, chips, user, cacheVM, result>>

memp == IF user = "vm" THEN cacheptr ELSE addr

load ==
  /\ client = "access"
  /\ op.kind = "read"
  /\ result' = lines[memp][op.at]
  /\ client' = "idle" /\ op' = NoOp
  /\ UNCHANGED <<mailbox, lines, tags, dirty, driver, chips, user, cacheVM>>

store ==
  /\ client = "access"
  /\ op.kind = "write"
  /\ lines' = [lines EXCEPT ![memp] = [@ EXCEPT ![op.at] = op.value]]
  /\ client' = "idle" /\ op' = NoOp
  /\ UNCHANGED <<mailbox, tags, dirty, driver, chips, user, cacheVM, result>>

ClientStep == start \/ waitres \/ extended_done \/ load \/ store

NewRequest ==
  \/ \E page \in HelperRam, at \in Offset, v \in Value : writeLong(page, at, v)
  \/ \E page \in Flash : eraseFlashBlock(page)
  \/ \E page \in Flash, data \in Data : writeFlash(page, data)
  \/ \E page \in VmRam \cup Flash, at \in Offset : cache_read(page, at)
  \/ \E page \in VmRam, at \in Offset, v \in Value : cache_write(page, at, v)

Next == DriverStep \/ ClientStep \/ NewRequest \/ Run

(* Cogs never stop; nobody has to ask for anything. *)
Spec == Init /\ [][Next]_vars /\ WF_vars(DriverStep) /\ WF_vars(ClientStep)

-----------------------------------------------------------------------------
(* Properties.                                                             *)

(* Types. *)
TypeOK ==
  /\ cmd \in Access \cup Extended \cup {BUSY, NoOp}
  /\ addr \in Line \cup {NOLINE}
  /\ lines \in [Line -> Data]
  /\ tags \in [Line -> Page \cup {EMPTY}]
  /\ dirty \subseteq Line
  /\ driver \in {"flush", "waitcmd", "bwrite", "bread", "reply"}
  /\ chips \in [ChipPage -> Data]
  /\ user \in {"helper", "vm"}
  /\ client \in {"start", "idle", "wait", "access"}
  /\ op \in Access \cup Extended \cup {NoOp}
  /\ cacheaddr \in Page
  /\ cacheptr \in Line \cup {NOLINE}
  /\ result \in Value

(* Every line holds a page that belongs there; one that nobody has written *)
(* holds what the chip holds; only RAM pages are ever written, so nothing  *)
(* is lost when a flash line is dropped; and while the flash can still     *)
(* change, no line shows a part of it.                                     *)
TagAtHome(l)   == tags[l] # EMPTY => line_of(tags[l]) = l
CleanIsCopy(l) == tags[l] # EMPTY /\ l \notin dirty => lines[l] = chips[chip_page(tags[l])]
DirtyIsRam(l)  == l \in dirty => tags[l] \in HelperRam \cup VmRam
NoFlashYet(l)  == user = "helper" => tags[l] \notin Flash
Coherent ==
  driver # "flush" =>
    \A l \in Line : TagAtHome(l) /\ CleanIsCopy(l) /\ DirtyIsRam(l) /\ NoFlashYet(l)

(* Whoever touches a line touches the one that holds the page it asked     *)
(* for, and the driver knows of the change a store makes, although the     *)
(* store comes after its answer.                                           *)
AccessIsCovered ==
  client = "access" =>
    /\ memp \in Line /\ tags[memp] = op.page
    /\ op.kind = "write" => memp \in dirty

(* The line that the VM remembers still holds the page it remembers        *)
(* whenever it may take the short way of cache_read past the driver.       *)
RememberedLineIsCurrent ==
  vm_idle /\ cacheaddr # 0 => cacheptr \in Line /\ tags[cacheptr] = cacheaddr

(* What a page of the chips would hold if every line were written back.    *)
holders(tag, c) == {l \in Line : tag[l] # EMPTY /\ chip_page(tag[l]) = c}
shown(tag, line_data, chip, c) ==
  IF holders(tag, c) = {} THEN chip[c] ELSE line_data[CHOOSE l \in holders(tag, c) : TRUE]
contents == [c \in ChipPage |-> IF driver = "flush" THEN chips[c] ELSE shown(tags, lines, chips, c)]

(* A flash command is over when the driver has zeroed the mailbox. *)
pending == IF op.kind \in {"erase", "program"} /\ cmd = NoOp THEN NoOp ELSE op

Flat == INSTANCE FlatMemory WITH mem <- contents, op <- pending

(* Through evictions, write-backs, the two names of RAM pages and the      *)
(* short way of cache_read, clients see one flat memory.                   *)
ImplementsFlat == Flat!Spec

(* Every request of a client is answered. *)
EveryRequestEnds == op # NoOp ~> op = NoOp
=============================================================================
