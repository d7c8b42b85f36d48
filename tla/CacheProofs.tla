----------------------------- MODULE CacheProofs -----------------------------
(***************************************************************************)
(* Theorems about CacheDriver, for every size of the cache and the chips.  *)
(***************************************************************************)
EXTENDS CacheDriver, TLAPS

(* What is known of a request from its kind. *)
LEMMA RequestKinds ==
  ASSUME NEW r \in Access \cup Extended \cup {BUSY, NoOp}
  PROVE  /\ r.kind \in {"read", "write", "erase", "program", "busy", "none"}
         /\ r.kind \in {"read", "write"} <=> r \in Access
         /\ r.kind \in {"erase", "program"} <=> r \in Extended
         /\ r.kind = "none" <=> r = NoOp
         /\ r.kind = "busy" <=> r = BUSY
BY DEF Access, Extended, BUSY, NoOp

LEMMA AccessFields ==
  ASSUME NEW r \in Access
  PROVE  /\ r.page \in Page /\ r.at \in Offset
         /\ r.kind = "write" => r.page \in HelperRam \cup VmRam /\ r.value \in Value
BY DEF Access, Page

LEMMA ExtendedFields ==
  ASSUME NEW r \in Extended
  PROVE  /\ r.page \in Flash
         /\ r.kind = "program" => r.data \in Data
BY DEF Extended

(* Pages are numbers, 0 is one, and no tag is mistaken for EMPTY. *)
LEMMA PageNumbers ==
  /\ Page \subseteq Nat
  /\ 0 \in HelperRam /\ 0 \in Page
  /\ EMPTY \notin Page
BY MapAssumption DEF Page, HelperRam, VmRam, Flash, EMPTY

LEMMA PageKinds ==
  ASSUME NEW p \in Page
  PROVE  /\ is_flash(p) <=> p \in Flash
         /\ p \in HelperRam \cup VmRam <=> ~ is_flash(p)
         /\ p \in VmRam \cup Flash <=> p \notin HelperRam
BY MapAssumption DEF Page, HelperRam, VmRam, Flash, is_flash

LEMMA LineOfPage ==
  ASSUME NEW p \in Page
  PROVE  line_of(p) \in Line
BY MapAssumption, PageNumbers DEF line_of, Line

LEMMA PlaceOfPage ==
  ASSUME NEW p \in Page
  PROVE  chip_page(p) \in ChipPage
<1>1. CASE is_flash(p)
  BY <1>1, MapAssumption, PageKinds DEF chip_page, ChipPage, Flash
<1>2. CASE ~ is_flash(p)
  <2>1. p % SramPages \in HelperRam
    BY MapAssumption, PageNumbers DEF HelperRam
  <2> QED
    BY <1>2, <2>1 DEF chip_page, ChipPage
<1> QED
  BY <1>1, <1>2

-----------------------------------------------------------------------------
(* The inductive invariant: types, the coherence of the lines, and how far *)
(* the driver and its client are with a request.                           *)

Holds(p) == tags[line_of(p)] = p

(* The line of a request is ready for it. *)
Covered(r) == Holds(r.page) /\ (r.kind = "write" => line_of(r.page) \in dirty)

StartInStep ==
  /\ driver = "flush" <=> cmd.kind = "busy"
  /\ client = "start" => op.kind = "none" /\ user = "helper" /\ cmd.kind \in {"busy", "none"}
  /\ cmd.kind = "busy" => client = "start"

DriverInStep ==
  /\ cmd.kind = "none" => driver = "waitcmd"
  /\ cmd.kind \notin {"none", "busy"} => client = "wait" /\ cmd = op
  /\ driver \in {"bwrite", "bread", "reply"} =>
       cmd.kind \in {"read", "write"} /\ addr = line_of(cmd.page)
  /\ driver = "reply" => Holds(cmd.page)
  /\ driver = "bwrite" => line_of(cmd.page) \in dirty
  /\ driver = "bread" /\ tags[line_of(cmd.page)] # EMPTY =>
       lines[line_of(cmd.page)] = chips[chip_page(tags[line_of(cmd.page)])]

ClientInStep ==
  /\ client \in {"start", "idle"} <=> op.kind = "none"
  /\ client = "access" => op.kind \in {"read", "write"} /\ memp = line_of(op.page) /\ Covered(op)
  /\ client = "wait" /\ cmd.kind = "none" /\ op.kind \in {"read", "write"} =>
       addr = line_of(op.page) /\ Covered(op)

HelperInStep ==
  /\ cacheaddr = 0
  /\ op.kind # "read"
  /\ op.kind = "write" => op.page \in HelperRam

VMInStep ==
  /\ op.kind \in {"none", "read", "write"}
  /\ op.kind \in {"read", "write"} => cacheaddr = op.page
  /\ cacheaddr # 0 => cacheaddr \in VmRam \cup Flash
  /\ client # "wait" /\ cacheaddr # 0 => cacheptr = line_of(cacheaddr) /\ Holds(cacheaddr)

UserInStep ==
  /\ user = "helper" => HelperInStep
  /\ user = "vm" => VMInStep

InStep == StartInStep /\ DriverInStep /\ ClientInStep /\ UserInStep

CacheInv == TypeOK /\ Coherent /\ InStep

-----------------------------------------------------------------------------
(* Types. *)

LEMMA InitTypes == Init => TypeOK
<1> SUFFICES ASSUME Init PROVE TypeOK
  OBVIOUS
<1>1. tags \in [Line -> Page \cup {EMPTY}] /\ cacheaddr \in Page
  BY PageNumbers DEF Init
<1> QED
  BY <1>1, MapAssumption DEF Init, TypeOK

LEMMA DriverTypes ==
  ASSUME TypeOK, DriverInStep, DriverStep
  PROVE  TypeOK'
<1>0. cmd.kind \in {"read", "write"} => cmd \in Access /\ cmd.page \in Page /\ line \in Line
  BY RequestKinds, AccessFields, LineOfPage DEF TypeOK, line
<1>1. CASE vmflush
  BY <1>1 DEF vmflush, TypeOK, cacheVM
<1>2. CASE waitcmd
  <2>1. addr' \in Line
    BY <1>0, <1>2 DEF waitcmd
  <2>2. driver' \in {"reply", "bwrite", "bread"}
    BY <1>2 DEF waitcmd, on_miss
  <2> QED
    BY <1>2, <2>1, <2>2 DEF waitcmd, TypeOK, cacheVM
<1>3. CASE BWRITE
  <2>1. line \in Line
    BY <1>0, <1>3 DEF BWRITE, DriverInStep
  <2>2. chips' \in [ChipPage -> Data]
    BY <1>3, <2>1 DEF BWRITE, TypeOK
  <2> QED
    BY <1>3, <2>2 DEF BWRITE, TypeOK, mailbox, cacheVM
<1>4. CASE BREAD
  <2>1. cmd.page \in Page /\ line \in Line
    BY <1>0, <1>4 DEF BREAD, DriverInStep
  <2>2. chips[chip_page(cmd.page)] \in Data
    BY <2>1, PlaceOfPage DEF TypeOK
  <2>3. lines' \in [Line -> Data] /\ tags' \in [Line -> Page \cup {EMPTY}] /\ dirty' \subseteq Line
    BY <1>4, <2>1, <2>2 DEF BREAD, TypeOK
  <2> QED
    BY <1>4, <2>3 DEF BREAD, TypeOK, mailbox, cacheVM
<1>5. CASE reply
  <2>1. line \in Line
    BY <1>0, <1>5 DEF reply, DriverInStep
  <2>2. dirty' \subseteq Line
    BY <1>5, <2>1 DEF reply, dirty_with, TypeOK
  <2> QED
    BY <1>5, <2>2 DEF reply, TypeOK, cacheVM
<1>6. CASE erase_4k_block_handler
  <2>1. chips' \in [ChipPage -> Data]
    <3>1. [i \in Offset |-> ERASED] \in Data
      BY MapAssumption DEF Data
    <3> QED
      BY <1>6, <3>1 DEF erase_4k_block_handler, TypeOK
  <2> QED
    BY <1>6, <2>1 DEF erase_4k_block_handler, TypeOK, cacheVM
<1>7. CASE write_data_handler
  <2>1. cmd.data \in Data
    BY <1>7, RequestKinds, ExtendedFields DEF write_data_handler, TypeOK
  <2>2. chips' \in [ChipPage -> Data]
    BY <1>7, <2>1 DEF write_data_handler, TypeOK
  <2> QED
    BY <1>7, <2>2 DEF write_data_handler, TypeOK, cacheVM
<1> QED
  BY <1>1, <1>2, <1>3, <1>4, <1>5, <1>6, <1>7 DEF DriverStep

LEMMA ClientTypes ==
  ASSUME TypeOK, ClientInStep, ClientStep
  PROVE  TypeOK'
<1>0. client = "access" => op.page \in Page /\ op.at \in Offset /\ memp \in Line
  BY RequestKinds, AccessFields, LineOfPage DEF TypeOK, ClientInStep
<1>1. CASE start
  BY <1>1 DEF start, TypeOK, mailbox, cacheVM
<1>2. CASE waitres
  BY <1>2 DEF waitres, TypeOK, mailbox
<1>3. CASE extended_done
  BY <1>3 DEF extended_done, TypeOK, mailbox, cacheVM
<1>4. CASE load
  <2>1. result' \in Value
    BY <1>0, <1>4 DEF load, TypeOK, Data
  <2> QED
    BY <1>4, <2>1 DEF load, TypeOK, mailbox, cacheVM
<1>5. CASE store
  <2>1. op.value \in Value
    BY <1>5, RequestKinds, AccessFields DEF store, TypeOK
  <2>2. lines' \in [Line -> Data]
    <3>1. lines[memp] \in Data
      BY <1>0, <1>5 DEF store, TypeOK
    <3>2. [lines[memp] EXCEPT ![op.at] = op.value] \in Data
      BY <2>1, <3>1 DEF Data
    <3> QED
      BY <1>5, <3>2 DEF store, TypeOK
  <2> QED
    BY <1>5, <2>2 DEF store, TypeOK, mailbox, cacheVM
<1> QED
  BY <1>1, <1>2, <1>3, <1>4, <1>5 DEF ClientStep

(* The three ways a request begins. *)
HelperAsks(r) ==
  /\ helper_idle /\ post(r) /\ UNCHANGED cacheVM
  /\ r.kind \in {"write", "erase", "program"}
  /\ r.kind = "write" => r.page \in HelperRam

VMAsks(r) ==
  /\ vm_idle /\ post(r) /\ remember(r.page)
  /\ r.kind \in {"read", "write"} /\ r.page \in VmRam \cup Flash

VMReadsOn(r) ==
  /\ vm_idle /\ r.kind = "read" /\ is_cached(r.page) /\ r.page \in VmRam \cup Flash
  /\ op' = r /\ client' = "access"
  /\ UNCHANGED <<mailbox, lines, tags, dirty, driver, chips, user, cacheVM, result>>

LEMMA RequestBegins ==
  ASSUME NewRequest
  PROVE  \E r \in Access \cup Extended : HelperAsks(r) \/ VMAsks(r) \/ VMReadsOn(r)
<1>1. ASSUME NEW page \in HelperRam, NEW at \in Offset, NEW v \in Value, writeLong(page, at, v)
      PROVE  \E r \in Access \cup Extended : HelperAsks(r)
  <2>1. Write(page, at, v) \in Access
    BY <1>1 DEF Write, Access
  <2>2. HelperAsks(Write(page, at, v))
    BY <1>1 DEF HelperAsks, writeLong, Write
  <2> QED
    BY <2>1, <2>2
<1>2. ASSUME NEW page \in Flash, eraseFlashBlock(page)
      PROVE  \E r \in Access \cup Extended : HelperAsks(r)
  <2>1. Erase(page) \in Extended
    BY <1>2 DEF Erase, Extended
  <2>2. HelperAsks(Erase(page))
    BY <1>2 DEF HelperAsks, eraseFlashBlock, Erase
  <2> QED
    BY <2>1, <2>2
<1>3. ASSUME NEW page \in Flash, NEW data \in Data, writeFlash(page, data)
      PROVE  \E r \in Access \cup Extended : HelperAsks(r)
  <2>1. Program(page, data) \in Extended
    BY <1>3 DEF Program, Extended
  <2>2. HelperAsks(Program(page, data))
    BY <1>3 DEF HelperAsks, writeFlash, Program
  <2> QED
    BY <2>1, <2>2
<1>4. ASSUME NEW page \in VmRam \cup Flash, NEW at \in Offset, cache_read(page, at)
      PROVE  \E r \in Access \cup Extended : VMAsks(r) \/ VMReadsOn(r)
  <2>1. Read(page, at) \in Access
    BY <1>4 DEF Read, Access, Page
  <2>2. VMAsks(Read(page, at)) \/ VMReadsOn(Read(page, at))
    BY <1>4 DEF VMAsks, VMReadsOn, cache_read, Read
  <2> QED
    BY <2>1, <2>2
<1>5. ASSUME NEW page \in VmRam, NEW at \in Offset, NEW v \in Value, cache_write(page, at, v)
      PROVE  \E r \in Access \cup Extended : VMAsks(r)
  <2>1. Write(page, at, v) \in Access
    BY <1>5 DEF Write, Access
  <2>2. VMAsks(Write(page, at, v))
    BY <1>5 DEF VMAsks, cache_write, Write
  <2> QED
    BY <2>1, <2>2
<1> QED
  BY <1>1, <1>2, <1>3, <1>4, <1>5 DEF NewRequest

LEMMA RequestTypes ==
  ASSUME TypeOK, NewRequest
  PROVE  TypeOK'
<1> PICK r \in Access \cup Extended : HelperAsks(r) \/ VMAsks(r) \/ VMReadsOn(r)
  BY RequestBegins
<1>1. CASE HelperAsks(r)
  BY <1>1 DEF HelperAsks, post, cacheVM, TypeOK
<1>2. CASE VMAsks(r)
  <2>1. r.page \in Page
    BY <1>2 DEF VMAsks, Page
  <2> QED
    BY <1>2, <2>1 DEF VMAsks, post, remember, TypeOK
<1>3. CASE VMReadsOn(r)
  BY <1>3 DEF VMReadsOn, mailbox, cacheVM, TypeOK
<1> QED
  BY <1>1, <1>2, <1>3

LEMMA RunTypes ==
  ASSUME TypeOK, Run
  PROVE  TypeOK'
BY DEF Run, TypeOK, mailbox, cacheVM

LEMMA StepTypes ==
  ASSUME TypeOK, InStep, [Next]_vars
  PROVE  TypeOK'
<1>1. CASE Next
  BY <1>1, DriverTypes, ClientTypes, RequestTypes, RunTypes DEF Next, InStep
<1>2. CASE UNCHANGED vars
  BY <1>2 DEF vars, mailbox, cacheVM, TypeOK
<1> QED
  BY <1>1, <1>2

-----------------------------------------------------------------------------
(* The rest of the invariant, one lemma for each action.                   *)

LEMMA InitInv == Init => CacheInv
<1> SUFFICES ASSUME Init PROVE CacheInv
  OBVIOUS
<1>1. TypeOK
  BY InitTypes
<1>2. Coherent
  BY DEF Init, Coherent
<1>3. InStep
  BY DEF Init, InStep, StartInStep, DriverInStep, ClientInStep, UserInStep, HelperInStep, BUSY, NoOp
<1> QED
  BY <1>1, <1>2, <1>3 DEF CacheInv

LEMMA FlushInv ==
  ASSUME CacheInv, vmflush
  PROVE  Coherent' /\ InStep'
<1>1. /\ driver = "flush" /\ client = "start" /\ user = "helper" /\ op.kind = "none"
      /\ cmd' = NoOp /\ driver' = "waitcmd"
      /\ UNCHANGED <<addr, lines, chips, user, client, op, cacheaddr, cacheptr>>
  BY DEF vmflush, CacheInv, InStep, StartInStep, cacheVM
<1>2. tags' = [l \in Line |-> EMPTY] /\ dirty' = {}
  BY DEF vmflush
<1>3. Coherent'
  <2>1. EMPTY \notin Flash
    BY PageNumbers DEF Page
  <2> QED
    BY <1>2, <2>1 DEF Coherent, TagAtHome, CleanIsCopy, DirtyIsRam, NoFlashYet
<1>4. StartInStep' /\ DriverInStep'
  BY <1>1 DEF StartInStep, DriverInStep, NoOp
<1>5. ClientInStep' /\ UserInStep'
  BY <1>1 DEF CacheInv, InStep, ClientInStep, UserInStep, HelperInStep
<1> QED
  BY <1>3, <1>4, <1>5 DEF InStep

LEMMA LookupInv ==
  ASSUME CacheInv, waitcmd
  PROVE  Coherent' /\ InStep'
<1>0. cmd \in Access /\ cmd.page \in Page /\ line \in Line
  BY RequestKinds, AccessFields, LineOfPage DEF CacheInv, TypeOK, line, waitcmd
<1>1. /\ client = "wait" /\ cmd = op /\ cmd.kind \in {"read", "write"} /\ addr' = line
      /\ driver' \in {"reply", "bwrite", "bread"}
      /\ UNCHANGED <<cmd, lines, tags, dirty, chips, user, client, op, cacheaddr, cacheptr>>
  BY DEF waitcmd, CacheInv, InStep, DriverInStep, cacheVM, on_miss
<1>2. Coherent'
  BY <1>1 DEF CacheInv, Coherent, TagAtHome, CleanIsCopy, DirtyIsRam, NoFlashYet, waitcmd
<1>3. DriverInStep'
  <2>1. driver' = "reply" => Holds(cmd.page)
    BY DEF waitcmd, Holds, line, on_miss
  <2>2. driver' = "bwrite" => line \in dirty
    BY DEF waitcmd, on_miss
  <2>3. driver' = "bread" => line \notin dirty
    BY DEF waitcmd, on_miss
  <2>4. driver' = "bread" /\ tags[line] # EMPTY => lines[line] = chips[chip_page(tags[line])]
    BY <1>0, <2>3 DEF CacheInv, Coherent, CleanIsCopy, waitcmd
  <2> QED
    BY <1>1, <2>1, <2>2, <2>4 DEF DriverInStep, line, Holds
<1>4. StartInStep' /\ ClientInStep' /\ UserInStep'
  BY <1>1 DEF CacheInv, InStep, StartInStep, ClientInStep, UserInStep, HelperInStep, VMInStep, Holds, Covered, memp
<1> QED
  BY <1>2, <1>3, <1>4 DEF InStep

LEMMA WriteBackInv ==
  ASSUME CacheInv, BWRITE
  PROVE  Coherent' /\ InStep'
<1>0. /\ cmd.kind \in {"read", "write"} /\ client = "wait" /\ cmd = op /\ addr = line
      /\ line \in dirty /\ line \in Line /\ driver # "flush"
  BY RequestKinds, AccessFields, LineOfPage
  DEF CacheInv, TypeOK, InStep, DriverInStep, line, BWRITE
<1>1. /\ driver' = "bread"
      /\ UNCHANGED <<cmd, addr, lines, tags, dirty, user, client, op, cacheaddr, cacheptr>>
  BY DEF BWRITE, mailbox, cacheVM
<1>2. tags[line] \in Page /\ ~ is_flash(tags[line]) /\ line_of(tags[line]) = line
  BY <1>0, PageKinds, PageNumbers DEF CacheInv, Coherent, DirtyIsRam, TagAtHome, Page
<1>3. chips' = [chips EXCEPT ![chip_page(tags[line])] = lines[line]]
  BY <1>2 DEF BWRITE
<1>4. Coherent'
  <2>1. ASSUME NEW l \in Line, tags[l] # EMPTY, l \notin dirty
        PROVE  lines[l] = chips'[chip_page(tags[l])]
    <3>1. tags[l] \in Page /\ line_of(tags[l]) = l
      BY <1>0, <2>1 DEF CacheInv, TypeOK, Coherent, TagAtHome
    <3>2. chip_page(tags[l]) # chip_page(tags[line])
      BY <1>0, <1>2, <2>1, <3>1, SamePageSameLine
    <3>3. chips'[chip_page(tags[l])] = chips[chip_page(tags[l])]
      BY <1>3, <3>1, <3>2, PlaceOfPage DEF CacheInv, TypeOK
    <3> QED
      BY <1>0, <2>1, <3>3 DEF CacheInv, Coherent, CleanIsCopy
  <2> QED
    BY <1>0, <1>1, <2>1 DEF CacheInv, Coherent, TagAtHome, CleanIsCopy, DirtyIsRam, NoFlashYet
<1>5. DriverInStep'
  <2>1. lines[line] = chips'[chip_page(tags[line])]
    BY <1>2, <1>3, PlaceOfPage DEF CacheInv, TypeOK
  <2> QED
    BY <1>0, <1>1, <2>1 DEF DriverInStep, line
<1>6. StartInStep' /\ ClientInStep' /\ UserInStep'
  BY <1>0, <1>1 DEF CacheInv, InStep, StartInStep, ClientInStep, UserInStep, HelperInStep, VMInStep, Holds, Covered, memp
<1> QED
  BY <1>4, <1>5, <1>6 DEF InStep

LEMMA FillInv ==
  ASSUME CacheInv, BREAD
  PROVE  Coherent' /\ InStep'
<1>0. /\ cmd \in Access /\ cmd.kind \in {"read", "write"} /\ client = "wait" /\ cmd = op
      /\ addr = line /\ line \in Line /\ cmd.page \in Page /\ driver # "flush"
  BY RequestKinds, AccessFields, LineOfPage
  DEF CacheInv, TypeOK, InStep, DriverInStep, line, BREAD
<1>1. /\ driver' = "reply"
      /\ UNCHANGED <<cmd, addr, chips, user, client, op, cacheaddr, cacheptr>>
  BY DEF BREAD, mailbox, cacheVM
<1>2. /\ lines' = [lines EXCEPT ![line] = chips[chip_page(cmd.page)]]
      /\ tags' = [tags EXCEPT ![line] = cmd.page]
      /\ dirty' = dirty \ {line}
  BY DEF BREAD
<1>3. user = "helper" => cmd.page \notin Flash
  <2>1. user = "helper" => cmd.page \in HelperRam
    BY <1>0 DEF CacheInv, InStep, UserInStep, HelperInStep
  <2> QED
    BY <1>0, <2>1, PageKinds
<1>4. tags' \in [Line -> Page \cup {EMPTY}] /\ lines'[line] = chips[chip_page(cmd.page)] /\ tags'[line] = cmd.page
  BY <1>0, <1>2 DEF CacheInv, TypeOK
<1>5. Coherent'
  <2>1. ASSUME NEW l \in Line, l = line
        PROVE  (TagAtHome(l) /\ CleanIsCopy(l) /\ DirtyIsRam(l) /\ NoFlashYet(l))'
    BY <1>1, <1>2, <1>3, <1>4, <2>1 DEF TagAtHome, CleanIsCopy, DirtyIsRam, NoFlashYet, line
  <2>2. ASSUME NEW l \in Line, l # line
        PROVE  (TagAtHome(l) /\ CleanIsCopy(l) /\ DirtyIsRam(l) /\ NoFlashYet(l))'
    <3>1. lines'[l] = lines[l] /\ tags'[l] = tags[l] /\ (l \in dirty' <=> l \in dirty)
      BY <1>2, <2>2 DEF CacheInv, TypeOK
    <3> QED
      BY <1>0, <1>1, <3>1 DEF CacheInv, Coherent, TagAtHome, CleanIsCopy, DirtyIsRam, NoFlashYet
  <2> QED
    BY <2>1, <2>2 DEF Coherent
<1>6. DriverInStep'
  BY <1>0, <1>1, <1>4 DEF DriverInStep, Holds, line
<1>7. StartInStep' /\ ClientInStep' /\ UserInStep'
  BY <1>0, <1>1 DEF CacheInv, InStep, StartInStep, ClientInStep, UserInStep, HelperInStep, VMInStep, Holds, Covered, memp
<1> QED
  BY <1>5, <1>6, <1>7 DEF InStep

LEMMA ReplyInv ==
  ASSUME CacheInv, reply
  PROVE  Coherent' /\ InStep'
<1>0. /\ cmd \in Access /\ cmd.kind \in {"read", "write"} /\ client = "wait" /\ cmd = op
      /\ addr = line /\ line \in Line /\ driver # "flush" /\ tags[line] = cmd.page
  BY RequestKinds, AccessFields, LineOfPage
  DEF CacheInv, TypeOK, InStep, DriverInStep, line, Holds, reply
<1>1. /\ driver' = "waitcmd" /\ cmd' = NoOp
      /\ UNCHANGED <<addr, lines, tags, chips, user, client, op, cacheaddr, cacheptr>>
  BY DEF reply, cacheVM
<1>2. dirty' = IF cmd.kind = "write" THEN dirty \cup {line} ELSE dirty
  BY DEF reply, dirty_with
<1>3. cmd.kind = "write" => cmd.page \in HelperRam \cup VmRam
  BY <1>0, AccessFields
<1>4. Coherent'
  BY <1>0, <1>1, <1>2, <1>3 DEF CacheInv, Coherent, TagAtHome, CleanIsCopy, DirtyIsRam, NoFlashYet
<1>5. DriverInStep' /\ StartInStep'
  BY <1>0, <1>1 DEF CacheInv, InStep, DriverInStep, StartInStep, NoOp
<1>6. ClientInStep'
  BY <1>0, <1>1, <1>2 DEF CacheInv, InStep, ClientInStep, Covered, Holds, line
<1>7. UserInStep'
  BY <1>0, <1>1 DEF CacheInv, InStep, UserInStep, HelperInStep, VMInStep, Holds
<1> QED
  BY <1>4, <1>5, <1>6, <1>7 DEF InStep

(* The flash commands change what no line holds. *)
LEMMA FlashInv ==
  ASSUME CacheInv, erase_4k_block_handler \/ write_data_handler
  PROVE  Coherent' /\ InStep'
<1>0. /\ cmd \in Extended /\ cmd.page \in Flash /\ driver = "waitcmd"
      /\ client = "wait" /\ cmd = op /\ op.kind \in {"erase", "program"}
  BY RequestKinds, ExtendedFields
  DEF CacheInv, TypeOK, InStep, DriverInStep, erase_4k_block_handler, write_data_handler
<1>1. user = "helper"
  BY <1>0 DEF CacheInv, TypeOK, InStep, UserInStep, VMInStep
<1>2. /\ cmd' = NoOp
      /\ UNCHANGED <<driver, lines, tags, dirty, user, client, op, cacheaddr, cacheptr>>
  BY DEF erase_4k_block_handler, write_data_handler, cacheVM
<1>3. ASSUME NEW l \in Line, tags[l] # EMPTY
      PROVE  chips'[chip_page(tags[l])] = chips[chip_page(tags[l])]
  <2>1. tags[l] \in Page /\ ~ is_flash(tags[l])
    BY <1>0, <1>1, <1>3, PageKinds DEF CacheInv, TypeOK, Coherent, NoFlashYet
  <2>2. \A p \in Flash : chip_page(p) # chip_page(tags[l])
    BY <2>1, PageKinds DEF chip_page, Page
  <2>3. chip_page(tags[l]) \in ChipPage
    BY <2>1, PlaceOfPage
  <2>4. CASE erase_4k_block_handler
    <3>1. erase_block(cmd.page) \subseteq Flash
      BY DEF erase_block
    <3> QED
      BY <2>2, <2>3, <2>4, <3>1 DEF erase_4k_block_handler
  <2>5. CASE write_data_handler
    BY <1>0, <2>2, <2>3, <2>5 DEF write_data_handler, CacheInv, TypeOK
  <2> QED
    BY <2>4, <2>5
<1>4. Coherent'
  BY <1>0, <1>2, <1>3 DEF CacheInv, Coherent, TagAtHome, CleanIsCopy, DirtyIsRam, NoFlashYet
<1>5. StartInStep' /\ DriverInStep'
  BY <1>0, <1>2 DEF StartInStep, DriverInStep, NoOp
<1>6. ClientInStep' /\ UserInStep'
  BY <1>0, <1>1, <1>2 DEF CacheInv, InStep, ClientInStep, UserInStep, HelperInStep
<1> QED
  BY <1>4, <1>5, <1>6 DEF InStep

LEMMA StartInv ==
  ASSUME CacheInv, start
  PROVE  Coherent' /\ InStep'
<1>0. client = "start" /\ cmd.kind = "none" /\ op.kind = "none" /\ user = "helper" /\ driver = "waitcmd"
  BY DEF start, NoOp, CacheInv, InStep, StartInStep, DriverInStep
<1>1. /\ client' = "idle"
      /\ UNCHANGED <<cmd, addr, lines, tags, dirty, driver, chips, user, op, cacheaddr, cacheptr>>
  BY DEF start, mailbox, cacheVM
<1>2. Coherent'
  BY <1>1 DEF CacheInv, Coherent, TagAtHome, CleanIsCopy, DirtyIsRam, NoFlashYet
<1>3. InStep'
  BY <1>0, <1>1 DEF CacheInv, InStep, StartInStep, DriverInStep, ClientInStep, UserInStep, HelperInStep
<1> QED
  BY <1>2, <1>3

LEMMA WaitresInv ==
  ASSUME CacheInv, waitres
  PROVE  Coherent' /\ InStep'
<1>0. /\ client = "wait" /\ cmd.kind = "none" /\ op.kind \in {"read", "write"} /\ driver = "waitcmd"
      /\ addr = line_of(op.page) /\ Covered(op)
  BY DEF waitres, NoOp, CacheInv, InStep, DriverInStep, ClientInStep
<1>1. /\ client' = "access" /\ cacheptr' = IF user = "vm" THEN addr ELSE cacheptr
      /\ UNCHANGED <<cmd, addr, lines, tags, dirty, driver, chips, user, op, cacheaddr>>
  BY DEF waitres, mailbox
<1>2. Coherent'
  BY <1>1 DEF CacheInv, Coherent, TagAtHome, CleanIsCopy, DirtyIsRam, NoFlashYet
<1>3. StartInStep' /\ DriverInStep'
  BY <1>0, <1>1 DEF CacheInv, InStep, StartInStep, DriverInStep
<1>4. ClientInStep'
  BY <1>0, <1>1 DEF ClientInStep, Covered, Holds, memp
<1>5. UserInStep'
  BY <1>0, <1>1 DEF CacheInv, InStep, UserInStep, HelperInStep, VMInStep, Covered, Holds
<1> QED
  BY <1>2, <1>3, <1>4, <1>5 DEF InStep

LEMMA ExtendedDoneInv ==
  ASSUME CacheInv, extended_done
  PROVE  Coherent' /\ InStep'
<1>0. client = "wait" /\ cmd.kind = "none" /\ op.kind \in {"erase", "program"} /\ driver = "waitcmd"
  BY DEF extended_done, NoOp, CacheInv, InStep, DriverInStep
<1>1. user = "helper"
  BY <1>0 DEF CacheInv, TypeOK, InStep, UserInStep, VMInStep
<1>2. /\ client' = "idle" /\ op' = NoOp
      /\ UNCHANGED <<cmd, addr, lines, tags, dirty, driver, chips, user, cacheaddr, cacheptr>>
  BY DEF extended_done, mailbox, cacheVM
<1>3. Coherent'
  BY <1>2 DEF CacheInv, Coherent, TagAtHome, CleanIsCopy, DirtyIsRam, NoFlashYet
<1>4. InStep'
  BY <1>0, <1>1, <1>2 DEF CacheInv, InStep, StartInStep, DriverInStep, ClientInStep, UserInStep, HelperInStep, NoOp
<1> QED
  BY <1>3, <1>4

LEMMA LoadInv ==
  ASSUME CacheInv, load
  PROVE  Coherent' /\ InStep'
<1>0. /\ client = "access" /\ op.kind = "read" /\ cmd.kind = "none" /\ driver = "waitcmd" /\ user = "vm"
      /\ memp = line_of(op.page) /\ Holds(op.page)
  BY RequestKinds DEF load, CacheInv, TypeOK, InStep, StartInStep, DriverInStep, ClientInStep, UserInStep, HelperInStep, Covered
<1>1. /\ client' = "idle" /\ op' = NoOp
      /\ UNCHANGED <<cmd, addr, lines, tags, dirty, driver, chips, user, cacheaddr, cacheptr>>
  BY DEF load, mailbox, cacheVM
<1>2. Coherent'
  BY <1>1 DEF CacheInv, Coherent, TagAtHome, CleanIsCopy, DirtyIsRam, NoFlashYet
<1>3. StartInStep' /\ DriverInStep' /\ ClientInStep'
  BY <1>0, <1>1 DEF CacheInv, InStep, StartInStep, DriverInStep, ClientInStep, NoOp
<1>4. UserInStep'
  BY <1>0, <1>1 DEF CacheInv, InStep, UserInStep, VMInStep, NoOp, memp, Holds
<1> QED
  BY <1>2, <1>3, <1>4 DEF InStep

(* A store changes a line that is marked. *)
LEMMA StoreInv ==
  ASSUME CacheInv, store
  PROVE  Coherent' /\ InStep'
<1>0. /\ client = "access" /\ op.kind = "write" /\ cmd.kind = "none" /\ driver = "waitcmd"
      /\ memp = line_of(op.page) /\ Holds(op.page) /\ memp \in dirty
  BY RequestKinds DEF store, CacheInv, TypeOK, InStep, StartInStep, DriverInStep, ClientInStep, Covered
<1>1. /\ client' = "idle" /\ op' = NoOp
      /\ UNCHANGED <<cmd, addr, tags, dirty, driver, chips, user, cacheaddr, cacheptr>>
  BY DEF store, mailbox, cacheVM
<1>2. \A l \in Line : l # memp => lines'[l] = lines[l]
  BY DEF store, CacheInv, TypeOK
<1>3. Coherent'
  BY <1>0, <1>1, <1>2 DEF CacheInv, Coherent, TagAtHome, CleanIsCopy, DirtyIsRam, NoFlashYet
<1>4. StartInStep' /\ DriverInStep' /\ ClientInStep'
  BY <1>0, <1>1 DEF CacheInv, InStep, StartInStep, DriverInStep, ClientInStep, NoOp
<1>5. UserInStep'
  BY <1>0, <1>1 DEF CacheInv, InStep, UserInStep, HelperInStep, VMInStep, NoOp, memp, Holds
<1> QED
  BY <1>3, <1>4, <1>5 DEF InStep

LEMMA RequestInv ==
  ASSUME CacheInv, NewRequest
  PROVE  Coherent' /\ InStep'
<1> PICK r \in Access \cup Extended : HelperAsks(r) \/ VMAsks(r) \/ VMReadsOn(r)
  BY RequestBegins
<1>0. /\ client = "idle" /\ op.kind = "none"
      /\ op' = r /\ UNCHANGED <<addr, lines, tags, dirty, driver, chips, user>>
  BY DEF HelperAsks, VMAsks, VMReadsOn, helper_idle, vm_idle, post, mailbox,
         CacheInv, InStep, ClientInStep
<1>1. cmd.kind = "none" /\ driver = "waitcmd"
  BY <1>0, RequestKinds DEF CacheInv, TypeOK, InStep, StartInStep, DriverInStep
<1>2. Coherent'
  BY <1>0 DEF CacheInv, Coherent, TagAtHome, CleanIsCopy, DirtyIsRam, NoFlashYet
<1>3. CASE HelperAsks(r)
  <2>1. user = "helper" /\ cmd' = r /\ client' = "wait" /\ UNCHANGED <<cacheaddr, cacheptr>>
    BY <1>3 DEF HelperAsks, helper_idle, post, cacheVM
  <2>2. r.kind \in {"write", "erase", "program"} /\ (r.kind = "write" => r.page \in HelperRam)
    BY <1>3 DEF HelperAsks
  <2>3. StartInStep' /\ DriverInStep' /\ ClientInStep'
    BY <1>0, <1>1, <2>1, <2>2 DEF CacheInv, InStep, StartInStep, DriverInStep, ClientInStep
  <2>4. UserInStep'
    BY <1>0, <2>1, <2>2 DEF CacheInv, InStep, UserInStep, HelperInStep
  <2> QED
    BY <1>2, <2>3, <2>4 DEF InStep
<1>4. CASE VMAsks(r)
  <2>1. user = "vm" /\ cmd' = r /\ client' = "wait" /\ cacheaddr' = r.page /\ cacheptr' = cacheptr
    BY <1>4 DEF VMAsks, vm_idle, post, remember
  <2>2. r.kind \in {"read", "write"} /\ r.page \in VmRam \cup Flash
    BY <1>4 DEF VMAsks
  <2>3. StartInStep' /\ DriverInStep' /\ ClientInStep'
    BY <1>0, <1>1, <2>1, <2>2 DEF CacheInv, InStep, StartInStep, DriverInStep, ClientInStep
  <2>4. UserInStep'
    BY <1>0, <2>1, <2>2 DEF UserInStep, VMInStep
  <2> QED
    BY <1>2, <2>3, <2>4 DEF InStep
<1>5. CASE VMReadsOn(r)
  <2>1. user = "vm" /\ cacheaddr = r.page /\ client' = "access" /\ UNCHANGED <<cmd, cacheaddr, cacheptr>>
    BY <1>5 DEF VMReadsOn, vm_idle, is_cached, mailbox, cacheVM
  <2>2. r.kind = "read" /\ r.page \in VmRam \cup Flash /\ r.page # 0
    BY <1>5, PageNumbers, PageKinds DEF VMReadsOn, Page
  <2>3. cacheptr = line_of(cacheaddr) /\ Holds(cacheaddr)
    BY <1>0, <2>1, <2>2 DEF CacheInv, InStep, UserInStep, VMInStep
  <2>4. StartInStep' /\ DriverInStep'
    BY <1>0, <1>1, <2>1 DEF CacheInv, InStep, StartInStep, DriverInStep, Holds
  <2>5. ClientInStep'
    BY <1>0, <1>1, <2>1, <2>2, <2>3 DEF ClientInStep, Covered, Holds, memp
  <2>6. UserInStep'
    BY <1>0, <2>1, <2>2, <2>3 DEF UserInStep, VMInStep, Holds
  <2> QED
    BY <1>2, <2>4, <2>5, <2>6 DEF InStep
<1> QED
  BY <1>3, <1>4, <1>5

LEMMA RunInv ==
  ASSUME CacheInv, Run
  PROVE  Coherent' /\ InStep'
<1>0. client = "idle" /\ op.kind = "none" /\ user = "helper" /\ cacheaddr = 0
  BY DEF Run, helper_idle, CacheInv, InStep, ClientInStep, UserInStep, HelperInStep
<1>1. /\ user' = "vm"
      /\ UNCHANGED <<cmd, addr, lines, tags, dirty, driver, chips, client, op, cacheaddr, cacheptr>>
  BY DEF Run, mailbox, cacheVM
<1>2. Coherent'
  BY <1>0, <1>1 DEF CacheInv, Coherent, TagAtHome, CleanIsCopy, DirtyIsRam, NoFlashYet
<1>3. StartInStep' /\ DriverInStep' /\ ClientInStep'
  BY <1>0, <1>1 DEF CacheInv, InStep, StartInStep, DriverInStep, ClientInStep, Holds, Covered
<1>4. UserInStep'
  BY <1>0, <1>1 DEF UserInStep, VMInStep
<1> QED
  BY <1>2, <1>3, <1>4 DEF InStep

LEMMA StepInv ==
  ASSUME CacheInv, [Next]_vars
  PROVE  CacheInv'
<1>1. TypeOK'
  BY StepTypes DEF CacheInv
<1>2. CASE DriverStep
  BY <1>1, <1>2, FlushInv, LookupInv, WriteBackInv, FillInv, ReplyInv, FlashInv DEF DriverStep, CacheInv
<1>3. CASE ClientStep
  BY <1>1, <1>3, StartInv, WaitresInv, ExtendedDoneInv, LoadInv, StoreInv DEF ClientStep, CacheInv
<1>4. CASE NewRequest \/ Run
  BY <1>1, <1>4, RequestInv, RunInv DEF CacheInv
<1>5. CASE UNCHANGED vars
  <2>1. UNCHANGED <<cmd, addr, lines, tags, dirty, driver, chips, user, client, op, cacheaddr, cacheptr>>
    BY <1>5 DEF vars, mailbox, cacheVM
  <2>2. Coherent'
    BY <2>1 DEF CacheInv, Coherent, TagAtHome, CleanIsCopy, DirtyIsRam, NoFlashYet
  <2>3. InStep'
    BY <2>1 DEF CacheInv, InStep, StartInStep, DriverInStep, ClientInStep, UserInStep, HelperInStep, VMInStep, Holds, Covered, memp
  <2> QED
    BY <1>1, <2>2, <2>3 DEF CacheInv
<1> QED
  BY <1>2, <1>3, <1>4, <1>5 DEF Next

-----------------------------------------------------------------------------
(* Theorems.                                                               *)

(* The invariant holds of every behaviour of the driver and its clients. *)
THEOREM CacheInvariant == Spec => []CacheInv
<1>1. CacheInv /\ [Next]_vars => CacheInv'
  BY StepInv
<1> QED
  BY <1>1, InitInv, PTL DEF Spec

(* The driver and its clients stay within their types: above all, no line  *)
(* number but one of the cache's is ever handed out or used.               *)
THEOREM TypeCorrect == Spec => []TypeOK
BY CacheInvariant, PTL DEF CacheInv

(* In every cache and on every chip a line that nobody wrote is a copy of  *)
(* its page, no flash line is ever written, and none exists while the      *)
(* flash can change.                                                       *)
THEOREM LinesCoherent == Spec => []Coherent
BY CacheInvariant, PTL DEF CacheInv

(* A client touches the line of its own page, and a line it stores into is *)
(* marked.                                                                 *)
THEOREM AccessesCovered == Spec => []AccessIsCovered
<1>1. CacheInv => AccessIsCovered
  <2> SUFFICES ASSUME CacheInv, client = "access" PROVE AccessIsCovered
    BY DEF AccessIsCovered
  <2>1. memp = line_of(op.page) /\ Covered(op) /\ op \in Access
    BY RequestKinds DEF CacheInv, TypeOK, InStep, ClientInStep
  <2> QED
    BY <2>1, AccessFields, LineOfPage DEF AccessIsCovered, Covered, Holds
<1> QED
  BY <1>1, CacheInvariant, PTL

(* The short way of cache_read never meets a line that was taken away.     *)
THEOREM RememberedLineCurrent == Spec => []RememberedLineIsCurrent
<1>1. CacheInv => RememberedLineIsCurrent
  <2> SUFFICES ASSUME CacheInv, vm_idle, cacheaddr # 0 PROVE cacheptr \in Line /\ tags[cacheptr] = cacheaddr
    BY DEF RememberedLineIsCurrent
  <2> QED
    BY LineOfPage DEF CacheInv, TypeOK, InStep, UserInStep, VMInStep, vm_idle, Holds
<1> QED
  BY <1>1, CacheInvariant, PTL

-----------------------------------------------------------------------------
(* The refinement.  Flat has its own copies of the definitions of          *)
(* MemoryMap.                                                              *)

LEMMA SameMap ==
  /\ Flat!ChipPage = ChipPage /\ Flat!Offset = Offset /\ Flat!Data = Data
  /\ \A p : Flat!chip_page(p) = chip_page(p)
  /\ \A p : Flat!erase_block(p) = erase_block(p)
BY DEF Flat!ChipPage, ChipPage, Flat!HelperRam, HelperRam, Flat!Offset, Offset, Flat!Data, Data,
       Flat!chip_page, chip_page, Flat!is_flash, is_flash,
       Flat!erase_block, erase_block, Flat!Flash, Flash

LEMMA SameRequests == Flat!Access = Access /\ Flat!Extended = Extended /\ Flat!NoOp = NoOp
BY SameMap DEF Flat!Access, Access, Flat!Extended, Extended, Flat!NoOp, NoOp,
       Flat!Page, Page, Flat!HelperRam, HelperRam, Flat!VmRam, VmRam, Flat!Flash, Flash

(* A page that a line holds shows what the line holds. *)
LEMMA ShownByLine ==
  ASSUME NEW tag \in [Line -> Page \cup {EMPTY}], NEW line_data, NEW chip,
         \A m \in Line : tag[m] # EMPTY => line_of(tag[m]) = m,
         NEW l \in Line, tag[l] # EMPTY
  PROVE  shown(tag, line_data, chip, chip_page(tag[l])) = line_data[l]
<1> DEFINE c == chip_page(tag[l])
<1>1. l \in holders(tag, c)
  BY DEF holders
<1>2. \A m \in holders(tag, c) : m = l
  BY SamePageSameLine DEF holders
<1>3. (CHOOSE m \in holders(tag, c) : TRUE) = l
  BY <1>1, <1>2
<1> QED
  BY <1>1, <1>3 DEF shown

(* A page that no line holds shows what the chip holds. *)
LEMMA ShownByChip ==
  ASSUME NEW tag, NEW line_data, NEW chip, NEW c,
         \A m \in Line : tag[m] # EMPTY => chip_page(tag[m]) # c
  PROVE  shown(tag, line_data, chip, c) = chip[c]
BY DEF shown, holders

(* What a step that touches neither lines nor chips does to the flat       *)
(* memory, and what one does that is not over yet.                         *)
LEMMA SameContents ==
  ASSUME driver # "flush", driver' # "flush", UNCHANGED <<tags, lines, chips>>
  PROVE  contents' = contents
BY DEF contents, shown, holders

LEMMA FlatStutter ==
  ASSUME contents' = contents, pending' = pending, result' = result
  PROVE  UNCHANGED Flat!vars
BY DEF Flat!vars

LEMMA AfterFlush ==
  ASSUME CacheInv, client # "start"
  PROVE  driver # "flush"
BY DEF CacheInv, InStep, StartInStep

LEMMA TagsAtHome ==
  ASSUME CacheInv, driver # "flush"
  PROVE  /\ tags \in [Line -> Page \cup {EMPTY}]
         /\ \A l \in Line : tags[l] # EMPTY => line_of(tags[l]) = l
BY DEF CacheInv, TypeOK, Coherent, TagAtHome

LEMMA FlushRefines ==
  ASSUME CacheInv, vmflush
  PROVE  UNCHANGED Flat!vars
<1>1. op.kind = "none" /\ driver = "flush" /\ driver' = "waitcmd"
      /\ UNCHANGED <<lines, chips, op, result>> /\ tags' = [l \in Line |-> EMPTY]
  BY DEF vmflush, CacheInv, InStep, StartInStep
<1>2. \A c \in ChipPage : shown(tags', lines', chips', c) = chips[c]
  BY <1>1, ShownByChip
<1>3. contents' = contents
  BY <1>1, <1>2 DEF contents
<1>4. pending' = pending
  BY <1>1 DEF pending
<1> QED
  BY <1>1, <1>3, <1>4, FlatStutter

LEMMA WriteBackRefines ==
  ASSUME CacheInv, BWRITE
  PROVE  UNCHANGED Flat!vars
<1>0. driver # "flush" /\ driver' # "flush" /\ line \in dirty /\ line \in Line
  BY RequestKinds, AccessFields, LineOfPage DEF CacheInv, TypeOK, InStep, DriverInStep, line, BWRITE
<1>1. UNCHANGED <<cmd, lines, tags, op, result>>
  BY DEF BWRITE, mailbox
<1>2. tags[line] \in Page /\ ~ is_flash(tags[line]) /\ tags[line] # EMPTY
  BY <1>0, PageKinds, PageNumbers DEF CacheInv, Coherent, DirtyIsRam, Page
<1>3. chips' = [chips EXCEPT ![chip_page(tags[line])] = lines[line]]
  BY <1>2 DEF BWRITE
<1>4. ASSUME NEW c \in ChipPage
      PROVE  shown(tags', lines', chips', c) = shown(tags, lines, chips, c)
  <2>1. CASE \E l \in Line : tags[l] # EMPTY /\ chip_page(tags[l]) = c
    BY <1>0, <1>1, <2>1, TagsAtHome, ShownByLine
  <2>2. CASE \A l \in Line : tags[l] # EMPTY => chip_page(tags[l]) # c
    <3>1. chips'[c] = chips[c]
      BY <1>0, <1>2, <1>3, <2>2 DEF CacheInv, TypeOK
    <3> QED
      BY <1>1, <2>2, <3>1, ShownByChip
  <2> QED
    BY <2>1, <2>2
<1>5. contents' = contents
  BY <1>0, <1>4 DEF contents
<1>6. pending' = pending
  BY <1>1 DEF pending
<1> QED
  BY <1>1, <1>5, <1>6, FlatStutter

LEMMA FillRefines ==
  ASSUME CacheInv, CacheInv', BREAD
  PROVE  UNCHANGED Flat!vars
<1>0. /\ driver # "flush" /\ driver' # "flush" /\ line \in Line
      /\ cmd.page \in Page /\ line = line_of(cmd.page)
      /\ tags[line] # EMPTY => lines[line] = chips[chip_page(tags[line])]
  BY RequestKinds, AccessFields, LineOfPage DEF CacheInv, TypeOK, InStep, DriverInStep, line, BREAD
<1>1. UNCHANGED <<cmd, chips, op, result>>
  BY DEF BREAD, mailbox
<1>2. /\ lines' \in [Line -> Data] /\ tags' \in [Line -> Page \cup {EMPTY}]
      /\ lines'[line] = chips[chip_page(cmd.page)] /\ tags'[line] = cmd.page
      /\ \A l \in Line : l # line => lines'[l] = lines[l] /\ tags'[l] = tags[l]
  BY <1>0 DEF BREAD, CacheInv, TypeOK
<1>3. \A l \in Line : tags'[l] # EMPTY => line_of(tags'[l]) = l
  BY <1>0, <1>2, TagsAtHome
<1>4. ASSUME NEW c \in ChipPage
      PROVE  shown(tags', lines', chips', c) = shown(tags, lines, chips, c)
  <2>1. CASE c = chip_page(cmd.page)
    <3>1. shown(tags', lines', chips', c) = chips[c]
      <4>1. tags'[line] # EMPTY /\ c = chip_page(tags'[line])
        BY <1>0, <1>2, <2>1, PageNumbers
      <4> QED
        BY <1>0, <1>2, <1>3, <4>1, ShownByLine
    <3>2. shown(tags, lines, chips, c) = chips[c]
      <4>1. CASE \E l \in Line : tags[l] # EMPTY /\ chip_page(tags[l]) = c
        <5> PICK l \in Line : tags[l] # EMPTY /\ chip_page(tags[l]) = c
          BY <4>1
        <5>1. l = line
          BY <1>0, <2>1, TagsAtHome, SamePageSameLine
        <5> QED
          BY <1>0, <5>1, TagsAtHome, ShownByLine
      <4>2. CASE \A l \in Line : tags[l] # EMPTY => chip_page(tags[l]) # c
        BY <4>2, ShownByChip
      <4> QED
        BY <4>1, <4>2
    <3> QED
      BY <3>1, <3>2
  <2>2. CASE c # chip_page(cmd.page) /\ \E l \in Line : l # line /\ tags[l] # EMPTY /\ chip_page(tags[l]) = c
    <3> PICK l \in Line : l # line /\ tags[l] # EMPTY /\ chip_page(tags[l]) = c
      BY <2>2
    <3>1. shown(tags, lines, chips, c) = lines[l]
      BY <1>0, TagsAtHome, ShownByLine
    <3>2. tags'[l] = tags[l] /\ lines'[l] = lines[l]
      BY <1>2
    <3>3. shown(tags', lines', chips', chip_page(tags'[l])) = lines'[l]
      BY <1>2, <1>3, <3>2, ShownByLine
    <3> QED
      BY <3>1, <3>2, <3>3
  <2>3. CASE c # chip_page(cmd.page) /\ \A l \in Line : l # line => tags[l] = EMPTY \/ chip_page(tags[l]) # c
    <3>1. shown(tags', lines', chips', c) = chips'[c]
      BY <1>2, <2>3, ShownByChip
    <3>2. shown(tags, lines, chips, c) = chips[c]
      <4>1. CASE tags[line] # EMPTY /\ chip_page(tags[line]) = c
        BY <1>0, <4>1, TagsAtHome, ShownByLine
      <4>2. CASE ~ (tags[line] # EMPTY /\ chip_page(tags[line]) = c)
        BY <2>3, <4>2, ShownByChip
      <4> QED
        BY <4>1, <4>2
    <3> QED
      BY <1>1, <3>1, <3>2
  <2> QED
    BY <2>1, <2>2, <2>3
<1>5. contents' = contents
  BY <1>0, <1>4 DEF contents
<1>6. pending' = pending
  BY <1>1 DEF pending
<1> QED
  BY <1>1, <1>5, <1>6, FlatStutter

(* The flash commands take effect when the driver carries them out. *)
LEMMA FlashRefines ==
  ASSUME CacheInv, erase_4k_block_handler \/ write_data_handler
  PROVE  Flat!Next
<1>0. /\ cmd \in Extended /\ cmd.page \in Flash /\ driver = "waitcmd"
      /\ client = "wait" /\ cmd = op /\ op.kind \in {"erase", "program"}
  BY RequestKinds, ExtendedFields
  DEF CacheInv, TypeOK, InStep, DriverInStep, erase_4k_block_handler, write_data_handler
<1>1. user = "helper"
  BY <1>0 DEF CacheInv, TypeOK, InStep, UserInStep, VMInStep
<1>2. cmd' = NoOp /\ UNCHANGED <<driver, lines, tags, op, result>>
  BY DEF erase_4k_block_handler, write_data_handler
<1>3. pending = op /\ pending' = NoOp
  BY <1>0, <1>2 DEF pending, NoOp
<1>4. \A p \in Flash : \A l \in Line : tags[l] # EMPTY => chip_page(tags[l]) # chip_page(p)
  <2> TAKE p \in Flash
  <2> TAKE l \in Line
  <2> HAVE tags[l] # EMPTY
  <2>1. tags[l] \in Page /\ ~ is_flash(tags[l]) /\ is_flash(p)
    BY <1>0, <1>1, PageKinds DEF CacheInv, TypeOK, Coherent, NoFlashYet, Page
  <2> QED
    BY <2>1 DEF chip_page
<1>5. ASSUME NEW c \in ChipPage, \A l \in Line : tags[l] # EMPTY => chip_page(tags[l]) # c
      PROVE  contents[c] = chips[c] /\ contents'[c] = chips'[c]
  BY <1>0, <1>2, <1>5, ShownByChip DEF contents
<1>6. ASSUME NEW c \in ChipPage, chips'[c] = chips[c]
      PROVE  contents'[c] = contents[c]
  <2>1. CASE \E l \in Line : tags[l] # EMPTY /\ chip_page(tags[l]) = c
    <3> PICK l \in Line : tags[l] # EMPTY /\ chip_page(tags[l]) = c
      BY <2>1
    <3>1. driver # "flush"
      BY <1>0
    <3>2. /\ shown(tags, lines, chips, c) = lines[l]
          /\ shown(tags, lines, chips', c) = lines[l]
      BY <3>1, TagsAtHome, ShownByLine
    <3> QED
      BY <1>2, <3>1, <3>2 DEF contents
  <2>2. CASE \A l \in Line : tags[l] # EMPTY => chip_page(tags[l]) # c
    BY <1>5, <1>6, <2>2
  <2> QED
    BY <2>1, <2>2
<1>7. CASE erase_4k_block_handler
  <2>1. op.kind = "erase"
    BY <1>0, <1>7 DEF erase_4k_block_handler
  <2>2. chips' = [c \in ChipPage |-> IF \E p \in erase_block(op.page) : chip_page(p) = c
                                        THEN [i \in Offset |-> ERASED] ELSE chips[c]]
    BY <1>0, <1>7 DEF erase_4k_block_handler
  <2>3. contents' = [c \in ChipPage |-> IF \E p \in erase_block(op.page) : chip_page(p) = c
                                           THEN [i \in Offset |-> ERASED] ELSE contents[c]]
    <3>1. ASSUME NEW c \in ChipPage, \E p \in erase_block(op.page) : chip_page(p) = c
          PROVE  contents'[c] = [i \in Offset |-> ERASED]
      <4>1. \A l \in Line : tags[l] # EMPTY => chip_page(tags[l]) # c
        BY <1>4, <3>1 DEF erase_block
      <4>2. contents'[c] = chips'[c]
        BY <1>5, <4>1
      <4> QED
        BY <2>2, <3>1, <4>2
    <3>2. ASSUME NEW c \in ChipPage, ~ \E p \in erase_block(op.page) : chip_page(p) = c
          PROVE  contents'[c] = contents[c]
      BY <1>6, <2>2, <3>2
    <3>3. contents' = [c \in ChipPage |-> contents'[c]]
      BY DEF contents
    <3> QED
      BY <3>1, <3>2, <3>3
  <2>4. Flat!PerformErase
    BY <1>2, <1>3, <2>1, <2>3, SameMap DEF Flat!PerformErase
  <2> QED
    BY <1>3, <2>4, SameRequests DEF Flat!Next, Flat!Perform
<1>8. CASE write_data_handler
  <2>1. op.kind = "program"
    BY <1>0, <1>8 DEF write_data_handler
  <2>2. chips' = [chips EXCEPT ![chip_page(op.page)] = op.data]
    BY <1>0, <1>8 DEF write_data_handler
  <2>3. chip_page(op.page) \in ChipPage
    BY <1>0, PlaceOfPage DEF Page
  <2>4. contents'[chip_page(op.page)] = op.data
    <3>1. \A l \in Line : tags[l] # EMPTY => chip_page(tags[l]) # chip_page(op.page)
      BY <1>0, <1>4
    <3>2. chips'[chip_page(op.page)] = op.data
      BY <2>2, <2>3 DEF CacheInv, TypeOK
    <3> QED
      BY <1>5, <2>3, <3>1, <3>2
  <2>5. \A c \in ChipPage : c # chip_page(op.page) => contents'[c] = contents[c]
    BY <1>6, <2>2 DEF CacheInv, TypeOK
  <2>6. contents' = [contents EXCEPT ![chip_page(op.page)] = op.data]
    BY <2>3, <2>4, <2>5 DEF contents
  <2>7. Flat!PerformProgram
    BY <1>2, <1>3, <2>1, <2>6, SameMap DEF Flat!PerformProgram
  <2> QED
    BY <1>3, <2>7, SameRequests DEF Flat!Next, Flat!Perform
<1> QED
  BY <1>7, <1>8

LEMMA LoadRefines ==
  ASSUME CacheInv, load
  PROVE  Flat!Next
<1>0. /\ client = "access" /\ op.kind = "read" /\ op.page \in Page /\ driver = "waitcmd"
      /\ memp = line_of(op.page) /\ memp \in Line /\ tags[memp] = op.page
  BY RequestKinds, AccessFields, LineOfPage
  DEF load, CacheInv, TypeOK, InStep, StartInStep, DriverInStep, ClientInStep, Covered, Holds
<1>1. UNCHANGED <<lines, tags, chips, driver>> /\ result' = lines[memp][op.at] /\ op' = NoOp
  BY DEF load
<1>2. contents[chip_page(op.page)] = lines[memp]
  <2>1. shown(tags, lines, chips, chip_page(tags[memp])) = lines[memp]
    BY <1>0, PageNumbers, TagsAtHome, ShownByLine
  <2> QED
    BY <1>0, <2>1, PlaceOfPage DEF contents
<1>3. contents' = contents
  BY <1>0, <1>1, SameContents
<1>4. pending = op /\ pending' = NoOp
  BY <1>0, <1>1 DEF pending, NoOp
<1>5. Flat!PerformRead
  BY <1>0, <1>1, <1>2, <1>3, <1>4, SameMap DEF Flat!PerformRead
<1> QED
  BY <1>4, <1>5, SameRequests DEF Flat!Next, Flat!Perform

LEMMA StoreRefines ==
  ASSUME CacheInv, store
  PROVE  Flat!Next
<1>0. /\ client = "access" /\ op.kind = "write" /\ op.page \in Page /\ driver = "waitcmd"
      /\ memp = line_of(op.page) /\ memp \in Line /\ tags[memp] = op.page
  BY RequestKinds, AccessFields, LineOfPage
  DEF store, CacheInv, TypeOK, InStep, StartInStep, DriverInStep, ClientInStep, Covered, Holds
<1>1. /\ UNCHANGED <<tags, chips, driver, result>> /\ op' = NoOp
      /\ lines' = [lines EXCEPT ![memp] = [lines[memp] EXCEPT ![op.at] = op.value]]
  BY DEF store
<1>2. \A l \in Line : tags[l] # EMPTY =>
        /\ shown(tags, lines, chips, chip_page(tags[l])) = lines[l]
        /\ shown(tags', lines', chips', chip_page(tags[l])) = lines'[l]
  <2> TAKE l \in Line
  <2> HAVE tags[l] # EMPTY
  <2>1. driver # "flush"
    BY <1>0
  <2>2. /\ tags \in [Line -> Page \cup {EMPTY}]
        /\ \A m \in Line : tags[m] # EMPTY => line_of(tags[m]) = m
    BY <2>1, TagsAtHome
  <2>3. shown(tags, lines, chips, chip_page(tags[l])) = lines[l]
    BY ONLY <2>2, tags[l] # EMPTY, l \in Line, ShownByLine
  <2>4. shown(tags, lines', chips', chip_page(tags[l])) = lines'[l]
    BY ONLY <2>2, tags[l] # EMPTY, l \in Line, ShownByLine
  <2> QED
    BY <1>1, <2>3, <2>4
<1>3. /\ contents[chip_page(op.page)] = lines[memp]
      /\ contents'[chip_page(op.page)] = [lines[memp] EXCEPT ![op.at] = op.value]
  <2>1. lines'[memp] = [lines[memp] EXCEPT ![op.at] = op.value]
    BY <1>0, <1>1 DEF CacheInv, TypeOK
  <2> QED
    BY <1>0, <1>1, <1>2, <2>1, PageNumbers, PlaceOfPage DEF contents
<1>4. ASSUME NEW c \in ChipPage, c # chip_page(op.page)
      PROVE  contents'[c] = contents[c]
  <2>1. CASE \E l \in Line : tags[l] # EMPTY /\ chip_page(tags[l]) = c
    <3> PICK l \in Line : tags[l] # EMPTY /\ chip_page(tags[l]) = c
      BY <2>1
    <3>1. l # memp
      BY <1>0, <1>4
    <3>2. lines'[l] = lines[l]
      BY <1>1, <3>1 DEF CacheInv, TypeOK
    <3> QED
      BY <1>0, <1>1, <1>2, <3>2 DEF contents
  <2>2. CASE \A l \in Line : tags[l] # EMPTY => chip_page(tags[l]) # c
    BY <1>0, <1>1, <2>2, ShownByChip DEF contents
  <2> QED
    BY <2>1, <2>2
<1>5. contents' = [contents EXCEPT ![chip_page(op.page)] = [@ EXCEPT ![op.at] = op.value]]
  <2>1. contents' = [c \in ChipPage |-> contents'[c]] /\ contents = [c \in ChipPage |-> contents[c]]
    BY DEF contents
  <2> QED
    BY <1>0, <1>3, <1>4, <2>1, PlaceOfPage
<1>6. pending = op /\ pending' = NoOp
  BY <1>0, <1>1 DEF pending, NoOp
<1>7. Flat!PerformWrite
  BY <1>0, <1>1, <1>5, <1>6, SameMap DEF Flat!PerformWrite
<1> QED
  BY <1>6, <1>7, SameRequests DEF Flat!Next, Flat!Perform

LEMMA RequestRefines ==
  ASSUME CacheInv, NewRequest
  PROVE  Flat!Next
<1> PICK r \in Access \cup Extended : HelperAsks(r) \/ VMAsks(r) \/ VMReadsOn(r)
  BY RequestBegins
<1>1. /\ client = "idle" /\ op' = r
      /\ UNCHANGED <<lines, tags, driver, chips, result>>
      /\ cmd' = r \/ r.kind = "read"
  BY DEF HelperAsks, VMAsks, VMReadsOn, helper_idle, vm_idle, post, mailbox
<1>2. op = NoOp /\ r # NoOp
  BY <1>1, RequestKinds DEF CacheInv, TypeOK, InStep, ClientInStep
<1>3. pending = NoOp /\ pending' = r
  BY <1>1, <1>2 DEF pending, NoOp
<1>4. contents' = contents
  BY <1>1, AfterFlush, SameContents
<1>5. Flat!Request(r)
  BY <1>1, <1>3, <1>4, SameRequests DEF Flat!Request
<1> QED
  BY <1>5, SameRequests DEF Flat!Next

(* The other steps of the cogs are not seen. *)
LEMMA OthersRefine ==
  ASSUME CacheInv, waitcmd \/ reply \/ start \/ waitres \/ extended_done \/ Run
  PROVE  UNCHANGED Flat!vars
<1>1. driver # "flush" /\ driver' # "flush" /\ UNCHANGED <<lines, tags, chips, result>>
  <2>1. CASE waitcmd
    BY <2>1 DEF waitcmd, on_miss
  <2>2. CASE reply
    BY <2>2 DEF reply
  <2>3. CASE start
    BY <2>3 DEF start, CacheInv, InStep, StartInStep, NoOp
  <2>4. CASE waitres
    BY <2>4, AfterFlush DEF waitres
  <2>5. CASE extended_done
    BY <2>5, AfterFlush DEF extended_done
  <2>6. CASE Run
    BY <2>6, AfterFlush DEF Run, helper_idle
  <2> QED
    BY <2>1, <2>2, <2>3, <2>4, <2>5, <2>6
<1>2. pending' = pending
  <2>1. CASE reply
    <3>1. op.kind \in {"read", "write"} /\ op' = op
      BY <2>1 DEF reply, CacheInv, InStep, DriverInStep
    <3> QED
      BY <3>1 DEF pending
  <2>2. CASE extended_done
    BY <2>2 DEF extended_done, pending, NoOp
  <2>3. CASE waitcmd \/ start \/ waitres \/ Run
    BY <2>3 DEF waitcmd, start, waitres, Run, mailbox, pending
  <2> QED
    BY <2>1, <2>2, <2>3
<1>3. contents' = contents
  BY <1>1, SameContents
<1> QED
  BY <1>1, <1>2, <1>3, FlatStutter

LEMMA InitRefines == Init => Flat!Init
<1> SUFFICES ASSUME Init PROVE Flat!Init
  OBVIOUS
<1>1. contents = chips
  BY DEF Init, contents
<1>2. pending = NoOp
  BY DEF Init, pending
<1> QED
  BY <1>1, <1>2, SameMap, SameRequests DEF Init, Flat!Init

(* The cache is invisible: whatever its size, whatever pages meet in one   *)
(* line and whichever of its two names a page is used by, reads return     *)
(* what was last written, and flash shows what was last programmed.        *)
THEOREM CacheIsInvisible == Spec => ImplementsFlat
<1>1. Init => Flat!Init
  BY InitRefines
<1>2. CacheInv /\ CacheInv' /\ [Next]_vars => [Flat!Next]_(Flat!vars)
  <2> SUFFICES ASSUME CacheInv, CacheInv', [Next]_vars PROVE [Flat!Next]_(Flat!vars)
    OBVIOUS
  <2>1. CASE DriverStep
    BY <2>1, FlushRefines, OthersRefine, WriteBackRefines, FillRefines, FlashRefines DEF DriverStep
  <2>2. CASE ClientStep
    BY <2>2, OthersRefine, LoadRefines, StoreRefines DEF ClientStep
  <2>3. CASE NewRequest
    BY <2>3, RequestRefines
  <2>4. CASE Run
    BY <2>4, OthersRefine
  <2>5. CASE UNCHANGED vars
    <3>1. UNCHANGED <<driver, tags, lines, chips, op, cmd, result>>
      BY <2>5 DEF vars, mailbox
    <3>2. contents' = contents /\ pending' = pending
      BY <3>1 DEF contents, shown, holders, pending
    <3> QED
      BY <3>1, <3>2, FlatStutter
  <2> QED
    BY <2>1, <2>2, <2>3, <2>4, <2>5 DEF Next
<1> QED
  BY <1>1, <1>2, CacheInvariant, PTL DEF Spec, ImplementsFlat, Flat!Spec
=============================================================================
