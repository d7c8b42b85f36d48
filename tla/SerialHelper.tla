---------------------------- MODULE SerialHelper ----------------------------
(***************************************************************************)
(* The helper program on the Propeller (spin/serial_helper.spin): a loop   *)
(* that takes packets from the packet driver's mailbox and acts on them,   *)
(* until RUN turns it into the runtime of the loaded program.              *)
(*                                                                         *)
(* Memories are arrays of cells.  Loading a cog copies its image out of    *)
(* hub memory; cache.start and vm.start wait until the new cog reports, so *)
(* the copy is over before the packet is released.                         *)
(***************************************************************************)
EXTENDS PacketDriver

CONSTANTS
  WordSize,      \* bytes of a long; 4 in the code
  BlockSize,     \* bytes of a flash erase block; 4096 in the code
  MemSize        \* bytes of each memory

(* `repeat i from 0 to len - 1 step 4`: whole longs, so the last one may   *)
(* take bytes of the buffer from beyond the payload.                       *)
Longs(n) == ((n + WordSize - 1) \div WordSize) * WordSize

(* The last assumption is PKTMAXLEN % 4 = 0 of the code, put as what it is *)
(* for: a handler that copies whole longs stays inside the packet buffer.  *)
ASSUME SerialHelperAssumption ==
  /\ WordSize \in Nat \ {0} /\ BlockSize \in Nat \ {0}
  /\ MemSize \in Nat \ {0}
  /\ \A n \in 0..PKTMAXLEN : Longs(n) \in n..PKTMAXLEN

VARIABLES
  lpc,           \* where the helper's loop is
  ptype, packet, len,    \* its locals: the packet being handled
  write_mode, load_address,
  mem,           \* hub memory from mm_data on, external RAM and flash
  cachecog,      \* the image the cache driver's cog was started with
  vmcog,         \* the image the virtual machine's cog was started with
  handled        \* history: the packets handled, in order

locals     == <<ptype, packet, len>>
targetVars == <<write_mode, load_address, mem, cachecog, vmcog>>
helperVars == <<lpc, locals, targetVars, handled>>

Old     == 256   \* what a cell held before the load
Erased  == 257   \* a flash cell after an erase
Garbage == 258   \* a flash cell programmed twice without an erase
Cell    == 0..258

NoImage == <<>>  \* the cog has not been started

Memories == {"HUB", "RAM", "FLASH"}
Address  == 0..MemSize - 1

(* "hung": a call to a cog that was never started; it polls for ever. *)
LoopStates == {"poll", "check", "reset", "fetch", "handle", "release", "stop",
               "run", "running", "hung"}

HelperInit ==
  /\ lpc = "poll"
  /\ ptype = 0 /\ packet = 0 /\ len = 0
  /\ write_mode = "NONE" /\ load_address = 0
  /\ mem = [m \in Memories |-> [a \in Address |-> Old]]
  /\ cachecog = NoImage /\ vmcog = NoImage
  /\ handled = <<>>

-----------------------------------------------------------------------------
(* rcv_packetx polls the status, reads it again to see whether it is OK,   *)
(* and then reads the mailbox; an error is acknowledged by clearing it.    *)

poll_status ==
  /\ lpc = "poll"
  /\ status # "PENDING"
  /\ lpc' = "check"
  /\ UNCHANGED <<lineVars, driverVars, locals, targetVars, handled>>

(* A slip: the test of STATUS_OK is the wrong way round. *)
check_status_inverted ==
  /\ lpc = "check"
  /\ lpc' = IF status = "OK" THEN "reset" ELSE "fetch"
  /\ UNCHANGED <<lineVars, driverVars, locals, targetVars, handled>>

check_status ==
  /\ lpc = "check"
  /\ lpc' = IF status = "OK" THEN "fetch" ELSE "reset"
  /\ UNCHANGED <<lineVars, driverVars, locals, targetVars, handled>>

SetPending ==
  /\ status' = "PENDING"
  /\ UNCHANGED <<lineVars, cog, rcv_state, headerVars, rcv_buf1, buffers, sndbyte,
                 tx, mailbox, accepted>>

reset_status ==
  /\ lpc = "reset"
  /\ SetPending
  /\ lpc' = "poll"
  /\ UNCHANGED <<locals, targetVars, handled>>

(* A slip: the mailbox is freed as soon as it has been read. *)
fetch_packet_and_release ==
  /\ lpc = "fetch"
  /\ ptype' = pkt_type /\ packet' = pkt_buffer /\ len' = pkt_length
  /\ lpc' = "handle"
  /\ SetPending
  /\ UNCHANGED <<targetVars, handled>>

fetch_packet ==
  /\ lpc = "fetch"
  /\ ptype' = pkt_type /\ packet' = pkt_buffer /\ len' = pkt_length
  /\ lpc' = "handle"
  /\ UNCHANGED <<lineVars, driverVars, targetVars, handled>>

release_packet ==
  /\ lpc = "release"
  /\ SetPending
  /\ lpc' = "poll"
  /\ UNCHANGED <<locals, targetVars, handled>>

-----------------------------------------------------------------------------
(* The handlers.  Each runs while the packet is held and ends at the       *)
(* release, or nowhere if it calls a cog that does not answer.  The code's *)
(* `other:` branches (an unknown type, data before any memory was chosen)  *)
(* do nothing and have no counterpart: no script leads to them.            *)
(* image_address is left out: it is the base of write_mode's memory.       *)

Erase(m, at) ==
  [m EXCEPT !["FLASH"] = [a \in Address |->
     IF a \div BlockSize = at \div BlockSize THEN Erased ELSE @[a]]]

(* Programming flash clears bits; a cell that was not erased is spoilt. *)
Program(m, at, n) ==
  [m EXCEPT !["FLASH"] = [a \in Address |->
     IF a \in at..at + n - 1
       THEN IF @[a] = Erased THEN buffers[packet][a - at] ELSE Garbage
       ELSE @[a]]]

Store(m, space, at, n) ==
  [m EXCEPT ![space] = [a \in Address |->
     IF a \in at..at + Longs(n) - 1 THEN buffers[packet][a - at] ELSE @[a]]]

CacheAnswers == cachecog # NoImage
VmAnswers    == vmcog # NoImage

Hang == lpc' = "hung" /\ UNCHANGED targetVars

(* The cog image at mm_data: what HUB_WRITE and DATA stored there. *)
HubImage == [i \in 1..load_address |-> mem["HUB"][i - 1]]

VM_INIT_handler ==
  /\ ptype = VM_INIT
  /\ vmcog' = HubImage
  /\ lpc' = "release"
  /\ UNCHANGED <<write_mode, load_address, mem, cachecog>>

CACHE_INIT_handler ==
  /\ ptype = CACHE_INIT
  /\ cachecog' = HubImage
  /\ lpc' = "release"
  /\ UNCHANGED <<write_mode, load_address, mem, vmcog>>

FLASH_WRITE_handler ==
  /\ ptype = FLASH_WRITE
  /\ IF CacheAnswers
       THEN /\ write_mode' = "FLASH"
            /\ load_address' = 0
            /\ mem' = Erase(mem, 0)
            /\ lpc' = "release"
            /\ UNCHANGED <<cachecog, vmcog>>
       ELSE Hang

RAM_WRITE_handler ==
  /\ ptype = RAM_WRITE
  /\ write_mode' = "RAM"
  /\ load_address' = 0
  /\ lpc' = "release"
  /\ UNCHANGED <<mem, cachecog, vmcog>>

(* A slip: the second image is written after the first one. *)
HUB_WRITE_handler_no_rewind ==
  /\ ptype = HUB_WRITE
  /\ write_mode' = "HUB"
  /\ lpc' = "release"
  /\ UNCHANGED <<load_address, mem, cachecog, vmcog>>

HUB_WRITE_handler ==
  /\ ptype = HUB_WRITE
  /\ write_mode' = "HUB"
  /\ load_address' = 0
  /\ lpc' = "release"
  /\ UNCHANGED <<mem, cachecog, vmcog>>

(* A slip: the mask of a block of twice the size. *)
erase_next_late(at) == at % (2 * BlockSize) = 0

erase_next(at) == at % BlockSize = 0

DATA_handler ==
  /\ ptype = DATA
  /\ \/ /\ write_mode = "FLASH"
        /\ LET next == load_address + len
               programmed == Program(mem, load_address, len)
           IN  /\ load_address' = next
               /\ mem' = IF erase_next(next) THEN Erase(programmed, next) ELSE programmed
        /\ lpc' = "release"
        /\ UNCHANGED <<write_mode, cachecog, vmcog>>
     \/ /\ write_mode = "RAM"
        /\ IF CacheAnswers
             THEN /\ mem' = Store(mem, "RAM", load_address, len)
                  /\ load_address' = load_address + Longs(len)
                  /\ lpc' = "release"
                  /\ UNCHANGED <<write_mode, cachecog, vmcog>>
             ELSE Hang
     \/ /\ write_mode = "HUB"
        /\ mem' = Store(mem, "HUB", load_address, len)
        /\ load_address' = load_address + Longs(len)
        /\ lpc' = "release"
        /\ UNCHANGED <<write_mode, cachecog, vmcog>>

EOF_handler ==
  /\ ptype = EOF
  /\ lpc' = "release"
  /\ UNCHANGED targetVars

(* RUN_handler up to pkt.stop: runtime.load reads the image through the    *)
(* virtual machine's mailbox.                                              *)
RUN_handler ==
  /\ ptype = RUN
  /\ lpc' = IF VmAnswers THEN "stop" ELSE "hung"
  /\ UNCHANGED targetVars

handle ==
  /\ lpc = "handle"
  /\ \/ VM_INIT_handler
     \/ CACHE_INIT_handler
     \/ FLASH_WRITE_handler
     \/ RAM_WRITE_handler
     \/ HUB_WRITE_handler
     \/ DATA_handler
     \/ EOF_handler
     \/ RUN_handler
  /\ handled' = Append(handled, Packet(ptype, Payload(packet, len)))
  /\ UNCHANGED <<lineVars, driverVars, locals>>

(* pkt.stop, then init_serial takes the pins over and the program runs;    *)
(* the packet is never released and the loop is never resumed.             *)
run_program ==
  /\ lpc = "run"
  /\ lpc' = "running"
  /\ UNCHANGED <<lineVars, driverVars, locals, targetVars, handled>>

HelperStepButStop ==
  poll_status \/ check_status \/ reset_status \/ fetch_packet \/ handle
    \/ release_packet \/ run_program

(* The part of the helper that holds a packet of the mailbox. *)
Holding == lpc \in {"fetch", "handle", "release"}

HelperTypeOK ==
  /\ lpc \in LoopStates
  /\ ptype \in Byte /\ packet \in 0..1 /\ len \in Count
  /\ write_mode \in {"NONE", "FLASH", "RAM", "HUB"} /\ load_address \in Nat
  /\ mem \in [Memories -> [Address -> Cell]]
=============================================================================
