-------------------------------- MODULE XLoad --------------------------------
(***************************************************************************)
(* xload: the host program (src/loader/xload.c, db_loader.c, db_packet.c)  *)
(* loading a program into a Propeller that runs the helper, over a serial  *)
(* line that may fail.  Composes the host with PacketDriver and            *)
(* SerialHelper.                                                           *)
(***************************************************************************)
EXTENDS SerialHelper, HostScript

CONSTANTS
  Jobs         \* what xload may be asked to do, and whether on a calm line

(* What xload is asked to load is bytes and fits the memory it goes to,    *)
(* and the flash erases whole packets: 4096 % 1024 = 0 in the code.        *)
ASSUME XLoadAssumption ==
  /\ BlockSize % PKTMAXLEN = 0
  /\ Len(CacheImage) <= MemSize /\ Len(VmImage) <= MemSize
  /\ \A j \in Jobs :
       /\ j.cache \in BOOLEAN
       /\ j.type \in {FLASH_WRITE, RAM_WRITE, HUB_WRITE}
       /\ j.file \in Seq(Byte) /\ Len(j.file) <= MemSize

VARIABLES
  job,           \* what xload was asked to do
  hstate,        \* where the host is
  sent,          \* packets handed to the line
  acked,         \* packets acknowledged
  snd_pktn,      \* number of the last packet
  verdict        \* what the host has reported

hostVars == <<job, hstate, sent, acked, snd_pktn, verdict>>
vars     == <<lineVars, driverVars, helperVars, hostVars>>

Verdicts == {"none", "load failed", "run failed", "running"}


Packets == Script(job)
N       == Len(Packets)

HostInit ==
  /\ job \in Jobs
  /\ hstate = "connect"
  /\ sent = 0 /\ acked = 0 /\ snd_pktn = 0
  /\ verdict = "none"

Init == DriverInit /\ HelperInit /\ HostInit

-----------------------------------------------------------------------------
(* main reports a failed load or a failed run, and exits. *)
GiveUp ==
  /\ hstate' = "exit"
  /\ verdict' = IF acked < N - 1 THEN "load failed" ELSE "run failed"
  /\ UNCHANGED <<job, sent, acked, snd_pktn>>

(* On a calm line nothing is lost, and nothing on the target takes longer   *)
(* than the host waits. *)
calm == job.calm

TakeReply == toHost # <<>> /\ toHost' = Tail(toHost)

WaitForInitialAck ==
  /\ hstate = "connect"
  /\ TakeReply
  /\ IF Head(toHost) = ACK
       THEN hstate' = "send" /\ UNCHANGED <<job, sent, acked, snd_pktn, verdict>>
       ELSE GiveUp
  /\ UNCHANGED <<toTarget, faults, hits, driverVars, helperVars>>

SendPacket ==
  /\ hstate = "send"
  /\ snd_pktn' = (snd_pktn + 1) % 256
  /\ sent' = sent + 1
  /\ toTarget' = toTarget \o Frame(snd_pktn', Packets[sent'])
  /\ hstate' = "await"
  /\ hits' = 0
  /\ UNCHANGED <<toHost, faults, driverVars, helperVars, job, acked, verdict>>

acknowledged(b) == b = ACK

WaitForAckNak ==
  /\ hstate = "await"
  /\ TakeReply
  /\ IF acknowledged(Head(toHost))
       THEN /\ acked' = acked + 1
            /\ hstate' = IF acked' = N THEN "exit" ELSE "send"
            /\ verdict' = IF acked' = N THEN "running" ELSE "none"
            /\ UNCHANGED <<job, sent, snd_pktn>>
       ELSE GiveUp
  /\ UNCHANGED <<toTarget, faults, hits, driverVars, helperVars>>

(* Nothing under way on the target can still produce a reply. *)
Silent ==
  /\ cog = "running" => toTarget = <<>> /\ tx = <<>> /\ rcv_state # "REPLY"
  /\ cog = "running" /\ rcv_state = "WAIT" => lpc \in {"hung", "stop", "run", "running"}

(* A slip: only the first answer is waited for with a timeout. *)
may_time_out_connecting == hstate = "connect"

may_time_out == hstate \in {"connect", "await"}

Timeout ==
  /\ may_time_out
  /\ toHost = <<>>
  /\ calm => Silent
  /\ GiveUp
  /\ UNCHANGED <<lineVars, driverVars, helperVars>>

(* The RUN handler stops the packet driver; nothing makes it wait for the  *)
(* acknowledgement of RUN to leave, which only takes less time than        *)
(* runtime.load does.                                                      *)
stop_driver ==
  /\ lpc = "stop"
  /\ calm => tx = <<>> /\ rcv_state # "REPLY"
  /\ stop
  /\ lpc' = "run"
  /\ UNCHANGED <<locals, targetVars, handled, hostVars>>

HostStep   == WaitForInitialAck \/ SendPacket \/ WaitForAckNak \/ Timeout
HelperStep == HelperStepButStop /\ UNCHANGED hostVars

Finished == hstate = "exit" /\ UNCHANGED vars

Next ==
  \/ HostStep
  \/ DriverStep /\ UNCHANGED <<helperVars, hostVars>>
  \/ HelperStep
  \/ stop_driver
  \/ ~calm /\ LineFault /\ UNCHANGED <<helperVars, hostVars>>
  \/ Finished

Spec == Init /\ [][Next]_vars

(* The host process is scheduled and its clock runs; a cog executes until  *)
(* it is stopped.  The line owes nothing.                                  *)
Fairness ==
  /\ WF_vars(HostStep)
  /\ WF_vars(DriverStep /\ UNCHANGED <<helperVars, hostVars>>)
  /\ WF_vars(HelperStep \/ stop_driver)

FairSpec == Spec /\ Fairness
-----------------------------------------------------------------------------
HostTypeOK ==
  /\ job \in Jobs
  /\ hstate \in {"connect", "send", "await", "exit"}
  /\ sent \in 0..N /\ acked \in 0..N /\ snd_pktn \in Byte
  /\ verdict \in Verdicts

(* Every variable has its type; in particular the payload pointer of the   *)
(* receiver stays inside the buffer of rcv_max bytes (do_chk, do_data) and *)
(* the whole longs a handler copies stay inside the packet buffer.         *)
TypeOK == LineTypeOK /\ DriverTypeOK /\ HelperTypeOK /\ HostTypeOK

(* From the moment a packet is published until the helper releases it, the *)
(* receiver writes the other buffer and cannot publish over it: what a     *)
(* handler reads is what was checked and acknowledged, however far the     *)
(* next frame has got (rcv_buf1/rcv_buf2 and STATUS_PENDING).              *)
HeldPacketIsStable ==
  Holding \/ status = "OK" =>
    /\ rcv_buf1 # pkt_buffer
    /\ Holding => status # "PENDING"
    /\ lpc \in {"handle", "release"} => <<ptype, packet, len>> = <<pkt_type, pkt_buffer, pkt_length>>

(* What the target acts on is what it took in, once each and in order.     *)
HandledInOrder == IsPrefix(handled, accepted)

(* The packets taken in are the host's, complete, unaltered and in order,  *)
(* although nothing looks at the packet number: a damaged, shortened or    *)
(* lost frame never yields another packet; and each is acted on once, in   *)
(* that order. *)
AcceptedInOrder == IsPrefix(accepted, Packets) /\ HandledInOrder

ImageInPlace ==
  LET space == CASE job.type = FLASH_WRITE -> "FLASH"
                 [] job.type = RAM_WRITE -> "RAM"
                 [] OTHER -> "HUB"
  IN  /\ write_mode = space
      /\ \A a \in 0..Len(job.file) - 1 : mem[space][a] = job.file[a + 1]
      /\ IsPrefix(VmImage, vmcog)
      /\ job.cache => IsPrefix(CacheImage, cachecog)

(* The program is only ever started on its whole image, by a virtual       *)
(* machine and a cache driver that were loaded whole (RUN_handler runs     *)
(* whatever is there; the order of packets and the protocol see to it).    *)
RunOnlyWholeImage == lpc \in {"stop", "run", "running"} => ImageInPlace

(* When xload reports success the target has taken in every packet and has *)
(* finished everything but RUN (RunLoadedProgram returns TRUE).            *)
SuccessIsTrue ==
  verdict = "running" => accepted = Packets /\ Len(handled) >= N - 1 /\ ImageInPlace

(* While a flash image is being loaded, everything the helper has taken is *)
(* in flash: each chunk was programmed on erased cells, so the erase that  *)
(* DATA_handler does ahead keeps up with the chunks, and no erase hits a   *)
(* block that already holds data of this load.                             *)
FlashHoldsPrefix ==
  write_mode = "FLASH" => \A a \in 0..load_address - 1 : mem["FLASH"][a] = job.file[a + 1]

(* The host always comes to an end, whatever the line and the target do:   *)
(* every wait for a reply has a timeout.                                   *)
HostFinishes == <>(hstate = "exit")

(* On a calm line and with a punctual target the load ends with the        *)
(* program running and the host saying so: host, driver and helper never   *)
(* wait for one another in a circle.  A board without a cache driver has   *)
(* to be given a hub image. *)
QuietLoadRuns ==
  calm /\ (job.cache \/ job.type = HUB_WRITE) => <>(verdict = "running" /\ lpc = "running")

(* A packet the target has taken in is acted upon in the end, or the host  *)
(* comes to know: the header of a damaged frame may overwrite the status   *)
(* of a packet that was acknowledged and not yet fetched (send_nak), but   *)
(* the host does not report success then.  Or else a handler hangs in a    *)
(* call to a cog that was never started.                                   *)
AcceptedIsHandled ==
  accepted # handled ~>
    (accepted = handled \/ lpc = "hung" \/ verdict \in {"load failed", "run failed"})

Promise == INSTANCE LoadPromise WITH
  total <- N, accepted <- Len(accepted), handled <- Len(handled)

(* The whole implements the abstract load. *)
KeepsPromise == Promise!Spec
=============================================================================
