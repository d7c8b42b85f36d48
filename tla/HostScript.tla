----------------------------- MODULE HostScript -----------------------------
(***************************************************************************)
(* What the host sends, and in which order: LoadImage and RunLoadedProgram *)
(* of src/loader/db_loader.c.  Every packet is sent once, in this order,   *)
(* and the first one that is not acknowledged ends the load; so the whole  *)
(* of the host's intent is one sequence of packets.                        *)
(*                                                                         *)
(* A job j is what xload was asked to do:                                  *)
(*   j.cache  does the board configuration name a cache driver?            *)
(*   j.type   the packet type OpenAndProbeFile derives from the image      *)
(*   j.file   the bytes of the image                                       *)
(*   j.calm   nothing on the line or the target fails or is late           *)
(***************************************************************************)
EXTENDS PacketFormat

CONSTANTS
  CacheImage,    \* bytes of the cache driver's cog image
  CacheParams,   \* bytes of the CACHE_INIT payload (size and two parameters)
  VmImage,       \* bytes of the virtual machine's cog image
  RunFlags       \* bytes of the RUN payload

(* The images are bytes, and what goes with CACHE_INIT and RUN are a few    *)
(* longs, which fit a packet (InitCacheParams, RunLoadedProgram).          *)
ASSUME HostScriptAssumption ==
  /\ CacheImage \in Seq(Byte) /\ VmImage \in Seq(Byte)
  /\ CacheParams \in Seq(Byte) /\ Len(CacheParams) <= PKTMAXLEN
  /\ RunFlags \in Seq(Byte) /\ Len(RunFlags) <= PKTMAXLEN

(* The pieces of at most PKTMAXLEN bytes a buffer or file is sent in. *)
DataPackets(bytes) ==
  LET n == (Len(bytes) + PKTMAXLEN - 1) \div PKTMAXLEN
      To(i) == IF i * PKTMAXLEN < Len(bytes) THEN i * PKTMAXLEN ELSE Len(bytes)
  IN  [i \in 1..n |->
         Packet(DATA, SubSeq(bytes, (i - 1) * PKTMAXLEN + 1, To(i)))]

WriteBuffer(bytes) == DataPackets(bytes) \o <<Packet(EOF, <<>>)>>

(* WriteFileToMemory: announce the memory, send the chunks, end of file. *)
WriteFileToMemory(j) ==
  <<Packet(j.type, <<>>)>> \o DataPackets(j.file) \o <<Packet(EOF, <<>>)>>

LoadCacheDriver(j) ==
  IF j.cache
    THEN <<Packet(HUB_WRITE, <<>>)>> \o WriteBuffer(CacheImage)
           \o <<Packet(CACHE_INIT, CacheParams)>>
    ELSE <<>>

LoadVM ==
  <<Packet(HUB_WRITE, <<>>)>> \o WriteBuffer(VmImage) \o <<Packet(VM_INIT, <<>>)>>

(* A slip: the file is sent before the cache driver that writes it. *)
LoadImageCacheLast(j) == LoadVM \o WriteFileToMemory(j) \o LoadCacheDriver(j)

LoadImage(j) == LoadCacheDriver(j) \o LoadVM \o WriteFileToMemory(j)

(* main of xload.c: load, then run. *)
Script(j) == LoadImage(j) \o <<Packet(RUN, RunFlags)>>
=============================================================================
