\* A line that loses and damages bytes, and an impatient host: every image on
\* every board, in frames of two bytes.
CONSTANTS
  PKTMAXLEN = 2
  WordSize = 2
  BlockSize = 4
  MemSize = 8
  TXSIZE = 2
  CacheImage <- MCCacheImage
  CacheParams <- MCCacheParams
  VmImage <- MCVmImage
  RunFlags <- MCRunFlags
  NoiseBytes <- MCNoise
  Bursts <- NoBursts
  MaxFaults = 2
  Jobs <- MCImages
SPECIFICATION FairSpec
INVARIANTS
  TypeOK
  HeldPacketIsStable
  AcceptedInOrder
  SuccessIsTrue
  FlashHoldsPrefix
PROPERTIES
  KeepsPromise
  AcceptedIsHandled
