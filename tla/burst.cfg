\* Noise that looks like frames, in the payload too, and an impatient host: every
\* image on every board, in frames of eight bytes.
CONSTANTS
  PKTMAXLEN = 8
  WordSize = 4
  BlockSize = 8
  MemSize = 16
  TXSIZE = 2
  CacheImage <- MCCacheImage
  CacheParams <- MCCacheParams
  VmImage <- MCVmImage
  RunFlags <- MCRunFlags
  NoiseBytes <- MCNoise
  Bursts <- MCBursts
  MaxFaults = 1
  Jobs <- MCLongImages
SPECIFICATION FairSpec
INVARIANT RunOnlyWholeImage
PROPERTY
  HostFinishes
  QuietLoadRuns
