------------------------------- MODULE MCXLoad -------------------------------
(***************************************************************************)
(* Instances of XLoad for TLC.  Payload bytes include SOH, so that the     *)
(* receiver meets it where no frame starts.                                *)
(***************************************************************************)
EXTENDS XLoad

MCVmImage     == <<3, SOH, 2>>
MCCacheImage  == <<8>>
MCCacheParams == <<2, 0>>
MCRunFlags    == <<1>>

(* Every image on every board. *)
Images(file, calms) ==
  [cache : BOOLEAN, type : {FLASH_WRITE, RAM_WRITE, HUB_WRITE}, file : {file}, calm : calms]

(* Five bytes: two whole chunks that end on a flash block, and a rest. *)
MCImages == Images(<<4, SOH, 5, 7, 9>>, {FALSE})

(* Eleven bytes, among them what looks like a header with a wrong          *)
(* checksum: the receiver that lost a frame finds it.                      *)
MCLongImages == Images(<<SOH, 2, 7, 0, 3, 10, SOH, 5, 9, 9, 11>>, BOOLEAN)

MCNoise  == {0, SOH, 255}
NoBursts == {}

(* The start of a frame, and a whole header with a wrong checksum. *)
MCBursts == {<<SOH>>, <<SOH, 0, 0, 0, 0, 9>>}
=============================================================================
