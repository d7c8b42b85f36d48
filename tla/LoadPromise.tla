----------------------------- MODULE LoadPromise -----------------------------
(***************************************************************************)
(* What the serial load promises, without frames, bytes, buffers or        *)
(* timing: the packets of a load reach the target one after the other.     *)
(*                                                                         *)
(*   total     packets of the load; the last one is RUN                    *)
(*   accepted  how many of them the target has taken in                    *)
(*   handled   how many of those it has acted upon                         *)
(*   acked     how many the host knows were taken in                       *)
(*   verdict   what the host has told its user                             *)
(***************************************************************************)
EXTENDS Integers

VARIABLES total, accepted, handled, acked, verdict

vars == <<total, accepted, handled, acked, verdict>>

Verdicts == {"none", "load failed", "run failed", "running"}

Init == total \in Nat \ {0} /\ accepted = 0 /\ handled = 0 /\ acked = 0 /\ verdict = "none"

(* The target takes a packet in only when the host has seen the packet     *)
(* before acknowledged and the target has finished with it.                *)
Accept ==
  /\ accepted < total
  /\ accepted = acked
  /\ accepted = handled
  /\ accepted' = accepted + 1
  /\ UNCHANGED <<total, handled, acked, verdict>>

Handle ==
  /\ handled < accepted
  /\ handled' = handled + 1
  /\ UNCHANGED <<total, accepted, acked, verdict>>

Acknowledge ==
  /\ verdict = "none"
  /\ acked < accepted
  /\ acked' = acked + 1
  /\ verdict' = IF acked' = total THEN "running" ELSE "none"
  /\ UNCHANGED <<total, accepted, handled>>

(* The host gives up: on a bad answer, or on no answer in time. *)
GiveUp ==
  /\ verdict = "none"
  /\ verdict' = IF acked < total - 1 THEN "load failed" ELSE "run failed"
  /\ UNCHANGED <<total, accepted, handled, acked>>

Next == Accept \/ Handle \/ Acknowledge \/ GiveUp

Spec == Init /\ [][Next]_vars
=============================================================================
