------------------------------- MODULE Bucket -------------------------------
(***************************************************************************)
(* A token bucket kept for ever: it holds up to Limit tokens, gains one    *)
(* every Interval ticks, and a request is admitted exactly when a whole    *)
(* token is there to be taken.  Tokens are counted in parts of 1/Interval. *)
(* It is full again only after a restart.                                  *)
(***************************************************************************)
EXTENDS Naturals

CONSTANTS Limit, Interval

Full == Limit * Interval

VARIABLES level, restarts

Init == level = Full /\ restarts = {}

Tick == level' = (IF level < Full THEN level + 1 ELSE Full) /\ UNCHANGED restarts

Admit == level >= Interval /\ level' = level - Interval /\ UNCHANGED restarts

Restart == level' = Full /\ restarts' # restarts

\* A refusal leaves the bucket alone, so it is a stuttering step.
Next == Tick \/ Admit \/ Restart

Spec == Init /\ [][Next]_<<level, restarts>>
=============================================================================
