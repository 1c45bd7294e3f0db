------------------------- MODULE MCRequestThrottle -------------------------
(***************************************************************************)
(* Three tasks on one throttle, for TLC.                                   *)
(***************************************************************************)
EXTENDS RequestThrottle, TLC

(* Tasks are only compared with each other.                                *)
MCSymmetry == Permutations(Callers)
=============================================================================
