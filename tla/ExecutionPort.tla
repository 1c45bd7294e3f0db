--------------------------- MODULE ExecutionPort ---------------------------
(***************************************************************************)
(* What an executor promises its callers (domain/execution/ports.py): the  *)
(* order lifecycle drawn there, and that orders are entries of one         *)
(* position at a time.  No prices, no bars, no ids of the executor's own:  *)
(* PaperExecution implements this module (ImplementsExecutionPort there).  *)
(*                                                                         *)
(* A call that the lifecycle does not have raises and is a stuttering step.*)
(***************************************************************************)
EXTENDS Naturals

CONSTANT ClientIds  (* client_order_ids the callers use                     *)

VARIABLES
  status,           (* what order(id) answers; "none" before it is submitted *)
  held,             (* whether position is not None                         *)
  closed            (* how many trades there are                            *)

port == <<status, held, closed>>

OrderStatus == {"accepted", "rejected", "filled", "cancelled", "expired"}

Init ==
  /\ status = [id \in ClientIds |-> "none"]
  /\ held = FALSE
  /\ closed = 0

Busy == held \/ \E id \in ClientIds : status[id] = "accepted"

(* submit: refusing is always allowed, accepting only when nothing is      *)
(* working or held.                                                        *)
Submit(id) ==
  /\ status[id] = "none"
  /\ \/ /\ ~Busy
        /\ status' = [status EXCEPT ![id] = "accepted"]
     \/ status' = [status EXCEPT ![id] = "rejected"]
  /\ UNCHANGED <<held, closed>>

Leave(id, outcome) ==
  /\ status[id] = "accepted"
  /\ status' = [status EXCEPT ![id] = outcome]

(* cancel, or flatten while an order works.                                *)
Cancel(id) == Leave(id, "cancelled") /\ UNCHANGED <<held, closed>>

(* A bar after the entry bar was missed.                                   *)
Expire(id) == Leave(id, "expired") /\ UNCHANGED <<held, closed>>

(* The entry bar: the position is held, or closed again on the same bar.   *)
Enter(id) ==
  /\ Leave(id, "filled")
  /\ \/ held' = TRUE /\ closed' = closed
     \/ held' = FALSE /\ closed' = closed + 1

(* A later bar closes what is held.                                        *)
Exit ==
  /\ held
  /\ held' = FALSE
  /\ closed' = closed + 1
  /\ UNCHANGED status

Next ==
  \/ \E id \in ClientIds : Submit(id) \/ Cancel(id) \/ Expire(id) \/ Enter(id)
  \/ Exit

Spec == Init /\ [][Next]_port
=============================================================================
