-------------------------- MODULE RequestThrottle --------------------------
(***************************************************************************)
(* RequestThrottle.acquire (adapters/zerodha/pacing.py), shared by any     *)
(* number of tasks.  A task runs from one sleep to the next without being  *)
(* interrupted; a sleep may return a little early.                         *)
(***************************************************************************)
EXTENDS Integers, Sequences

CONSTANTS
  Callers,      (* tasks that share the throttle                            *)
  MaxRequests,  (* _max                                                     *)
  Period,       (* _period                                                  *)
  Early,        (* how much too soon a sleep may return                     *)
  LastMoment,   (* bound on the clock                                       *)
  MaxBegun      (* bound on the requests                                    *)

ASSUME ThrottleAssumption ==
  /\ MaxRequests \in Nat \ {0}
  /\ Period \in Nat \ {0}
  /\ Early \in Nat
  /\ LastMoment \in Nat /\ MaxBegun \in Nat

VARIABLES
  starts,       (* _starts: the request starts still in the window          *)
  task,         (* what each task does: "idle", "acquiring" or "sleeping"   *)
  wake,         (* when its sleep ends                                      *)
  clock,        (* the clock, the `now' of acquire                          *)
  begun         (* history: every request start                             *)

throttleVars == <<starts, task, wake, clock, begun>>

ThrottleInit ==
  /\ starts = <<>>
  /\ task = [c \in Callers |-> "idle"]
  /\ wake = [c \in Callers |-> 0]
  /\ clock = 0
  /\ begun = <<>>

Acquire(c) ==
  /\ task[c] = "idle" /\ Len(begun) < MaxBegun
  /\ task' = [task EXCEPT ![c] = "acquiring"]
  /\ UNCHANGED <<starts, wake, clock, begun>>

BUG_Expired(start) == clock - start >= Period - 1
Expired(start) == clock - start >= Period

(* acquire pops the expired front of the deque: the first n starts.        *)
Pops(n) ==
  /\ \A k \in 1 .. n : Expired(starts[k])
  /\ n < Len(starts) => ~Expired(starts[n + 1])
Kept(n) == SubSeq(starts, n + 1, Len(starts))

(* The task runs: it prunes, and then begins its request or goes to sleep. *)
Awake(c) == task[c] = "acquiring" \/ (task[c] = "sleeping" /\ clock + Early >= wake[c])

Room(kept) == Len(kept) < MaxRequests

BeginRequest(c) ==
  /\ Awake(c)
  /\ \E n \in 0 .. Len(starts) :
       /\ Pops(n) /\ Room(Kept(n))
       /\ starts' = Append(Kept(n), clock)
  /\ begun' = Append(begun, clock)
  /\ task' = [task EXCEPT ![c] = "idle"]
  /\ UNCHANGED <<wake, clock>>

WakeAt(kept) == kept[1] + Period

GoToSleep(c) ==
  /\ Awake(c)
  /\ \E n \in 0 .. Len(starts) :
       /\ Pops(n) /\ ~Room(Kept(n))
       /\ starts' = Kept(n)
       /\ wake' = [wake EXCEPT ![c] = WakeAt(Kept(n))]
  /\ task' = [task EXCEPT ![c] = "sleeping"]
  /\ UNCHANGED <<clock, begun>>

Tick ==
  /\ clock < LastMoment
  /\ clock' = clock + 1
  /\ UNCHANGED <<starts, task, wake, begun>>

ThrottleNext == Tick \/ \E c \in Callers : Acquire(c) \/ BeginRequest(c) \/ GoToSleep(c)

ThrottleSpec == ThrottleInit /\ [][ThrottleNext]_throttleVars

-----------------------------------------------------------------------------
ThrottleTypeOK ==
  /\ starts \in Seq(0 .. clock)
  /\ task \in [Callers -> {"idle", "acquiring", "sleeping"}]
  /\ wake \in [Callers -> 0 .. clock + Period]
  /\ clock \in Nat
  /\ begun \in Seq(0 .. clock)

(* "At most max_requests request starts in any period", however the tasks  *)
(* that share the throttle take turns.                                     *)
AtMostMaxPerPeriod ==
  \A k \in 1 .. Len(begun) - MaxRequests : begun[k + MaxRequests] - begun[k] >= Period
=============================================================================
