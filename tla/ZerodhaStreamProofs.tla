------------------------ MODULE ZerodhaStreamProofs ------------------------
(***************************************************************************)
(* Proofs about ZerodhaStream for any set of tokens, any retry policy and  *)
(* any callers: it keeps the contract of FeedContract, and no subscription *)
(* is lost by a connection that works.                                     *)
(***************************************************************************)
EXTENDS ZerodhaStream, TLAPS

(* Once a connection has been reported nothing is owed for the last one.   *)
NothingOwed ==
  pc \in {"restore", "resubscribe", "receive", "dropped"} => disconnected_at = Never

(* What the broker will stream once the sends under way have arrived.      *)
NoTokenForgotten ==
  (socket /\ alive) =>
    /\ pc = "resubscribe" => tokens \subseteq server \cup sending
    /\ pc = "receive" => tokens \subseteq server

(* A moment of the clock is never mistaken for `no disconnect'.             *)
ClockIsTime == now \in Nat

StreamInv == ClockIsTime /\ NothingOwed /\ NoTokenForgotten

LEMMA StreamInvInductive == StreamInv /\ [Next]_vars => StreamInv'
<1> SUFFICES ASSUME StreamInv, [Next]_vars PROVE StreamInv'
  OBVIOUS
<1> USE DEF StreamInv, ClockIsTime, NothingOwed, NoTokenForgotten, Never
<1>1. CASE Stream \/ AuthenticateOk \/ AuthenticateFails \/ EndUnauthenticated \/ BackOff
  BY <1>1 DEF Stream, AuthenticateOk, AuthenticateFails, EndUnauthenticated, BackOff
<1>2. CASE AnnounceAttempt \/ Connect \/ OpenOk \/ OpenRefused \/ OpenUnreachable
  BY <1>2 DEF AnnounceAttempt, Connect, OpenOk, OpenRefused, OpenUnreachable
<1>3. CASE ReportGap \/ NoGap
  BY <1>3 DEF ReportGap, NoGap, GapDue
<1>4. CASE BeginResubscribe
  BY <1>4 DEF BeginResubscribe
<1>5. CASE ResubscribeOk \/ ResubscribeRaises
  BY <1>5 DEF ResubscribeOk, ResubscribeRaises
<1>6. CASE ReceiveTicks \/ ReceiveOther \/ ReceiveFails \/ ReceiveStops
  BY <1>6 DEF ReceiveTicks, ReceiveOther, TextEvents, QuietEvents, ReceiveFails, ReceiveStops
<1>7. CASE Dropped \/ DroppedByUs \/ Exhausted \/ Wake
  BY <1>7 DEF Dropped, DroppedByUs, Exhausted, Wake
<1>8. CASE Subscribe \/ Unsubscribe
  BY <1>8 DEF Subscribe, Unsubscribe, Awaiting
<1>9. CASE Disconnect \/ Leave \/ ConnectionLost \/ AdvanceClock
  BY <1>9 DEF Disconnect, Leave, ConnectionLost, AdvanceClock, Awaiting
<1>10. CASE UNCHANGED vars
  BY <1>10 DEF vars
<1>11. QED
  BY <1>1, <1>2, <1>3, <1>4, <1>5, <1>6, <1>7, <1>8, <1>9, <1>10 DEF Next, Internal

THEOREM StreamInvariant == Spec => []StreamInv
<1>1. Init => StreamInv
  BY DEF Init, StreamInv, ClockIsTime, NothingOwed, NoTokenForgotten
<1>2. QED
  BY <1>1, StreamInvInductive, PTL DEF Spec

(* While a live connection is being read, the broker streams every token   *)
(* subscribe() recorded and unsubscribe() did not remove, whichever await  *)
(* of stream() those calls interleaved with.                               *)
THEOREM SubscriptionsAreLive == Spec => []EverySubscriptionIsLive
<1>1. StreamInv => EverySubscriptionIsLive
  BY DEF StreamInv, NoTokenForgotten, EverySubscriptionIsLive
<1>2. QED
  BY <1>1, StreamInvariant, PTL

-----------------------------------------------------------------------------
(* The refinement.  Each step of the loop is a step of the contract, or    *)
(* leaves what the consumer sees unchanged.                                *)

LEMMA StepsKeepContract ==
  ASSUME StreamInv, [Next]_vars
  PROVE  [Contract!Next]_(Contract!feedVars)
<1> USE DEF StreamInv, ClockIsTime, NothingOwed, Never, Contract!Next, Contract!feedVars,
            Contract!Deliver, Contract!Notice, Contract!Lose, Contract!ReportGap,
            Contract!Resume, Contract!End, Contract!Notices
<1>1. CASE Stream \/ AuthenticateOk \/ AuthenticateFails \/ EndUnauthenticated
  BY <1>1 DEF Stream, AuthenticateOk, AuthenticateFails, EndUnauthenticated
<1>2. CASE BackOff
  BY <1>2 DEF BackOff
<1>3. CASE AnnounceAttempt \/ Connect \/ OpenOk
  BY <1>3 DEF AnnounceAttempt, Connect, OpenOk
<1>4. CASE OpenRefused \/ OpenUnreachable
  BY <1>4 DEF OpenRefused, OpenUnreachable
<1>5. CASE ReportGap
  BY <1>5 DEF ReportGap, GapDue
<1>6. CASE NoGap
  BY <1>6 DEF NoGap, GapDue
<1>7. CASE BeginResubscribe
  BY <1>7 DEF BeginResubscribe
<1>8. CASE ResubscribeOk \/ ResubscribeRaises
  BY <1>8 DEF ResubscribeOk, ResubscribeRaises
<1>9. CASE ReceiveTicks \/ ReceiveOther
  BY <1>9 DEF ReceiveTicks, ReceiveOther, TextEvents, QuietEvents
<1>10. CASE ReceiveFails \/ ReceiveStops
  BY <1>10 DEF ReceiveFails, ReceiveStops
<1>11. CASE Dropped
  BY <1>11 DEF Dropped, DroppedWhen
<1>12. CASE DroppedByUs \/ Exhausted \/ Wake
  BY <1>12 DEF DroppedByUs, Exhausted, Wake
<1>13. CASE Subscribe \/ Unsubscribe \/ Disconnect \/ ConnectionLost \/ AdvanceClock
  BY <1>13 DEF Subscribe, Unsubscribe, Disconnect, ConnectionLost, AdvanceClock
<1>14. CASE Leave
  BY <1>14 DEF Leave
<1>15. CASE UNCHANGED vars
  BY <1>15 DEF vars
<1>16. QED
  BY <1>1, <1>2, <1>3, <1>4, <1>5, <1>6, <1>7, <1>8, <1>9, <1>10, <1>11, <1>12,
     <1>13, <1>14, <1>15 DEF Next, Internal

(* The provider implements the contract: ticks only while the feed is up,  *)
(* and never again after a disconnect before the gap has been reported.    *)
THEOREM KeepsTheContract == Spec => KeepsContract
<1>1. Init => Contract!Init
  BY DEF Init, Contract!Init, Never
<1>2. StreamInv /\ [Next]_vars => [Contract!Next]_(Contract!feedVars)
  BY StepsKeepContract
<1>3. QED
  BY <1>1, <1>2, StreamInvariant, PTL DEF Spec, KeepsContract, Contract!Spec
-----------------------------------------------------------------------------
(* Retries.  Until the stream has decided to end, there is an attempt left.*)
Ending == {"exhausted", "ended", "raised", "left"}

AttemptsLeft ==
  /\ max_attempts \in Limits
  /\ attempt \in Nat
  /\ max_attempts > 0 => /\ attempt <= max_attempts
                         /\ pc \notin Ending => attempt < max_attempts

LEMMA FailedCounts ==
  ASSUME AttemptsLeft, pc \notin Ending, Failed, UNCHANGED max_attempts
  PROVE  /\ attempt' \in Nat
         /\ max_attempts > 0 => attempt' <= max_attempts
         /\ max_attempts > 0 /\ should_retry(attempt') => attempt' < max_attempts
BY StreamAssumption DEF AttemptsLeft, Failed, should_retry

LEMMA AttemptsLeftInductive == AttemptsLeft /\ [Next]_vars => AttemptsLeft'
<1> SUFFICES ASSUME AttemptsLeft, [Next]_vars PROVE AttemptsLeft'
  OBVIOUS
<1> USE DEF AttemptsLeft, Ending
<1>1. CASE BackOff \/ OpenUnreachable \/ Dropped
  BY <1>1, FailedCounts DEF BackOff, OpenUnreachable, Dropped
<1>2. CASE Stream \/ AuthenticateOk \/ AuthenticateFails \/ EndUnauthenticated
  BY <1>2 DEF Stream, AuthenticateOk, AuthenticateFails, EndUnauthenticated
<1>3. CASE AnnounceAttempt \/ Connect \/ OpenOk \/ OpenRefused
  BY <1>3 DEF AnnounceAttempt, Connect, OpenOk, OpenRefused
<1>4. CASE ReportGap \/ NoGap \/ ReceiveTicks \/ ReceiveOther
  BY <1>4 DEF ReportGap, NoGap, ReceiveTicks, ReceiveOther
<1>5. CASE BeginResubscribe \/ ResubscribeOk \/ ResubscribeRaises
  BY <1>5, StreamAssumption DEF BeginResubscribe, ResubscribeOk, ResubscribeRaises
<1>6. CASE ReceiveFails \/ ReceiveStops \/ DroppedByUs \/ Exhausted \/ Wake
  BY <1>6 DEF ReceiveFails, ReceiveStops, DroppedByUs, Exhausted, Wake
<1>7. CASE Subscribe \/ Unsubscribe \/ Disconnect \/ Leave
  BY <1>7 DEF Subscribe, Unsubscribe, Disconnect, Leave
<1>8. CASE ConnectionLost \/ AdvanceClock \/ UNCHANGED vars
  BY <1>8 DEF ConnectionLost, AdvanceClock, vars
<1>9. QED
  BY <1>1, <1>2, <1>3, <1>4, <1>5, <1>6, <1>7, <1>8 DEF Next, Internal

(* A policy with a limit is kept, whatever fails and in whatever order, by *)
(* the one counter that all failures share.                                *)
THEOREM PolicyIsKept == Spec => []GivesUpInTime
<1>1. Init => AttemptsLeft
  BY StreamAssumption DEF Init, AttemptsLeft, Ending
<1>2. AttemptsLeft => GivesUpInTime
  BY DEF AttemptsLeft, Ending, GivesUpInTime
<1>3. QED
  BY <1>1, <1>2, AttemptsLeftInductive, PTL DEF Spec
-----------------------------------------------------------------------------
(* Endings.  A session that cannot be used is noticed before the loop acts *)
(* on it, and nothing another task does meanwhile changes the last event.  *)
RefusalAnnounced ==
  (pc = "verified" /\ state \in {"NOT_CONFIGURED", "AUTH_FAILED"}) =>
    event \in {"not_configured", "auth_failed"}

LEMMA RefusalAnnouncedInductive == RefusalAnnounced /\ [Next]_vars => RefusalAnnounced'
<1> SUFFICES ASSUME RefusalAnnounced, [Next]_vars PROVE RefusalAnnounced'
  OBVIOUS
<1> USE DEF RefusalAnnounced
<1>1. CASE Stream \/ AuthenticateOk \/ AuthenticateFails \/ EndUnauthenticated \/ BackOff
  BY <1>1 DEF Stream, AuthenticateOk, AuthenticateFails, EndUnauthenticated, BackOff
<1>2. CASE AnnounceAttempt \/ Connect \/ OpenOk \/ OpenRefused \/ OpenUnreachable
  BY <1>2 DEF AnnounceAttempt, Connect, OpenOk, OpenRefused, OpenUnreachable
<1>3. CASE ReportGap \/ NoGap \/ BeginResubscribe \/ ResubscribeOk \/ ResubscribeRaises
  BY <1>3 DEF ReportGap, NoGap, BeginResubscribe, ResubscribeOk, ResubscribeRaises
<1>4. CASE ReceiveTicks \/ ReceiveOther \/ ReceiveFails \/ ReceiveStops
  BY <1>4 DEF ReceiveTicks, ReceiveOther, ReceiveFails, ReceiveStops
<1>5. CASE Dropped \/ DroppedByUs \/ Exhausted \/ Wake
  BY <1>5 DEF Dropped, DroppedByUs, Exhausted, Wake
<1>6. CASE Subscribe \/ Unsubscribe \/ Disconnect \/ Leave
  BY <1>6 DEF Subscribe, Unsubscribe, Disconnect, Leave
<1>7. CASE ConnectionLost \/ AdvanceClock \/ UNCHANGED vars
  BY <1>7 DEF ConnectionLost, AdvanceClock, vars
<1>8. QED
  BY <1>1, <1>2, <1>3, <1>4, <1>5, <1>6, <1>7 DEF Next, Internal

(* The step to "ended", one case per await it may be taken at.             *)
LEMMA EndingsExplain ==
  ASSUME RefusalAnnounced, [Next]_vars, running, pc # "ended", pc' = "ended"
  PROVE  event' \in {"not_configured", "auth_failed", "exhausted", "provider_error"}
<1>1. CASE EndUnauthenticated
  BY <1>1 DEF EndUnauthenticated, RefusalAnnounced
<1>2. CASE OpenRefused \/ OpenUnreachable \/ Exhausted
  BY <1>2 DEF OpenRefused, OpenUnreachable, Exhausted
<1>3. CASE ReceiveStops \/ DroppedByUs \/ Wake
  BY <1>3 DEF ReceiveStops, DroppedByUs, Wake
<1>4. CASE Stream \/ AuthenticateOk \/ AuthenticateFails \/ BackOff \/ AnnounceAttempt \/ Connect
  BY <1>4 DEF Stream, AuthenticateOk, AuthenticateFails, BackOff, AnnounceAttempt, Connect
<1>5. CASE OpenOk \/ ReportGap \/ NoGap \/ BeginResubscribe \/ ResubscribeOk \/ ResubscribeRaises
  BY <1>5 DEF OpenOk, ReportGap, NoGap, BeginResubscribe, ResubscribeOk, ResubscribeRaises
<1>6. CASE ReceiveTicks \/ ReceiveOther \/ ReceiveFails \/ Dropped
  BY <1>6 DEF ReceiveTicks, ReceiveOther, ReceiveFails, Dropped
<1>7. CASE Subscribe \/ Unsubscribe \/ Disconnect \/ Leave
  BY <1>7 DEF Subscribe, Unsubscribe, Disconnect, Leave
<1>8. CASE ConnectionLost \/ AdvanceClock \/ UNCHANGED vars
  BY <1>8 DEF ConnectionLost, AdvanceClock, vars
<1>9. QED
  BY <1>1, <1>2, <1>3, <1>4, <1>5, <1>6, <1>7, <1>8 DEF Next, Internal

(* A stream nobody stopped that ends without an exception has said why,    *)
(* whichever await it ends at and whatever other tasks did meanwhile.      *)
THEOREM EndingsAreExplained == Spec => EndedStreamExplains
<1>1. Init => RefusalAnnounced
  BY DEF Init, RefusalAnnounced
<1>2. RefusalAnnounced /\ [Next]_vars =>
        [(running /\ pc # "ended" /\ pc' = "ended") =>
           event' \in {"not_configured", "auth_failed", "exhausted", "provider_error"}]_vars
  BY EndingsExplain
<1>3. QED
  BY <1>1, <1>2, RefusalAnnouncedInductive, PTL DEF Spec, EndedStreamExplains
=============================================================================
