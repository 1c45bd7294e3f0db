---------------------------- MODULE FeedContract ----------------------------
(***************************************************************************)
(* What a consumer may rely on from a market-data stream (the rules at the *)
(* head of adapters/zerodha/provider.py): ticks arrive only while the feed *)
(* is up, and a feed that was lost does not deliver again before it has    *)
(* reported the gap.                                                       *)
(***************************************************************************)
VARIABLES
  feed,         (* "down", "up" or "over"                                   *)
  owed,         (* the feed was lost and no gap has been reported since     *)
  event         (* the last event the stream yielded                        *)

feedVars == <<feed, owed, event>>

Notices == {"none", "not_configured", "auth_succeeded", "auth_failed",
            "provider_error", "connect_attempt", "connected", "reconnected",
            "resubscribed", "stale", "message", "disconnected", "exhausted"}

Init == feed = "down" /\ owed = FALSE /\ event = "none"

Deliver == feed = "up" /\ event' = "ticks" /\ UNCHANGED <<feed, owed>>

Notice == event' \in Notices /\ UNCHANGED <<feed, owed>>

Lose == feed = "up" /\ feed' = "down" /\ owed' = TRUE /\ event' \in Notices

ReportGap ==
  /\ feed = "down" /\ owed
  /\ owed' = FALSE
  /\ event' = "gap"
  /\ UNCHANGED feed

Resume == feed = "down" /\ ~owed /\ feed' = "up" /\ event' \in Notices /\ UNCHANGED owed

End == feed' = "over" /\ event' \in Notices \cup {event} /\ owed' \in BOOLEAN

Next == Deliver \/ Notice \/ Lose \/ ReportGap \/ Resume \/ End

Spec == Init /\ [][Next]_feedVars
=============================================================================
