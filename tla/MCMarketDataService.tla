------------------------ MODULE MCMarketDataService ------------------------
(***************************************************************************)
(* Small instances of MarketDataService: minutes, and bars of two minutes. *)
(***************************************************************************)
EXTENDS MarketDataService

TwoMinutes == {2}
Untraded == -1
MixedVolumes == {Untraded, 1, 2}

AllEnvironments == {{"burst", "stop"},
                    {"burst", "gap", "fault"},
                    {"late", "gap", "fault"},
                    {"burst", "stop", "restart"}}
FaultyRepository == {{"burst", "fault"}}
=============================================================================
