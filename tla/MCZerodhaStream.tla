-------------------------- MODULE MCZerodhaStream --------------------------
(* ZerodhaStream for TLC: reconnect policies without a limit, with a limit *)
(* that the first failure exhausts, and with one that the second does.     *)
EXTENDS ZerodhaStream

MCLimits == {0, 1, 2}
MCBeyondLimits == 3
=============================================================================
