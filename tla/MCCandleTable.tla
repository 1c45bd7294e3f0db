--------------------------- MODULE MCCandleTable ---------------------------
(***************************************************************************)
(* Two or four minutes and the wider bars they make, for TLC.              *)
(***************************************************************************)
EXTENDS CandleTable, TLC

(* Versions are only compared with each other.                             *)
MCSymmetry == Permutations(Versions)

MCIntervals == <<"1m", "5m">>
MCLiveBars == {<<"1m", 0>>, <<"5m", 0>>}
MCWidth == [i \in {"1m", "5m"} |-> IF i = "1m" THEN 1 ELSE 2]
=============================================================================
