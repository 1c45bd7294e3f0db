----------------------- MODULE MCHistoricalIngestion -----------------------
(***************************************************************************)
(* Four minutes in two windows, and the two-minute bars they make.         *)
(***************************************************************************)
EXTENDS HistoricalIngestion, TLC

(* Versions are only compared with each other.                             *)
MCSymmetry == Permutations(Versions)

MCTwoIntervals == <<"1m", "5m">>
MCTwoWidths == [i \in {"1m", "5m"} |-> IF i = "1m" THEN 1 ELSE 2]
=============================================================================
