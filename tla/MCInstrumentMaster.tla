------------------------- MODULE MCInstrumentMaster -------------------------
(***************************************************************************)
(* Two runners and five dumps: one with a contract, one in which its token *)
(* is reissued to the next contract, two with both, under one token and    *)
(* under two, which are larger than the limit of a load, and one that      *)
(* names a symbol twice and cannot be used.                                *)
(***************************************************************************)
EXTENDS InstrumentMaster

CONSTANTS r1, r2, old, new, idx, t1, t2, t3

Of(symbol, token) == [symbol |-> symbol, token |-> token]

MCDumps ==
  {<<Of(idx, t3), Of(old, t1)>>,
   <<Of(idx, t3), Of(new, t1)>>,
   <<Of(idx, t3), Of(old, t1), Of(new, t1)>>,
   <<Of(idx, t3), Of(old, t1), Of(new, t2)>>,
   <<Of(idx, t3), Of(old, t1), Of(old, t2)>>}
=============================================================================
