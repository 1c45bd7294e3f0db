---------------------------- MODULE MCGvsUniverse ----------------------------
(***************************************************************************)
(* Four shortlisted securities for two slots, one of which may stay open.  *)
(* The files differ in their order and in where they tie; a security may   *)
(* be listed, not listed, listed twice, or under a new symbol.             *)
(***************************************************************************)
EXTENDS GvsUniverse, TLC

Four == 1 .. 4
Extra == {5}

Row(value, class) == [value |-> value, sessions |-> 1, class |-> class]
Shortlist(values, classes) == [s \in Four |-> Row(values[s], classes[s])]

AllOrdinary == <<"ordinary", "ordinary", "ordinary", "ordinary">>
FirstIsEtf == <<"etf", "ordinary", "ordinary", "ordinary">>
Shortlists ==
  {Shortlist(values, classes) :
     values \in {<<4, 3, 2, 1>>, <<1, 2, 3, 4>>, <<3, 2, 2, 1>>},
     classes \in {AllOrdinary, FirstIsEtf}}

NoChange == [s \in {} |-> 0]
ChangeFiles == {NoChange, 2 :> 5, 2 :> 3}

Listing(symbol, conforms) == [id |-> symbol, symbol |-> symbol, conforms |-> conforms]
Plain == {Listing(s, TRUE) : s \in Four}
Twice == [id |-> 6, symbol |-> 3, conforms |-> TRUE]
InstrumentMasters ==
  {Plain, Plain \cup {Twice}, Plain \ {Listing(1, TRUE)},
   (Plain \ {Listing(2, TRUE)}) \cup {Listing(5, TRUE)},
   (Plain \ {Listing(2, TRUE)}),
   (Plain \ {Listing(3, TRUE)}) \cup {Listing(3, FALSE)}}
=============================================================================
