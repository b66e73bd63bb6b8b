--------------------------- MODULE MCVenueSession ---------------------------
(* Two symbols, interchangeable: neither the gate nor the venue orders them. *)
EXTENDS VenueSession, TLC
AnySymbol == Permutations(Locates)
Venue(halts, overruns) == [halts_in_auction |-> halts, overruns_cap |-> overruns]
OrderlyOrNot == {Venue(FALSE, FALSE), Venue(TRUE, TRUE)}
Rehalting == {Venue(TRUE, FALSE)}
=============================================================================
