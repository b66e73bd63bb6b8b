---------------------------- MODULE MCSession -------------------------------
(* The instance of Session that TLC explores: the file picked up with one    *)
(* bid of two shares and one offer, a tick apart, from a venue that is free  *)
(* of price-time priority.  That venue can send all that the other can, and  *)
(* no property of the three programs asks which it is.                        *)
EXTENDS Session, TLC

AnyStray == Permutations(Missed)

MCOpeningBooks ==
  LET bid   == [locate |-> 1, side |-> "B", price |-> 2, shares |-> 2]
      offer == [locate |-> 1, side |-> "S", price |-> 3, shares |-> 1]
      first == Arrival([resting |-> <<>>, ahead |-> <<>>], 1, bid)
  IN {Arrival(first, 2, offer)}

\* The tracker, the sampling clock and the simulator share no state.  So strays
\* and late messages are explored apart from one another, under one of the
\* simulator's two rules and not in windows of two updates, which are there for
\* the fill that meets the close of its window.  One message at most comes late,
\* in a session of single-update windows that no trading action interrupts.
Late == now > MaxMessages - left
StrayTaken == strayed > 0 \/ ~(DOMAIN micro.live \subseteq Refs)
Explored ==
  /\ now <= (MaxMessages - left) + 3
  /\ Late \/ StrayTaken => ~rule4 /\ window # 2
  /\ Late => ~StrayTaken /\ window = 1 /\ \A l \in Locates : status[l] = "T"

MCSessionInit == SessionInit /\ ~priority /\ ~lag1
MCSessionSpec == MCSessionInit /\ [][SessionNext]_sessionVars
=============================================================================
