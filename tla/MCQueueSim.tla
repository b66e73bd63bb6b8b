---------------------------- MODULE MCQueueSim ------------------------------
(* The instances of QueueSim that TLC explores: sessions picked up with one   *)
(* bid of two shares at the inside and one offer, a second bid behind the     *)
(* first or not.                                                              *)
EXTENDS QueueSim

LOCAL INSTANCE SequencesExt

\* A book grown one arrival at a time, as <<reference, order>> pairs.
Grown(arrivals) ==
  FoldLeft(LAMBDA b, a : Arrival(b, a[1], a[2]), [resting |-> <<>>, ahead |-> <<>>], arrivals)

Bid(price, shares) == [locate |-> 1, side |-> "B", price |-> price, shares |-> shares]
Offer(price, shares) == [Bid(price, shares) EXCEPT !.side = "S"]

MCOpeningBooks ==
  {Grown(<< <<1, Bid(2, 2)>>, <<2, Offer(3, 1)>> >>),
   Grown(<< <<1, Bid(2, 2)>>, <<2, Offer(3, 1)>>, <<3, Bid(2, 1)>> >>)}
=============================================================================
