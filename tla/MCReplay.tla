------------------------------ MODULE MCReplay ------------------------------
(* Bytes 1, 2 and 3 are message types: a system event of two bytes (1 1 is *)
(* 'C'), a message both books take, of one byte, and a message that is only *)
(* counted, of three; the others are none.  The venue is the one free of    *)
(* price-time priority, which can send all that the other can: nothing here *)
(* asks which it is.                                                       *)
EXTENDS Replay
MCBytes == 0..5
MCMsgLen == [b \in MCBytes |-> <<0, 2, 1, 3, 0, 0>>[b + 1]]
MCEnd == <<1, 1>>
MCSessions ==
  {<<<<1, 1>>>>, <<<<2>>, <<1, 1>>>>, <<<<3, 0, 2>>, <<1, 0>>, <<1, 1>>>>,
   <<<<2>>, <<3, 1, 1>>, <<2>>, <<1, 1>>>>}
MCBadLengths == {0, 1, 2, 3, 4, 5, 256}
MCOpeningBooks ==
  LET o(p, s) == [locate |-> 1, side |-> "B", price |-> p, shares |-> s]
  IN {[resting |-> <<>>, ahead |-> <<>>],
      [resting |-> <<o(1, 2), o(1, 2), o(2, 1)>>, ahead |-> <<{}, {1}, {}>>]}
MCReplayInit == ReplayInit /\ ~priority
MCReplaySpec == MCReplayInit /\ [][ReplayNext]_replayVars
=============================================================================
