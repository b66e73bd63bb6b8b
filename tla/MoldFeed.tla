------------------------------ MODULE MoldFeed ------------------------------
(***************************************************************************)
(* One stream, packetised once, carried by two lines into one receiver:    *)
(* the A/B arbitration the receiver's header comment describes.            *)
(*                                                                         *)
(* The stream is MoldPacketizer's.  The lines are the network (external):  *)
(* each carries the packets in order, at its own pace; a lossy one may     *)
(* drop or spoil any of them; what went by, received or not, may still     *)
(* turn up late or be retransmitted, cut into packets differently, which   *)
(* is a duplicate, a reordering and an overlap.                            *)
(***************************************************************************)
EXTENDS MoldReceiver

CONSTANTS
  Last,       \* messages of the session
  PerPacket,  \* max_messages_per_packet
  Losses,     \* the sets of lines that may turn out to drop packets
  MaxLead,    \* how many packets a lossy line may be ahead of a lossless one
  MaxLate     \* bound of the model: packets that turn up late

Lines == {"A", "B"}

ASSUME FeedAssumption ==
  /\ Last \in Nat \ {0} /\ PerPacket \in Nat \ {0}
  /\ Losses \subseteq SUBSET Lines
  /\ {MaxLead, MaxLate} \subseteq Nat

VARIABLES
  lossy,   \* the lines that may drop packets in this session
  passed,  \* per line, the packets that went by, received or dropped
  late     \* how many packets turned up late

feedVars == <<lossy, passed, late>>
vars == <<moldVars, feedVars>>

----------------------------------------------------------------------------
(* MoldPacketizer::packetize                                               *)

DataPackets == (Last + PerPacket - 1) \div PerPacket

\* Packets after the data packets: the one that ends the session.
LastPacket == DataPackets + 1

\* A mutant: the sequence number counts packets and not messages.
FirstSeq_CountsPackets(n) == n

FirstSeq(n) == IF n <= DataPackets THEN (n - 1) * PerPacket + 1 ELSE Last + 1

PacketCount(n) ==
  IF n = LastPacket THEN EndOfSession
  ELSE IF n * PerPacket <= Last THEN PerPacket ELSE Last - (n - 1) * PerPacket

Nth(n) == [header |-> TRUE, ours |-> TRUE, whole |-> TRUE,
           seq |-> FirstSeq(n), count |-> PacketCount(n)]

----------------------------------------------------------------------------
Init == MoldInit /\ lossy \in Losses /\ passed = [l \in Lines |-> 0] /\ late = 0

\* A lossy line, which may have skipped what it passed, keeps within MaxLead
\* packets of the lossless ones.
InStep(l) == l \in lossy => \A m \in Lines \ lossy : passed[l] <= passed[m] + MaxLead

\* A line's next packet goes by.
GoesBy(l) ==
  /\ passed[l] < LastPacket
  /\ InStep(l)
  /\ passed' = [passed EXCEPT ![l] = @ + 1]
  /\ UNCHANGED <<lossy, late>>

Arrive(l) == GoesBy(l) /\ Receive(Nth(passed[l] + 1))

Drop(l) == l \in lossy /\ GoesBy(l) /\ UNCHANGED moldVars

\* A packet of a lossy line arrives spoilt: short of a header, of another
\* session, or with message blocks that overrun it.
Spoil(l) ==
  /\ l \in lossy /\ GoesBy(l)
  /\ \E field \in {"header", "ours", "whole"} :
       Receive([Nth(passed[l] + 1) EXCEPT ![field] = FALSE])

\* Messages that already went by arrive, again or after all; a retransmission
\* may hold up to two packets' worth.
ArriveLate(l) ==
  /\ late < MaxLate
  /\ \E n \in 1..passed[l] :
       \/ Receive(Nth(n))
       \/ \E last \in FirstSeq(n)..(FirstSeq(passed[l] + 1) - 1) :
            /\ last - FirstSeq(n) < 2 * PerPacket
            /\ Receive([Nth(n) EXCEPT !.count = last - FirstSeq(n) + 1])
  /\ late' = late + 1
  /\ UNCHANGED <<lossy, passed>>

\* A quiet line tells what it will send next.
Beat(l) ==
  /\ late < MaxLate
  /\ InStep(l)
  /\ Receive([header |-> TRUE, ours |-> TRUE, whole |-> TRUE,
              seq |-> IF passed[l] < LastPacket THEN FirstSeq(passed[l] + 1) ELSE Last + 1,
              count |-> 0])
  /\ late' = late + 1
  /\ UNCHANGED <<lossy, passed>>

Next == \E l \in Lines : Arrive(l) \/ Drop(l) \/ Spoil(l) \/ ArriveLate(l) \/ Beat(l)

\* A lossless line delivers what it carries.
Fairness == \A l \in Lines : WF_vars(l \notin lossy /\ Arrive(l))

Spec == Init /\ [][Next]_vars /\ Fairness

----------------------------------------------------------------------------
(* Properties.                                                             *)

Complete == /\ Len(handed) = Last
            /\ \A i \in 1..Last : handed[i].seq = i

\* With a lossless line the stream comes through whole, in the end.
ArrivesWhole == lossy # Lines => <>[](Complete /\ stats.saw_end_of_session)

\* test_moldudp64.cpp: "One line loses packets, the other does not.
\* Arbitration must cover the loss with no gap reported, which is the entire
\* reason a feed has two lines."
NoGapReported == lossy # Lines => ~stats.stale /\ told = <<>>

\* test_moldudp64.cpp: "a gap is always detected and never silently absorbed".
\* Once the session's end has arrived, what is missing has been reported.
GapsAreDetected ==
  stats.saw_end_of_session =>
    \A m \in 1..Last : HandedOver(m) \/ ReportedLost(m)
      \/ \E l \in Lines : passed[l] < LastPacket
=============================================================================
