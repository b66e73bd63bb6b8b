---------------------------- MODULE MoldReceiver ----------------------------
(***************************************************************************)
(* MoldReceiver::receive (moldudp64.hpp): sequencing, gap detection and    *)
(* first-arrival arbitration of MoldUDP64 packets.                         *)
(*                                                                         *)
(* The receiver does not know which line a packet came from, so its input  *)
(* here is any packet at any time.  One action per outcome of receive().   *)
(* MoldFeed composes it with a publisher and two lines.                    *)
(***************************************************************************)
EXTENDS Integers, Sequences

CONSTANTS
  SeqNumbers,  \* sequence numbers a packet may carry
  Counts,      \* message counts, EndOfSession (0xFFFF) among them
  MaxPackets   \* bound of the model: packets received

EndOfSession == 65535  \* kMoldEndOfSession

ASSUME MoldAssumption ==
  /\ SeqNumbers \subseteq Nat \ {0}
  /\ Counts \subseteq 0..EndOfSession
  /\ MaxPackets \in Nat

VARIABLES
  next_expected,  \* next_expected_
  stats,          \* MoldStats
  handed,         \* history: what on_mold_message was given, in order
  told            \* history: what on_gap was told, in order

moldVars == <<next_expected, stats, handed, told>>

(* A datagram, as far as receive() tells them apart: shorter than a header *)
(* or not, of the expected session or not, and whether its message blocks  *)
(* fit inside it.                                                          *)
Packet == [header : BOOLEAN, ours : BOOLEAN, whole : BOOLEAN,
           seq : SeqNumbers, count : Counts]

Stats == [packets : Nat, delivered : Nat, duplicates : Nat, heartbeats : Nat,
          malformed : Nat, wrong_session : Nat, gaps : Nat, messages_lost : Nat,
          messages_delivered : Nat, saw_end_of_session : BOOLEAN, stale : BOOLEAN]

MoldTypeOK ==
  /\ next_expected \in Nat \ {0}
  /\ stats \in Stats
  /\ handed \in Seq([seq : Nat, stale : BOOLEAN])
  /\ told \in Seq([from : Nat, to : Nat])

MoldInit ==
  /\ next_expected = 1
  /\ stats = [packets |-> 0, delivered |-> 0, duplicates |-> 0, heartbeats |-> 0,
              malformed |-> 0, wrong_session |-> 0, gaps |-> 0, messages_lost |-> 0,
              messages_delivered |-> 0, saw_end_of_session |-> FALSE, stale |-> FALSE]
  /\ handed = <<>>
  /\ told = <<>>

----------------------------------------------------------------------------
\* Where the receiver stands after it has looked at a packet's sequence number.
Resume(seq) == IF seq > next_expected THEN seq ELSE next_expected

\* A mutant: a gap that is counted and does not mark the stream stale.
GapNoted_NotStale(s, seq) ==
  IF seq > next_expected
  THEN [s EXCEPT !.gaps = @ + 1, !.messages_lost = @ + (seq - next_expected)]
  ELSE s

\* note_gap(), where the sequence jumped forward.
GapNoted(s, seq) ==
  IF seq > next_expected
  THEN [s EXCEPT !.gaps = @ + 1, !.messages_lost = @ + (seq - next_expected),
                 !.stale = TRUE]
  ELSE s

GapTold(seq) ==
  IF seq > next_expected THEN Append(told, [from |-> next_expected, to |-> seq]) ELSE told

Counted(s) == [s EXCEPT !.packets = @ + 1]

TooShort(p) ==
  /\ ~p.header
  /\ stats' = [Counted(stats) EXCEPT !.malformed = @ + 1]
  /\ UNCHANGED <<next_expected, handed, told>>

WrongSession(p) ==
  /\ p.header /\ ~p.ours
  /\ stats' = [Counted(stats) EXCEPT !.wrong_session = @ + 1]
  /\ UNCHANGED <<next_expected, handed, told>>

\* The end-of-session packet's sequence number is not looked at.
SessionEnds(p) ==
  /\ p.header /\ p.ours /\ p.count = EndOfSession
  /\ stats' = [Counted(stats) EXCEPT !.saw_end_of_session = TRUE]
  /\ UNCHANGED <<next_expected, handed, told>>

Heartbeat(p) ==
  /\ p.header /\ p.ours /\ p.count = 0
  /\ stats' = [GapNoted(Counted(stats), p.seq) EXCEPT !.heartbeats = @ + 1]
  /\ next_expected' = Resume(p.seq)
  /\ told' = GapTold(p.seq)
  /\ UNCHANGED handed

Data(p) == p.header /\ p.ours /\ p.count \notin {0, EndOfSession}

\* A mutant: off by one, the last message of a packet is not looked for.
AlreadyDelivered_OffByOne(p) == p.seq + p.count <= next_expected + 1

\* The packet's whole range lies below the expectation.
AlreadyDelivered(p) == p.seq + p.count <= next_expected

Duplicate(p) ==
  /\ Data(p) /\ AlreadyDelivered(p)
  /\ stats' = [Counted(stats) EXCEPT !.duplicates = @ + 1]
  /\ UNCHANGED <<next_expected, handed, told>>

\* A mutant: the expectation moves past a packet nothing was delivered of.
Overrun_MovesOn(p) ==
  /\ Data(p) /\ ~AlreadyDelivered(p) /\ ~p.whole
  /\ stats' = [GapNoted(Counted(stats), p.seq) EXCEPT !.malformed = @ + 1]
  /\ next_expected' = p.seq + p.count
  /\ told' = GapTold(p.seq)
  /\ UNCHANGED handed

\* Nothing of a packet that overruns its datagram is delivered, but the gap
\* before it has been noted by then.
Overrun(p) ==
  /\ Data(p) /\ ~AlreadyDelivered(p) /\ ~p.whole
  /\ stats' = [GapNoted(Counted(stats), p.seq) EXCEPT !.malformed = @ + 1]
  /\ next_expected' = Resume(p.seq)
  /\ told' = GapTold(p.seq)
  /\ UNCHANGED handed

\* A mutant: a packet that overlaps what was delivered is replayed whole.
FirstFresh_Replays(p) == p.seq

\* The first message of the packet that is at or beyond the expectation.
FirstFresh(p) == Resume(p.seq)

\* The messages the loop of receive() hands over, in order.
Fresh(p, stale) ==
  [i \in 1..(p.seq + p.count - FirstFresh(p)) |->
     [seq |-> FirstFresh(p) + i - 1, stale |-> stale]]

Deliver(p) ==
  LET s     == GapNoted(Counted(stats), p.seq)
      fresh == Fresh(p, s.stale)
  IN /\ Data(p) /\ ~AlreadyDelivered(p) /\ p.whole
     /\ handed' = handed \o fresh
     /\ stats' = [s EXCEPT !.messages_delivered = @ + Len(fresh), !.delivered = @ + 1]
     /\ next_expected' = p.seq + p.count
     /\ told' = GapTold(p.seq)

Receive(p) ==
  \/ TooShort(p) \/ WrongSession(p) \/ SessionEnds(p) \/ Heartbeat(p)
  \/ Duplicate(p) \/ Overrun(p) \/ Deliver(p)

MoldNext == \E p \in Packet : stats.packets < MaxPackets /\ Receive(p)

MoldSpec == MoldInit /\ [][MoldNext]_moldVars

----------------------------------------------------------------------------
(* Properties.                                                             *)

\* The accounting of the loss-injection test: the expectation is exactly what
\* was delivered plus what was reported lost.
LostPlusDelivered ==
  stats.messages_lost + stats.messages_delivered = next_expected - 1

\* Whatever order packets arrive in, and however they overlap, messages reach
\* the handler in sequence and no message reaches it twice.
InOrderOnce ==
  \A i, j \in 1..Len(handed) : i < j => handed[i].seq < handed[j].seq

\* Below the expectation every message was either handed over or reported to
\* on_gap as lost, and never both.
HandedOver(m) == \E i \in 1..Len(handed) : handed[i].seq = m
ReportedLost(m) == \E g \in 1..Len(told) : told[g].from <= m /\ m < told[g].to
NothingSilentlyAbsorbed ==
  /\ \A m \in 1..next_expected - 1 : HandedOver(m) <=> ~ReportedLost(m)
  /\ \A i \in 1..Len(handed) : handed[i].seq \in 1..next_expected - 1

\* A message is flagged stale exactly when some message before it was lost, so
\* that a book is marked from the first gap on and not before.
FlaggedFromTheFirstGap ==
  /\ \A i \in 1..Len(handed) :
       handed[i].stale <=> \E g \in 1..Len(told) : told[g].from < handed[i].seq
  /\ stats.stale <=> told # <<>>
=============================================================================
