-------------------------- MODULE TransportProofs ---------------------------
(***************************************************************************)
(* How messages get to the books: off the network, in datagrams that are   *)
(* lost and repeated, and from the parser's thread to the book's, through  *)
(* the ring.  Two specifications that share no variable, with one promise: *)
(* what is handed over is what was sent, in order and once.                *)
(***************************************************************************)
EXTENDS MoldFeed, SpscRing, SequenceTheorems, TLAPS

----------------------------------------------------------------------------
(* The receiver: whatever packets arrive, in whatever order, nothing below *)
(* the expectation is unaccounted for.                                     *)
(*                                                                         *)
(* A packet does two things, note a gap and hand messages over, so the     *)
(* invariant is stated over an expectation and two histories, and each of  *)
(* the two is shown to preserve it.                                        *)
(*                                                                         *)
(* The two lines of MoldFeed bring packets like any other; what is added   *)
(* for them is where each of their packets begins, and that a line which   *)
(* loses nothing keeps the expectation level with both.                    *)

Message == [seq : Nat, stale : BOOLEAN]
Hole == [from : Nat, to : Nat]

Handed(h, m) == \E i \in 1..Len(h) : h[i].seq = m
Reported(t, m) == \E g \in 1..Len(t) : t[g].from <= m /\ m < t[g].to

HistoryOK(n, h, t) ==
  /\ n \in Nat \ {0} /\ h \in Seq(Message) /\ t \in Seq(Hole)
  /\ \A g \in 1..Len(t) : 1 <= t[g].from /\ t[g].from < t[g].to /\ t[g].to <= n
  /\ \A i \in 1..Len(h) : h[i].seq \in 1..n - 1
  /\ \A i, j \in 1..Len(h) : i < j => h[i].seq < h[j].seq
  /\ \A m \in 1..n - 1 : Handed(h, m) <=> ~Reported(t, m)
  /\ \A i \in 1..Len(h) : h[i].stale <=> \E g \in 1..Len(t) : t[g].from < h[i].seq

\* What HistoryOK says of one reported hole.
LEMMA HolesAreSound ==
  ASSUME NEW n, NEW h, NEW t, HistoryOK(n, h, t), NEW g \in 1..Len(t)
  PROVE  /\ t[g].from \in Nat /\ t[g].to \in Nat
         /\ 1 <= t[g].from /\ t[g].from < t[g].to /\ t[g].to <= n
<1>1. t \in Seq(Hole) /\ 1 <= t[g].from /\ t[g].from < t[g].to /\ t[g].to <= n
  BY DEF HistoryOK
<1>2. t[g] \in Hole
  BY <1>1, ElementOfSeq
<1> QED BY <1>1, <1>2 DEF Hole

\* note_gap(): the jump is reported, and so is every message inside it.
LEMMA GapSound ==
  ASSUME NEW n, NEW h, NEW t, HistoryOK(n, h, t), NEW s \in Nat, s > n
  PROVE  HistoryOK(s, h, Append(t, [from |-> n, to |-> s]))
<1> DEFINE u == Append(t, [from |-> n, to |-> s])
<1>1. /\ n \in Nat \ {0} /\ h \in Seq(Message) /\ t \in Seq(Hole)
      /\ Len(t) \in Nat /\ Len(h) \in Nat
  BY DEF HistoryOK
<1>2. /\ u \in Seq(Hole) /\ Len(u) = Len(t) + 1
      /\ u[Len(t) + 1].from = n /\ u[Len(t) + 1].to = s
      /\ \A g \in 1..Len(t) : u[g] = t[g]
  <2>1. [from |-> n, to |-> s] \in Hole
    BY <1>1 DEF Hole
  <2> QED BY <1>1, <2>1
<1> HIDE DEF u
<1>3. \A g \in 1..Len(u) : g = Len(t) + 1 \/ g \in 1..Len(t)
  BY <1>1, <1>2
<1>4. \A g \in 1..Len(u) : 1 <= u[g].from /\ u[g].from < u[g].to /\ u[g].to <= s
  <2> SUFFICES ASSUME NEW g \in 1..Len(u)
               PROVE  1 <= u[g].from /\ u[g].from < u[g].to /\ u[g].to <= s
    OBVIOUS
  <2>1. CASE g = Len(t) + 1
    BY <1>1, <1>2, <2>1
  <2>2. CASE g \in 1..Len(t)
    <3>1. /\ t[g].from \in Nat /\ t[g].to \in Nat
          /\ 1 <= t[g].from /\ t[g].from < t[g].to /\ t[g].to <= n
      BY <2>2, HolesAreSound
    <3>2. u[g] = t[g]
      BY <1>2, <2>2
    <3> QED BY <1>1, <3>1, <3>2
  <2> QED BY <1>3, <2>1, <2>2
<1>5. \A i \in 1..Len(h) : h[i].seq \in 1..s - 1 /\ h[i].seq < n
  BY <1>1 DEF HistoryOK
<1>6. \A m \in 1..s - 1 : Handed(h, m) <=> ~Reported(u, m)
  <2> SUFFICES ASSUME NEW m \in 1..s - 1 PROVE Handed(h, m) <=> ~Reported(u, m)
    OBVIOUS
  <2>1. CASE m < n
    <3>1. Reported(u, m) <=> Reported(t, m)
      BY <1>1, <1>2, <1>3, <2>1, SMTT(60) DEF Reported
    <3> QED BY <1>1, <2>1, <3>1 DEF HistoryOK
  <2>2. CASE m >= n
    <3>1. Reported(u, m)
      <4>1. Len(t) + 1 \in 1..Len(u) /\ u[Len(t) + 1].from <= m /\ m < u[Len(t) + 1].to
        BY <1>1, <1>2, <2>2
      <4> QED BY <4>1 DEF Reported
    <3>2. ~Handed(h, m)
      BY <1>1, <1>5, <2>2 DEF Handed
    <3> QED BY <3>1, <3>2
  <2> QED BY <1>1, <2>1, <2>2
<1>7. \A i \in 1..Len(h) : h[i].stale <=> \E g \in 1..Len(u) : u[g].from < h[i].seq
  <2> SUFFICES ASSUME NEW i \in 1..Len(h)
               PROVE  h[i].stale <=> \E g \in 1..Len(u) : u[g].from < h[i].seq
    OBVIOUS
  <2>1. h[i].stale <=> \E g \in 1..Len(t) : t[g].from < h[i].seq
    BY DEF HistoryOK
  <2>2. ~(u[Len(t) + 1].from < h[i].seq)
    BY <1>1, <1>2, <1>5
  <2>3. \A g \in 1..Len(t) : g \in 1..Len(u) /\ u[g] = t[g]
    BY <1>1, <1>2
  <2> QED BY <1>3, <2>1, <2>2, <2>3
<1>8. \A i, j \in 1..Len(h) : i < j => h[i].seq < h[j].seq
  BY DEF HistoryOK
<1> QED BY <1>1, <1>2, <1>4, <1>5, <1>6, <1>7, <1>8, SMTT(60) DEF HistoryOK, u

\* The delivery loop: the next k messages, flagged if there is a hole at all.
LEMMA HandSound ==
  ASSUME NEW n, NEW h, NEW t, HistoryOK(n, h, t), NEW k \in Nat,
         NEW b \in BOOLEAN, b <=> t # <<>>,
         NEW f \in Seq(Message), Len(f) = k,
         \A i \in 1..k : f[i].seq = n + i - 1 /\ f[i].stale = b
  PROVE  HistoryOK(n + k, h \o f, t)
<1> DEFINE e == h \o f
<1>1. /\ n \in Nat \ {0} /\ h \in Seq(Message) /\ t \in Seq(Hole)
      /\ Len(t) \in Nat /\ Len(h) \in Nat
  BY DEF HistoryOK
<1>2. /\ e \in Seq(Message) /\ Len(e) = Len(h) + k
      /\ \A i \in 1..Len(h) + k : e[i] = IF i <= Len(h) THEN h[i] ELSE f[i - Len(h)]
  BY <1>1, ConcatProperties
<1> HIDE DEF e
<1>3. \A i \in 1..Len(h) : i \in 1..Len(e) /\ e[i] = h[i] /\ h[i].seq \in 1..n - 1
  <2>1. \A i \in 1..Len(h) : h[i].seq \in 1..n - 1
    BY DEF HistoryOK
  <2>2. \A i \in 1..Len(h) : i \in 1..Len(h) + k /\ i <= Len(h)
    BY <1>1
  <2> QED BY <1>2, <2>1, <2>2
<1>4. \A i \in 1..Len(e) :
        i \notin 1..Len(h) => /\ i - Len(h) \in 1..k
                              /\ e[i].seq = n + (i - Len(h)) - 1 /\ e[i].stale = b
  <2> SUFFICES ASSUME NEW i \in 1..Len(e), i \notin 1..Len(h)
               PROVE  /\ i - Len(h) \in 1..k
                      /\ e[i].seq = n + (i - Len(h)) - 1 /\ e[i].stale = b
    OBVIOUS
  <2>1. i - Len(h) \in 1..k /\ i \in 1..Len(h) + k /\ ~(i <= Len(h))
    BY <1>1, <1>2
  <2>2. e[i] = f[i - Len(h)]
    BY <1>2, <2>1
  <2> QED BY <2>1, <2>2
<1>5. \A i \in 1..Len(e) : e[i].seq \in 1..(n + k) - 1
  <2> SUFFICES ASSUME NEW i \in 1..Len(e) PROVE e[i].seq \in 1..(n + k) - 1
    OBVIOUS
  <2>1. CASE i \in 1..Len(h)
    BY <1>1, <1>3, <2>1
  <2>2. CASE i \notin 1..Len(h)
    BY <1>1, <1>2, <1>4, <2>2, SMTT(60)
  <2> QED BY <2>1, <2>2
<1>6. \A i, j \in 1..Len(e) : i < j => e[i].seq < e[j].seq
  <2> SUFFICES ASSUME NEW i \in 1..Len(e), NEW j \in 1..Len(e), i < j
               PROVE  e[i].seq < e[j].seq
    OBVIOUS
  <2>1. CASE j \in 1..Len(h)
    <3>1. i \in 1..Len(h) /\ h[i].seq < h[j].seq
      BY <1>1, <1>2, <2>1 DEF HistoryOK
    <3> QED BY <1>3, <2>1, <3>1
  <2>2. CASE j \notin 1..Len(h) /\ i \in 1..Len(h)
    <3>1. e[i].seq <= n - 1 /\ e[i].seq \in Nat
      BY <1>1, <1>3, <2>2
    <3>2. e[j].seq >= n /\ e[j].seq \in Nat
      <4>1. j - Len(h) \in 1..k /\ e[j].seq = n + (j - Len(h)) - 1
        BY <1>4, <2>2
      <4> QED BY <1>1, <4>1
    <3> QED BY <1>1, <3>1, <3>2
  <2>3. CASE j \notin 1..Len(h) /\ i \notin 1..Len(h)
    BY <1>1, <1>2, <1>4, <2>3, SMTT(60)
  <2> QED BY <1>1, <1>2, <2>1, <2>2, <2>3
<1>7. \A m \in 1..(n + k) - 1 : Handed(e, m) <=> ~Reported(t, m)
  <2> SUFFICES ASSUME NEW m \in 1..(n + k) - 1 PROVE Handed(e, m) <=> ~Reported(t, m)
    OBVIOUS
  <2>1. CASE m < n
    <3>1. Handed(e, m) <=> Handed(h, m)
      <4>1. \A i \in 1..Len(e) : e[i].seq = m => i \in 1..Len(h)
        BY <1>1, <1>2, <1>4, <2>1
      <4> QED BY <1>3, <4>1 DEF Handed
    <3> QED BY <1>1, <2>1, <3>1 DEF HistoryOK
  <2>2. CASE m >= n
    <3>1. Handed(e, m)
      <4> DEFINE i == Len(h) + (m - n + 1)
      <4>1. i \in 1..Len(e) /\ i \notin 1..Len(h) /\ n + (i - Len(h)) - 1 = m
        BY <1>1, <1>2, <2>2
      <4>2. e[i].seq = m
        BY <1>4, <4>1
      <4> QED BY <4>1, <4>2 DEF Handed
    <3>2. ~Reported(t, m)
      <4>1. \A g \in 1..Len(t) : t[g].to \in Nat /\ t[g].to <= n
        BY HolesAreSound
      <4>2. m \in Nat /\ n \in Nat /\ m >= n
        BY <1>1, <2>2
      <4>3. \A g \in 1..Len(t) : ~(m < t[g].to)
        BY ONLY <4>1, <4>2
      <4> QED BY ONLY <4>3 DEF Reported
    <3> QED BY <3>1, <3>2
  <2> QED BY <1>1, <2>1, <2>2
<1>8. \A i \in 1..Len(e) : e[i].stale <=> \E g \in 1..Len(t) : t[g].from < e[i].seq
  <2> SUFFICES ASSUME NEW i \in 1..Len(e)
               PROVE  e[i].stale <=> \E g \in 1..Len(t) : t[g].from < e[i].seq
    OBVIOUS
  <2>1. CASE i \in 1..Len(h)
    <3>1. h[i].stale <=> \E g \in 1..Len(t) : t[g].from < h[i].seq
      BY <2>1 DEF HistoryOK
    <3>2. e[i] = h[i]
      BY <1>3, <2>1
    <3> QED BY <3>1, <3>2
  <2>2. CASE i \notin 1..Len(h)
    <3>1. e[i].seq \in Nat /\ e[i].seq >= n /\ e[i].stale = b
      BY <1>1, <1>2, <1>4, <2>2
    <3>2. \A g \in 1..Len(t) : t[g].from < e[i].seq
      <4> SUFFICES ASSUME NEW g \in 1..Len(t) PROVE t[g].from < e[i].seq
        OBVIOUS
      <4>1. /\ t[g].from \in Nat /\ t[g].to \in Nat
            /\ t[g].from < t[g].to /\ t[g].to <= n
        BY HolesAreSound
      <4>2. n \in Nat /\ e[i].seq \in Nat /\ e[i].seq >= n
        BY <1>1, <3>1
      <4> QED BY ONLY <4>1, <4>2
    <3>3. b <=> \E g \in 1..Len(t) : TRUE
      <4>1. t # <<>> <=> Len(t) # 0
        BY <1>1, EmptySeq
      <4> QED BY <1>1, <4>1
    <3> QED BY <3>1, <3>2, <3>3
  <2> QED BY <2>1, <2>2
<1>9. /\ n + k \in Nat \ {0}
      /\ \A g \in 1..Len(t) : 1 <= t[g].from /\ t[g].from < t[g].to /\ t[g].to <= n + k
  <2>1. \A g \in 1..Len(t) : /\ t[g].to \in Nat
                             /\ 1 <= t[g].from /\ t[g].from < t[g].to /\ t[g].to <= n
    BY HolesAreSound
  <2> QED BY <1>1, <2>1
<1>10. HistoryOK(n + k, e, t)
  BY ONLY <1>1, <1>2, <1>5, <1>6, <1>7, <1>8, <1>9 DEF HistoryOK
<1> QED BY <1>10 DEF e

----------------------------------------------------------------------------
(* The invariant of the receiver.                                          *)

IInv ==
  /\ HistoryOK(next_expected, handed, told)
  /\ stats \in Stats
  /\ LostPlusDelivered
  /\ stats.stale <=> told # <<>>

\* The counters of a receipt.
LEMMA GapCounted ==
  ASSUME NEW c \in Stats, NEW d \in Nat,
         NEW s, s = [c EXCEPT !.gaps = @ + 1, !.messages_lost = @ + d, !.stale = TRUE]
  PROVE  /\ s \in Stats /\ s.messages_lost = c.messages_lost + d
         /\ s.messages_delivered = c.messages_delivered /\ s.stale = TRUE
<1>1. /\ c.gaps + 1 \in Nat /\ c.messages_lost + d \in Nat
  BY DEF Stats
<1> QED BY <1>1 DEF Stats

LEMMA DeliveryCounted ==
  ASSUME NEW c \in Stats, NEW k \in Nat,
         NEW s, s = [c EXCEPT !.messages_delivered = @ + k, !.delivered = @ + 1]
  PROVE  /\ s \in Stats /\ s.messages_lost = c.messages_lost
         /\ s.messages_delivered = c.messages_delivered + k /\ s.stale = c.stale
         /\ c.messages_lost \in Nat /\ c.messages_delivered \in Nat
<1>1. /\ c.messages_delivered + k \in Nat /\ c.delivered + 1 \in Nat
      /\ c.messages_lost \in Nat /\ c.messages_delivered \in Nat
  BY DEF Stats
<1> QED BY <1>1 DEF Stats

\* What noting a gap, or finding none, leaves for the rest of receive().
LEMMA AfterGap ==
  ASSUME IInv, NEW seq \in Nat
  PROVE  LET s == GapNoted(Counted(stats), seq)
         IN /\ HistoryOK(Resume(seq), handed, GapTold(seq))
            /\ s \in Stats
            /\ s.messages_lost + s.messages_delivered = Resume(seq) - 1
            /\ s.stale <=> GapTold(seq) # <<>>
<1> DEFINE c == Counted(stats)
           s == GapNoted(c, seq)
<1>1. /\ next_expected \in Nat \ {0} /\ told \in Seq(Hole)
      /\ HistoryOK(next_expected, handed, told)
  BY DEF IInv, HistoryOK
<1>2. /\ c \in Stats /\ c.messages_lost = stats.messages_lost /\ c.stale = stats.stale
      /\ c.messages_delivered = stats.messages_delivered
      /\ stats.messages_lost \in Nat /\ stats.messages_delivered \in Nat
  BY SMTT(60) DEF IInv, Counted, Stats
<1> HIDE DEF c
<1>3. CASE seq > next_expected
  <2>1. HistoryOK(seq, handed, Append(told, [from |-> next_expected, to |-> seq]))
    BY <1>1, <1>3, GapSound
  <2>2. Append(told, [from |-> next_expected, to |-> seq]) # <<>>
    <3>1. [from |-> next_expected, to |-> seq] \in Hole
      BY <1>1 DEF Hole
    <3> QED BY <1>1, <3>1
  <2>3. /\ Resume(seq) = seq
        /\ GapTold(seq) = Append(told, [from |-> next_expected, to |-> seq])
        /\ s = [c EXCEPT !.gaps = @ + 1, !.messages_lost = @ + (seq - next_expected),
                         !.stale = TRUE]
    BY <1>3 DEF Resume, GapTold, GapNoted
  <2>4. seq - next_expected \in Nat
    BY <1>1, <1>3
  <2>5. /\ s \in Stats /\ s.messages_lost = stats.messages_lost + (seq - next_expected)
        /\ s.messages_delivered = stats.messages_delivered /\ s.stale = TRUE
    <3> DEFINE d == seq - next_expected
    <3>1. /\ s = [c EXCEPT !.gaps = @ + 1, !.messages_lost = @ + d, !.stale = TRUE]
          /\ d \in Nat
      BY <2>3, <2>4
    <3>2. c \in Stats
      BY <1>2
    <3> HIDE DEF s, d
    <3>3. /\ s \in Stats /\ s.messages_lost = c.messages_lost + d
          /\ s.messages_delivered = c.messages_delivered /\ s.stale = TRUE
      BY <3>1, <3>2, GapCounted
    <3> QED BY <1>2, <3>3 DEF d
  <2>6. stats.messages_lost + stats.messages_delivered = next_expected - 1
    BY DEF IInv, LostPlusDelivered
  <2>7. s.messages_lost + s.messages_delivered = Resume(seq) - 1
    BY ONLY <1>1, <1>2, <2>3, <2>5, <2>6, seq \in Nat
  <2>8. GapTold(seq) # <<>>
    BY <2>2, <2>3
  <2> QED BY <2>1, <2>3, <2>5, <2>7, <2>8 DEF c
<1>4. CASE ~(seq > next_expected)
  <2>1. Resume(seq) = next_expected /\ GapTold(seq) = told /\ s = c
    BY <1>4 DEF Resume, GapTold, GapNoted
  <2>2. /\ c.messages_lost + c.messages_delivered = next_expected - 1
        /\ c.stale <=> told # <<>>
    BY <1>2 DEF IInv, LostPlusDelivered
  <2> QED BY <1>1, <1>2, <2>1, <2>2 DEF c
<1> QED BY <1>3, <1>4

\* Receipts that change nothing but counters of their own.
LEMMA QuietReceipt ==
  ASSUME IInv, NEW s \in Stats, stats' = s,
         s.messages_lost = stats.messages_lost, s.stale = stats.stale,
         s.messages_delivered = stats.messages_delivered,
         UNCHANGED <<next_expected, handed, told>>
  PROVE  IInv'
<1>1. HistoryOK(next_expected', handed', told')
  BY DEF IInv
<1>2. HistoryOK(next_expected, handed, told)'
  BY <1>1 DEF HistoryOK, Handed, Reported
<1> QED BY <1>2 DEF IInv, LostPlusDelivered

\* Receipts that note a gap, if there is one, and hand nothing over.
LEMMA GapOnlyReceipt ==
  ASSUME IInv, NEW seq \in Nat, NEW s \in Stats, stats' = s,
         s.messages_lost = GapNoted(Counted(stats), seq).messages_lost,
         s.messages_delivered = GapNoted(Counted(stats), seq).messages_delivered,
         s.stale = GapNoted(Counted(stats), seq).stale,
         next_expected' = Resume(seq), told' = GapTold(seq), handed' = handed
  PROVE  IInv'
<1>1. HistoryOK(next_expected', handed', told')
  BY AfterGap
<1>2. HistoryOK(next_expected, handed, told)'
  BY <1>1 DEF HistoryOK, Handed, Reported
<1>3. /\ s.messages_lost + s.messages_delivered = Resume(seq) - 1
      /\ s.stale <=> GapTold(seq) # <<>>
  BY AfterGap
<1> QED BY <1>2, <1>3 DEF IInv, LostPlusDelivered

LEMMA DeliverSound ==
  ASSUME IInv, NEW p, p.seq \in Nat, p.count \in Nat, Deliver(p)
  PROVE  IInv'
<1> DEFINE s == GapNoted(Counted(stats), p.seq)
           n == Resume(p.seq)
           t == GapTold(p.seq)
           k == p.seq + p.count - n
           f == Fresh(p, s.stale)
<1>1. p.seq \in Nat /\ p.count \in Nat
  OBVIOUS
<1>2. /\ HistoryOK(n, handed, t) /\ s \in Stats
      /\ s.messages_lost + s.messages_delivered = n - 1
      /\ s.stale <=> t # <<>>
  BY <1>1, AfterGap
<1>3. n \in Nat \ {0} /\ n >= next_expected /\ n >= p.seq /\ next_expected \in Nat
  <2>1. next_expected \in Nat \ {0}
    BY DEF IInv, HistoryOK
  <2> QED BY <1>1, <2>1 DEF Resume
<1>4. k \in Nat /\ n + k = p.seq + p.count
  <2>1. next_expected < p.seq + p.count
    BY <1>1, <1>3 DEF Deliver, AlreadyDelivered
  <2>2. n <= p.seq + p.count
    BY <1>1, <1>3, <2>1 DEF Resume
  <2> QED BY <1>1, <1>3, <2>2
<1>5. /\ handed' = handed \o f /\ next_expected' = n + k /\ told' = t
      /\ stats' = [s EXCEPT !.messages_delivered = @ + Len(f), !.delivered = @ + 1]
  BY <1>4 DEF Deliver
<1>6. f = [i \in 1..k |-> [seq |-> n + i - 1, stale |-> s.stale]]
  BY DEF Fresh, FirstFresh
<1>7. s.stale \in BOOLEAN
  BY <1>2 DEF Stats
<1> HIDE DEF s, n, t, k, f
<1>8. /\ f \in Seq(Message) /\ Len(f) = k
      /\ \A i \in 1..k : f[i].seq = n + i - 1 /\ f[i].stale = s.stale
  <2>1. \A i \in 1..k : [seq |-> n + i - 1, stale |-> s.stale] \in Message
    BY <1>3, <1>4, <1>7 DEF Message
  <2>2. f \in [1..k -> Message]
    BY ONLY <1>6, <2>1
  <2>3. \A i \in 1..k : f[i] = [seq |-> n + i - 1, stale |-> s.stale]
    BY ONLY <1>6
  <2> QED BY ONLY <1>4, <2>2, <2>3
<1>9. HistoryOK(n + k, handed \o f, t)
  BY ONLY <1>2, <1>4, <1>7, <1>8, HandSound
<1>10. HistoryOK(next_expected, handed, told)'
  <2>1. HistoryOK(next_expected', handed', told')
    BY <1>5, <1>9
  <2> QED BY <2>1 DEF HistoryOK, Handed, Reported
<1>11. /\ stats' \in Stats /\ stats'.messages_lost = s.messages_lost
       /\ stats'.messages_delivered = s.messages_delivered + k /\ stats'.stale = s.stale
       /\ s.messages_lost \in Nat /\ s.messages_delivered \in Nat
  <2>1. stats' = [s EXCEPT !.messages_delivered = @ + k, !.delivered = @ + 1]
    BY <1>5, <1>8
  <2> QED BY <1>2, <1>4, <2>1, DeliveryCounted, ZenonT(60)
<1>12. stats'.messages_lost + stats'.messages_delivered = next_expected' - 1
  <2>1. next_expected' = n + k
    BY <1>5
  <2>2. /\ s.messages_lost + s.messages_delivered = n - 1
        /\ n \in Nat /\ k \in Nat
    BY <1>2, <1>3, <1>4
  <2> QED BY ONLY <1>11, <2>1, <2>2, SMTT(60)
<1> QED BY <1>2, <1>5, <1>10, <1>11, <1>12 DEF IInv, LostPlusDelivered

LEMMA ReceiveSound ==
  ASSUME IInv, NEW p, p.seq \in Nat, p.count \in Nat, Receive(p)
  PROVE  IInv'
<1>1. p.seq \in Nat
  OBVIOUS
<1> DEFINE c == Counted(stats)
<1>2. /\ c \in Stats /\ c.messages_lost = stats.messages_lost /\ c.stale = stats.stale
      /\ c.messages_delivered = stats.messages_delivered
  BY SMTT(60) DEF IInv, Counted, Stats
<1>7. GapNoted(Counted(stats), p.seq) \in Stats
  BY <1>1, AfterGap
<1>3. CASE TooShort(p)
  <2> HIDE DEF c
  <2> DEFINE s == [c EXCEPT !.malformed = @ + 1]
  <2>1. /\ s \in Stats /\ s.messages_lost = stats.messages_lost /\ s.stale = stats.stale
        /\ s.messages_delivered = stats.messages_delivered
    BY <1>2 DEF Stats
  <2>2. stats' = s /\ UNCHANGED <<next_expected, handed, told>>
    BY <1>3 DEF TooShort, c
  <2> HIDE DEF s
  <2> QED BY <2>1, <2>2, QuietReceipt
<1>4. CASE WrongSession(p)
  <2> HIDE DEF c
  <2> DEFINE s == [c EXCEPT !.wrong_session = @ + 1]
  <2>1. /\ s \in Stats /\ s.messages_lost = stats.messages_lost /\ s.stale = stats.stale
        /\ s.messages_delivered = stats.messages_delivered
    BY <1>2 DEF Stats
  <2>2. stats' = s /\ UNCHANGED <<next_expected, handed, told>>
    BY <1>4 DEF WrongSession, c
  <2> HIDE DEF s
  <2> QED BY <2>1, <2>2, QuietReceipt
<1>5. CASE SessionEnds(p)
  <2> HIDE DEF c
  <2> DEFINE s == [c EXCEPT !.saw_end_of_session = TRUE]
  <2>1. /\ s \in Stats /\ s.messages_lost = stats.messages_lost /\ s.stale = stats.stale
        /\ s.messages_delivered = stats.messages_delivered
    BY <1>2 DEF Stats
  <2>2. stats' = s /\ UNCHANGED <<next_expected, handed, told>>
    BY <1>5 DEF SessionEnds, c
  <2> HIDE DEF s
  <2> QED BY <2>1, <2>2, QuietReceipt
<1>6. CASE Duplicate(p)
  <2> HIDE DEF c
  <2> DEFINE s == [c EXCEPT !.duplicates = @ + 1]
  <2>1. /\ s \in Stats /\ s.messages_lost = stats.messages_lost /\ s.stale = stats.stale
        /\ s.messages_delivered = stats.messages_delivered
    BY <1>2 DEF Stats
  <2>2. stats' = s /\ UNCHANGED <<next_expected, handed, told>>
    BY <1>6 DEF Duplicate, c
  <2> HIDE DEF s
  <2> QED BY <2>1, <2>2, QuietReceipt
<1>8. CASE Heartbeat(p)
  BY <1>1, <1>7, <1>8, GapOnlyReceipt DEF Heartbeat, Stats
<1>9. CASE Overrun(p)
  BY <1>1, <1>7, <1>9, GapOnlyReceipt DEF Overrun, Stats
<1>10. CASE Deliver(p)
  BY <1>10, DeliverSound
<1> QED BY <1>3, <1>4, <1>5, <1>6, <1>8, <1>9, <1>10 DEF Receive

LEMMA PacketFields ==
  ASSUME NEW p \in Packet
  PROVE  p.seq \in Nat /\ p.count \in Nat
<1>1. p.seq \in SeqNumbers /\ p.count \in Counts
  BY DEF Packet
<1>2. \A i \in Counts : i \in 0..EndOfSession
  BY MoldAssumption
<1>3. EndOfSession \in Nat
  BY DEF EndOfSession
<1>4. p.count \in Nat
  BY <1>1, <1>2, <1>3
<1> QED BY <1>1, <1>4, MoldAssumption

LEMMA InitIInv == MoldInit => IInv
<1> SUFFICES ASSUME MoldInit PROVE IInv
  OBVIOUS
<1>1. handed = <<>> /\ told = <<>> /\ next_expected = 1
  BY DEF MoldInit
<1>2. HistoryOK(1, <<>>, <<>>)
  BY DEF HistoryOK
<1>3. stats \in Stats /\ ~stats.stale
  BY DEF MoldInit, Stats
<1>4. LostPlusDelivered
  BY DEF MoldInit, LostPlusDelivered
<1> QED BY <1>1, <1>2, <1>3, <1>4 DEF IInv

LEMMA ReceiverRests ==
  ASSUME IInv, UNCHANGED moldVars
  PROVE  IInv'
<1>1. stats \in Stats /\ stats' = stats /\ UNCHANGED <<next_expected, handed, told>>
  BY DEF IInv, moldVars
<1> QED BY <1>1, QuietReceipt

LEMMA ReceiverInvariant == MoldSpec => []IInv
<1>1. IInv /\ [MoldNext]_moldVars => IInv'
  <2>1. ASSUME IInv, MoldNext PROVE IInv'
    BY <2>1, ReceiveSound, PacketFields DEF MoldNext
  <2>2. ASSUME IInv, UNCHANGED moldVars PROVE IInv'
    BY <2>2, ReceiverRests
  <2> QED BY <2>1, <2>2
<1> QED BY <1>1, InitIInv, PTL DEF MoldSpec

\* Exactly once and in order, however packets overlap, repeat or come late: the
\* loop of receive() starts at the first message beyond the expectation
\* (InOrderOnce).
THEOREM MessagesComeInOrderOnce == MoldSpec => []InOrderOnce
<1>1. IInv => InOrderOnce
  BY DEF IInv, InOrderOnce, HistoryOK
<1> QED BY <1>1, ReceiverInvariant, PTL

\* What is below the expectation was handed over or reported to on_gap, never
\* both and never neither (NothingSilentlyAbsorbed), and the statistics of the
\* receiver add up to it (LostPlusDelivered).
THEOREM ReceiverKeepsItsWord ==
  MoldSpec => [](MoldTypeOK /\ LostPlusDelivered /\ NothingSilentlyAbsorbed)
<1>1. IInv => MoldTypeOK /\ LostPlusDelivered /\ NothingSilentlyAbsorbed
  <2> SUFFICES ASSUME IInv
               PROVE  MoldTypeOK /\ LostPlusDelivered /\ NothingSilentlyAbsorbed
    OBVIOUS
  <2>1. HistoryOK(next_expected, handed, told)
    BY DEF IInv
  <2>2. MoldTypeOK
    BY <2>1 DEF MoldTypeOK, HistoryOK, IInv, Message, Hole
  <2>3. NothingSilentlyAbsorbed
    BY <2>1 DEF NothingSilentlyAbsorbed, HistoryOK, HandedOver, ReportedLost, Handed, Reported
  <2> QED BY <2>2, <2>3 DEF IInv
<1> QED BY <1>1, ReceiverInvariant, PTL

\* A message carries the stale flag exactly when a loss came before it, so a
\* consumer marks its book from the first gap on (FlaggedFromTheFirstGap; the
\* flag note_gap() sets before the message is handed over).
THEOREM StaleFromTheFirstGap == MoldSpec => []FlaggedFromTheFirstGap
<1>1. IInv => FlaggedFromTheFirstGap
  BY DEF IInv, FlaggedFromTheFirstGap, HistoryOK
<1> QED BY <1>1, ReceiverInvariant, PTL

----------------------------------------------------------------------------
(* The packetizer's arithmetic: its data packets follow one another with   *)
(* no message between them or in two of them.                              *)

LEMMA Products ==
  ASSUME NEW i \in Int, NEW j \in Int, i <= j, NEW k \in Nat
  PROVE  i * k \in Int /\ j * k \in Int /\ i * k <= j * k
<1>1. j - i \in Nat /\ j = i + (j - i)
  OBVIOUS
<1>2. PICK d \in Nat : d = j - i
  BY <1>1
<1>3. j = i + d
  BY <1>2
<1>4. (i + d) * k = i * k + d * k /\ d * k >= 0 /\ i * k \in Int /\ d * k \in Int
  BY SMT
<1> QED BY <1>3, <1>4

LEMMA Cut ==
  /\ DataPackets \in Nat \ {0}
  /\ (DataPackets - 1) * PerPacket < Last
  /\ Last <= DataPackets * PerPacket
<1>1. Last \in Nat \ {0} /\ PerPacket \in Nat \ {0}
  BY FeedAssumption
<1> DEFINE x == Last + PerPacket - 1
           d == x \div PerPacket
           r == x % PerPacket
<1>2. x \in Nat /\ x >= PerPacket
  BY <1>1
<1>3. r \in 0..PerPacket - 1 /\ d \in Int /\ x = PerPacket * d + r
  <2> HIDE DEF x
  <2> QED BY <1>1, <1>2, SMT
<1>4. x = Last + PerPacket - 1 /\ d = DataPackets
  BY DEF DataPackets
<1> HIDE DEF x, d, r
<1>5. PICK w \in Int : w = PerPacket * d
  BY <1>1, <1>3
<1>6. d * PerPacket = w /\ (d - 1) * PerPacket = w - PerPacket
  BY <1>1, <1>3, <1>5, SMT
<1>7. w - PerPacket < Last /\ Last <= w
  BY <1>1, <1>2, <1>3, <1>4, <1>5
<1>8. d >= 1
  <2>1. w > 0
    BY <1>1, <1>7
  <2>2. d <= 0 => PerPacket * d <= 0
    BY <1>1, <1>3, SMT
  <2> QED BY <1>3, <1>5, <2>1, <2>2
<1> QED BY <1>3, <1>4, <1>6, <1>7, <1>8

\* Where the packets begin, one after the other.
LEMMA FirstSeqRises ==
  /\ \A n \in 1..LastPacket + 1 : FirstSeq(n) \in 1..Last + 1
  /\ \A n, m \in 1..LastPacket + 1 : n <= m => FirstSeq(n) <= FirstSeq(m)
  /\ FirstSeq(1) = 1
  /\ FirstSeq(LastPacket) = Last + 1 /\ FirstSeq(LastPacket + 1) = Last + 1
<1>1. /\ Last \in Nat \ {0} /\ PerPacket \in Nat \ {0} /\ DataPackets \in Nat \ {0}
      /\ LastPacket = DataPackets + 1
  BY FeedAssumption, Cut DEF LastPacket
<1>2. \A n \in 1..DataPackets :
        /\ (n - 1) * PerPacket \in Nat /\ (n - 1) * PerPacket < Last
  <2> SUFFICES ASSUME NEW n \in 1..DataPackets
               PROVE  (n - 1) * PerPacket \in Nat /\ (n - 1) * PerPacket < Last
    OBVIOUS
  <2>1. n - 1 \in Nat /\ n - 1 <= DataPackets - 1 /\ DataPackets - 1 \in Int
    BY <1>1
  <2>2. /\ (n - 1) * PerPacket <= (DataPackets - 1) * PerPacket
        /\ (n - 1) * PerPacket \in Int /\ (DataPackets - 1) * PerPacket \in Int
    BY <1>1, <2>1, Products
  <2>3. 0 * PerPacket <= (n - 1) * PerPacket /\ 0 * PerPacket = 0
    BY <1>1, <2>1, Products
  <2> QED BY <1>1, <2>2, <2>3, Cut
<1>3. \A n \in 1..LastPacket + 1 :
        /\ FirstSeq(n) \in 1..Last + 1
        /\ n > DataPackets => FirstSeq(n) = Last + 1
        /\ n <= DataPackets =>
             n \in 1..DataPackets /\ FirstSeq(n) = (n - 1) * PerPacket + 1
  BY <1>1, <1>2 DEF FirstSeq
<1>4. ASSUME NEW n \in 1..LastPacket + 1, NEW m \in 1..LastPacket + 1, n <= m
      PROVE  FirstSeq(n) <= FirstSeq(m)
  <2>1. CASE m > DataPackets
    <3>1. FirstSeq(m) = Last + 1 /\ FirstSeq(n) \in 1..Last + 1
      BY <1>3, <2>1
    <3> QED BY <1>1, <3>1
  <2>2. CASE m <= DataPackets
    <3>1. /\ FirstSeq(n) = (n - 1) * PerPacket + 1
          /\ FirstSeq(m) = (m - 1) * PerPacket + 1
      BY <1>1, <1>3, <1>4, <2>2
    <3>2. /\ (n - 1) * PerPacket \in Int /\ (m - 1) * PerPacket \in Int
          /\ (n - 1) * PerPacket <= (m - 1) * PerPacket
      <4>1. n - 1 \in Int /\ m - 1 \in Int /\ n - 1 <= m - 1
        BY <1>1, <1>4
      <4> QED BY <1>1, <4>1, Products
    <3> QED BY ONLY <3>1, <3>2
  <2> QED BY <1>1, <2>1, <2>2
<1>5. FirstSeq(1) = 1
  BY <1>1, <1>3
<1> QED BY <1>1, <1>3, <1>4, <1>5

\* What a packet carries reaches up to where the next one begins.
LEMMA PacketsMeet ==
  /\ \A n \in 1..LastPacket : PacketCount(n) \in Nat
  /\ \A n \in 1..DataPackets :
       /\ PacketCount(n) \in 1..PerPacket
       /\ FirstSeq(n) + PacketCount(n) = FirstSeq(n + 1)
<1>1. /\ Last \in Nat \ {0} /\ PerPacket \in Nat \ {0} /\ DataPackets \in Nat \ {0}
      /\ LastPacket = DataPackets + 1 /\ EndOfSession \in Nat
  BY FeedAssumption, Cut DEF LastPacket, EndOfSession
<1>2. ASSUME NEW n \in 1..DataPackets
      PROVE  /\ PacketCount(n) \in 1..PerPacket
             /\ FirstSeq(n) + PacketCount(n) = FirstSeq(n + 1)
  <2>1. PICK w \in Int : w = (n - 1) * PerPacket
    BY <1>1
  <2>2. n * PerPacket = w + PerPacket
    BY <1>1, <2>1, SMT
  <2>3. n # LastPacket /\ n \in Nat /\ n <= DataPackets
    BY <1>1
  <2>4. /\ FirstSeq(n) = w + 1 /\ FirstSeq(n) \in 1..Last + 1
    BY <1>1, <2>1, <2>3, FirstSeqRises DEF FirstSeq
  <2>5. FirstSeq(n + 1) = IF n + 1 <= DataPackets THEN w + PerPacket + 1 ELSE Last + 1
    <3>1. (n + 1) - 1 = n
      BY <2>3
    <3> QED BY <2>2, <3>1 DEF FirstSeq
  <2>6. PacketCount(n) = IF w + PerPacket <= Last THEN PerPacket ELSE Last - w
    BY <2>1, <2>2, <2>3 DEF PacketCount
  <2>7. CASE n = DataPackets
    <3>1. w < Last /\ Last <= w + PerPacket
      BY <2>1, <2>2, <2>7, Cut
    <3>2. FirstSeq(n + 1) = Last + 1
      BY <1>1, <2>5, <2>7
    <3> QED BY ONLY <1>1, <2>1, <2>4, <2>6, <3>1, <3>2
  <2>8. CASE n < DataPackets
    <3>1. FirstSeq(n + 1) = w + PerPacket + 1
      BY <1>1, <2>3, <2>5, <2>8
    <3>2. FirstSeq(n + 1) <= Last
      <4>1. n <= DataPackets - 1 /\ DataPackets - 1 \in Int /\ n \in Int
        BY <1>1, <2>3, <2>8
      <4>2. /\ n * PerPacket <= (DataPackets - 1) * PerPacket
            /\ n * PerPacket \in Int /\ (DataPackets - 1) * PerPacket \in Int
        BY <1>1, <4>1, Products
      <4> QED BY <1>1, <2>1, <2>2, <3>1, <4>2, Cut
    <3>3. w + PerPacket <= Last
      BY <1>1, <2>1, <3>1, <3>2
    <3> QED BY ONLY <1>1, <2>1, <2>4, <2>6, <3>1, <3>3
  <2> QED BY <1>1, <2>3, <2>7, <2>8
<1>3. PacketCount(LastPacket) = EndOfSession
  BY DEF PacketCount
<1>4. \A n \in 1..LastPacket : n = LastPacket \/ n \in 1..DataPackets
  BY <1>1
<1>5. \A n \in 1..LastPacket : PacketCount(n) \in Nat
  BY <1>1, <1>2, <1>3, <1>4
<1> QED BY <1>2, <1>5

----------------------------------------------------------------------------
(* Two lines.  Every packet the lines can bring has a sequence number and  *)
(* a count, so what the receiver keeps to whatever arrives it keeps to     *)
(* here.                                                                   *)

Passing ==
  /\ lossy \subseteq Lines
  /\ passed \in [Lines -> 0..LastPacket]

LEMMA LinesFacts ==
  ASSUME Passing
  PROVE  /\ Last \in Nat \ {0} /\ PerPacket \in Nat \ {0} /\ LastPacket \in Nat
         /\ LastPacket = DataPackets + 1 /\ DataPackets \in Nat \ {0}
         /\ \A l \in Lines : /\ passed[l] \in 0..LastPacket
                             /\ passed[l] + 1 \in 1..LastPacket + 1
<1>1. /\ Last \in Nat \ {0} /\ PerPacket \in Nat \ {0} /\ LastPacket \in Nat
      /\ LastPacket = DataPackets + 1 /\ DataPackets \in Nat \ {0}
  BY FeedAssumption, Cut DEF LastPacket
<1>2. \A l \in Lines : passed[l] \in 0..LastPacket
  BY DEF Passing
<1> QED BY <1>1, <1>2

\* Every step of the lines is one of these to the receiver: nothing, or a
\* packet that begins with one of the line's that went by or, while the line is
\* in step, with its next.
Brings(l, p) ==
  /\ p.seq \in Nat /\ p.count \in Nat
  /\ \E n \in 1..LastPacket + 1 :
       /\ p.seq = FirstSeq(n)
       /\ n <= passed[l] \/ (n = passed[l] + 1 /\ InStep(l))
  /\ Receive(p)

LEMMA NthFields ==
  ASSUME NEW n \in 1..LastPacket
  PROVE  /\ Nth(n).seq = FirstSeq(n) /\ Nth(n).count = PacketCount(n)
         /\ Nth(n).seq \in Nat /\ Nth(n).count \in Nat
<1>1. n \in 1..LastPacket + 1
  BY Cut DEF LastPacket
<1>2. FirstSeq(n) \in Nat /\ PacketCount(n) \in Nat
  <2>1. FirstSeq(n) \in 1..Last + 1 /\ Last \in Nat
    BY <1>1, FirstSeqRises, FeedAssumption
  <2> QED BY <2>1, PacketsMeet
<1> QED BY <1>2 DEF Nth

LEMMA ArriveBrings ==
  ASSUME Passing, NEW l \in Lines, Arrive(l)
  PROVE  /\ passed[l] + 1 \in 1..LastPacket
         /\ Brings(l, Nth(passed[l] + 1))
<1>1. /\ passed[l] + 1 \in 1..LastPacket /\ passed[l] + 1 \in 1..LastPacket + 1
      /\ InStep(l)
  BY LinesFacts DEF Arrive, GoesBy
<1>2. Receive(Nth(passed[l] + 1))
  BY DEF Arrive
<1> QED BY <1>1, <1>2, NthFields DEF Brings

LEMMA SpoilBrings ==
  ASSUME Passing, NEW l \in Lines, Spoil(l)
  PROVE  \E p : Brings(l, p)
<1>1. /\ passed[l] + 1 \in 1..LastPacket /\ passed[l] + 1 \in 1..LastPacket + 1
      /\ InStep(l)
  BY LinesFacts DEF Spoil, GoesBy
<1>2. PICK field \in {"header", "ours", "whole"} :
        Receive([Nth(passed[l] + 1) EXCEPT ![field] = FALSE])
  BY DEF Spoil
<1>3. PICK p : p = [Nth(passed[l] + 1) EXCEPT ![field] = FALSE]
  OBVIOUS
<1>4. p.seq = Nth(passed[l] + 1).seq /\ p.count = Nth(passed[l] + 1).count
  <2>1. CASE field = "header"
    BY <1>3, <2>1 DEF Nth
  <2>2. CASE field = "ours"
    BY <1>3, <2>2 DEF Nth
  <2>3. CASE field = "whole"
    BY <1>3, <2>3 DEF Nth
  <2> QED BY <2>1, <2>2, <2>3
<1>5. Brings(l, p)
  BY <1>1, <1>2, <1>3, <1>4, NthFields DEF Brings
<1> QED BY <1>5

LEMMA LateBrings ==
  ASSUME Passing, NEW l \in Lines, ArriveLate(l)
  PROVE  \E p : Brings(l, p)
<1>1. PICK n \in 1..passed[l] :
        \/ Receive(Nth(n))
        \/ \E last \in FirstSeq(n)..(FirstSeq(passed[l] + 1) - 1) :
             Receive([Nth(n) EXCEPT !.count = last - FirstSeq(n) + 1])
  BY DEF ArriveLate
<1>2. /\ n \in 1..LastPacket /\ n \in 1..LastPacket + 1 /\ n <= passed[l]
      /\ passed[l] + 1 \in 1..LastPacket + 1
  BY LinesFacts
<1>3. /\ Nth(n).seq = FirstSeq(n) /\ Nth(n).seq \in Nat /\ Nth(n).count \in Nat
      /\ FirstSeq(n) \in Nat
  BY <1>2, NthFields
<1>4. CASE Receive(Nth(n))
  <2>1. Brings(l, Nth(n))
    BY <1>2, <1>3, <1>4 DEF Brings
  <2> QED BY <2>1
<1>5. ASSUME NEW last \in FirstSeq(n)..(FirstSeq(passed[l] + 1) - 1),
             Receive([Nth(n) EXCEPT !.count = last - FirstSeq(n) + 1])
      PROVE  \E p : Brings(l, p)
  <2>1. PICK p : p = [Nth(n) EXCEPT !.count = last - FirstSeq(n) + 1]
    OBVIOUS
  <2>2. p.seq = FirstSeq(n) /\ p.count = last - FirstSeq(n) + 1
    BY <2>1 DEF Nth
  <2>3. last - FirstSeq(n) + 1 \in Nat
    <3>1. FirstSeq(passed[l] + 1) \in 1..Last + 1 /\ Last \in Nat
      BY <1>2, FirstSeqRises, FeedAssumption
    <3> QED BY <1>3, <3>1
  <2>4. Brings(l, p)
    BY <1>2, <1>3, <1>5, <2>1, <2>2, <2>3 DEF Brings
  <2> QED BY <2>4
<1> QED BY <1>1, <1>4, <1>5

LEMMA BeatBrings ==
  ASSUME Passing, NEW l \in Lines, Beat(l)
  PROVE  \E p : Brings(l, p)
<1> DEFINE s == IF passed[l] < LastPacket THEN FirstSeq(passed[l] + 1) ELSE Last + 1
<1>1. PICK p : p = [header |-> TRUE, ours |-> TRUE, whole |-> TRUE, seq |-> s, count |-> 0]
  OBVIOUS
<1>2. Receive(p) /\ InStep(l)
  BY <1>1 DEF Beat
<1>3. passed[l] + 1 \in 1..LastPacket + 1 /\ passed[l] \in 0..LastPacket /\ LastPacket \in Nat
  BY LinesFacts
<1>4. s = FirstSeq(passed[l] + 1)
  <2>1. CASE passed[l] < LastPacket
    BY <2>1
  <2>2. CASE ~(passed[l] < LastPacket)
    <3>1. passed[l] = LastPacket
      BY <1>3, <2>2
    <3> QED BY <2>2, <3>1, FirstSeqRises
  <2> QED BY <2>1, <2>2
<1>5. s \in Nat
  BY <1>3, <1>4, FirstSeqRises, FeedAssumption
<1> HIDE DEF s
<1>6. p.seq = s /\ p.count = 0
  BY <1>1
<1>7. Brings(l, p)
  BY <1>2, <1>3, <1>4, <1>5, <1>6 DEF Brings
<1> QED BY <1>7

\* How far the lines are.
LEMMA PassingKept ==
  ASSUME Passing, [Next]_vars
  PROVE  Passing'
<1>1. ASSUME NEW l \in Lines, GoesBy(l) PROVE Passing'
  <2>1. passed[l] + 1 \in 0..LastPacket
    BY <1>1, LinesFacts DEF GoesBy
  <2> QED BY <1>1, <2>1 DEF GoesBy, Passing, LastPacket, DataPackets
<1>2. ASSUME UNCHANGED <<lossy, passed>> PROVE Passing'
  BY <1>2 DEF Passing, LastPacket, DataPackets
<1>3. CASE UNCHANGED vars
  BY <1>2, <1>3 DEF vars, feedVars
<1>4. ASSUME NEW l \in Lines,
             Arrive(l) \/ Drop(l) \/ Spoil(l) \/ ArriveLate(l) \/ Beat(l)
      PROVE  Passing'
  BY <1>1, <1>2, <1>4 DEF Arrive, Drop, Spoil, ArriveLate, Beat
<1> QED BY <1>3, <1>4 DEF Next

FeedIInv == Passing /\ IInv

LEMMA FeedStep ==
  ASSUME FeedIInv, [Next]_vars
  PROVE  FeedIInv'
<1>1. Passing'
  BY PassingKept DEF FeedIInv
<1>2. ASSUME NEW l \in Lines, NEW p, Brings(l, p) PROVE IInv'
  BY <1>2, ReceiveSound DEF FeedIInv, Brings
<1>3. CASE UNCHANGED vars
  <2>1. UNCHANGED moldVars
    BY <1>3 DEF vars
  <2> QED BY <1>1, <2>1, ReceiverRests DEF FeedIInv
<1>4. ASSUME NEW l \in Lines,
             Arrive(l) \/ Drop(l) \/ Spoil(l) \/ ArriveLate(l) \/ Beat(l)
      PROVE  IInv'
  <2>1. CASE Arrive(l)
    <3>1. Brings(l, Nth(passed[l] + 1))
      BY <2>1, ArriveBrings DEF FeedIInv
    <3> QED BY <1>2, <3>1
  <2>2. CASE Drop(l)
    BY <2>2, ReceiverRests DEF FeedIInv, Drop
  <2>3. CASE Spoil(l)
    BY <1>2, <2>3, SpoilBrings DEF FeedIInv
  <2>4. CASE ArriveLate(l)
    BY <1>2, <2>4, LateBrings DEF FeedIInv
  <2>5. CASE Beat(l)
    BY <1>2, <2>5, BeatBrings DEF FeedIInv
  <2> QED BY <1>4, <2>1, <2>2, <2>3, <2>4, <2>5
<1> QED BY <1>1, <1>3, <1>4 DEF FeedIInv, Next

LEMMA FeedInit == Init => FeedIInv
<1> SUFFICES ASSUME Init PROVE FeedIInv
  OBVIOUS
<1>1. lossy \subseteq Lines
  BY FeedAssumption DEF Init
<1>2. 0 \in 0..LastPacket
  BY Cut DEF LastPacket
<1> QED BY <1>1, <1>2, InitIInv DEF Init, FeedIInv, Passing

LEMMA FeedInvariant == Spec => []FeedIInv
<1> QED BY FeedInit, FeedStep, PTL DEF Spec

\* Two lines that lose, spoil, repeat and delay what they carry, however far one
\* is ahead of the other: the receiver still hands over in sequence and once,
\* accounts for everything below the expectation and flags what follows a gap
\* (InOrderOnce, NothingSilentlyAbsorbed, FlaggedFromTheFirstGap).
THEOREM ArbitrationKeepsItsWord ==
  Spec => [](InOrderOnce /\ NothingSilentlyAbsorbed /\ FlaggedFromTheFirstGap)
<1>1. FeedIInv => InOrderOnce /\ FlaggedFromTheFirstGap
  BY DEF FeedIInv, IInv, HistoryOK, InOrderOnce, FlaggedFromTheFirstGap
<1>2. FeedIInv => NothingSilentlyAbsorbed
  BY DEF FeedIInv, IInv, NothingSilentlyAbsorbed, HistoryOK, HandedOver, ReportedLost,
         Handed, Reported
<1> QED BY <1>1, <1>2, FeedInvariant, PTL

----------------------------------------------------------------------------
(* A line that loses nothing covers the other's losses.                    *)

\* A packet that begins no later than the expectation opens no gap, and one
\* that is delivered moves the expectation past its last message.
LEMMA NoJump ==
  ASSUME IInv, NEW p, p.seq \in Nat, p.count \in Nat, Receive(p),
         p.seq <= next_expected
  PROVE  /\ told' = told /\ stats'.stale = stats.stale
         /\ next_expected' \in Nat /\ next_expected <= next_expected'
         /\ Data(p) /\ p.whole => p.seq + p.count <= next_expected'
<1> DEFINE c == Counted(stats)
<1>1. next_expected \in Nat /\ ~(p.seq > next_expected)
  BY DEF IInv, HistoryOK
<1>2. c \in Stats /\ c.stale = stats.stale
  BY SMTT(60) DEF IInv, Counted, Stats
<1>3. /\ Resume(p.seq) = next_expected /\ GapTold(p.seq) = told
      /\ GapNoted(c, p.seq) = c
  BY <1>1 DEF Resume, GapTold, GapNoted
<1> HIDE DEF c
<1>4. CASE TooShort(p)
  BY <1>1, <1>2, <1>4 DEF TooShort, Data, Stats, c
<1>5. CASE WrongSession(p)
  BY <1>1, <1>2, <1>5 DEF WrongSession, Data, Stats, c
<1>6. CASE SessionEnds(p)
  BY <1>1, <1>2, <1>6 DEF SessionEnds, Data, Stats, c
<1>7. CASE Heartbeat(p)
  BY <1>1, <1>2, <1>3, <1>7 DEF Heartbeat, Data, Stats, c
<1>8. CASE Duplicate(p)
  BY <1>1, <1>2, <1>8 DEF Duplicate, AlreadyDelivered, Stats, c
<1>9. CASE Overrun(p)
  BY <1>1, <1>2, <1>3, <1>9 DEF Overrun, Stats, c
<1>10. CASE Deliver(p)
  <2> DEFINE k == Len(Fresh(p, GapNoted(Counted(stats), p.seq).stale))
  <2>1. /\ next_expected' = p.seq + p.count /\ told' = GapTold(p.seq)
        /\ stats' = [c EXCEPT !.messages_delivered = @ + k, !.delivered = @ + 1]
        /\ ~(p.seq + p.count <= next_expected)
    BY <1>3, <1>10 DEF Deliver, AlreadyDelivered, c
  <2> HIDE DEF k
  <2>2. stats'.stale = c.stale
    BY <1>2, <2>1 DEF Stats
  <2> QED BY <1>1, <1>2, <1>3, <2>1, <2>2
<1> QED BY <1>4, <1>5, <1>6, <1>7, <1>8, <1>9, <1>10 DEF Receive

\* What has come over a lossless line has come, so that neither line can be
\* ahead of the expectation by a whole packet.
Covered ==
  \A m \in Lines \ lossy :
    /\ told = <<>> /\ ~stats.stale
    /\ FirstSeq(passed[m] + 1) <= next_expected
    /\ \A l \in lossy : passed[l] <= passed[m] + 1

\* No packet that a line brings begins beyond the expectation.
LEMMA NothingBeyond ==
  ASSUME FeedIInv, Covered, MaxLead = 0, NEW m \in Lines \ lossy,
         NEW l \in Lines, NEW p, Brings(l, p)
  PROVE  p.seq <= next_expected
<1>1. PICK n \in 1..LastPacket + 1 :
        p.seq = FirstSeq(n) /\ (n <= passed[l] \/ (n = passed[l] + 1 /\ InStep(l)))
  BY DEF Brings
<1>2. /\ LastPacket \in Nat /\ passed[l] \in 0..LastPacket
      /\ \A x \in Lines : passed[x] \in 0..LastPacket /\ passed[x] + 1 \in 1..LastPacket + 1
  BY LinesFacts DEF FeedIInv
<1>3. PICK x \in Lines \ lossy : n <= passed[x] + 1
  <2>1. CASE l \in lossy
    <3>1. passed[l] <= passed[m] + 1 /\ passed[m] \in Nat
      BY <1>2, <2>1 DEF Covered
    <3>2. InStep(l) => passed[l] <= passed[m] + 0
      BY <2>1 DEF InStep
    <3> QED BY <1>1, <1>2, <3>1, <3>2
  <2>2. CASE l \notin lossy
    BY <1>1, <1>2, <2>2
  <2> QED BY <2>1, <2>2
<1>4. FirstSeq(n) <= FirstSeq(passed[x] + 1)
  BY <1>2, <1>3, FirstSeqRises
<1>5. FirstSeq(passed[x] + 1) <= next_expected
  BY <1>3 DEF Covered
<1>6. /\ FirstSeq(n) \in Int /\ FirstSeq(passed[x] + 1) \in Int /\ next_expected \in Int
  <2>1. /\ FirstSeq(n) \in 1..Last + 1 /\ FirstSeq(passed[x] + 1) \in 1..Last + 1
        /\ Last \in Nat
    BY <1>2, FirstSeqRises, FeedAssumption
  <2> QED BY <2>1 DEF FeedIInv, IInv, HistoryOK
<1> QED BY <1>1, <1>4, <1>5, <1>6

\* A packet that arrives leaves nothing behind the line's next.
LEMMA ArrivesInFull ==
  ASSUME FeedIInv, PerPacket < EndOfSession, NEW l \in Lines, Arrive(l),
         FirstSeq(passed[l] + 1) <= next_expected
  PROVE  FirstSeq(passed[l] + 2) <= next_expected'
<1> DEFINE n == passed[l] + 1
           p == Nth(n)
<1>1. n \in 1..LastPacket /\ Brings(l, p) /\ n + 1 = passed[l] + 2
  <2>1. passed[l] \in 0..LastPacket
    BY LinesFacts DEF FeedIInv
  <2> QED BY <2>1, ArriveBrings DEF FeedIInv
<1>2. /\ p.seq = FirstSeq(n) /\ p.count = PacketCount(n) /\ p.seq \in Nat /\ p.count \in Nat
      /\ p.header /\ p.ours /\ p.whole
  BY <1>1, NthFields DEF Nth
<1>3. Receive(p) /\ p.seq <= next_expected
  BY <1>1, <1>2 DEF Brings
<1> HIDE DEF p, n
<1>4. /\ next_expected' \in Nat /\ next_expected <= next_expected'
      /\ Data(p) /\ p.whole => p.seq + p.count <= next_expected'
  BY <1>2, <1>3, NoJump DEF FeedIInv
<1>5. /\ LastPacket = DataPackets + 1 /\ DataPackets \in Nat
      /\ PerPacket \in Nat /\ EndOfSession \in Nat
      /\ next_expected \in Nat /\ Last \in Nat
  BY LinesFacts DEF FeedIInv, EndOfSession, IInv, HistoryOK
<1>6. CASE n \in 1..DataPackets
  <2>1. PacketCount(n) \in 1..PerPacket /\ FirstSeq(n) + PacketCount(n) = FirstSeq(n + 1)
    BY <1>6, PacketsMeet
  <2>2. p.count # 0 /\ p.count # EndOfSession
    BY <1>2, <1>5, <2>1
  <2>3. Data(p)
    BY <1>2, <2>2 DEF Data
  <2> QED BY <1>1, <1>2, <1>4, <2>1, <2>3
<1>7. CASE n = LastPacket
  <2>1. FirstSeq(n) = Last + 1 /\ FirstSeq(n + 1) = Last + 1
    BY <1>7, FirstSeqRises
  <2> QED BY <1>1, <1>2, <1>3, <1>4, <1>5, <2>1
<1> QED BY <1>1, <1>5, <1>6, <1>7

LEMMA CoveredKept ==
  ASSUME FeedIInv, Covered, MaxLead = 0, PerPacket < EndOfSession, [Next]_vars
  PROVE  Covered'
<1>1. /\ \A x \in Lines : passed[x] \in 0..LastPacket
      /\ LastPacket \in Nat /\ next_expected \in Nat
      /\ passed \in [Lines -> 0..LastPacket] /\ lossy \subseteq Lines
  BY LinesFacts DEF FeedIInv, Passing, IInv, HistoryOK
<1>2. \A n : FirstSeq(n)' = FirstSeq(n)
  BY DEF FirstSeq, DataPackets
<1>3. \A x \in Lines : FirstSeq(passed[x] + 1) \in Nat
  <2>1. \A x \in Lines : passed[x] + 1 \in 1..LastPacket + 1
    BY LinesFacts DEF FeedIInv
  <2> QED BY <2>1, FirstSeqRises, FeedAssumption
<1>4. lossy' = lossy
  BY DEF Next, vars, feedVars, Arrive, Drop, Spoil, ArriveLate, Beat, GoesBy
<1> SUFFICES ASSUME NEW m \in Lines \ lossy
             PROVE  /\ told' = <<>> /\ ~stats'.stale
                    /\ FirstSeq(passed'[m] + 1) <= next_expected'
                    /\ \A l \in lossy : passed'[l] <= passed'[m] + 1
  BY <1>2, <1>4 DEF Covered
<1>5. /\ told = <<>> /\ ~stats.stale
      /\ FirstSeq(passed[m] + 1) <= next_expected
      /\ \A l \in lossy : passed[l] <= passed[m] + 1
  BY DEF Covered
\* What the receiver does with a packet.
<1>6. ASSUME NEW l \in Lines, NEW p, Brings(l, p)
      PROVE  /\ told' = <<>> /\ ~stats'.stale
             /\ next_expected' \in Nat /\ next_expected <= next_expected'
  <2>1. p.seq <= next_expected
    BY <1>6, NothingBeyond
  <2>2. p.seq \in Nat /\ p.count \in Nat /\ Receive(p)
    BY <1>6 DEF Brings
  <2> QED BY <1>5, <2>1, <2>2, NoJump DEF FeedIInv
\* What a line's progress does to the lead.
<1>7. ASSUME NEW l \in Lines, GoesBy(l)
      PROVE  /\ \A x \in lossy : passed'[x] <= passed'[m] + 1
             /\ l # m => passed'[m] = passed[m]
             /\ l = m => passed'[m] = passed[m] + 1
  <2>1. /\ passed' = [passed EXCEPT ![l] = @ + 1] /\ InStep(l)
        /\ passed[m] \in Nat /\ passed[l] \in Nat
    BY <1>1, <1>7 DEF GoesBy
  <2>2. \A x \in Lines : passed'[x] = IF x = l THEN passed[x] + 1 ELSE passed[x]
    BY <1>1, <2>1
  <2>3. l \in lossy => passed[l] <= passed[m] + 0
    BY <2>1 DEF InStep
  <2>4. ASSUME NEW x \in lossy PROVE passed'[x] <= passed'[m] + 1
    <3>1. x \in Lines /\ x # m /\ passed[x] \in Nat /\ passed[x] <= passed[m] + 1
      BY <1>1, <1>5
    <3>2. CASE x = l
      <4>1. passed'[x] = passed[x] + 1 /\ passed'[m] = passed[m]
        BY <2>2, <3>1, <3>2
      <4> QED BY <2>1, <2>3, <3>1, <3>2, <4>1
    <3>3. CASE x # l
      <4>1. passed'[x] = passed[x] /\ (passed'[m] = passed[m] \/ passed'[m] = passed[m] + 1)
        BY <2>2, <3>1, <3>3
      <4> QED BY <2>1, <3>1, <4>1
    <3> QED BY <3>2, <3>3
  <2> QED BY <2>2, <2>4
<1>8. CASE UNCHANGED vars
  <2>1. UNCHANGED <<told, stats, next_expected, passed>>
    BY <1>8 DEF vars, moldVars, feedVars
  <2> QED BY <1>5, <2>1
<1>9. ASSUME NEW l \in Lines, NEW p, Brings(l, p), UNCHANGED passed
      PROVE  /\ told' = <<>> /\ ~stats'.stale
             /\ FirstSeq(passed'[m] + 1) <= next_expected'
             /\ \A x \in lossy : passed'[x] <= passed'[m] + 1
  <2>1. /\ told' = <<>> /\ ~stats'.stale
        /\ next_expected' \in Nat /\ next_expected <= next_expected'
    BY <1>6, <1>9
  <2>2. FirstSeq(passed[m] + 1) <= next_expected'
    BY <1>1, <1>3, <1>5, <2>1
  <2> QED BY <1>5, <1>9, <2>1, <2>2
<1>10. ASSUME NEW l \in Lines, Arrive(l)
       PROVE  /\ told' = <<>> /\ ~stats'.stale
              /\ FirstSeq(passed'[m] + 1) <= next_expected'
              /\ \A x \in lossy : passed'[x] <= passed'[m] + 1
  <2>1. Brings(l, Nth(passed[l] + 1)) /\ GoesBy(l)
    BY <1>10, ArriveBrings DEF FeedIInv, Arrive
  <2>2. /\ told' = <<>> /\ ~stats'.stale
        /\ next_expected' \in Nat /\ next_expected <= next_expected'
    BY <1>6, <2>1
  <2>3. /\ \A x \in lossy : passed'[x] <= passed'[m] + 1
        /\ l # m => passed'[m] = passed[m]
        /\ l = m => passed'[m] = passed[m] + 1
    BY <1>7, <2>1
  <2>4. FirstSeq(passed'[m] + 1) <= next_expected'
    <3>1. CASE l = m
      <4>1. FirstSeq(passed[m] + 2) <= next_expected'
        BY <1>5, <1>10, <3>1, ArrivesInFull
      <4>2. passed'[m] + 1 = passed[m] + 2
        BY <1>1, <2>3, <3>1
      <4> QED BY <4>1, <4>2
    <3>2. CASE l # m
      BY <1>1, <1>3, <1>5, <2>2, <2>3, <3>2
    <3> QED BY <3>1, <3>2
  <2> QED BY <2>2, <2>3, <2>4
\* A packet a lossy line drops or spoils is not one of the lossless line's.
<1>11. ASSUME NEW l \in Lines, l \in lossy, GoesBy(l),
              told' = <<>>, ~stats'.stale,
              next_expected' \in Nat, next_expected <= next_expected'
       PROVE  /\ FirstSeq(passed'[m] + 1) <= next_expected'
              /\ \A x \in lossy : passed'[x] <= passed'[m] + 1
  <2>1. /\ \A x \in lossy : passed'[x] <= passed'[m] + 1
        /\ passed'[m] = passed[m]
    BY <1>7, <1>11
  <2> QED BY <1>1, <1>3, <1>5, <1>11, <2>1
<1>12. ASSUME NEW l \in Lines, Drop(l)
       PROVE  /\ told' = <<>> /\ ~stats'.stale
              /\ FirstSeq(passed'[m] + 1) <= next_expected'
              /\ \A x \in lossy : passed'[x] <= passed'[m] + 1
  <2>1. l \in lossy /\ GoesBy(l) /\ UNCHANGED <<told, stats, next_expected>>
    BY <1>12 DEF Drop, moldVars
  <2>2. /\ told' = <<>> /\ ~stats'.stale
        /\ next_expected' \in Nat /\ next_expected <= next_expected'
    BY <1>1, <1>5, <2>1
  <2> QED BY <1>11, <2>1, <2>2
<1>13. ASSUME NEW l \in Lines, Spoil(l)
       PROVE  /\ told' = <<>> /\ ~stats'.stale
              /\ FirstSeq(passed'[m] + 1) <= next_expected'
              /\ \A x \in lossy : passed'[x] <= passed'[m] + 1
  <2>1. l \in lossy /\ GoesBy(l)
    BY <1>13 DEF Spoil
  <2>2. /\ told' = <<>> /\ ~stats'.stale
        /\ next_expected' \in Nat /\ next_expected <= next_expected'
    BY <1>6, <1>13, SpoilBrings DEF FeedIInv
  <2> QED BY <1>11, <2>1, <2>2
<1>14. ASSUME NEW l \in Lines, ArriveLate(l) \/ Beat(l)
       PROVE  /\ told' = <<>> /\ ~stats'.stale
              /\ FirstSeq(passed'[m] + 1) <= next_expected'
              /\ \A x \in lossy : passed'[x] <= passed'[m] + 1
  <2>1. UNCHANGED passed
    BY <1>14 DEF ArriveLate, Beat
  <2>2. \E p : Brings(l, p)
    BY <1>14, LateBrings, BeatBrings DEF FeedIInv
  <2> QED BY <1>9, <2>1, <2>2
<1> QED BY <1>8, <1>10, <1>12, <1>13, <1>14 DEF Next

\* Lines that keep in step and packets smaller than the end-of-session mark (a
\* full packet of kMoldEndOfSession messages would read as that mark, and the
\* messages in it would be missed): while one line loses nothing no gap is ever
\* reported, whatever the other loses and whatever comes late
\* (NoGapReported, what test_moldudp64.cpp says two lines are for).
THEOREM OneWholeLineIsEnough ==
  ASSUME MaxLead = 0, PerPacket < EndOfSession
  PROVE  Spec => []NoGapReported
<1>1. Init => Covered
  <2> SUFFICES ASSUME Init, NEW m \in Lines \ lossy
               PROVE  /\ told = <<>> /\ ~stats.stale
                      /\ FirstSeq(passed[m] + 1) <= next_expected
                      /\ \A l \in lossy : passed[l] <= passed[m] + 1
    BY DEF Covered
  <2>1. told = <<>> /\ ~stats.stale /\ next_expected = 1
    BY DEF Init, MoldInit
  <2>2. passed = [l \in Lines |-> 0] /\ lossy \subseteq Lines
    BY FeedAssumption DEF Init
  <2>3. passed[m] + 1 = 1 /\ \A l \in lossy : passed[l] = 0
    BY <2>2
  <2> QED BY <2>1, <2>3, FirstSeqRises
<1>2. FeedIInv /\ Covered /\ [Next]_vars => Covered'
  BY CoveredKept
<1>3. FeedIInv /\ Covered => NoGapReported
  <2> SUFFICES ASSUME FeedIInv, Covered, lossy # Lines
               PROVE  ~stats.stale /\ told = <<>>
    BY DEF NoGapReported
  <2>1. PICK m : m \in Lines \ lossy
    BY DEF FeedIInv, Passing
  <2> QED BY <2>1 DEF Covered
<1> QED BY <1>1, <1>2, <1>3, FeedInvariant, PTL DEF Spec

----------------------------------------------------------------------------
(* The ring: safe for every capacity, every width of its indices and every *)
(* length of the session.  The indices wrap; the argument is about the     *)
(* unbounded counts they stand for: `sent' items published, Len(popped)    *)
(* items popped, and for each private copy the count it was loaded from.   *)

got == Len(popped)

\* The producer's copy of tail stands for a count of pops not in the future,
\* and recent enough for the slot the producer is writing.
TailSeen ==
  \E c \in Nat : /\ c <= got /\ sent - c <= N /\ tail_cache = c % Wrap
                 /\ producer = "publish" => sent - c < N

\* The consumer's copy of head stands for a count of items published, past the
\* item the consumer is reading.
HeadSeen ==
  \E d \in Nat : /\ got <= d /\ d <= sent /\ head_cache = d % Wrap
                 /\ consumer = "release" => got < d

RingInv ==
  /\ TypeOK
  /\ head = sent % Wrap /\ tail = got % Wrap
  /\ TailSeen /\ HeadSeen
  /\ \A k \in got + 1..sent : buf[(k - 1) % N] = Item(k)
  /\ AppliedInOrder
  /\ producer = "push" => sent <= Messages
  /\ producer = "publish" => sent <= Messages /\ buf[sent % N] = Item(sent + 1)
  /\ consumer = "release" => item = Item(got + 1)

----------------------------------------------------------------------------
(* Remainders.                                                             *)

LEMMA DivMod ==
  ASSUME NEW n \in Int, n > 0, NEW x \in Int
  PROVE  /\ x % n \in 0..n - 1 /\ x \div n \in Int
         /\ x = n * (x \div n) + (x % n)
  BY SMT

LEMMA Unique ==
  ASSUME NEW n \in Int, n > 0, NEW q \in Int, NEW p \in Int,
         NEW r \in 0..n - 1, NEW s \in 0..n - 1, n * q + r = n * p + s
  PROVE  r = s
<1>1. n * (q - p) = s - r /\ n * (p - q) = r - s
  BY SMT
<1>2. ~(q - p >= 1)
  <2> SUFFICES ASSUME q - p >= 1 PROVE FALSE
    OBVIOUS
  <2>1. n * (q - p) >= n
    BY SMT
  <2> QED BY <1>1, <2>1
<1>3. ~(p - q >= 1)
  <2> SUFFICES ASSUME p - q >= 1 PROVE FALSE
    OBVIOUS
  <2>1. n * (p - q) >= n
    BY SMT
  <2> QED BY <1>1, <2>1
<1>4. q = p
  BY <1>2, <1>3
<1> QED BY <1>4

LEMMA ModIs ==
  ASSUME NEW n \in Int, n > 0, NEW q \in Int, NEW r \in 0..n - 1, NEW x, x = n * q + r
  PROVE  x % n = r
<1>1. x \in Int
  OBVIOUS
<1>2. x % n \in 0..n - 1 /\ x \div n \in Int /\ x = n * (x \div n) + (x % n)
  BY <1>1, DivMod
<1>3. n * q + r = n * (x \div n) + (x % n)
  BY <1>2
<1> QED BY ONLY <1>2, <1>3, n \in Int, n > 0, q \in Int, r \in 0..n - 1, Unique

\* Adding to a remainder is adding to the number.
LEMMA AddMod ==
  ASSUME NEW n \in Int, n > 0, NEW x \in Int, NEW y \in Int, NEW r, r = x % n
  PROVE  (r + y) % n = (x + y) % n
<1> DEFINE q == x \div n
           p == (r + y) \div n
           s == (r + y) % n
<1>1. q \in Int /\ r \in Int /\ x = n * q + r
  BY DivMod
<1> HIDE DEF q
<1>2. p \in Int /\ s \in 0..n - 1 /\ r + y = n * p + s
  BY <1>1, DivMod
<1> HIDE DEF p, s
<1>3. PICK a \in Int : a = q + p
  BY <1>1, <1>2
<1>4. PICK z \in Int : z = x + y
  OBVIOUS
<1>5. z = n * a + s
  BY <1>1, <1>2, <1>3, <1>4
<1>6. z % n = s
  BY ONLY <1>2, <1>3, <1>5, n \in Int, n > 0, ModIs, ZenonT(60)
<1> QED BY <1>4, <1>6 DEF s

\* The difference of two remainders, where the numbers are less than n apart.
LEMMA DiffMod ==
  ASSUME NEW n \in Int, n > 0, NEW x \in Int, NEW y \in Int, y <= x, x - y < n,
         NEW r, r = x % n, NEW s, s = y % n, NEW z, z = r - s
  PROVE  z % n = x - y
<1> DEFINE q == x \div n
           p == y \div n
<1>1. q \in Int /\ r \in Int /\ x = n * q + r /\ p \in Int /\ s \in Int /\ y = n * p + s
  BY DivMod
<1> HIDE DEF q, p
<1>2. PICK a \in Int : a = p - q
  BY <1>1
<1>3. PICK b \in 0..n - 1 : b = x - y
  OBVIOUS
<1>4. z \in Int
  BY <1>1
<1>5. z = n * a + b
  BY <1>1, <1>2, <1>3, <1>4
<1>6. z % n = b
  BY ONLY <1>2, <1>3, <1>4, <1>5, n \in Int, n > 0, ModIs
<1> QED BY ONLY <1>3, <1>4, <1>6

\* A wider index has the same slot.
LEMMA ModMod ==
  ASSUME NEW n \in Int, n > 0, NEW k \in Int, k > 0, NEW x \in Int
  PROVE  (x % (n * k)) % n = x % n
<1> DEFINE w == n * k
           q == x \div w
           r == x % w
           p == r \div n
           s == r % n
<1>1. w \in Int /\ w > 0
  BY SMT
<1> HIDE DEF w
<1>2. q \in Int /\ r \in Int /\ x = w * q + r
  BY <1>1, DivMod
<1> HIDE DEF q, r
<1>3. s \in 0..n - 1 /\ p \in Int /\ r = n * p + s
  BY <1>2, DivMod
<1> HIDE DEF p, s
<1>4. PICK a \in Int : a = k * q + p
  BY <1>2, <1>3
<1>5. x = n * a + s
  <2>1. w * q = n * (k * q)
    BY <1>2 DEF w
  <2>2. n * a = n * (k * q) + n * p
    BY <1>2, <1>3, <1>4
  <2> QED BY <1>2, <1>3, <2>1, <2>2
<1>6. x % n = s
  BY ONLY <1>3, <1>4, <1>5, n \in Int, n > 0, ModIs
<1> QED BY <1>6 DEF s, r, w

\* Numbers less than n apart are in different slots.
LEMMA Apart ==
  ASSUME NEW n \in Int, n > 0, NEW x \in Int, NEW y \in Int, x < y, y < x + n
  PROVE  x % n # y % n
<1> SUFFICES ASSUME x % n = y % n PROVE FALSE
  OBVIOUS
<1> DEFINE q == x \div n
           p == y \div n
           r == x % n
<1>1. q \in Int /\ p \in Int /\ r \in Int /\ x = n * q + r /\ y = n * p + r
  BY DivMod
<1> HIDE DEF q, p, r
<1>2. y - x = n * (p - q)
  BY <1>1
<1>3. CASE p - q >= 1
  <2>1. n * (p - q) >= n
    BY <1>1, <1>3
  <2> QED BY <1>2, <2>1
<1>4. CASE ~(p - q >= 1)
  <2>1. n * (p - q) <= 0
    BY <1>1, <1>4
  <2> QED BY <1>2, <2>1
<1> QED BY <1>3, <1>4
----------------------------------------------------------------------------
(* What the indices say of the counts.                                     *)

LEMMA Constants == N \in Int /\ N > 0 /\ Wrap \in Int /\ Wrap > N /\ Messages \in Nat
<1>1. PICK k \in 2..Wrap : Wrap = N * k
  BY RingAssumption
<1>2. N \in Int /\ N > 0 /\ k \in Int /\ k > 0 /\ Wrap \in Int /\ Messages \in Nat
  BY RingAssumption, <1>1
<1>3. Wrap > N
  <2>1. N * k >= N * 2
    BY <1>1, <1>2
  <2> QED BY <1>1, <1>2, <2>1
<1> QED BY <1>2, <1>3

\* An index and the count it stands for have the same slot.
LEMMA SlotOf == ASSUME NEW x \in Int, NEW i, i = x % Wrap PROVE Slot(i) = x % N
<1>1. PICK k \in 2..Wrap : Wrap = N * k
  BY RingAssumption
<1>2. k \in Int /\ k > 0
  BY <1>1
<1> QED BY <1>1, <1>2, Constants, ModMod DEF Slot

\* An offset from an index is one from the count.
LEMMA OffsetOf ==
  ASSUME NEW x \in Int, NEW y \in Int, NEW i, i = x % Wrap
  PROVE  (i + y) % Wrap = (x + y) % Wrap
<1>1. Wrap \in Int /\ Wrap > 0
  BY Constants
<1> QED BY ONLY <1>1, x \in Int, y \in Int, i = x % Wrap, AddMod

\* The difference of two indices is that of the counts.
LEMMA MinusOf ==
  ASSUME NEW x \in Int, NEW y \in Int, y <= x, x - y <= N,
         NEW i, i = x % Wrap, NEW j, j = y % Wrap
  PROVE  Minus(i, j) = x - y
<1>1. Wrap \in Int /\ Wrap > 0 /\ x - y < Wrap
  BY Constants
<1>2. i \in Int /\ j \in Int
  BY <1>1, DivMod
<1>3. PICK z \in Int : z = i - j
  BY <1>2
<1>4. z % Wrap = x - y
  BY <1>1, <1>3, DiffMod
<1> QED BY <1>3, <1>4 DEF Minus

LEMMA TheCounts ==
  ASSUME RingInv
  PROVE  /\ got \in Nat /\ sent \in Nat /\ sent \in 0..Messages + 1
         /\ got <= sent /\ sent - got <= N
         /\ popped \in Seq(Items) /\ buf \in [0..N - 1 -> Items] /\ item \in Items
<1>1. /\ got \in Nat /\ sent \in 0..Messages + 1 /\ popped \in Seq(Items)
      /\ buf \in [0..N - 1 -> Items] /\ item \in Items
  BY DEF RingInv, TypeOK, got
<1>2. PICK c \in Nat : c <= got /\ sent - c <= N
  BY DEF RingInv, TailSeen
<1>3. PICK d \in Nat : got <= d /\ d <= sent
  BY DEF RingInv, HeadSeen
<1> QED BY <1>1, <1>2, <1>3, Constants

\* An item of the session, and the end only after the last message.
LEMMA ItemType ==
  ASSUME NEW k \in Nat \ {0}
  PROVE  Item(k) \in Items /\ (Item(k) = End <=> k > Messages)
  BY Constants DEF Item, Items, End

\* The count a load stands for, between what was seen and the latest store.
LEMMA LoadedCount ==
  ASSUME NEW x \in Nat, NEW y \in Nat, x <= y, y - x <= N,
         NEW i, i = x % Wrap, NEW j, j = y % Wrap, NEW v \in Loads(i, j)
  PROVE  \E z \in Nat : x <= z /\ z <= y /\ v = z % Wrap
<1>1. Minus(j, i) = y - x
  BY MinusOf
<1>2. PICK d \in 0..y - x : v = (i + d) % Wrap
  BY <1>1 DEF Loads
<1>3. v = (x + d) % Wrap
  <2>1. d \in Int /\ x \in Int /\ Wrap > 0 /\ Wrap \in Int
    BY Constants
  <2>2. (i + d) % Wrap = (x + d) % Wrap
    BY ONLY <2>1, AddMod, i = x % Wrap, ZenonT(60)
  <2> QED BY <1>2, <2>2
<1>4. x + d \in Nat /\ x <= x + d /\ x + d <= y
  BY <1>2
<1> QED BY <1>3, <1>4

\* The slot the producer may write holds nothing that is still to be read.
LEMMA RoomToWrite ==
  ASSUME RingInv, producer = "push", ~Full
  PROVE  /\ sent - got < N
         /\ \E c \in Nat : c <= got /\ sent - c < N /\ tail_cache = c % Wrap
<1>1. PICK c \in Nat : c <= got /\ sent - c <= N /\ tail_cache = c % Wrap
  BY DEF RingInv, TailSeen
<1>2. head = sent % Wrap
  BY DEF RingInv
<1>3. Minus(head, tail_cache) = sent - c
  BY <1>1, <1>2, TheCounts, MinusOf
<1>4. sent - c < N
  BY <1>1, <1>3, TheCounts, Constants DEF Full
<1> QED BY <1>1, <1>4, TheCounts, Constants

\* Something is there to be read.
LEMMA SomethingToRead ==
  ASSUME RingInv, ~Empty
  PROVE  /\ got < sent
         /\ \E d \in Nat : got < d /\ d <= sent /\ head_cache = d % Wrap
<1>1. PICK d \in Nat : got <= d /\ d <= sent /\ head_cache = d % Wrap
  BY DEF RingInv, HeadSeen
<1>2. tail = got % Wrap
  BY DEF RingInv
<1>3. d # got
  BY <1>1, <1>2 DEF Empty
<1> QED BY <1>1, <1>3, TheCounts

LEMMA InvImplies == RingInv => TypeOK /\ NoDataRace /\ AppliedInOrder
<1> SUFFICES ASSUME RingInv, producer = "push", ~Full, ~Empty
             PROVE  Slot(head) # Slot(tail)
  BY DEF RingInv, NoDataRace
<1>1. got < sent /\ sent < got + N /\ got \in Int /\ sent \in Int
  BY RoomToWrite, SomethingToRead, TheCounts, Constants
<1>2. got % N # sent % N
  BY <1>1, Constants, Apart
<1>3. Slot(head) = sent % N /\ Slot(tail) = got % N
  BY <1>1, SlotOf DEF RingInv
<1> QED BY <1>2, <1>3

----------------------------------------------------------------------------
(* One lemma per step of a thread.                                         *)

LEMMA RingInitInv == RingInit => RingInv
<1> SUFFICES ASSUME RingInit PROVE RingInv
  OBVIOUS
<1>1. got = 0 /\ sent = 0 /\ popped \in Seq(Items) /\ 0 % Wrap = 0
  <2>1. 0 % Wrap = 0
    <3>1. 0 = Wrap * 0 + 0 /\ 0 \in 0..Wrap - 1
      BY Constants
    <3> QED BY <3>1, Constants, ModIs
  <2> QED BY <2>1 DEF RingInit, got
<1>2. TypeOK
  BY <1>1, Constants DEF RingInit, TypeOK, Index, Items, End
<1>3. TailSeen /\ HeadSeen
  BY <1>1, Constants DEF RingInit, TailSeen, HeadSeen
<1>4. AppliedInOrder
  BY <1>1 DEF AppliedInOrder, got
<1> QED BY <1>1, <1>2, <1>3, <1>4, Constants DEF RingInit, RingInv

LEMMA LoadTailKeeps == ASSUME RingInv, NEW v, LoadTail(v) PROVE RingInv'
<1>1. PICK c \in Nat : c <= got /\ sent - c <= N /\ tail_cache = c % Wrap
  BY DEF RingInv, TailSeen
<1>2. /\ v \in Loads(tail_cache, tail) /\ tail_cache' = v /\ producer = "push"
      /\ tail = got % Wrap
  BY <1>1 DEF LoadTail, RingInv
<1>3. PICK z \in Nat : c <= z /\ z <= got /\ v = z % Wrap
  <2>1. got \in Nat /\ c <= got /\ got - c <= N
    BY <1>1, TheCounts, Constants
  <2> QED BY ONLY <1>1, <1>2, <2>1, LoadedCount
<1>4. /\ UNCHANGED <<head, buf, sent, producer, tail, head_cache, item, consumer, popped>>
      /\ got' = got
  BY DEF LoadTail, consumerVars, got
<1>5. TailSeen'
  BY <1>1, <1>2, <1>3, <1>4, TheCounts, Constants, SMTT(60) DEF TailSeen
<1>6. TypeOK'
  <2>1. v \in Index
    BY <1>3, Constants, DivMod DEF Index
  <2> QED BY <1>2, <1>4, <2>1 DEF RingInv, TypeOK
<1>7. HeadSeen' /\ AppliedInOrder'
  BY <1>4 DEF RingInv, HeadSeen, AppliedInOrder
<1> QED BY <1>2, <1>4, <1>5, <1>6, <1>7 DEF RingInv

LEMMA LoadHeadKeeps == ASSUME RingInv, NEW v, LoadHead(v) PROVE RingInv'
<1>1. PICK d \in Nat : got <= d /\ d <= sent /\ head_cache = d % Wrap
  BY DEF RingInv, HeadSeen
<1>2. /\ v \in Loads(head_cache, head) /\ head_cache' = v /\ consumer = "pop"
      /\ head = sent % Wrap
  BY <1>1 DEF LoadHead, RingInv
<1>3. PICK z \in Nat : d <= z /\ z <= sent /\ v = z % Wrap
  <2>1. sent \in Nat /\ d <= sent /\ sent - d <= N
    BY <1>1, TheCounts, Constants
  <2> QED BY ONLY <1>1, <1>2, <2>1, LoadedCount
<1>4. /\ UNCHANGED <<head, buf, sent, producer, tail, tail_cache, item, consumer, popped>>
      /\ got' = got
  BY DEF LoadHead, producerVars, got
<1>5. HeadSeen'
  BY <1>1, <1>2, <1>3, <1>4, TheCounts, Constants DEF HeadSeen
<1>6. TypeOK'
  <2>1. v \in Index
    BY <1>3, Constants, DivMod DEF Index
  <2> QED BY <1>2, <1>4, <2>1 DEF RingInv, TypeOK
<1>7. TailSeen' /\ AppliedInOrder'
  BY <1>4 DEF RingInv, TailSeen, AppliedInOrder
<1> QED BY <1>2, <1>4, <1>5, <1>6, <1>7 DEF RingInv
LEMMA WriteSlotKeeps == ASSUME RingInv, WriteSlot PROVE RingInv'
<1>1. /\ sent - got < N
      /\ \E c \in Nat : c <= got /\ sent - c < N /\ tail_cache = c % Wrap
  BY RoomToWrite DEF WriteSlot
<1>2. /\ UNCHANGED <<head, tail_cache, sent, tail, head_cache, item, consumer, popped>>
      /\ got' = got /\ producer = "push" /\ producer' = "publish" /\ sent <= Messages
      /\ buf' = [buf EXCEPT ![Slot(head)] = Item(sent + 1)]
  BY DEF WriteSlot, consumerVars, got, RingInv
<1>3. Slot(head) = sent % N /\ sent % N \in 0..N - 1
  <2>1. sent \in Int /\ head = sent % Wrap
    BY TheCounts DEF RingInv
  <2> QED BY <2>1, Constants, SlotOf, DivMod
<1>4. Item(sent + 1) \in Items
  BY TheCounts, ItemType
<1>5. TypeOK'
  BY <1>2, <1>3, <1>4 DEF RingInv, TypeOK
<1>6. TailSeen' /\ HeadSeen' /\ AppliedInOrder'
  BY <1>1, <1>2, TheCounts, Constants, SMTT(60) DEF RingInv, TailSeen, HeadSeen, AppliedInOrder
<1>7. buf'[sent % N] = Item(sent + 1)
  BY <1>2, <1>3, TheCounts
<1>8. \A k \in got + 1..sent : buf'[(k - 1) % N] = Item(k)
  <2> SUFFICES ASSUME NEW k \in got + 1..sent PROVE buf'[(k - 1) % N] = Item(k)
    OBVIOUS
  <2>1. k - 1 \in Int /\ k - 1 < sent /\ sent < (k - 1) + N
    BY <1>1, TheCounts, Constants
  <2>2. PICK j \in Int : j = k - 1
    OBVIOUS
  <2>3. j < sent /\ sent < j + N /\ sent \in Int
    BY <2>1, <2>2, TheCounts
  <2>4. j % N # sent % N /\ j % N \in 0..N - 1
    BY <2>2, <2>3, Constants, Apart, DivMod
  <2>5. buf[j % N] = Item(k)
    BY <2>2 DEF RingInv
  <2>6. buf'[j % N] = Item(k)
    BY <1>2, <1>3, <2>4, <2>5, TheCounts
  <2> QED BY ONLY <2>2, <2>6
<1> QED BY <1>2, <1>5, <1>6, <1>7, <1>8 DEF RingInv

LEMMA StoreHeadKeeps == ASSUME RingInv, StoreHead PROVE RingInv'
<1>1. PICK c \in Nat : c <= got /\ sent - c < N /\ tail_cache = c % Wrap
  BY DEF RingInv, TailSeen, StoreHead
<1>2. /\ UNCHANGED <<tail_cache, buf, tail, head_cache, item, consumer, popped>>
      /\ got' = got /\ sent' = sent + 1 /\ head' = After(head)
      /\ producer' = IF Item(sent + 1) = End THEN "done" ELSE "push"
  BY DEF StoreHead, consumerVars, got
<1>3. sent <= Messages /\ buf[sent % N] = Item(sent + 1)
  BY DEF RingInv, StoreHead
<1>4. sent' \in 0..Messages + 1 /\ (producer' = "push" => sent' <= Messages)
  BY <1>2, <1>3, TheCounts, Constants, ItemType
<1>5. head' = sent' % Wrap /\ head' \in Index
  <2>1. head' = (head + 1) % Wrap /\ head = sent % Wrap
    BY <1>2 DEF RingInv, After
  <2>2. (head + 1) % Wrap = (sent + 1) % Wrap
    BY <2>1, TheCounts, Constants, AddMod
  <2>3. (sent + 1) % Wrap \in 0..Wrap - 1
    BY TheCounts, Constants, DivMod
  <2> QED BY <1>2, <2>1, <2>2, <2>3 DEF Index
<1>6. TypeOK'
  BY <1>2, <1>4, <1>5 DEF RingInv, TypeOK
<1>7. TailSeen'
  <2>1. sent' - c <= N /\ c <= got' /\ producer' # "publish"
    BY <1>1, <1>2, TheCounts, Constants
  <2> QED BY <1>1, <1>2, <2>1 DEF TailSeen
<1>8. HeadSeen'
  <2>1. PICK d \in Nat : /\ got <= d /\ d <= sent /\ head_cache = d % Wrap
                         /\ consumer = "release" => got < d
    BY DEF RingInv, HeadSeen
  <2>2. d <= sent'
    BY <1>2, <2>1, TheCounts
  <2> QED BY <1>2, <2>1, <2>2 DEF HeadSeen
<1>9. \A k \in got + 1..sent' : buf[(k - 1) % N] = Item(k)
  <2> SUFFICES ASSUME NEW k \in got + 1..sent + 1 PROVE buf[(k - 1) % N] = Item(k)
    BY <1>2
  <2>1. CASE k \in got + 1..sent
    BY <2>1 DEF RingInv
  <2>2. CASE k = sent + 1
    <3>1. k - 1 = sent
      BY <2>2, TheCounts
    <3> QED BY ONLY <1>3, <2>2, <3>1
  <2>3. k \in got + 1..sent \/ k = sent + 1
    BY TheCounts
  <2> QED BY <2>1, <2>2, <2>3
<1>10. producer' # "publish" /\ AppliedInOrder'
  BY <1>2 DEF RingInv, AppliedInOrder
<1> QED BY <1>2, <1>4, <1>5, <1>6, <1>7, <1>8, <1>9, <1>10 DEF RingInv
LEMMA ReadSlotKeeps == ASSUME RingInv, ReadSlot PROVE RingInv'
<1>1. PICK d \in Nat : got < d /\ d <= sent /\ head_cache = d % Wrap
  BY SomethingToRead DEF ReadSlot
<1>2. /\ UNCHANGED <<head, tail_cache, buf, sent, producer, tail, head_cache, popped>>
      /\ got' = got /\ consumer' = "release" /\ item' = buf[Slot(tail)]
  BY DEF ReadSlot, producerVars, got
<1>3. item' = Item(got + 1)
  <2>1. Slot(tail) = got % N
    BY TheCounts, SlotOf DEF RingInv
  <2>2. got + 1 \in got + 1..sent /\ (got + 1) - 1 = got
    BY <1>1, TheCounts
  <2>3. buf[((got + 1) - 1) % N] = Item(got + 1)
    BY <2>2 DEF RingInv
  <2> QED BY ONLY <1>2, <2>1, <2>2, <2>3
<1>4. TypeOK'
  <2>1. item' \in Items
    BY <1>3, TheCounts, ItemType
  <2> QED BY <1>2, <2>1 DEF RingInv, TypeOK
<1>5. TailSeen' /\ HeadSeen' /\ AppliedInOrder'
  BY <1>1, <1>2, TheCounts DEF RingInv, TailSeen, HeadSeen, AppliedInOrder
<1> QED BY <1>2, <1>3, <1>4, <1>5 DEF RingInv

LEMMA StoreTailKeeps == ASSUME RingInv, StoreTail PROVE RingInv'
<1>1. PICK d \in Nat : got < d /\ d <= sent /\ head_cache = d % Wrap
  BY DEF RingInv, HeadSeen, StoreTail
<1>2. /\ UNCHANGED <<head, tail_cache, buf, sent, producer, head_cache, item>>
      /\ popped' = Append(popped, item) /\ tail' = After(tail) /\ consumer' \in {"done", "pop"}
      /\ item = Item(got + 1)
  BY DEF StoreTail, producerVars, RingInv
<1>3. /\ got' = got + 1 /\ popped' \in Seq(Items) /\ popped'[got + 1] = Item(got + 1)
      /\ \A k \in 1..got : popped'[k] = popped[k]
  BY <1>2, TheCounts DEF got
<1>4. tail' = got' % Wrap /\ tail' \in Index
  <2>1. tail' = (tail + 1) % Wrap /\ tail = got % Wrap
    BY <1>2 DEF RingInv, After
  <2>2. (tail + 1) % Wrap = (got + 1) % Wrap
    BY <2>1, TheCounts, Constants, AddMod
  <2>3. (got + 1) % Wrap \in 0..Wrap - 1
    BY TheCounts, Constants, DivMod
  <2> QED BY <1>3, <2>1, <2>2, <2>3 DEF Index
<1>5. TypeOK'
  BY <1>2, <1>3, <1>4 DEF RingInv, TypeOK
<1>6. TailSeen'
  <2>1. PICK c \in Nat : /\ c <= got /\ sent - c <= N /\ tail_cache = c % Wrap
                         /\ producer = "publish" => sent - c < N
    BY DEF RingInv, TailSeen
  <2>2. c <= got'
    BY <1>3, <2>1, TheCounts
  <2> QED BY <1>2, <2>1, <2>2 DEF TailSeen
<1>7. HeadSeen'
  <2>1. got' <= d /\ consumer' # "release"
    BY <1>1, <1>2, <1>3, TheCounts
  <2> QED BY <1>1, <1>2, <2>1 DEF HeadSeen
<1>8. AppliedInOrder'
  <2> SUFFICES ASSUME NEW k \in 1..got' PROVE popped'[k] = Item(k)
    BY DEF AppliedInOrder, got
  <2>1. CASE k \in 1..got
    BY <1>3, <2>1 DEF RingInv, AppliedInOrder, got
  <2>2. CASE k = got + 1
    BY <1>3, <2>2
  <2>3. k \in 1..got \/ k = got + 1
    BY <1>3, TheCounts
  <2> QED BY <2>1, <2>2, <2>3
<1>9. \A k \in got' + 1..sent : buf[(k - 1) % N] = Item(k)
  <2>1. \A k \in got' + 1..sent : k \in got + 1..sent
    BY <1>3, TheCounts
  <2> QED BY <2>1 DEF RingInv
<1> QED BY <1>2, <1>4, <1>5, <1>6, <1>7, <1>8, <1>9 DEF RingInv

LEMMA StepKeeps == RingInv /\ [RingNext]_ringVars => RingInv'
<1> SUFFICES ASSUME RingInv, [RingNext]_ringVars PROVE RingInv'
  OBVIOUS
<1>1. CASE UNCHANGED ringVars
  BY <1>1 DEF ringVars, producerVars, consumerVars, RingInv, TypeOK, TailSeen, HeadSeen,
              AppliedInOrder, got
<1> QED BY <1>1, LoadTailKeeps, LoadHeadKeeps, WriteSlotKeeps, StoreHeadKeeps,
           ReadSlotKeeps, StoreTailKeeps DEF RingNext, Joined

\* Whatever the capacity, the width of the indices, the interleaving of the two
\* threads and the staleness of their loads, they never meet at a slot and the
\* book gets the session's messages in order (NoDataRace, AppliedInOrder).
THEOREM RingIsSafe == RingSpec => [](TypeOK /\ NoDataRace /\ AppliedInOrder)
<1> QED BY RingInitInv, StepKeeps, InvImplies, PTL DEF RingSpec
----------------------------------------------------------------------------
(* The ring as a queue.                                                    *)

\* What is between the two counts.
Pending == [k \in 1..sent - got |-> Item(got + k)]

LEMMA ContentsArePending == RingInv => Contents = Pending
<1> SUFFICES ASSUME RingInv PROVE Contents = Pending
  OBVIOUS
<1>1. Minus(head, tail) = sent - got
  BY TheCounts, MinusOf DEF RingInv
<1>2. ASSUME NEW k \in 1..sent - got PROVE buf[Slot((tail + k - 1) % Wrap)] = Item(got + k)
  <2>1. PICK x \in Int : x = got + k - 1
    BY TheCounts
  <2>2. PICK y \in Int : y = k - 1
    OBVIOUS
  <2>3. (tail + y) % Wrap = (got + y) % Wrap
    <3>1. tail = got % Wrap /\ got \in Int
      BY TheCounts DEF RingInv
    <3>2. y \in Int
      BY <2>2
    <3> QED BY <3>1, <3>2, OffsetOf
  <2>4. (tail + k - 1) % Wrap = x % Wrap
    <3>1. tail \in Int
      BY DEF RingInv, TypeOK, Index
    <3>2. tail + k - 1 = tail + y /\ x = got + y
      BY <2>1, <2>2, <3>1, TheCounts
    <3> QED BY ONLY <2>3, <3>2
  <2>5. Slot((tail + k - 1) % Wrap) = x % N
    BY <2>1, <2>4, SlotOf
  <2>6. got + k \in got + 1..sent /\ (got + k) - 1 = x
    BY <2>1, TheCounts
  <2>7. buf[((got + k) - 1) % N] = Item(got + k)
    BY <2>6 DEF RingInv
  <2> QED BY ONLY <2>5, <2>6, <2>7
<1> QED BY <1>1, <1>2 DEF Contents, Pending

LEMMA PendingIsASeq ==
  ASSUME RingInv
  PROVE  Pending \in Seq(Items) /\ Len(Pending) = sent - got
<1>1. sent - got \in Nat /\ \A k \in 1..sent - got : Item(got + k) \in Items
  BY TheCounts, ItemType
<1> QED BY <1>1 DEF Pending

\* The same of the two states of a step.
LEMMA AlsoNext ==
  RingInv /\ RingInv' => /\ Contents = Pending /\ Contents' = Pending'
                   /\ Pending' \in Seq(Items) /\ Len(Pending') = sent' - got'
<1>1. RingInv => Pending \in Seq(Items) /\ Len(Pending) = sent - got
  BY PendingIsASeq
<1>2. (RingInv => Contents = Pending /\ Pending \in Seq(Items) /\ Len(Pending) = sent - got)'
  BY <1>1, ContentsArePending, PTL
<1> QED BY <1>2, ContentsArePending

LEMMA StoreHeadPushes == ASSUME RingInv, RingInv', StoreHead PROVE Queue!Push
<1>1. /\ sent' = sent + 1 /\ popped' = popped /\ got' = got
      /\ sent <= Messages
  BY DEF StoreHead, consumerVars, got, RingInv
<1>2. sent - got < N
  <2>1. PICK c \in Nat : c <= got /\ sent - c < N
    BY DEF RingInv, TailSeen, StoreHead
  <2> QED BY <2>1, TheCounts, Constants
<1>3. Pending' = Append(Pending, Item(sent + 1))
  <2> DEFINE a == Append(Pending, Item(sent + 1))
             n == sent - got
  <2>1. Pending \in Seq(Items) /\ Len(Pending) = n /\ Item(sent + 1) \in Items /\ n \in Nat
    BY PendingIsASeq, TheCounts, ItemType
  <2>2. /\ a \in Seq(Items) /\ Len(a) = n + 1 /\ a[n + 1] = Item(sent + 1)
        /\ \A k \in 1..n : a[k] = Pending[k]
    BY <2>1, AppendProperties
  <2>3. Pending' \in Seq(Items) /\ Len(Pending') = n + 1
    <3>1. sent' - got' = n + 1
      BY <1>1, TheCounts
    <3> QED BY <3>1, AlsoNext
  <2>4. ASSUME NEW k \in 1..n + 1 PROVE Pending'[k] = a[k]
    <3>1. Pending'[k] = Item(got + k)
      <4>1. k \in 1..(sent + 1) - got
        BY TheCounts
      <4> QED BY <1>1, <4>1 DEF Pending
    <3>2. CASE k = n + 1
      <4>1. got + k = sent + 1
        BY <3>2, TheCounts
      <4> QED BY <2>2, <3>1, <3>2, <4>1
    <3>3. CASE k # n + 1
      <4>1. k \in 1..n
        BY <2>1, <3>3
      <4>2. Pending[k] = Item(got + k)
        BY <4>1 DEF Pending
      <4> QED BY <2>2, <3>1, <4>1, <4>2
    <3> QED BY <3>2, <3>3
  <2> HIDE DEF a, n
  <2>5. Pending' = a
    BY <2>2, <2>3, <2>4, SeqEqual
  <2> QED BY <2>5 DEF a
<1>4. Contents = Pending /\ Contents' = Pending'
  BY AlsoNext
<1>5. Queue!Item(sent + 1) = Item(sent + 1)
  BY DEF Queue!Item, Queue!End, Item, End
<1> QED BY <1>1, <1>2, <1>3, <1>4, <1>5, PendingIsASeq DEF Queue!Push

LEMMA StoreTailPops == ASSUME RingInv, RingInv', StoreTail PROVE Queue!Pop
<1>1. /\ sent' = sent /\ popped' = Append(popped, item) /\ item = Item(got + 1)
  BY DEF StoreTail, producerVars, RingInv
<1>2. got' = got + 1 /\ got < sent
  <2>1. PICK d \in Nat : got < d /\ d <= sent
    BY DEF RingInv, HeadSeen, StoreTail
  <2>2. popped \in Seq(Items) /\ item \in Items
    BY TheCounts
  <2> QED BY <1>1, <2>1, <2>2, TheCounts DEF got
<1>3. Pending # <<>> /\ Head(Pending) = item
  <2>1. 1 \in 1..sent - got /\ Pending[1] = Item(got + 1)
    BY <1>2, TheCounts DEF Pending
  <2> QED BY <1>1, <1>2, <2>1, PendingIsASeq, TheCounts
<1>4. Pending' = Tail(Pending)
  <2> DEFINE t == Tail(Pending)
             n == sent - got
  <2>1. Pending \in Seq(Items) /\ Len(Pending) = n /\ n \in Nat
    BY PendingIsASeq, TheCounts
  <2>2. t \in Seq(Items) /\ Len(t) = n - 1 /\ \A k \in 1..n - 1 : t[k] = Pending[k + 1]
    BY <1>3, <2>1, HeadTailProperties
  <2>3. Pending' \in Seq(Items) /\ Len(Pending') = n - 1
    BY <1>1, <1>2, TheCounts, AlsoNext
  <2>4. ASSUME NEW k \in 1..n - 1 PROVE Pending'[k] = t[k]
    <3>1. k \in 1..sent - (got + 1) /\ k + 1 \in 1..sent - got /\ got + (k + 1) = (got + 1) + k
      BY TheCounts
    <3>2. Pending[k + 1] = Item(got + (k + 1))
      BY <3>1 DEF Pending
    <3>3. Pending'[k] = Item((got + 1) + k)
      BY <1>1, <1>2, <3>1 DEF Pending
    <3> QED BY <2>2, <3>1, <3>2, <3>3
  <2> HIDE DEF t, n
  <2>5. Pending' = t
    BY <2>2, <2>3, <2>4, SeqEqual
  <2> QED BY <2>5 DEF t
<1>5. Contents = Pending /\ Contents' = Pending'
  BY AlsoNext
<1> QED BY <1>1, <1>3, <1>4, <1>5 DEF Queue!Pop

LEMMA OthersStutter ==
  ASSUME RingInv, RingInv', UNCHANGED <<sent, popped>>
  PROVE  UNCHANGED Queue!queueVars
<1>1. Pending' = Pending
  BY DEF Pending, got
<1>2. Contents = Pending /\ Contents' = Pending'
  BY AlsoNext
<1> QED BY <1>1, <1>2 DEF Queue!queueVars

LEMMA StepIsAQueueStep ==
  RingInv /\ RingInv' /\ [RingNext]_ringVars => [Queue!Next]_Queue!queueVars
<1> SUFFICES ASSUME RingInv, RingInv', [RingNext]_ringVars PROVE [Queue!Next]_Queue!queueVars
  OBVIOUS
<1>1. CASE StoreHead
  BY <1>1, StoreHeadPushes DEF Queue!Next
<1>2. CASE StoreTail
  BY <1>2, StoreTailPops DEF Queue!Next
<1>3. CASE UNCHANGED <<sent, popped>>
  BY <1>3, OthersStutter
<1>4. StoreHead \/ StoreTail \/ UNCHANGED <<sent, popped>>
  BY DEF RingNext, LoadTail, LoadHead, WriteSlot, ReadSlot, Joined, ringVars, producerVars, consumerVars
<1> QED BY <1>1, <1>2, <1>3, <1>4

LEMMA InitIsAnEmptyQueue == RingInit => Queue!Init
<1> SUFFICES ASSUME RingInit PROVE Queue!Init
  OBVIOUS
<1>1. RingInv
  BY RingInitInv
<1>2. sent = 0 /\ popped = <<>> /\ got = 0
  BY DEF RingInit, got
<1>3. Contents = <<>>
  BY <1>1, <1>2, ContentsArePending, PendingIsASeq
<1> QED BY <1>2, <1>3 DEF Queue!Init

\* The ring implements the queue: what lies between the indices, oldest first,
\* starts empty and changes by a push or a pop of the queue or not at all.
\* This is the safety half of IsAQueue; TLC checks its fairness.
THEOREM RingImplementsQueue == RingSpec => Queue!Init /\ [][Queue!Next]_Queue!queueVars
<1> QED BY RingInitInv, StepKeeps, StepIsAQueueStep, InitIsAnEmptyQueue, PTL DEF RingSpec
=============================================================================
