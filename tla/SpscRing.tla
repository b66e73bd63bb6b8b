------------------------------ MODULE SpscRing ------------------------------
(***************************************************************************)
(* The single-producer single-consumer ring (bench/spsc.hpp) and the two   *)
(* threads of run_spsc (bench_book.cpp) that share it.                     *)
(*                                                                         *)
(* Each load and store of shared memory is a step of its own.  head and    *)
(* tail are unsigned words and wrap.  An acquire load need not see the     *)
(* latest store: it returns any value the other thread has stored since    *)
(* the one this thread saw last.  Release and acquire order the slots with *)
(* the indices, so that a slot itself is read and written in place;        *)
(* NoDataRace says that the two threads are never at one slot at once.     *)
(***************************************************************************)
EXTENDS Integers, Sequences

CONSTANTS
  N,         \* slots in the ring
  Wrap,      \* values of std::size_t
  Messages   \* messages the parser publishes before the null pointer

\* N and Wrap are powers of two, N the smaller.
ASSUME RingAssumption ==
  /\ N \in Nat \ {0} /\ Wrap \in Nat /\ Messages \in Nat
  /\ \E k \in 2..Wrap : Wrap = N * k

VARIABLES
  head,        \* head_, stored by the producer
  tail,        \* tail_, stored by the consumer
  tail_cache,  \* the producer's copy of tail_
  head_cache,  \* the consumer's copy of head_
  buf,         \* buf_
  sent,        \* items published: where the parser stands
  producer,    \* where the producer stands in push
  consumer,    \* where the consumer stands in pop
  item,        \* v, the consumer's local in pop
  popped       \* history: what pop returned, in order

producerVars == <<head, tail_cache, buf, sent, producer>>
consumerVars == <<tail, head_cache, item, consumer, popped>>
ringVars == <<producerVars, consumerVars>>

\* Pointers into the session are distinct and not null.
End == 0
Item(k) == IF k <= Messages THEN k ELSE End
Items == 0..Messages

Index == 0..Wrap - 1

TypeOK ==
  /\ {head, tail, tail_cache, head_cache} \subseteq Index
  /\ buf \in [0..N - 1 -> Items]
  /\ sent \in 0..Messages + 1
  /\ producer \in {"push", "publish", "done"}
  /\ consumer \in {"pop", "release", "done"}
  /\ item \in Items
  /\ popped \in Seq(Items)

RingInit ==
  /\ head = 0 /\ tail = 0 /\ tail_cache = 0 /\ head_cache = 0
  /\ buf = [i \in 0..N - 1 |-> End]
  /\ sent = 0 /\ producer = "push"
  /\ item = End /\ consumer = "pop" /\ popped = <<>>

----------------------------------------------------------------------------

\* i + 1 and i - j on unsigned words.
After(i) == (i + 1) % Wrap
Minus(i, j) == (i - j) % Wrap

Slot(i) == i % N

\* A mutant: one slot too many is taken for free.
Full_OffByOne == Minus(head, tail_cache) > N

\* A mutant: the difference of two signed words.
Full_Signed == head - tail_cache >= N

\* What the loops of push and pop test, on the private copies.
Full  == Minus(head, tail_cache) >= N
Empty == tail = head_cache

\* A mutant: a load hoisted out of its loop.
Loads_Hoisted(seen, latest) == {seen}

\* An acquire load: at least as late as what this thread has seen.
Loads(seen, latest) == {(seen + d) % Wrap : d \in 0..Minus(latest, seen)}

(* push() *)

LoadTail(v) ==
  /\ producer = "push" /\ Full
  /\ v \in Loads(tail_cache, tail)
  /\ tail_cache' = v
  /\ UNCHANGED <<head, buf, sent, producer, consumerVars>>

WriteSlot ==
  /\ producer = "push" /\ ~Full
  /\ buf' = [buf EXCEPT ![Slot(head)] = Item(sent + 1)]
  /\ producer' = "publish"
  /\ UNCHANGED <<head, tail_cache, sent, consumerVars>>

\* The release store; after the null pointer the thread is over.
StoreHead ==
  /\ producer = "publish"
  /\ head' = After(head)
  /\ sent' = sent + 1
  /\ producer' = IF Item(sent + 1) = End THEN "done" ELSE "push"
  /\ UNCHANGED <<tail_cache, buf, consumerVars>>

(* pop() *)

LoadHead(v) ==
  /\ consumer = "pop" /\ Empty
  /\ v \in Loads(head_cache, head)
  /\ head_cache' = v
  /\ UNCHANGED <<tail, item, consumer, popped, producerVars>>

ReadSlot ==
  /\ consumer = "pop" /\ ~Empty
  /\ item' = buf[Slot(tail)]
  /\ consumer' = "release"
  /\ UNCHANGED <<tail, head_cache, popped, producerVars>>

\* The release store; the loop of run_spsc ends at the null pointer.
StoreTail ==
  /\ consumer = "release"
  /\ tail' = After(tail)
  /\ popped' = Append(popped, item)
  /\ consumer' = IF item = End THEN "done" ELSE "pop"
  /\ UNCHANGED <<head_cache, item, producerVars>>

\* The producer is joined and the run is over.
Joined == producer = "done" /\ consumer = "done" /\ UNCHANGED ringVars

RingNext ==
  \/ \E v \in Index : LoadTail(v) \/ LoadHead(v)
  \/ WriteSlot \/ StoreHead \/ ReadSlot \/ StoreTail
  \/ Joined

(* Both threads run, each pinned to a core, and a store becomes visible in *)
(* finite time: a spinning load does not return a stale value forever.     *)
RingFairness ==
  /\ WF_ringVars(LoadTail(tail)) /\ WF_ringVars(WriteSlot) /\ WF_ringVars(StoreHead)
  /\ WF_ringVars(LoadHead(head)) /\ WF_ringVars(ReadSlot) /\ WF_ringVars(StoreTail)

RingSpec == RingInit /\ [][RingNext]_ringVars /\ RingFairness

----------------------------------------------------------------------------
(* Properties.                                                             *)

\* The producer's plain write and the consumer's plain read of a slot never
\* meet: when both threads may access the buffer they are at different slots.
NoDataRace ==
  producer = "push" /\ ~Full /\ consumer = "pop" /\ ~Empty => Slot(head) # Slot(tail)

\* The book gets the messages of the session in the order of the session, as it
\* does when the parser calls it directly, and the end after the last of them.
AppliedInOrder == \A k \in 1..Len(popped) : popped[k] = Item(k)

\* The ring is a bounded FIFO queue (MessageQueue) and moves on like one: the
\* published slots, oldest first, are its contents.
Contents == [k \in 1..Minus(head, tail) |-> buf[Slot((tail + k - 1) % Wrap)]]
Queue == INSTANCE MessageQueue WITH Capacity <- N, queue <- Contents
IsAQueue == Queue!Spec

\* Both threads finish, with every message applied: neither spins forever on a
\* ring it takes for full or empty, and the null pointer is not lost.
RunEnds == <>(producer = "done" /\ consumer = "done" /\ Len(popped) = Messages + 1)
=============================================================================
