---------------------------- MODULE MessageQueue ----------------------------
(***************************************************************************)
(* What the ring between the two threads of the SPSC experiment promises:  *)
(* a bounded first-in-first-out queue that carries one session, message    *)
(* after message and then the null pointer that ends it.                   *)
(***************************************************************************)
EXTENDS Naturals, Sequences

CONSTANTS
  Capacity,  \* messages that fit between the threads
  Messages   \* messages of the session

VARIABLES
  queue,     \* published and not yet popped
  sent,      \* how many items were published
  popped     \* history: what the consumer got, in order

queueVars == <<queue, sent, popped>>

\* The k-th item of the session: distinct pointers, then nullptr.
End == 0
Item(k) == IF k <= Messages THEN k ELSE End

Init == queue = <<>> /\ sent = 0 /\ popped = <<>>

Push ==
  /\ sent <= Messages /\ Len(queue) < Capacity
  /\ queue' = Append(queue, Item(sent + 1))
  /\ sent' = sent + 1
  /\ UNCHANGED popped

Pop ==
  /\ queue # <<>>
  /\ popped' = Append(popped, Head(queue))
  /\ queue' = Tail(queue)
  /\ UNCHANGED sent

Next == Push \/ Pop

Spec == Init /\ [][Next]_queueVars /\ WF_queueVars(Push) /\ WF_queueVars(Pop)
=============================================================================
