------------------------------- MODULE Replay -------------------------------
(***************************************************************************)
(* The replay tool (replay.cpp): a session file read by the parser, each   *)
(* message handed to the differential harness, and the verdict.            *)
(***************************************************************************)
EXTENDS Framing, Differential

CONSTANT BookTypes   \* the type bytes whose messages both books take

VARIABLE judged  \* compare_everything has run on the whole session

replayVars == <<framingVars, feedVars, diffOwnVars, judged>>

ReplayInit == FramingInit /\ DiffInit /\ judged = FALSE

\* What the file says of the book is left open: any message of the type.
Hand ==
  /\ end = "running" /\ Dispatch
  /\ IF Byte(buf, pos + 2) \in BookTypes
     THEN \E m \in LegalMessages : Compared(m) \/ Ignored(m)
     ELSE CountedOnly
  /\ UNCHANGED <<inputVars, judged>>

Read ==
  /\ end = "running" /\ ReadOn
  /\ UNCHANGED <<inputVars, feedVars, diffOwnVars, judged>>

Judge ==
  /\ end # "running" /\ ~judged /\ judged' = TRUE
  /\ CompareEverything
  /\ UNCHANGED framingVars

ReplayNext == Hand \/ Read \/ Judge

ReplaySpec == ReplayInit /\ [][ReplayNext]_replayVars

----------------------------------------------------------------------------
\* replay.cpp, `ok`: the books' own counters are ReferenceBook's and
\* FastBook's subject.
Identical == ~div.found /\ fullOk /\ end # "Truncated" /\ Trailing = 0

\* "RESULT: identical" is what it says: at every level of every symbol the two
\* books show the same queue and the same aggregate; and where the fast book
\* made no mistake and the file is sound, the result is "identical".
IdenticalIsIdentical ==
  judged /\ Identical => \A k \in Keys : LevelView(Book, k) = LevelView(fast, k)
SoundIsIdentical ==
  judged /\ faultAt = 0 /\ file.damage.kind = "none" => Identical
IdenticalMeansIdentical == IdenticalIsIdentical /\ SoundIsIdentical
=============================================================================
