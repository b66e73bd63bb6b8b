------------------------------ MODULE Framing -------------------------------
(***************************************************************************)
(* From bytes to messages: FrameReader, detect_framing and Parser::run     *)
(* (wire.hpp, parser.hpp), and the census that gates a session file.       *)
(*                                                                         *)
(* The input is a file somebody wrote (external): a session's messages in  *)
(* one of the two forms, with at most one damage, which is a cut anywhere, *)
(* a wrong length prefix or a wrong type byte.  Bytes are numbers, and a   *)
(* message is its type byte and the bytes after it.                        *)
(***************************************************************************)
EXTENDS Integers, SequencesExt

CONSTANTS
  Bytes,      \* the bytes that occur; 0 is one, and is no message type
  MsgLen,     \* kMsgLen: the length of a type's messages, 0 for no type
  Sessions,   \* the sessions a writer may write, sequences of messages
  EndOfMessages, \* the message System Event 'C', the last of a session
  BadLengths,   \* the lengths a damaged prefix may come to say
  kProbe      \* how many messages detection looks at

Unsigned(bits) == 0..2^bits - 1

ASSUME FramingAssumption ==
  /\ 0 \in Bytes /\ Bytes \subseteq Unsigned(8) /\ BadLengths \subseteq Unsigned(16)
  /\ MsgLen \in [Bytes -> Unsigned(8)] /\ MsgLen[0] = 0
  /\ kProbe \in Nat \ {0}

\* A writer writes messages as long as their type says, and ends on one 'C'.
ASSUME SessionsAssumption ==
  \A s \in Sessions :
    /\ s \in Seq(Seq(Bytes))
    /\ \A i \in 1..Len(s) : s[i] # <<>> /\ Len(s[i]) = MsgLen[s[i][1]]
    /\ {i \in 1..Len(s) : s[i] = EndOfMessages} = {Len(s)}

VARIABLES
  file,       \* what was written, and what became of it
  buf,        \* the bytes of the file
  framing,    \* the form the parser takes the file to have
  pos,        \* FrameReader::pos_
  skipped,    \* unknown_ and mismatch_
  dispatched, \* the messages handed to the handler, by the offset of their body
  end,        \* ParseStats::end, or "running"
  reach       \* history: how many bytes of the file have been needed so far

inputVars == <<file, buf, framing>>
framingVars == <<inputVars, pos, skipped, dispatched, end, reach>>

Framings == {"LengthPrefixed", "ZeroPrefixed"}

----------------------------------------------------------------------------
(* The writer, and the damage.                                             *)

BigEndian(n) == <<n \div 256, n % 256>>

WrittenPrefix(f, i) ==
  IF f.damage.kind = "prefix" /\ f.damage.frame = i THEN f.damage.to
  ELSE IF f.form = "LengthPrefixed" THEN Len(f.session[i]) ELSE 0

WrittenBody(f, i) ==
  IF f.damage.kind = "type" /\ f.damage.frame = i
  THEN [f.session[i] EXCEPT ![1] = f.damage.to] ELSE f.session[i]

\* Only the prefixed form can be closed by a zero-length prefix.
WholeFile(f) ==
  FlattenSeq([i \in 1..Len(f.session) |->
                BigEndian(WrittenPrefix(f, i)) \o WrittenBody(f, i)])
    \o (IF f.terminated THEN <<0, 0>> ELSE <<>>)

BytesOf(f) ==
  IF f.damage.kind = "cut" THEN SubSeq(WholeFile(f), 1, f.damage.at) ELSE WholeFile(f)

Intact(s) ==
  {[session |-> s, form |-> form, terminated |-> t, damage |-> [kind |-> "none"]] :
     form \in Framings, t \in BOOLEAN}

\* A prefix or a type byte is damaged in the form that can tell.
Damages(f) ==
  {[kind |-> "none"]}
    \cup {[kind |-> "cut", at |-> n] : n \in 0..Len(WholeFile(f)) - 1}
    \cup (IF f.form = "ZeroPrefixed" THEN {} ELSE
            {[kind |-> "prefix", frame |-> i, to |-> p] :
               i \in 1..Len(f.session), p \in BadLengths}
            \cup {[kind |-> "type", frame |-> i, to |-> b] :
                    i \in 1..Len(f.session), b \in Bytes})

Files ==
  UNION {{[f EXCEPT !.damage = d] : d \in Damages(f)} :
           f \in {g \in UNION {Intact(s) : s \in Sessions} :
                    g.terminated => g.form = "LengthPrefixed"}}

\* Files are made of the bytes there are.
ASSUME FileAssumption == \A f \in Files : BytesOf(f) \in Seq(Bytes)

----------------------------------------------------------------------------
(* What the reader sees at an offset.  Past the end it would see whatever  *)
(* is there; reach says whether it ever does.                              *)

Size(b) == Len(b)
Byte(b, at) == IF at < Size(b) THEN b[at + 1] ELSE 0
Be16(b, at) == 256 * Byte(b, at) + Byte(b, at + 1)
Implied(b, at) == MsgLen[Byte(b, at + 2)]

----------------------------------------------------------------------------
(* detect_framing                                                          *)

\* The walk survives the message at `at`.
Consistent(b, form, at) ==
  /\ Implied(b, at) # 0
  /\ Be16(b, at) = (IF form = "LengthPrefixed" THEN Implied(b, at) ELSE 0)
  /\ at + 2 + Implied(b, at) <= Size(b)

\* The walk ends well where it runs out of bytes, or meets the end-of-session
\* marker, after some progress.
RunsOut(b, form, at) ==
  \/ at + 3 > Size(b)
  \/ form = "LengthPrefixed" /\ Implied(b, at) # 0 /\ Be16(b, at) = 0

\* Walking up to kProbe messages, in terms of where each of them starts.
Walks(b, form) ==
  LET walk[i \in 0..kProbe] ==   \* walk[i] holds from message i on, at an offset
        [at \in 0..Size(b) |->
           IF i = 0 THEN TRUE
           ELSE IF RunsOut(b, form, at) THEN at > 0
           ELSE Consistent(b, form, at) /\ walk[i - 1][at + 2 + Implied(b, at)]]
  IN walk[kProbe][0]

DetectFraming(b) ==
  IF ~Walks(b, "LengthPrefixed") /\ Walks(b, "ZeroPrefixed")
  THEN "ZeroPrefixed" ELSE "LengthPrefixed"

----------------------------------------------------------------------------
FramingInit ==
  /\ file \in Files
  /\ buf = BytesOf(file)
  /\ framing = DetectFraming(buf)
  /\ pos = 0 /\ skipped = [unknown |-> 0, mismatch |-> 0]
  /\ dispatched = <<>> /\ end = "running" /\ reach = 0

----------------------------------------------------------------------------
(* FrameReader::next and the loop of Parser::run.                          *)

Needs(n) == reach' = IF reach < n THEN n ELSE reach

Ends(how) == end' = how /\ UNCHANGED dispatched

\* The frame is consumed, and its body handed over or not.
GoesOn(n) == pos' = pos + n /\ UNCHANGED end

EndsAtBoundary ==
  /\ pos = Size(buf)
  /\ Ends("Exhausted")
  /\ UNCHANGED <<pos, skipped, reach>>

Prefixed == framing = "LengthPrefixed"

\* A mutant: a prefix is enough in either form.
HeadFits_PrefixOnly == pos + 2 <= Size(buf)

\* Fewer bytes are left than a prefix takes, in the other form than a prefix
\* and a type.
HeadFits == pos + (IF Prefixed THEN 2 ELSE 3) <= Size(buf)

EndsInHead ==
  /\ pos # Size(buf) /\ ~HeadFits
  /\ Ends("Truncated")
  /\ UNCHANGED <<pos, skipped, reach>>

ZeroPrefix ==
  /\ Prefixed /\ HeadFits /\ Be16(buf, pos) = 0
  /\ Needs(pos + 2)
  /\ pos' = pos + 2
  /\ Ends("ZeroLengthPrefix")
  /\ UNCHANGED skipped

\* How long the body is: the prefix says so, or the type.
BodyLen == IF Prefixed THEN Be16(buf, pos) ELSE Implied(buf, pos)

\* There is a body to look at; how far a body of no known length reaches,
\* nothing says.
HasBody == HeadFits /\ BodyLen # 0

BodyFits == pos + 2 + BodyLen <= Size(buf)

\* A prefix that is not zero where it should be is counted and not believed.
PrefixCounted ==
  IF ~Prefixed /\ Be16(buf, pos) # 0 THEN [skipped EXCEPT !.mismatch = @ + 1] ELSE skipped

NoLength ==
  /\ ~Prefixed /\ HeadFits /\ BodyLen = 0
  /\ Needs(pos + 3)
  /\ skipped' = [PrefixCounted EXCEPT !.unknown = @ + 1]
  /\ Ends("Truncated")
  /\ UNCHANGED pos

EndsInBody ==
  /\ HasBody /\ ~BodyFits
  /\ Needs(pos + (IF Prefixed THEN 2 ELSE 3))
  /\ skipped' = PrefixCounted
  /\ Ends("Truncated")
  /\ UNCHANGED pos

Frame == HasBody /\ BodyFits /\ Needs(pos + 2 + BodyLen)

\* A mutant: a rejected frame is stepped over by what its type implies.
Rejected_TypeLength == GoesOn(2 + Implied(buf, pos)) /\ UNCHANGED dispatched

\* A mutant: a rejected frame is not stepped over.
Rejected_Stays == GoesOn(0) /\ UNCHANGED dispatched

\* The prefix alone moves the reader past a frame it rejects.
Rejected == GoesOn(2 + BodyLen) /\ UNCHANGED dispatched

UnknownType ==
  /\ Frame /\ Implied(buf, pos) = 0
  /\ skipped' = [skipped EXCEPT !.unknown = @ + 1]
  /\ Rejected

LengthMismatch ==
  /\ Frame /\ Implied(buf, pos) \notin {0, BodyLen}
  /\ skipped' = [skipped EXCEPT !.mismatch = @ + 1]
  /\ Rejected

\* A whole frame of a known type: the handler sees the message at pos + 2.
Dispatch ==
  /\ Frame /\ Implied(buf, pos) = BodyLen
  /\ dispatched' = Append(dispatched, pos + 2)
  /\ skipped' = PrefixCounted
  /\ GoesOn(2 + BodyLen)

\* Everything the loop does between two calls of the handler.
ReadOn ==
  \/ EndsAtBoundary \/ EndsInHead \/ ZeroPrefix \/ NoLength \/ EndsInBody
  \/ UnknownType \/ LengthMismatch

FramingNext == end = "running" /\ (ReadOn \/ Dispatch) /\ UNCHANGED inputVars

FramingSpec == FramingInit /\ [][FramingNext]_framingVars

----------------------------------------------------------------------------
(* The verdicts.                                                           *)

Trailing == Size(buf) - pos

\* A mutant: a frame that was skipped is not held against the file.
Clean_SkippingIsFine == end # "Truncated" /\ Trailing = 0

\* ParseStats::clean
Clean ==
  /\ end # "Truncated" /\ skipped = [unknown |-> 0, mismatch |-> 0]
  /\ Trailing = 0

\* A body, by where it starts; its type says how long it is.
BodyAt(at) == SubSeq(buf, at + 1, at + MsgLen[Byte(buf, at)])

\* Census: the last message is System Event 'C'.
EndsOnC == dispatched # <<>> /\ BodyAt(dispatched[Len(dispatched)]) = EndOfMessages

Accepted == Clean /\ EndsOnC

----------------------------------------------------------------------------
(* Properties.                                                             *)

\* Where the bodies of a session start in the file it is written to, and where
\* one more would.
BodyStarts(s) ==
  LET start[i \in 1..Len(s) + 1] == IF i = 1 THEN 2 ELSE start[i - 1] + Len(s[i - 1]) + 2
  IN start

WrittenAt == [i \in 1..Len(file.session) |-> BodyStarts(file.session)[i]]

\* The census's exit status (census.cpp): a session file passes only if every
\* message that was written has been handed over, in order, and nothing else;
\* and a file that nothing happened to passes, in either form, with or without
\* a terminator.
CensusKnowsAWholeSession ==
  end # "running" =>
    /\ Accepted => dispatched = WrittenAt
    /\ file.damage.kind = "none" => Accepted

\* wire.hpp: one malformed frame "cannot desynchronise the rest of the
\* session".  Whatever byte a type became, and wherever the file was cut, the
\* frames that are whole and right are handed over, in order, and no other.
GoodFrame(i) ==
  /\ MsgLen[WrittenBody(file, i)[1]] = Len(file.session[i])
  /\ WrittenAt[i] + Len(file.session[i]) <= Size(buf)
SkipsOnlyTheBadFrames ==
  end # "running" /\ file.form = "LengthPrefixed" /\ file.damage.kind # "prefix" =>
    /\ \A j, k \in DOMAIN dispatched : j < k => dispatched[j] < dispatched[k]
    /\ Range(dispatched) = {WrittenAt[i] : i \in {n \in DOMAIN WrittenAt : GoodFrame(n)}}

\* Whatever the bytes are, the reader and the handlers behind it stay inside
\* the buffer (the claim fuzz_frame.cpp samples).
StaysInTheBuffer == pos <= Size(buf) /\ reach <= Size(buf)

\* Every turn of the loop consumes something or is the last, so that no input
\* can hold the parser for ever.
EveryTurnConsumes == [][pos' > pos \/ end' # "running"]_framingVars
=============================================================================
