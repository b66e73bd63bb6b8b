---------------------------- MODULE ReplayProofs ----------------------------
(***************************************************************************)
(* What the replay tool may promise whatever the file, the two books and   *)
(* the messages are: the reader stays in its buffer and makes progress; a  *)
(* divergence the harness has not reported lies only where no message has  *)
(* been since; and "identical" is true of every level, and said whenever   *)
(* nothing went wrong.  The reader's half: an intact file is taken whole,  *)
(* and a damaged one loses the bad frames and no other.                    *)
(***************************************************************************)
EXTENDS FiniteSetTheorems, WellFoundedInduction, Replay, TLAPS

----------------------------------------------------------------------------
(* The reader.                                                             *)

Reader ==
  /\ buf \in Seq(Bytes)
  /\ pos \in Nat /\ pos <= Size(buf)
  /\ reach \in Nat /\ reach <= Size(buf)

\* What the reader reads are bytes, whatever lies past the end.
LEMMA ReadsBytes ==
  ASSUME NEW b \in Seq(Bytes), NEW at \in Nat
  PROVE  /\ Byte(b, at) \in Bytes /\ Be16(b, at) \in Nat /\ Implied(b, at) \in Nat
         /\ Size(b) \in Nat
<1>1. \A i \in Nat : Byte(b, i) \in Bytes
  <2> SUFFICES ASSUME NEW i \in Nat PROVE Byte(b, i) \in Bytes
    OBVIOUS
  <2>1. CASE i < Len(b)
    <3>1. i + 1 \in 1..Len(b)
      BY <2>1
    <3> QED BY <2>1, <3>1 DEF Byte, Size
  <2>2. CASE ~(i < Len(b))
    BY <2>2, FramingAssumption DEF Byte, Size
  <2> QED BY <2>1, <2>2
<1>2. Bytes \subseteq Nat /\ MsgLen \in [Bytes -> Nat]
  <2>1. \A bits : Unsigned(bits) \subseteq Nat
    BY DEF Unsigned
  <2> QED BY <2>1, FramingAssumption
<1>3. at + 1 \in Nat /\ at + 2 \in Nat
  OBVIOUS
<1>4. Byte(b, at) \in Nat /\ Byte(b, at + 1) \in Nat /\ MsgLen[Byte(b, at + 2)] \in Nat
  BY <1>1, <1>2, <1>3
<1>5. \A m, n \in Nat : 256 * m + n \in Nat
  OBVIOUS
<1> QED BY <1>1, <1>4, <1>5 DEF Be16, Implied, Size

\* Every turn of the loop keeps the reader inside, and takes it on or ends it.
LEMMA TurnSound ==
  ASSUME Reader, ReadOn \/ Dispatch, UNCHANGED inputVars
  PROVE  Reader' /\ (pos' > pos \/ end' # "running")
<1>1. /\ buf' = buf /\ pos \in Nat /\ reach \in Nat /\ Size(buf) \in Nat
      /\ Be16(buf, pos) \in Nat /\ Implied(buf, pos) \in Nat
  BY ReadsBytes DEF Reader, inputVars
<1>2. BodyLen \in Nat
  BY <1>1 DEF BodyLen
<1>3. CASE EndsAtBoundary \/ EndsInHead
  BY <1>1, <1>3 DEF EndsAtBoundary, EndsInHead, Ends, Reader
<1>4. CASE ZeroPrefix
  <2>1. pos + 2 <= Size(buf)
    BY <1>1, <1>4 DEF ZeroPrefix, HeadFits
  <2> QED BY <1>1, <1>4, <2>1 DEF ZeroPrefix, Needs, Ends, Reader
<1>5. CASE NoLength
  <2>1. pos + 3 <= Size(buf)
    BY <1>1, <1>5 DEF NoLength, HeadFits
  <2> QED BY <1>1, <1>5, <2>1 DEF NoLength, Needs, Ends, Reader
<1>6. CASE EndsInBody
  <2> DEFINE head == IF Prefixed THEN 2 ELSE 3
  <2>1. head \in Nat /\ pos + head <= Size(buf)
    BY <1>1, <1>6 DEF EndsInBody, HasBody, HeadFits
  <2> QED BY <1>1, <1>6, <2>1 DEF EndsInBody, Needs, Ends, Reader
<1>7. CASE Frame /\ GoesOn(2 + BodyLen)
  <2>1. BodyLen # 0 /\ pos + 2 + BodyLen <= Size(buf) /\ pos' = pos + (2 + BodyLen)
    BY <1>7 DEF Frame, HasBody, BodyFits, GoesOn
  <2>2. reach' = IF reach < pos + 2 + BodyLen THEN pos + 2 + BodyLen ELSE reach
    BY <1>7 DEF Frame, Needs
  <2>3. pos' \in Nat /\ pos' <= Size(buf) /\ pos' > pos /\ reach' \in Nat /\ reach' <= Size(buf)
    BY <1>1, <1>2, <2>1, <2>2 DEF Reader
  <2> QED BY <1>1, <2>3 DEF Reader
<1> QED BY <1>3, <1>4, <1>5, <1>6, <1>7
        DEF ReadOn, Dispatch, UnknownType, LengthMismatch, Rejected

LEMMA ReaderInvariant == ReplaySpec => []Reader
<1>1. ReplayInit => Reader
  <2>1. ASSUME FramingInit PROVE Reader
    <3>1. buf \in Seq(Bytes) /\ pos = 0 /\ reach = 0
      BY <2>1, FileAssumption DEF FramingInit
    <3>2. Size(buf) \in Nat
      BY <3>1 DEF Size
    <3> QED BY <3>1, <3>2 DEF Reader
  <2> QED BY <2>1 DEF ReplayInit
<1>2. Reader /\ [ReplayNext]_replayVars => Reader'
  <2>1. ASSUME Reader, Hand \/ Read PROVE Reader'
    BY <2>1, TurnSound DEF Hand, Read
  <2>2. ASSUME Reader, UNCHANGED framingVars PROVE Reader'
    BY <2>2 DEF Reader, framingVars, inputVars, Size
  <2> QED BY <2>1, <2>2 DEF ReplayNext, Judge, replayVars
<1> QED BY <1>1, <1>2, PTL DEF ReplaySpec

\* FrameReader never looks past its buffer (wire.hpp), whatever bytes the file
\* is made of, and however long its lengths claim to be.
THEOREM ReaderStaysInside == ReplaySpec => []StaysInTheBuffer
<1>1. Reader => StaysInTheBuffer
  BY DEF Reader, StaysInTheBuffer
<1> QED BY <1>1, ReaderInvariant, PTL

\* Parser::run cannot be held by an input: every turn of its loop consumes
\* something or is its last.
THEOREM ReaderMovesOn == ReplaySpec => EveryTurnConsumes
<1>1. Reader /\ [ReplayNext]_replayVars
        => [pos' > pos \/ end' # "running"]_framingVars
  <2>1. ASSUME Reader, Hand \/ Read
        PROVE  pos' > pos \/ end' # "running"
    BY <2>1, TurnSound DEF Hand, Read
  <2> QED BY <2>1 DEF ReplayNext, Judge, replayVars
<1> QED BY <1>1, ReaderInvariant, PTL DEF ReplaySpec, EveryTurnConsumes

----------------------------------------------------------------------------
(* Books and their levels.                                                 *)

\* A book whose orders need not have as many shares as a venue gives them.
Placed == [locate : Locates, side : Sides, price : Prices, shares : Int]

KeyOf(o) == <<o.locate, o.side, o.price>>

IsBook(b) ==
  /\ b = [resting |-> b.resting, ahead |-> b.ahead]
  /\ DOMAIN b.resting \subseteq Refs /\ DOMAIN b.ahead = DOMAIN b.resting
  /\ \A r \in DOMAIN b.resting :
       /\ b.resting[r] \in Placed
       /\ \A x \in b.ahead[r] : x \in DOMAIN b.resting /\ KeyOf(b.resting[x]) = KeyOf(b.resting[r])

At(b, k) == {r \in DOMAIN b.resting : KeyOf(b.resting[r]) = k}

\* Level is At, for a key.
LEMMA LevelIsAt ==
  ASSUME NEW b, NEW l \in Locates, NEW side \in Sides, NEW price \in Prices
  PROVE  Level(b.resting, l, side, price) = At(b, <<l, side, price>>)
BY DEF Level, At, KeyOf

\* What a level shows is its orders, their shares and who is ahead of whom.
Same(b, c, k) ==
  /\ At(b, k) = At(c, k)
  /\ \A r \in At(b, k) : b.resting[r] = c.resting[r] /\ b.ahead[r] = c.ahead[r]

LEMMA SameView ==
  ASSUME NEW b, NEW c, NEW k \in Keys, Same(b, c, k)
  PROVE  LevelView(b, k) = LevelView(c, k)
<1> DEFINE S == At(b, k)
<1>1. /\ k[1] \in Locates /\ k[2] \in Sides /\ k[3] \in Prices
      /\ k = <<k[1], k[2], k[3]>>
  BY DEF Keys
<1>2. Level(b.resting, k[1], k[2], k[3]) = S /\ Level(c.resting, k[1], k[2], k[3]) = S
  BY <1>1, LevelIsAt DEF Same
<1>3. [r \in S |-> b.resting[r].shares] = [r \in S |-> c.resting[r].shares]
  BY DEF Same
<1>4. [r \in S |-> b.ahead[r]] = [r \in S |-> c.ahead[r]]
  BY DEF Same
<1>5. Depth(b.resting, k[1], k[2], k[3]) = Depth(c.resting, k[1], k[2], k[3])
  BY <1>2, <1>3 DEF Depth
<1> QED BY <1>2, <1>4, <1>5 DEF LevelView

\* Two levels that show the same hold the same orders.
LEMMA ViewShowsOrders ==
  ASSUME NEW b, NEW c, NEW k \in Keys, LevelView(b, k) = LevelView(c, k)
  PROVE  At(b, k) = At(c, k)
<1> DEFINE S == At(b, k)
           T == At(c, k)
<1>1. /\ k[1] \in Locates /\ k[2] \in Sides /\ k[3] \in Prices
      /\ k = <<k[1], k[2], k[3]>>
  BY DEF Keys
<1>2. Level(b.resting, k[1], k[2], k[3]) = S /\ Level(c.resting, k[1], k[2], k[3]) = T
  BY <1>1, LevelIsAt
<1>3. ASSUME NEW d, NEW U, Level(d.resting, k[1], k[2], k[3]) = U
      PROVE  /\ U = {} => LevelView(d, k).present = FALSE
             /\ U # {} => LevelView(d, k).present = TRUE /\ DOMAIN LevelView(d, k).queue = U
  BY <1>3 DEF LevelView
<1>4. S = T
  <2> HIDE DEF S, T
  <2>1. S = {} <=> T = {}
    BY <1>2, <1>3
  <2>2. ASSUME S # {}, T # {} PROVE S = T
    <3>1. DOMAIN LevelView(b, k).queue = S
      BY <1>2, <1>3, <2>2
    <3>2. DOMAIN LevelView(c, k).queue = T
      BY <1>2, <1>3, <2>2
    <3> QED BY <3>1, <3>2
  <2> QED BY <2>1, <2>2
<1> QED BY <1>4

----------------------------------------------------------------------------
(* What a message does to a book, and to a level it does not touch.        *)

LEMMA WithoutSound ==
  ASSUME NEW b, IsBook(b), NEW ref
  PROVE  /\ IsBook(Without(b, ref))
         /\ DOMAIN Without(b, ref).resting = DOMAIN b.resting \ {ref}
         /\ \A r \in DOMAIN b.resting \ {ref} : Without(b, ref).resting[r] = b.resting[r]
         /\ \A k : ref \notin At(b, k) => Same(b, Without(b, ref), k)
<1> DEFINE w == Without(b, ref)
           live == DOMAIN b.resting \ {ref}
<1>1. /\ w = [resting |-> w.resting, ahead |-> w.ahead]
      /\ w.resting = [r \in live |-> b.resting[r]]
      /\ w.ahead = [r \in live |-> b.ahead[r] \ {ref}]
  BY DEF Without
<1>2. IsBook(w)
  BY <1>1 DEF IsBook
<1>3. ASSUME NEW k, ref \notin At(b, k) PROVE Same(b, w, k)
  <2>1. At(b, k) = At(w, k)
    BY <1>1, <1>3 DEF At
  <2>2. ASSUME NEW r \in At(b, k)
        PROVE  b.resting[r] = w.resting[r] /\ b.ahead[r] = w.ahead[r]
    <3>1. r \in live
      BY <1>3 DEF At
    <3>2. ref \notin b.ahead[r]
      BY <1>3, <3>1 DEF At, IsBook
    <3>3. b.ahead[r] \ {ref} = b.ahead[r]
      BY <3>2
    <3> QED BY <1>1, <3>1, <3>3
  <2> QED BY <2>1, <2>2 DEF Same
<1> QED BY <1>1, <1>2, <1>3

LEMMA WithSound ==
  ASSUME NEW b, IsBook(b), NEW ref \in Refs, NEW o \in Placed, ref \notin DOMAIN b.resting
  PROVE  /\ IsBook(With(b, ref, o))
         /\ DOMAIN With(b, ref, o).resting = DOMAIN b.resting \cup {ref}
         /\ With(b, ref, o).resting[ref] = o
         /\ \A r \in DOMAIN b.resting : With(b, ref, o).resting[r] = b.resting[r]
         /\ \A k : KeyOf(o) # k => Same(b, With(b, ref, o), k)
<1> DEFINE w == With(b, ref, o)
           live == DOMAIN b.resting \cup {ref}
           behind == {x \in DOMAIN b.resting : SamePlace(b.resting[x], o)}
<1>1. /\ w = [resting |-> w.resting, ahead |-> w.ahead]
      /\ w.resting = [r \in live |-> IF r = ref THEN o ELSE b.resting[r]]
      /\ w.ahead = [r \in live |-> IF r = ref THEN behind ELSE b.ahead[r]]
  BY DEF With
<1>2. \A x \in behind : KeyOf(b.resting[x]) = KeyOf(o)
  BY DEF SamePlace, KeyOf
<1>3. IsBook(w)
  <2>1. ASSUME NEW r \in live
        PROVE  /\ w.resting[r] \in Placed
               /\ \A x \in w.ahead[r] : x \in live /\ KeyOf(w.resting[x]) = KeyOf(w.resting[r])
    <3>1. CASE r = ref
      BY <1>1, <1>2, <3>1
    <3>2. CASE r # ref
      BY <1>1, <3>2 DEF IsBook
    <3> QED BY <3>1, <3>2
  <2>2. live \subseteq Refs
    BY DEF IsBook
  <2> QED BY <1>1, <2>1, <2>2 DEF IsBook
<1>4. ASSUME NEW k, KeyOf(o) # k PROVE Same(b, w, k)
  BY <1>1, <1>4 DEF Same, At
<1> QED BY <1>1, <1>3, <1>4

LEMMA ArrivalSound ==
  ASSUME NEW b, IsBook(b), NEW ref \in Refs, NEW o \in Placed
  PROVE  /\ IsBook(Arrival(b, ref, o))
         /\ DOMAIN Arrival(b, ref, o).resting = DOMAIN b.resting \cup {ref}
         /\ Arrival(b, ref, o).resting[ref] = o
         /\ \A r \in DOMAIN b.resting \ {ref} : Arrival(b, ref, o).resting[r] = b.resting[r]
         /\ \A k : ref \notin At(b, k) /\ KeyOf(o) # k => Same(b, Arrival(b, ref, o), k)
<1> DEFINE w == Without(b, ref)
<1>1. /\ IsBook(w) /\ ref \notin DOMAIN w.resting
      /\ DOMAIN w.resting = DOMAIN b.resting \ {ref}
      /\ \A r \in DOMAIN b.resting \ {ref} : w.resting[r] = b.resting[r]
      /\ \A k : ref \notin At(b, k) => Same(b, w, k)
  BY WithoutSound
<1>2. Arrival(b, ref, o) = With(w, ref, o)
  BY DEF Arrival
<1> HIDE DEF w
<1>3. /\ IsBook(With(w, ref, o))
      /\ DOMAIN With(w, ref, o).resting = DOMAIN w.resting \cup {ref}
      /\ With(w, ref, o).resting[ref] = o
      /\ \A r \in DOMAIN w.resting : With(w, ref, o).resting[r] = w.resting[r]
      /\ \A k : KeyOf(o) # k => Same(w, With(w, ref, o), k)
  BY <1>1, WithSound
<1>4. ASSUME NEW k, ref \notin At(b, k), KeyOf(o) # k PROVE Same(b, With(w, ref, o), k)
  BY <1>1, <1>3, <1>4 DEF Same
<1> QED BY <1>1, <1>2, <1>3, <1>4

\* Less of an order, or none of it.
LEMMA ShrunkSound ==
  ASSUME NEW b, IsBook(b), NEW ref \in DOMAIN b.resting, NEW qty \in Int
  PROVE  /\ IsBook(Shrunk(b, ref, qty))
         /\ DOMAIN Shrunk(b, ref, qty).resting \subseteq DOMAIN b.resting
         /\ \A r \in DOMAIN Shrunk(b, ref, qty).resting :
              KeyOf(Shrunk(b, ref, qty).resting[r]) = KeyOf(b.resting[r])
         /\ \A k : ref \notin At(b, k) => Same(b, Shrunk(b, ref, qty), k)
<1> DEFINE o == [b.resting[ref] EXCEPT !.shares = @ - qty]
           s == [b EXCEPT !.resting[ref].shares = @ - qty]
<1>1. CASE qty < b.resting[ref].shares
  <2>1. b.resting[ref] \in Placed
    BY DEF IsBook
  <2>2. o \in Placed /\ KeyOf(o) = KeyOf(b.resting[ref])
    BY <2>1 DEF Placed, KeyOf
  <2>3. /\ s = [resting |-> s.resting, ahead |-> s.ahead]
        /\ s.ahead = b.ahead
        /\ s.resting = [b.resting EXCEPT ![ref] = o]
    BY DEF IsBook
  <2>4. Shrunk(b, ref, qty) = s
    BY <1>1 DEF Shrunk
  <2> HIDE DEF o, s
  <2>5. /\ DOMAIN s.resting = DOMAIN b.resting
        /\ \A r \in DOMAIN b.resting : /\ s.resting[r] = IF r = ref THEN o ELSE b.resting[r]
                                       /\ KeyOf(s.resting[r]) = KeyOf(b.resting[r])
    BY <2>2, <2>3
  <2>6. IsBook(s)
    <3>1. \A r \in DOMAIN s.resting :
            /\ s.resting[r] \in Placed
            /\ \A x \in s.ahead[r] : x \in DOMAIN s.resting /\ KeyOf(s.resting[x]) = KeyOf(s.resting[r])
      BY <2>2, <2>3, <2>5 DEF IsBook
    <3>2. DOMAIN s.resting \subseteq Refs /\ DOMAIN s.ahead = DOMAIN s.resting
      BY <2>3, <2>5 DEF IsBook
    <3> QED BY <2>3, <3>1, <3>2 DEF IsBook
  <2>7. ASSUME NEW k, ref \notin At(b, k) PROVE Same(b, s, k)
    <3>1. At(b, k) = At(s, k)
      BY <2>5 DEF At
    <3> QED BY <2>3, <2>5, <2>7, <3>1 DEF Same, At
  <2> QED BY <2>4, <2>5, <2>6, <2>7
<1>2. CASE ~(qty < b.resting[ref].shares)
  <2>1. Shrunk(b, ref, qty) = Without(b, ref)
    BY <1>2 DEF Shrunk
  <2> QED BY <2>1, WithoutSound
<1> QED BY <1>1, <1>2

\* A message as a book may be given it, whether or not it names a live order.
Shape(m) ==
  \/ m.type = "A" /\ {"type", "ref", "order"} \subseteq DOMAIN m
       /\ m.ref \in Refs /\ m.order \in Placed
  \/ m.type \in {"E", "X"} /\ {"type", "ref", "qty"} \subseteq DOMAIN m /\ m.qty \in Int
  \/ m.type = "D" /\ {"type", "ref"} \subseteq DOMAIN m
  \/ m.type = "U" /\ {"type", "ref", "new", "price", "shares"} \subseteq DOMAIN m
       /\ m.new \in Refs /\ m.price \in Prices /\ m.shares \in Int
  \/ m.type \in {"P", "B", "H"} /\ "ref" \notin DOMAIN m

\* The order it brings, where that goes in a book b, and the orders it is about.
Newcomers(m) == IF m.type = "A" THEN {m.ref} ELSE IF m.type = "U" THEN {m.new} ELSE {}
NewKeys(b, m) ==
  IF m.type = "A" THEN {KeyOf(m.order)}
  ELSE IF m.type = "U" /\ m.ref \in DOMAIN b.resting
       THEN {<<b.resting[m.ref].locate, b.resting[m.ref].side, m.price>>} ELSE {}
Movers(m) == Newcomers(m) \cup IF "ref" \in DOMAIN m THEN {m.ref} ELSE {}

\* A message moves nobody but the newcomer, who goes where it says, and changes
\* no level but theirs.
LEMMA AfterSound ==
  ASSUME NEW b, IsBook(b), NEW m, Shape(m)
  PROVE  /\ IsBook(After(b, m))
         /\ \A r \in DOMAIN After(b, m).resting :
              \/ r \in Newcomers(m)
              \/ r \in DOMAIN b.resting /\ KeyOf(After(b, m).resting[r]) = KeyOf(b.resting[r])
         /\ \A k : k \notin NewKeys(b, m) /\ Movers(m) \cap At(b, k) = {}
              => Same(b, After(b, m), k)
         /\ Live(b, m) \/ m.type = "A" =>
              \A r \in Newcomers(m) : /\ r \in DOMAIN After(b, m).resting
                                      /\ KeyOf(After(b, m).resting[r]) \in NewKeys(b, m)
<1>1. CASE m.type = "A"
  <2>1. After(b, m) = Arrival(b, m.ref, m.order)
    BY <1>1 DEF After
  <2>2. m.ref \in Refs /\ m.order \in Placed /\ m.ref \in Movers(m)
        /\ Newcomers(m) = {m.ref} /\ NewKeys(b, m) = {KeyOf(m.order)}
    BY <1>1 DEF Shape, Movers, Newcomers, NewKeys
  <2>3. \A k : k \notin NewKeys(b, m) /\ Movers(m) \cap At(b, k) = {}
          => m.ref \notin At(b, k) /\ KeyOf(m.order) # k
    BY <2>2
  <2> QED BY <2>1, <2>2, <2>3, ArrivalSound
<1>2. CASE m.type # "A" /\ ~Live(b, m)
  <2>1. After(b, m) = b
    BY <1>2 DEF After
  <2>2. \A k : Same(b, b, k)
    BY DEF Same
  <2> QED BY <1>2, <2>1, <2>2
<1>3. CASE m.type = "U" /\ Live(b, m)
  <2> DEFINE w == Without(b, m.ref)
             o == [b.resting[m.ref] EXCEPT !.price = m.price, !.shares = m.shares]
  <2>1. After(b, m) = Arrival(w, m.new, o)
    BY <1>3 DEF After
  <2>2. /\ m.new \in Refs /\ m.price \in Prices /\ m.shares \in Int
        /\ Newcomers(m) = {m.new} /\ Movers(m) = {m.new, m.ref}
        /\ m.ref \in DOMAIN b.resting
    BY <1>3 DEF Shape, Movers, Newcomers, Live
  <2>3. b.resting[m.ref] \in Placed
    BY <2>2 DEF IsBook
  <2>4. o \in Placed /\ NewKeys(b, m) = {KeyOf(o)}
    BY <1>3, <2>2, <2>3 DEF Placed, NewKeys, KeyOf
  <2>5. /\ IsBook(w) /\ DOMAIN w.resting = DOMAIN b.resting \ {m.ref}
        /\ \A r \in DOMAIN b.resting \ {m.ref} : w.resting[r] = b.resting[r]
        /\ \A k : m.ref \notin At(b, k) => Same(b, w, k)
    BY WithoutSound
  <2> HIDE DEF w, o
  <2>6. /\ IsBook(Arrival(w, m.new, o))
        /\ DOMAIN Arrival(w, m.new, o).resting = DOMAIN w.resting \cup {m.new}
        /\ Arrival(w, m.new, o).resting[m.new] = o
        /\ \A r \in DOMAIN w.resting \ {m.new} : Arrival(w, m.new, o).resting[r] = w.resting[r]
        /\ \A k : m.new \notin At(w, k) /\ KeyOf(o) # k => Same(w, Arrival(w, m.new, o), k)
    BY <2>2, <2>4, <2>5, ArrivalSound
  <2>7. ASSUME NEW k, k # KeyOf(o), Movers(m) \cap At(b, k) = {}
        PROVE  Same(b, Arrival(w, m.new, o), k)
    <3>1. m.ref \notin At(b, k) /\ m.new \notin At(b, k)
      BY <2>2, <2>7
    <3>2. Same(b, w, k)
      BY <2>5, <3>1
    <3>3. Same(w, Arrival(w, m.new, o), k)
      BY <2>6, <2>7, <3>1, <3>2 DEF Same
    <3> QED BY <3>2, <3>3 DEF Same
  <2> QED BY <2>1, <2>2, <2>4, <2>5, <2>6, <2>7
<1>4. CASE m.type \in {"E", "X", "D"} /\ Live(b, m)
  <2>1. /\ m.ref \in DOMAIN b.resting /\ Newcomers(m) = {} /\ m.ref \in Movers(m)
    BY <1>4 DEF Live, Newcomers, Movers
  <2>2. \A k : Movers(m) \cap At(b, k) = {} => m.ref \notin At(b, k)
    BY <2>1
  <2>3. CASE m.type = "D"
    <3>1. After(b, m) = Without(b, m.ref)
      BY <1>4, <2>3 DEF After
    <3> QED BY <2>1, <2>2, <3>1, WithoutSound
  <2>4. CASE m.type \in {"E", "X"}
    <3>1. After(b, m) = Shrunk(b, m.ref, m.qty) /\ m.qty \in Int
      BY <1>4, <2>4 DEF After, Shape
    <3> QED BY <2>1, <2>2, <2>4, <3>1, ShrunkSound
  <2> QED BY <1>4, <2>3, <2>4
<1>5. m.type \in {"A", "E", "X", "D", "U"} \/ ~Live(b, m)
  BY DEF Shape, Live
<1> QED BY <1>1, <1>2, <1>3, <1>4, <1>5

----------------------------------------------------------------------------
(* The feed's messages, and the reference book.                            *)

\* Messages are well formed, and a newcomer's reference is free.
LEMMA LegalShape ==
  ASSUME IsBook(Book), NEW m \in LegalMessages
  PROVE  /\ Shape(m)
         /\ Newcomers(m) \cap DOMAIN resting = {}
         /\ m.type \in {"E", "X", "D", "U"} => m.ref \in DOMAIN resting /\ Live(Book, m)
<1>1. /\ LotSizes \subseteq Int /\ Shares \subseteq Int
      /\ \A o \in Order : o \in Placed
  BY SessionFeedAssumption DEF Shares, Order, Placed
<1>2. NewRefs \subseteq Refs \ DOMAIN resting
  BY DEF NewRefs
<1>3. CASE \E r \in NewRefs, o \in {x \in Order : x.shares \in LotSizes} :
             m = [type |-> "A", ref |-> r, order |-> o]
  BY <1>1, <1>2, <1>3 DEF Shape, Newcomers
<1>4. CASE \E r \in DOMAIN resting, q \in Shares :
             \/ m = [type |-> "E", ref |-> r, qty |-> q]
             \/ m = [type |-> "X", ref |-> r, qty |-> q]
  <2>1. PICK r \in DOMAIN resting, q \in Shares :
             m = [type |-> "E", ref |-> r, qty |-> q] \/ m = [type |-> "X", ref |-> r, qty |-> q]
    BY <1>4
  <2>2. /\ m.type \in {"E", "X"} /\ m.ref = r /\ m.qty = q /\ q \in Int
        /\ DOMAIN m = {"type", "ref", "qty"}
    BY <1>1, <2>1
  <2> QED BY <2>2 DEF Shape, Newcomers, Live, Book
<1>5. CASE \E r \in DOMAIN resting : m = [type |-> "D", ref |-> r]
  BY <1>5 DEF Shape, Newcomers, Live, Book
<1>6. CASE \E r \in DOMAIN resting, n \in NewRefs, p \in Prices, s \in LotSizes :
             m = [type |-> "U", ref |-> r, new |-> n, price |-> p, shares |-> s]
  <2>1. PICK r \in DOMAIN resting, n \in NewRefs, p \in Prices, s \in LotSizes :
             m = [type |-> "U", ref |-> r, new |-> n, price |-> p, shares |-> s]
    BY <1>6
  <2>2. /\ m.type = "U" /\ m.ref = r /\ m.new = n /\ m.price = p /\ m.shares = s
        /\ DOMAIN m = {"type", "ref", "new", "price", "shares"}
    BY <2>1
  <2>3. n \in Refs \ DOMAIN resting /\ s \in Int
    BY <1>1, <1>2
  <2> QED BY <2>2, <2>3 DEF Shape, Newcomers, Live, Book
<1>7. CASE \/ \E l \in Locates, p \in Prices : m = [type |-> "P", locate |-> l, price |-> p]
           \/ \E l \in Locates, b \in Strays : m = [type |-> "B", locate |-> l, body |-> b]
           \/ \E l \in Locates, t \in TradingStates :
                m = [type |-> "H", locate |-> l, state |-> t]
  BY <1>7 DEF Shape, Newcomers
<1> QED BY <1>3, <1>4, <1>5, <1>6, <1>7 DEF LegalMessages

NextBook == [resting |-> resting', ahead |-> ahead']

\* The book of the feed is a book a message is applied to like any other.
LEMMA ReferenceApplies ==
  ASSUME IsBook(Book), NEW m \in LegalMessages, Applied(m)
  PROVE  NextBook = After(Book, m)
<1>1. /\ Shape(m)
      /\ m.type \in {"E", "X", "D", "U"} => Live(Book, m)
  BY LegalShape
<1>2. CASE m.type = "A" /\ Enter(m.ref, m.order)
  BY <1>2 DEF Enter, Becomes, NextBook, After, Arrival, With
<1>3. CASE m.type \in {"E", "X"} /\ Reduce(m.ref, m.qty)
  <2>1. After(Book, m) = Shrunk(Book, m.ref, m.qty)
    BY <1>1, <1>3 DEF After
  <2>2. NextBook = Shrunk(Book, m.ref, m.qty)
    BY <1>3 DEF Reduce, Shrunk, Becomes, NextBook, Book, Without
  <2> QED BY <2>1, <2>2
<1>4. CASE m.type = "D" /\ Leave(m.ref)
  <2>1. After(Book, m) = Without(Book, m.ref)
    BY <1>1, <1>4 DEF After
  <2> QED BY <1>4, <2>1 DEF Leave, Becomes, NextBook, Without
<1>5. CASE m.type = "U" /\ Replace(m.ref, m.new, m.price, m.shares)
  <2> DEFINE o == [resting[m.ref] EXCEPT !.price = m.price, !.shares = m.shares]
  <2>1. After(Book, m) = Arrival(Without(Book, m.ref), m.new, o)
    BY <1>1, <1>5 DEF After, Book
  <2>2. Becomes(Arrival(Without(Book, m.ref), m.new, o))
    BY <1>5 DEF Replace
  <2> HIDE DEF o
  <2> QED BY <2>1, <2>2 DEF Becomes, NextBook, Arrival, With
<1>6. CASE m.type \in {"P", "B", "H"} /\ UNCHANGED bookVars
  <2>1. After(Book, m) = Book
    BY <1>1, <1>6 DEF After, Live, Shape
  <2> QED BY <1>6, <2>1 DEF bookVars, NextBook, Book
<1> QED BY <1>2, <1>3, <1>4, <1>5, <1>6 DEF Applied

\* The levels compared after a message are the ones it is about.
LEMMA TouchedSound ==
  ASSUME IsBook(Book), NEW m \in LegalMessages, m.type \notin {"P", "B", "H"}
  PROVE  /\ NewKeys(Book, m) \subseteq TouchedLevels(resting, m)
         /\ TouchedLevels(resting, m) \subseteq Keys
         /\ m.type # "A" => KeyOf(resting[m.ref]) \in TouchedLevels(resting, m)
<1>1. /\ Shape(m)
      /\ m.type \in {"E", "X", "D", "U"} => m.ref \in DOMAIN resting
  BY LegalShape
<1>2. \A o \in Placed : KeyOf(o) \in Keys /\ o.locate \in Locates /\ o.side \in Sides
  BY DEF Placed, KeyOf, Keys
<1>3. \A r \in DOMAIN resting : resting[r] \in Placed
  BY DEF IsBook, Book
<1>4. CASE m.type = "A"
  BY <1>1, <1>2, <1>4 DEF Shape, TouchedLevels, LocateOf, NewKeys, KeyOf
<1>5. CASE m.type = "U"
  <2>1. <<resting[m.ref].locate, resting[m.ref].side, m.price>> \in Keys
    BY <1>1, <1>2, <1>3, <1>5 DEF Shape, Keys
  <2> QED BY <1>1, <1>2, <1>3, <1>5, <2>1 DEF TouchedLevels, LocateOf, NewKeys, KeyOf, Book
<1>6. CASE m.type \in {"E", "X", "D"}
  BY <1>1, <1>2, <1>3, <1>6 DEF TouchedLevels, LocateOf, NewKeys, KeyOf
<1> QED BY <1>1, <1>4, <1>5, <1>6 DEF Shape

----------------------------------------------------------------------------
(* The harness.  While nothing is reported, the orders both books hold are *)
(* at the same level in both, and the levels the reference has changed     *)
(* since the fast book went wrong show the same in both.                   *)

Aligned ==
  \A r \in DOMAIN fast.resting \cap DOMAIN resting :
    KeyOf(fast.resting[r]) = KeyOf(resting[r])

HarnessInv ==
  /\ IsBook(Book) /\ IsBook(fast) /\ messages \in Nat
  /\ changed \subseteq Keys
  /\ faultAt = 0 => fast = Book /\ changed = {}
  /\ ~div.found => Aligned /\ HiddenOnlyWhereNobodyWent

\* However a message is mishandled, an order that was there before either is
\* where it was or came by the message.
LEMMA MishandledSound ==
  ASSUME IsBook(Book), NEW m \in LegalMessages, NEW f \in Mishandled(Book, m)
  PROVE  /\ IsBook(f)
         /\ \A r \in DOMAIN f.resting :
              \/ r \in Newcomers(m) \/ r \notin DOMAIN resting
              \/ KeyOf(f.resting[r]) = KeyOf(resting[r])
<1> DEFINE a == After(Book, m)
<1>1. /\ Shape(m)
      /\ Newcomers(m) \cap DOMAIN resting = {}
  BY LegalShape
<1>2. /\ IsBook(a)
      /\ \A r \in DOMAIN a.resting :
           \/ r \in Newcomers(m)
           \/ r \in DOMAIN resting /\ KeyOf(a.resting[r]) = KeyOf(resting[r])
  BY <1>1, AfterSound DEF Book
<1> HIDE DEF a
<1>3. CASE f = Book
  BY <1>3 DEF Book
<1>4. CASE \E r \in DOMAIN resting : Live(Book, m) /\ f = After(Book, [m EXCEPT !.ref = r])
  <2>1. PICK r \in DOMAIN resting : Live(Book, m) /\ f = After(Book, [m EXCEPT !.ref = r])
    BY <1>4
  <2> DEFINE n == [m EXCEPT !.ref = r]
  <2>2. m.type # "A" /\ "ref" \in DOMAIN m
    BY <1>1, <2>1 DEF Live, Newcomers, Book
  <2>3. /\ Shape(n) /\ Newcomers(n) = Newcomers(m)
    BY <1>1, <2>2 DEF Shape, Newcomers
  <2> HIDE DEF n
  <2>4. /\ IsBook(After(Book, n))
        /\ \A x \in DOMAIN After(Book, n).resting :
             \/ x \in Newcomers(n)
             \/ x \in DOMAIN resting /\ KeyOf(After(Book, n).resting[x]) = KeyOf(resting[x])
    BY <2>3, AfterSound DEF Book
  <2> QED BY <2>1, <2>3, <2>4 DEF n
<1>5. CASE \E r \in DOMAIN a.resting : f = Without(a, r)
  <2>1. PICK r \in DOMAIN a.resting : f = Without(a, r)
    BY <1>5
  <2> QED BY <1>2, <2>1, WithoutSound
<1>6. CASE \E r \in DOMAIN a.resting : f = Shrunk(a, r, 1)
  <2>1. PICK r \in DOMAIN a.resting : f = Shrunk(a, r, 1)
    BY <1>6
  <2>2. /\ IsBook(f) /\ DOMAIN f.resting \subseteq DOMAIN a.resting
        /\ \A x \in DOMAIN f.resting : KeyOf(f.resting[x]) = KeyOf(a.resting[x])
    BY <1>2, <2>1, ShrunkSound
  <2> QED BY <1>2, <2>2
<1>7. CASE \E r \in NewRefs, o \in {x \in Order : x.shares = 1} : f = Arrival(a, r, o)
  <2>1. PICK r \in NewRefs, o \in {x \in Order : x.shares = 1} : f = Arrival(a, r, o)
    BY <1>7
  <2>2. r \in Refs \ DOMAIN resting /\ o \in Placed
    BY DEF NewRefs, Order, Placed
  <2>3. /\ IsBook(f) /\ DOMAIN f.resting = DOMAIN a.resting \cup {r}
        /\ \A x \in DOMAIN a.resting \ {r} : f.resting[x] = a.resting[x]
    BY <1>2, <2>1, <2>2, ArrivalSound
  <2> QED BY <1>2, <2>2, <2>3
<1>8. Book.resting = resting
  BY DEF Book
<1> QED BY <1>3, <1>4, <1>5, <1>6, <1>7, <1>8, SMTT(60) DEF Mishandled, a

\* What has passed the comparisons of a message.
LEMMA ChecksPassed ==
  ASSUME NEW m, NEW checks \in ChecksFor(m), CompareAfter(checks), ~div'.found,
         m.type \notin {"P", "B"}
  PROVE  \A k \in TouchedLevels(resting, m) : LevelView(NextBook, k) = LevelView(fast', k)
<1> DEFINE own == Failing(checks)
           full == IF FullDue
                   THEN Failing(Everything([resting |-> resting', ahead |-> ahead'])) ELSE {}
           all == IF own # {} THEN own ELSE full
<1>1. Recorded(all)
  BY DEF CompareAfter
<1>2. ASSUME all # {} PROVE FALSE
  <2>1. PICK check \in all : div' = [found |-> TRUE, message_index |-> messages', what |-> check]
    BY <1>1, <1>2 DEF Recorded
  <2> QED BY <2>1
<1>3. own = {}
  BY <1>2
<1> SUFFICES ASSUME NEW k \in TouchedLevels(resting, m)
             PROVE  LevelView(NextBook, k) = LevelView(fast', k)
  OBVIOUS
<1>4. LevelCheck(k) \in checks
  BY DEF ChecksFor
<1>5. ~Differs([resting |-> resting', ahead |-> ahead'], fast', LevelCheck(k))
  BY <1>3, <1>4 DEF Failing
<1>6. LevelCheck(k)[1] = "level" /\ LevelCheck(k)[2] = k
  BY DEF LevelCheck
<1> QED BY <1>5, <1>6 DEF Differs, NextBook

\* A message both books take.
LEMMA ComparedSound ==
  ASSUME HarnessInv, NEW m \in LegalMessages, Compared(m)
  PROVE  HarnessInv'
<1> DEFINE touched == TouchedLevels(resting, m)
           wrong == fast' \in Mishandled(fast, m) \ {After(fast, m)}
<1>1. /\ IsBook(Book) /\ IsBook(fast) /\ messages \in Nat /\ messages' = messages + 1
      /\ ~div.found /\ Aligned /\ HiddenOnlyWhereNobodyWent /\ changed \subseteq Keys
      /\ faultAt = 0 => fast = Book /\ changed = {}
      /\ m.type # "H"
  BY DEF HarnessInv, Compared
<1>2. /\ Shape(m)
      /\ Newcomers(m) \cap DOMAIN resting = {}
      /\ m.type \in {"E", "X", "D", "U"} => m.ref \in DOMAIN resting /\ Live(Book, m)
  BY <1>1, LegalShape
<1>3. NextBook = After(Book, m) /\ Book' = NextBook
  BY <1>1, ReferenceApplies DEF Compared, Delivered, Book, NextBook
<1>4. /\ IsBook(NextBook)
      /\ \A r \in DOMAIN NextBook.resting :
           \/ r \in Newcomers(m)
           \/ r \in DOMAIN resting /\ KeyOf(NextBook.resting[r]) = KeyOf(resting[r])
      /\ \A k : k \notin NewKeys(Book, m) /\ Movers(m) \cap At(Book, k) = {}
           => Same(Book, NextBook, k)
      /\ Live(Book, m) \/ m.type = "A" =>
           \A r \in Newcomers(m) : /\ r \in DOMAIN NextBook.resting
                                   /\ KeyOf(NextBook.resting[r]) \in NewKeys(Book, m)
  BY <1>1, <1>2, <1>3, AfterSound DEF Book
<1>5. /\ IsBook(After(fast, m))
      /\ \A r \in DOMAIN After(fast, m).resting :
           \/ r \in Newcomers(m)
           \/ r \in DOMAIN fast.resting /\ KeyOf(After(fast, m).resting[r]) = KeyOf(fast.resting[r])
      /\ \A k : k \notin NewKeys(fast, m) /\ Movers(m) \cap At(fast, k) = {}
           => Same(fast, After(fast, m), k)
  BY <1>1, <1>2, AfterSound
<1>6. \/ fast' = After(fast, m) /\ faultAt' = faultAt
      \/ wrong /\ faultAt = 0 /\ faultAt' = messages' /\ m.type \notin {"P", "B"}
  BY DEF Compared, FastApplies
<1>7. wrong /\ faultAt = 0 =>
        /\ IsBook(fast')
        /\ \A r \in DOMAIN fast'.resting :
             \/ r \in Newcomers(m) \/ r \notin DOMAIN resting
             \/ KeyOf(fast'.resting[r]) = KeyOf(resting[r])
  BY <1>1, MishandledSound
<1>8. changed' = IF faultAt' = 0 THEN {}
                 ELSE changed \cup {k \in Keys : LevelView(Book, k) # LevelView(NextBook, k)}
  BY DEF Compared, Noted, Book, NextBook
<1>9. ~div'.found /\ m.type \notin {"P", "B"} =>
        \A k \in touched : LevelView(NextBook, k) = LevelView(fast', k)
  BY ChecksPassed DEF Compared
<1>10. m.type \notin {"P", "B"} =>
         /\ NewKeys(Book, m) \subseteq touched /\ touched \subseteq Keys
         /\ m.type # "A" => KeyOf(resting[m.ref]) \in touched
  BY <1>1, TouchedSound
<1>11. m.type \in {"P", "B"} => NewKeys(Book, m) = {} /\ NewKeys(fast, m) = {} /\ Movers(m) = {}
  BY <1>2 DEF NewKeys, Movers, Newcomers, Shape
<1>12. /\ Book.resting = resting /\ NextBook.resting = resting'
       /\ \A r, k : r \in At(Book, k) <=> r \in DOMAIN resting /\ KeyOf(resting[r]) = k
  BY DEF Book, NextBook, At
<1> HIDE DEF touched, wrong
\* No order both books hold has moved in one of them alone.
<1>13. ASSUME ~div'.found PROVE Aligned'
  <2> SUFFICES ASSUME NEW r \in DOMAIN fast'.resting \cap DOMAIN resting'
               PROVE  KeyOf(fast'.resting[r]) = KeyOf(resting'[r])
    BY DEF Aligned
  <2>1. CASE r \in Newcomers(m)
    <3>1. m.type \in {"A", "U"}
      BY <2>1 DEF Newcomers
    <3> DEFINE k == KeyOf(resting'[r])
    <3>2. k \in NewKeys(Book, m)
      BY <1>2, <1>4, <1>12, <2>1, <3>1
    <3>3. k \in Keys /\ LevelView(NextBook, k) = LevelView(fast', k)
      BY <1>9, <1>10, <1>13, <3>1, <3>2
    <3> HIDE DEF k
    <3>4. At(NextBook, k) = At(fast', k)
      BY <3>3, ViewShowsOrders
    <3>5. r \in At(NextBook, k)
      BY <1>12 DEF At, k
    <3> QED BY <3>4, <3>5 DEF At, k
  <2>2. CASE r \notin Newcomers(m)
    <3>1. r \in DOMAIN resting /\ KeyOf(resting'[r]) = KeyOf(resting[r])
      BY <1>4, <1>12, <2>2
    <3>2. CASE fast' = After(fast, m)
      <4>1. r \in DOMAIN fast.resting /\ KeyOf(fast'.resting[r]) = KeyOf(fast.resting[r])
        BY <1>5, <2>2, <3>2
      <4> QED BY <1>1, <3>1, <4>1 DEF Aligned
    <3>3. CASE wrong /\ faultAt = 0
      BY <1>7, <2>2, <3>1, <3>3
    <3> QED BY <1>6, <3>2, <3>3
  <2> QED BY <2>1, <2>2
\* A level no check of this message looked at is as it was, in both.
<1>14. ASSUME NEW k \in Keys, m.type \in {"P", "B"} \/ k \notin touched
       PROVE  LevelView(Book, k) = LevelView(NextBook, k)
  <2>1. k \notin NewKeys(Book, m)
    BY <1>10, <1>11, <1>14
  <2>2. ASSUME NEW r \in Movers(m), r \in At(Book, k) PROVE FALSE
    <3>1. r \in DOMAIN resting /\ KeyOf(resting[r]) = k
      BY <1>12, <2>2
    <3>2. m.type \notin {"P", "B"} /\ r \notin Newcomers(m)
      BY <1>2, <1>11, <2>2, <3>1
    <3>3. r = m.ref /\ m.type # "A"
      BY <2>2, <3>2 DEF Movers, Newcomers
    <3> QED BY <1>10, <1>14, <3>1, <3>2, <3>3
  <2>3. Same(Book, NextBook, k)
    BY <1>4, <2>1, <2>2
  <2> QED BY <2>3, SameView
<1>15. ASSUME NEW k \in changed, m.type \in {"P", "B"} \/ k \notin touched, fast' = After(fast, m)
       PROVE  LevelView(fast, k) = LevelView(fast', k)
  <2>1. k \in Keys /\ At(Book, k) = At(fast, k)
    BY <1>1, ViewShowsOrders DEF HiddenOnlyWhereNobodyWent
  <2>2. ASSUME NEW r \in Movers(m), r \in At(fast, k) PROVE FALSE
    <3>1. r \in DOMAIN resting /\ KeyOf(resting[r]) = k
      BY <1>12, <2>1, <2>2
    <3>2. m.type \notin {"P", "B"} /\ r \notin Newcomers(m)
      BY <1>2, <1>11, <2>2, <3>1
    <3>3. r = m.ref /\ m.type # "A"
      BY <2>2, <3>2 DEF Movers, Newcomers
    <3> QED BY <1>10, <1>15, <3>1, <3>2, <3>3
  <2>3. k \notin NewKeys(fast, m)
    <3>1. CASE m.type = "A"
      BY <1>10, <1>15, <3>1 DEF NewKeys
    <3>2. CASE m.type = "U" /\ m.ref \in DOMAIN fast.resting
      <4>1. m.ref \in DOMAIN resting /\ KeyOf(fast.resting[m.ref]) = KeyOf(resting[m.ref])
        BY <1>1, <1>2, <3>2 DEF Aligned
      <4>2. /\ fast.resting[m.ref].locate = resting[m.ref].locate
            /\ fast.resting[m.ref].side = resting[m.ref].side
        BY <4>1 DEF KeyOf
      <4>3. NewKeys(fast, m) = NewKeys(Book, m)
        BY <1>12, <3>2, <4>1, <4>2 DEF NewKeys
      <4> QED BY <1>10, <1>15, <3>2, <4>3
    <3> QED BY <3>1, <3>2 DEF NewKeys
  <2>4. Same(fast, fast', k)
    BY <1>5, <1>15, <2>2, <2>3
  <2> QED BY <2>1, <2>4, SameView
<1>16. ASSUME ~div'.found PROVE HiddenOnlyWhereNobodyWent'
  <2> SUFFICES ASSUME NEW k \in changed' PROVE LevelView(NextBook, k) = LevelView(fast', k)
    BY <1>3 DEF HiddenOnlyWhereNobodyWent
  <2>1. k \in Keys /\ faultAt' # 0
    BY <1>1, <1>8
  <2>2. CASE m.type \notin {"P", "B"} /\ k \in touched
    BY <1>9, <1>16, <2>2
  <2>3. CASE m.type \in {"P", "B"} \/ k \notin touched
    <3>1. LevelView(Book, k) = LevelView(NextBook, k)
      BY <1>14, <2>1, <2>3
    <3>2. k \in changed
      BY <1>8, <2>1, <3>1
    <3>3. faultAt # 0 /\ fast' = After(fast, m)
      BY <1>1, <1>6, <3>2
    <3>4. LevelView(Book, k) = LevelView(fast, k)
      BY <1>1, <3>2 DEF HiddenOnlyWhereNobodyWent
    <3> QED BY <1>15, <2>3, <3>1, <3>2, <3>3, <3>4
  <2> QED BY <2>2, <2>3
<1>17. IsBook(Book)' /\ IsBook(fast)' /\ messages' \in Nat /\ (changed \subseteq Keys)'
  BY <1>1, <1>3, <1>4, <1>5, <1>6, <1>7, <1>8
<1>18. faultAt' = 0 => fast' = Book' /\ changed' = {}
  BY <1>1, <1>3, <1>6, <1>8
<1> QED BY <1>13, <1>16, <1>17, <1>18 DEF HarnessInv

\* What the tool's last comparison found, once it has been made.
Verdict ==
  judged /\ fullOk /\ ~div.found =>
    \A check \in Everything(Book) : ~Differs(Book, fast, check)

ReplayInv == HarnessInv /\ (judged => end # "running") /\ Verdict

LEMMA InitSound == ReplayInit => ReplayInv
<1> SUFFICES ASSUME ReplayInit PROVE ReplayInv
  OBVIOUS
<1>1. DiffInit /\ FeedInit /\ judged = FALSE
  BY DEF ReplayInit, DiffInit
<1>2. PICK b \in OpeningBooks : resting = b.resting /\ ahead = b.ahead
  BY <1>1 DEF FeedInit
<1>3. WellFormed(b)
  BY SessionFeedAssumption
<1>4. Book = b
  BY <1>2, <1>3 DEF WellFormed, Book
<1>5. \A o \in Order : o \in Placed
  BY DEF Order, Placed
<1>6. \A o, p : SamePlace(o, p) => KeyOf(o) = KeyOf(p)
  BY DEF SamePlace, KeyOf
<1>7. IsBook(b)
  BY <1>3, <1>5, <1>6 DEF WellFormed, IsBook
<1>8. fast = Book /\ faultAt = 0 /\ changed = {} /\ messages = 0 /\ Book.resting = resting
  BY <1>1 DEF DiffInit, Book
<1>9. IsBook(Book) /\ IsBook(fast)
  BY <1>4, <1>7, <1>8
<1> QED BY <1>1, <1>8, <1>9
        DEF ReplayInv, HarnessInv, Verdict, Aligned, HiddenOnlyWhereNobodyWent

LEMMA JudgeSound ==
  ASSUME ReplayInv, Judge
  PROVE  ReplayInv'
<1> DEFINE failing == {c \in Everything(Book) : Differs(Book, fast, c)}
<1>1. /\ Book' = Book /\ fast' = fast /\ end' = end /\ end # "running"
      /\ UNCHANGED <<resting, messages, faultAt, changed>>
  BY DEF Judge, CompareEverything, feedVars, bookVars, framingVars, Book
<1>2. /\ fullOk' = (~div.found /\ failing = {})
      /\ div.found \/ failing = {} => div' = div
  BY DEF Judge, CompareEverything
<1>3. ASSUME ~div'.found PROVE ~div.found
  <2>1. CASE div.found \/ failing = {}
    BY <1>2, <1>3, <2>1
  <2>2. CASE ~(div.found \/ failing = {})
    BY <2>2
  <2> QED BY <2>1, <2>2
<1>4. HarnessInv'
  BY <1>1, <1>3 DEF ReplayInv, HarnessInv, Aligned, HiddenOnlyWhereNobodyWent
<1>5. Verdict'
  <2> SUFFICES ASSUME fullOk' PROVE \A check \in Everything(Book) : ~Differs(Book, fast, check)
    BY <1>1 DEF Verdict
  <2> QED BY <1>2
<1> QED BY <1>1, <1>4, <1>5 DEF ReplayInv

LEMMA HandSound ==
  ASSUME ReplayInv, Hand
  PROVE  ReplayInv'
<1>1. ~judged /\ judged' = judged
  BY DEF ReplayInv, Hand
<1>2. CASE \E m \in LegalMessages : Compared(m)
  BY <1>1, <1>2, ComparedSound DEF ReplayInv, Verdict
<1>3. CASE (\E m \in LegalMessages : Ignored(m)) \/ CountedOnly
  <2>1. /\ UNCHANGED <<bookVars, fast, div, faultAt, changed>>
        /\ messages' = messages \/ messages' = messages + 1
    BY <1>3 DEF Ignored, CountedOnly, diffOwnVars
  <2>2. Book' = Book /\ resting' = resting
    BY <2>1 DEF Book, bookVars
  <2>3. HarnessInv'
    BY <2>1, <2>2 DEF ReplayInv, HarnessInv, Aligned, HiddenOnlyWhereNobodyWent
  <2> QED BY <1>1, <2>3 DEF ReplayInv, Verdict
<1> QED BY <1>2, <1>3 DEF Hand

LEMMA ReplayInvariant == ReplaySpec => []ReplayInv
<1>1. ReplayInv /\ [ReplayNext]_replayVars => ReplayInv'
  <2>1. ASSUME ReplayInv, Read PROVE ReplayInv'
    <3>1. UNCHANGED <<resting, Book, diffOwnVars, judged>> /\ ~judged
      BY <2>1 DEF Read, ReplayInv, feedVars, bookVars, Book
    <3> QED BY <2>1, <3>1
            DEF ReplayInv, HarnessInv, Verdict, Aligned, HiddenOnlyWhereNobodyWent, diffOwnVars
  <2>2. ASSUME ReplayInv, UNCHANGED replayVars PROVE ReplayInv'
    <3>1. UNCHANGED <<resting, Book, diffOwnVars, judged, end>>
      BY <2>2 DEF replayVars, feedVars, bookVars, framingVars, Book
    <3> QED BY <2>2, <3>1
            DEF ReplayInv, HarnessInv, Verdict, Aligned, HiddenOnlyWhereNobodyWent, diffOwnVars
  <2> QED BY <2>1, <2>2, HandSound, JudgeSound DEF ReplayNext
<1> QED BY <1>1, InitSound, PTL DEF ReplaySpec

\* The comparison after each message (differential.hpp): as long as nothing has
\* been reported, every level the reference has changed since the fast book
\* went wrong shows the same in both books, whichever single message was
\* mishandled and in whichever of these ways.
THEOREM NothingHiddenWhereAMessageWent == ReplaySpec => []HiddenOnlyWhereNobodyWent
<1>1. ReplayInv => HiddenOnlyWhereNobodyWent
  BY DEF ReplayInv, HarnessInv, HiddenOnlyWhereNobodyWent
<1> QED BY <1>1, ReplayInvariant, PTL

----------------------------------------------------------------------------
(* "RESULT: identical".                                                    *)

\* The levels of one book, and a count, are enough: an order the other book
\* alone holds would be one too many.
LEMMA SameEverywhere ==
  ASSUME IsFiniteSet(Refs), NEW b, NEW f, IsBook(b), IsBook(f),
         \A k \in PresentLevels(b) : LevelView(b, k) = LevelView(f, k),
         Cardinality(DOMAIN b.resting) = Cardinality(DOMAIN f.resting),
         NEW k \in Keys
  PROVE  LevelView(b, k) = LevelView(f, k)
<1>1. ASSUME NEW r \in DOMAIN b.resting
      PROVE  /\ KeyOf(b.resting[r]) \in Keys /\ KeyOf(b.resting[r]) \in PresentLevels(b)
             /\ r \in DOMAIN f.resting /\ KeyOf(f.resting[r]) = KeyOf(b.resting[r])
  <2> DEFINE l == KeyOf(b.resting[r])
  <2>1. l \in Keys
    BY DEF IsBook, Placed, KeyOf, Keys
  <2>2. l \in PresentLevels(b)
    BY DEF PresentLevels, KeyOf
  <2>3. r \in At(b, l)
    BY DEF At
  <2> HIDE DEF l
  <2>4. At(b, l) = At(f, l)
    BY <2>1, <2>2, ViewShowsOrders
  <2>5. r \in DOMAIN f.resting /\ KeyOf(f.resting[r]) = l
    BY <2>3, <2>4 DEF At
  <2> QED BY <2>1, <2>2, <2>5 DEF l
<1>2. DOMAIN b.resting = DOMAIN f.resting
  <2>1. DOMAIN f.resting \in SUBSET Refs
    BY DEF IsBook
  <2>2. DOMAIN b.resting \subseteq DOMAIN f.resting
    BY <1>1
  <2>3. IsFiniteSet(DOMAIN f.resting)
    BY ONLY <2>1, IsFiniteSet(Refs), FS_Subset
  <2>4. DOMAIN b.resting \in SUBSET DOMAIN f.resting
    BY <2>2
  <2> QED BY ONLY <2>3, <2>4, FS_Subset,
                  Cardinality(DOMAIN b.resting) = Cardinality(DOMAIN f.resting)
<1>3. CASE k \in PresentLevels(b)
  BY <1>3
<1>4. CASE k \notin PresentLevels(b)
  <2>1. At(b, k) = {} /\ At(f, k) = {}
    BY <1>1, <1>2, <1>4 DEF At
  <2>2. Same(b, f, k)
    BY <2>1 DEF Same
  <2> QED BY <2>2, SameView
<1> QED BY <1>3, <1>4

\* compare_everything and the tool's verdict: "identical" says that every level
\* of every symbol shows the same in both books, provided its loop reaches
\* every locate (it stops one short of 0xFFFF).
THEOREM IdenticalIsTrue ==
  ASSUME IsFiniteSet(Refs), Unseen = {}
  PROVE  ReplaySpec => []IdenticalIsIdentical
<1>1. ReplayInv => IdenticalIsIdentical
  <2> SUFFICES ASSUME ReplayInv, judged, Identical, NEW k \in Keys
               PROVE  LevelView(Book, k) = LevelView(fast, k)
    BY DEF IdenticalIsIdentical
  <2>1. \A check \in Everything(Book) : ~Differs(Book, fast, check)
    BY DEF ReplayInv, Verdict, Identical
  <2>2. ASSUME NEW l \in PresentLevels(Book) PROVE LevelView(Book, l) = LevelView(fast, l)
    <3>1. LevelCheck(l) \in Everything(Book)
      BY DEF Everything
    <3>2. ~Differs(Book, fast, LevelCheck(l))
      BY <2>1, <3>1
    <3>3. LevelCheck(l)[1] = "level" /\ LevelCheck(l)[2] = l
      BY DEF LevelCheck
    <3> QED BY <3>2, <3>3 DEF Differs
  <2>3. Cardinality(DOMAIN Book.resting) = Cardinality(DOMAIN fast.resting)
    <3>1. ~Differs(Book, fast, LiveCheck)
      BY <2>1 DEF Everything
    <3>2. LiveCheck[1] = "live"
      BY DEF LiveCheck
    <3> QED BY <3>1, <3>2 DEF Differs
  <2> QED BY <2>2, <2>3, SameEverywhere DEF ReplayInv, HarnessInv
<1> QED BY <1>1, ReplayInvariant, PTL

----------------------------------------------------------------------------
(* Functions defined by recursion on a number.                             *)

LEMMA FirstExists ==
  ASSUME NEW T \in SUBSET Nat, T # {}
  PROVE  \E x \in T : \A y \in T : x <= y
<1> DEFINE R == OpToRel(<, Nat)
<1>1. IsWellFoundedOn(R, Nat)
  BY NatLessThanWellFounded
<1>2. \A x, y \in Nat : x < y => <<x, y>> \in R
  BY DEF OpToRel
<1> HIDE DEF R
<1>3. PICK x \in T : \A y \in T : ~(<<y, x>> \in R)
  BY <1>1, WFMin
<1>4. ASSUME NEW y \in T PROVE x <= y
  <2>1. x \in Nat /\ y \in Nat /\ ~(y < x)
    BY <1>2, <1>3
  <2> QED BY <2>1
<1> QED BY <1>4

Recursive(V, base, S, g) ==
  g \in [Nat -> V] /\ g[0] = base /\ \A i \in Nat : g[i + 1] = S[i][g[i]]

\* From a first value, every value from the one before.
LEMMA RecursionWorks ==
  ASSUME NEW V, NEW base, base \in V, NEW S, \A i \in Nat, v \in V : S[i][v] \in V
  PROVE  \E g : Recursive(V, base, S, g)
<1> DEFINE Upto(m, h) == /\ h \in [0..m -> V] /\ h[0] = base
                         /\ \A i \in 0..m - 1 : h[i + 1] = S[i][h[i]]
           T == {m \in Nat : ~\E h : Upto(m, h)}
<1>1. T = {}
  <2> SUFFICES ASSUME T # {} PROVE FALSE
    OBVIOUS
  <2>1. PICK k \in T : \A m \in T : k <= m
    <3>1. T \in SUBSET Nat
      OBVIOUS
    <3> HIDE DEF T
    <3> QED BY <3>1, FirstExists
  <2>2. k \in Nat /\ ~\E h : Upto(k, h)
    OBVIOUS
  <2>3. CASE k = 0
    <3> DEFINE h == [x \in 0..0 |-> base]
    <3>1. Upto(0, h)
      OBVIOUS
    <3> QED BY <2>2, <2>3, <3>1
  <2>4. CASE k # 0
    <3>1. k - 1 \in Nat /\ ~(k <= k - 1)
      BY <2>2, <2>4
    <3>2. PICK h : Upto(k - 1, h)
      <4>1. k - 1 \notin T
        <5> HIDE DEF T
        <5> QED BY <2>1, <3>1
      <4> HIDE DEF Upto
      <4> QED BY <3>1, <4>1
    <3> DEFINE v == S[k - 1][h[k - 1]]
               j == [x \in 0..k |-> IF x = k THEN v ELSE h[x]]
    <3>3. /\ h \in [0..k - 1 -> V] /\ h[0] = base
          /\ \A i \in 0..k - 2 : h[i + 1] = S[i][h[i]]
      BY <2>2, <3>2
    <3>4. v \in V
      <4>1. h[k - 1] \in V
        BY <3>1, <3>3
      <4> QED BY <3>1, <4>1
    <3> HIDE DEF v
    <3>5. j \in [0..k -> V] /\ j[0] = base
      BY <2>2, <2>4, <3>3, <3>4
    <3>6. ASSUME NEW i \in 0..k - 1 PROVE j[i + 1] = S[i][j[i]]
      <4>1. CASE i = k - 1
        <5>1. j[i + 1] = v /\ j[i] = h[k - 1]
          BY <2>2, <4>1
        <5> QED BY <4>1, <5>1 DEF v
      <4>2. CASE i # k - 1
        <5>1. j[i + 1] = h[i + 1] /\ j[i] = h[i] /\ i \in 0..k - 2
          BY <2>2, <4>2
        <5> QED BY <3>3, <5>1
      <4> QED BY <4>1, <4>2
    <3>7. Upto(k, j)
      BY <3>5, <3>6
    <3> HIDE DEF j, Upto
    <3> QED BY <2>2, <3>7
  <2> QED BY <2>3, <2>4
<1>2. ASSUME NEW m \in Nat, NEW h, NEW j, Upto(m, h), Upto(m + 1, j)
      PROVE  h[m] = j[m]
  <2> DEFINE D == {x \in 0..m : h[x] # j[x]}
  <2> SUFFICES ASSUME D # {} PROVE FALSE
    OBVIOUS
  <2>1. PICK x \in D : \A y \in D : x <= y
    <3>1. D \in SUBSET Nat
      OBVIOUS
    <3> HIDE DEF D
    <3> QED BY <3>1, FirstExists
  <2>2. x \in 0..m /\ h[x] # j[x] /\ h[0] = j[0]
    BY <1>2
  <2>3. x - 1 \in 0..m - 1 /\ x - 1 \in 0..m /\ ~(x <= x - 1)
    BY <2>2
  <2>4. h[x - 1] = j[x - 1]
    BY <2>1, <2>3
  <2>5. (x - 1) + 1 = x /\ x - 1 \in 0..(m + 1) - 1
    BY <2>2, <2>3
  <2>6. h[x] = S[x - 1][h[x - 1]] /\ j[x] = S[x - 1][j[x - 1]]
    BY <1>2, <2>3, <2>5
  <2> QED BY <2>2, <2>4, <2>6
<1> DEFINE c == [x \in Nat |-> CHOOSE h : Upto(x, h)]
           g == [x \in Nat |-> c[x][x]]
<1>3. \A x \in Nat : Upto(x, c[x])
  <2> HIDE DEF Upto
  <2> QED BY <1>1
<1> HIDE DEF c
<1>4. g \in [Nat -> V] /\ g[0] = base
  BY <1>3
<1>5. ASSUME NEW i \in Nat PROVE g[i + 1] = S[i][g[i]]
  <2>1. i + 1 \in Nat /\ i \in 0..(i + 1) - 1
    OBVIOUS
  <2>2. c[i + 1][i + 1] = S[i][c[i + 1][i]]
    BY <1>3, <2>1
  <2>3. Upto(i, c[i]) /\ Upto(i + 1, c[i + 1])
    BY <1>3, <2>1
  <2>4. c[i][i] = c[i + 1][i]
    <3> HIDE DEF Upto
    <3> QED BY <1>2, <2>3
  <2> QED BY <2>1, <2>2, <2>4
<1> HIDE DEF g
<1>6. Recursive(V, base, S, g)
  BY <1>4, <1>5 DEF Recursive
<1> QED BY <1>6

----------------------------------------------------------------------------
(* A file, by where its bodies start.                                      *)

IsSession(s) ==
  /\ s \in Seq(Seq(Bytes)) /\ Len(s) \in Nat \ {0}
  /\ \A i \in 1..Len(s) : /\ s[i] \in Seq(Bytes) /\ Len(s[i]) \in Nat \ {0}
                          /\ s[i][1] \in Bytes /\ MsgLen[s[i][1]] = Len(s[i])
                          /\ s[i] = EndOfMessages <=> i = Len(s)

LEMMA SessionsAreSound ==
  ASSUME NEW s \in Sessions
  PROVE  IsSession(s)
<1>1. /\ s \in Seq(Seq(Bytes))
      /\ \A i \in 1..Len(s) : s[i] # <<>> /\ Len(s[i]) = MsgLen[s[i][1]]
      /\ {i \in 1..Len(s) : s[i] = EndOfMessages} = {Len(s)}
  BY SessionsAssumption
<1>2. Len(s) \in Nat \ {0}
  BY <1>1
<1>3. Unsigned(8) = 0..255
  BY DEF Unsigned
<1>4. ASSUME NEW i \in 1..Len(s)
      PROVE  /\ s[i] \in Seq(Bytes) /\ Len(s[i]) \in Nat \ {0}
             /\ s[i][1] \in Bytes /\ MsgLen[s[i][1]] = Len(s[i])
             /\ s[i] = EndOfMessages <=> i = Len(s)
  <2>1. s[i] \in Seq(Bytes) /\ s[i] # <<>>
    BY <1>1
  <2>2. Len(s[i]) \in Nat \ {0}
    BY <2>1
  <2>3. s[i][1] \in Bytes
    BY <2>1, <2>2
  <2>4. MsgLen[s[i][1]] \in 0..255
    BY <1>3, <2>3, FramingAssumption
  <2>5. MsgLen[s[i][1]] = Len(s[i])
    BY <1>1
  <2>6. s[i] = EndOfMessages <=> i = Len(s)
    BY <1>1
  <2> QED BY <2>1, <2>2, <2>3, <2>4, <2>5, <2>6
<1> QED BY <1>1, <1>2, <1>4 DEF IsSession

\* The starts are what their definition by recursion says.
LEMMA StartsSound ==
  ASSUME NEW s, IsSession(s)
  PROVE  LET n  == Len(s)
             at == BodyStarts(s)
         IN  /\ at \in [1..n + 1 -> Nat] /\ at[1] = 2
             /\ \A i \in 1..n : at[i + 1] = at[i] + Len(s[i]) + 2
<1> DEFINE n == Len(s)
           Is(g) == g = [i \in 1..n + 1 |-> IF i = 1 THEN 2 ELSE g[i - 1] + Len(s[i - 1]) + 2]
           at == CHOOSE g : Is(g)
           S == [i \in Nat |-> [v \in Nat |-> IF i + 1 \in 1..n THEN v + Len(s[i + 1]) + 2 ELSE 0]]
<1>1. n \in Nat /\ \A i \in 1..n : Len(s[i]) \in Nat
  BY DEF IsSession
<1>2. \A i \in Nat, v \in Nat : S[i][v] \in Nat
  BY <1>1
<1>3. \A i \in 0..n - 1, v \in Nat : S[i][v] = v + Len(s[i + 1]) + 2
  <2> TAKE i \in 0..n - 1, v \in Nat
  <2>1. i \in Nat /\ i + 1 \in 1..n
    BY <1>1
  <2> HIDE DEF n
  <2> QED BY <2>1
<1> HIDE DEF S
<1>4. PICK g \in [Nat -> Nat] : g[0] = 2 /\ \A i \in Nat : g[i + 1] = S[i][g[i]]
  <2>1. \E g : Recursive(Nat, 2, S, g)
    BY <1>2, RecursionWorks
  <2> QED BY <2>1 DEF Recursive
<1> DEFINE h == [i \in 1..n + 1 |-> g[i - 1]]
<1> HIDE DEF n
<1>5. ASSUME NEW i \in 1..n + 1, i # 1 PROVE h[i] = h[i - 1] + Len(s[i - 1]) + 2
  <2>1. /\ i - 1 \in 1..n + 1 /\ i - 2 \in Nat /\ i - 2 \in 0..n - 1
        /\ (i - 2) + 1 = i - 1 /\ (i - 1) - 1 = i - 2
    BY <1>1, <1>5
  <2>2. g[i - 1] = S[i - 2][g[i - 2]]
    BY <1>4, <2>1
  <2>3. S[i - 2][g[i - 2]] = g[i - 2] + Len(s[i - 1]) + 2
    BY <1>3, <1>4, <2>1
  <2> QED BY <2>1, <2>2, <2>3
<1>6. h[1] = 2
  BY <1>1, <1>4
<1>7. Is(h)
  <2>1. h = [i \in 1..n + 1 |-> h[i]]
    OBVIOUS
  <2> HIDE DEF h
  <2> QED BY <1>5, <1>6, <2>1
<1> HIDE DEF h
<1>8. Is(at)
  <2> HIDE DEF Is
  <2> QED BY <1>7
<1>9. BodyStarts(s) = at
  BY DEF BodyStarts, n
<1> HIDE DEF at
<1>10. /\ at[1] = 2
       /\ \A i \in 1..n + 1 : i # 1 => at[i] = at[i - 1] + Len(s[i - 1]) + 2
       /\ at = [i \in 1..n + 1 |-> at[i]]
  <2>1. at = [i \in 1..n + 1 |-> IF i = 1 THEN 2 ELSE at[i - 1] + Len(s[i - 1]) + 2]
    BY <1>8
  <2>2. at = [i \in 1..n + 1 |-> at[i]]
    BY <2>1
  <2>3. 1 \in 1..n + 1
    BY <1>1
  <2>4. \A i \in 1..n + 1 : at[i] = IF i = 1 THEN 2 ELSE at[i - 1] + Len(s[i - 1]) + 2
    BY <2>1
  <2> QED BY <2>2, <2>3, <2>4
<1>11. ASSUME NEW i \in 1..n PROVE at[i + 1] = at[i] + Len(s[i]) + 2
  <2>1. i + 1 \in 1..n + 1 /\ i + 1 # 1 /\ (i + 1) - 1 = i
    BY <1>1
  <2> QED BY <1>10, <2>1
<1>12. \A i \in 1..n + 1 : at[i] \in Nat
  <2> DEFINE D == {i \in 1..n + 1 : at[i] \notin Nat}
  <2> SUFFICES ASSUME D # {} PROVE FALSE
    OBVIOUS
  <2>1. PICK i \in D : \A j \in D : i <= j
    <3>1. D \in SUBSET Nat
      BY <1>1
    <3> HIDE DEF D
    <3> QED BY <3>1, FirstExists
  <2>2. i \in 1..n + 1 /\ at[i] \notin Nat /\ i # 1
    BY <1>10
  <2>3. i - 1 \in 1..n /\ i - 1 \in 1..n + 1 /\ ~(i <= i - 1)
    BY <1>1, <2>2
  <2>4. at[i - 1] \in Nat
    BY <2>1, <2>3
  <2>5. Len(s[i - 1]) \in Nat
    BY <1>1, <2>3
  <2>6. at[i] = at[i - 1] + Len(s[i - 1]) + 2
    BY <1>10, <2>2
  <2>7. \A x, y \in Nat : x + y + 2 \in Nat
    OBVIOUS
  <2> QED BY <2>2, <2>4, <2>5, <2>6, <2>7
<1> QED BY <1>9, <1>10, <1>11, <1>12 DEF n

\* What holds of the first and is handed on holds of all.
LEMMA AllTheWay ==
  ASSUME NEW n \in Nat, NEW T, 1 \in T, \A i \in 1..n - 1 : i \in T => i + 1 \in T
  PROVE  \A i \in 1..n : i \in T
<1> DEFINE D == {i \in 1..n : i \notin T}
<1> SUFFICES ASSUME D # {} PROVE FALSE
  OBVIOUS
<1>1. PICK i \in D : \A j \in D : i <= j
  <2>1. D \in SUBSET Nat
    OBVIOUS
  <2> HIDE DEF D
  <2> QED BY <2>1, FirstExists
<1>2. i \in 1..n /\ i \notin T /\ i # 1
  OBVIOUS
<1>3. i - 1 \in 1..n - 1 /\ i - 1 \in 1..n /\ ~(i <= i - 1) /\ (i - 1) + 1 = i
  BY <1>2
<1>4. i - 1 \notin T
  BY <1>2, <1>3
<1>5. i - 1 \in D
  BY <1>3, <1>4
<1> HIDE DEF D
<1> QED BY <1>1, <1>3, <1>5

\* Where things of some lengths, one after the other, come to lie.
LEMMA SpreadOut ==
  ASSUME NEW n \in Nat, NEW len \in [1..n -> Nat], NEW at \in [1..n + 1 -> Nat],
         \A i \in 1..n : at[i + 1] = at[i] + len[i]
  PROVE  \A i \in 1..n, k \in 1..n + 1 : i < k => at[i] + len[i] <= at[k]
<1> SUFFICES ASSUME NEW i \in 1..n PROVE \A k \in 1..n + 1 : i < k => at[i] + len[i] <= at[k]
  OBVIOUS
<1> DEFINE U == {m \in 1..n + 1 : i < m => at[i] + len[i] <= at[m]}
<1>1. 1 \in U
  OBVIOUS
<1>2. ASSUME NEW m \in 1..(n + 1) - 1, m \in U PROVE m + 1 \in U
  <2>1. m \in 1..n /\ m + 1 \in 1..n + 1 /\ i \in 1..n + 1
    OBVIOUS
  <2>2. /\ at[m + 1] = at[m] + len[m] /\ at[m] \in Nat /\ len[m] \in Nat
        /\ at[i] \in Nat /\ len[i] \in Nat /\ at[m + 1] \in Nat
    BY <2>1
  <2>3. CASE i < m
    BY <1>2, <2>1, <2>2, <2>3
  <2>4. CASE ~(i < m)
    <3>1. m = i \/ ~(i < m + 1)
      BY <2>1, <2>4
    <3> QED BY <2>1, <2>2, <3>1
  <2> QED BY <2>3, <2>4
<1>3. n + 1 \in Nat
  OBVIOUS
<1> HIDE DEF U
<1>4. \A m \in 1..n + 1 : m \in U
  BY <1>1, <1>2, <1>3, AllTheWay
<1> QED BY <1>4 DEF U

\* Joining on one more.
LEMMA Joined ==
  ASSUME NEW a \in Seq(Nat), NEW b \in Seq(Nat)
  PROVE  /\ a \o b \in Seq(Nat) /\ Len(a \o b) = Len(a) + Len(b)
         /\ \A x \in 1..Len(a) : (a \o b)[x] = a[x]
         /\ \A x \in 1..Len(b) : (a \o b)[Len(a) + x] = b[x]
<1>1. Len(a) \in Nat /\ Len(b) \in Nat
  OBVIOUS
<1>2. ASSUME NEW x \in 1..Len(b) PROVE (a \o b)[Len(a) + x] = b[x]
  <2>1. Len(a) + x \in 1..Len(a) + Len(b) /\ ~(Len(a) + x <= Len(a)) /\ (Len(a) + x) - Len(a) = x
    BY <1>1
  <2> QED BY <2>1
<1> QED BY <1>2

\* What a flattened sequence of sequences has where.
LEMMA FlattenSound ==
  ASSUME NEW seqs \in Seq(Seq(Nat)), Len(seqs) \in Nat \ {0},
         NEW at \in [1..Len(seqs) + 1 -> Nat], at[1] = 0,
         \A i \in 1..Len(seqs) : at[i + 1] = at[i] + Len(seqs[i])
  PROVE  /\ FlattenSeq(seqs) \in Seq(Nat) /\ Len(FlattenSeq(seqs)) = at[Len(seqs) + 1]
         /\ \A i \in 1..Len(seqs) : \A j \in 1..Len(seqs[i]) :
              FlattenSeq(seqs)[at[i] + j] = seqs[i][j]
<1> DEFINE n == Len(seqs)
           Is(g) == g = [i \in 1..n |-> IF i = 1 THEN seqs[i] ELSE g[i - 1] \o seqs[i]]
           F == CHOOSE g : Is(g)
           S == [i \in Nat |-> [v \in Seq(Nat) |-> IF i + 2 \in 1..n THEN v \o seqs[i + 2] ELSE v]]
<1>1. n \in Nat \ {0} /\ \A i \in 1..n : seqs[i] \in Seq(Nat) /\ Len(seqs[i]) \in Nat
  OBVIOUS
<1> HIDE DEF n
<1>2. \A i \in Nat, v \in Seq(Nat) : S[i][v] \in Seq(Nat)
  <2> TAKE i \in Nat, v \in Seq(Nat)
  <2>1. CASE i + 2 \in 1..n
    <3>1. v \o seqs[i + 2] \in Seq(Nat)
      BY <1>1, <2>1
    <3> QED BY <2>1, <3>1
  <2> QED BY <2>1
<1>3. \A i \in Nat, v \in Seq(Nat) : i + 2 \in 1..n => S[i][v] = v \o seqs[i + 2]
  OBVIOUS
<1> HIDE DEF S
<1>4. PICK g : Recursive(Seq(Nat), seqs[1], S, g)
  <2> DEFINE V == Seq(Nat)
             b == seqs[1]
  <2>1. b \in V /\ \A i \in Nat, v \in V : S[i][v] \in V
    BY <1>1, <1>2
  <2> HIDE DEF V, b
  <2>2. \E g : Recursive(V, b, S, g)
    BY <2>1, RecursionWorks
  <2> QED BY <2>2 DEF V, b
<1> DEFINE h == [i \in 1..n |-> g[i - 1]]
<1>5. ASSUME NEW i \in 1..n, i # 1 PROVE h[i] = h[i - 1] \o seqs[i]
  <2>1. /\ i - 1 \in 1..n /\ i - 2 \in Nat /\ (i - 2) + 1 = i - 1 /\ (i - 2) + 2 = i
        /\ (i - 1) - 1 = i - 2
    BY <1>1, <1>5
  <2>2. g[i - 1] = S[i - 2][g[i - 2]] /\ g[i - 2] \in Seq(Nat)
    BY <1>4, <2>1 DEF Recursive
  <2>3. S[i - 2][g[i - 2]] = g[i - 2] \o seqs[i]
    BY <1>3, <2>1, <2>2
  <2> QED BY <2>1, <2>2, <2>3
<1>6. h[1] = seqs[1]
  <2>1. 1 \in 1..n /\ g[0] = seqs[1] /\ 1 - 1 = 0
    BY <1>1, <1>4 DEF Recursive
  <2> QED BY <2>1
<1>7. Is(h)
  <2>1. h = [i \in 1..n |-> h[i]]
    OBVIOUS
  <2> HIDE DEF h
  <2> QED BY <1>5, <1>6, <2>1
<1> HIDE DEF h
<1>8. Is(F)
  <2> HIDE DEF Is
  <2> QED BY <1>7
<1>9. FlattenSeq(seqs) = F[n]
  BY <1>1 DEF FlattenSeq, n
<1> HIDE DEF F
<1>10. F[1] = seqs[1] /\ \A i \in 1..n : i # 1 => F[i] = F[i - 1] \o seqs[i]
  <2>1. \A i \in 1..n : F[i] = IF i = 1 THEN seqs[i] ELSE F[i - 1] \o seqs[i]
    BY <1>8
  <2>2. 1 \in 1..n
    BY <1>1
  <2> HIDE DEF Is
  <2> QED BY ONLY <2>1, <2>2
<1> HIDE DEF Is
<1> DEFINE Good(k) == /\ F[k] \in Seq(Nat) /\ Len(F[k]) = at[k + 1]
                      /\ \A i \in 1..k : \A j \in 1..Len(seqs[i]) : F[k][at[i] + j] = seqs[i][j]
           T == {k \in 1..n : Good(k)}
<1>11. at \in [1..n + 1 -> Nat] /\ at[1] = 0 /\ \A i \in 1..n : at[i + 1] = at[i] + Len(seqs[i])
  BY DEF n
<1> DEFINE len == [i \in 1..n |-> Len(seqs[i])]
<1>12. len \in [1..n -> Nat] /\ \A i \in 1..n : len[i] = Len(seqs[i])
  BY <1>1
<1> HIDE DEF len
<1>13. \A i \in 1..n : at[i + 1] = at[i] + len[i] /\ at[i] \in Nat
  <2> TAKE i \in 1..n
  <2>1. at[i + 1] = at[i] + Len(seqs[i])
    BY <1>11
  <2>2. len[i] = Len(seqs[i])
    BY <1>12
  <2>3. i \in 1..n + 1
    BY <1>1
  <2> QED BY ONLY <1>11, <2>1, <2>2, <2>3
<1>14. \A i \in 1..n, k \in 1..n + 1 : i < k => at[i] + len[i] <= at[k]
  <2>1. n \in Nat
    BY <1>1
  <2> QED BY ONLY <1>11, <1>12, <1>13, <2>1, SpreadOut
<1>15. Good(1)
  <2>1. 1 \in 1..n /\ at[2] = Len(seqs[1])
    BY <1>1, <1>11
  <2> QED BY <1>1, <1>10, <1>11, <2>1
<1>16. ASSUME NEW k \in 1..n - 1, Good(k) PROVE Good(k + 1)
  <2> DEFINE b == seqs[k + 1]
  <2>1. k + 1 \in 1..n /\ k + 1 # 1 /\ (k + 1) - 1 = k /\ k \in Nat /\ k \in 1..n
    BY <1>1
  <2>2. F[k + 1] = F[k] \o b /\ b \in Seq(Nat) /\ F[k] \in Seq(Nat) /\ Len(F[k]) = at[k + 1]
    BY <1>1, <1>10, <1>16, <2>1
  <2>3. at[(k + 1) + 1] = at[k + 1] + Len(b)
    BY <1>12, <1>13, <2>1
  <2> DEFINE a == F[k]
  <2>4. /\ F[k + 1] \in Seq(Nat) /\ Len(F[k + 1]) = at[k + 1] + Len(b)
        /\ \A x \in 1..at[k + 1] : F[k + 1][x] = F[k][x]
        /\ \A x \in 1..Len(b) : F[k + 1][at[k + 1] + x] = b[x]
    <3>1. a \in Seq(Nat) /\ b \in Seq(Nat) /\ F[k + 1] = a \o b /\ Len(a) = at[k + 1]
      BY <2>2
    <3> HIDE DEF a, b
    <3>2. /\ a \o b \in Seq(Nat) /\ Len(a \o b) = Len(a) + Len(b)
          /\ \A x \in 1..Len(a) : (a \o b)[x] = a[x]
          /\ \A x \in 1..Len(b) : (a \o b)[Len(a) + x] = b[x]
      BY <3>1, Joined
    <3>3. /\ F[k + 1] \in Seq(Nat) /\ Len(F[k + 1]) = at[k + 1] + Len(b)
          /\ \A x \in 1..at[k + 1] : F[k + 1][x] = a[x]
          /\ \A x \in 1..Len(b) : F[k + 1][at[k + 1] + x] = b[x]
      BY ONLY <3>1, <3>2
    <3> QED BY <3>3 DEF a
  <2>5. ASSUME NEW i \in 1..k + 1, NEW j \in 1..Len(seqs[i])
        PROVE  F[k + 1][at[i] + j] = seqs[i][j]
    <3>1. CASE i = k + 1
      <4>1. j \in 1..Len(b)
        BY <3>1
      <4> QED BY <2>4, <3>1, <4>1
    <3>2. CASE i # k + 1
      <4>1. i \in 1..k /\ i \in 1..n /\ i < k + 1 /\ k + 1 \in 1..n + 1
        BY <1>1, <2>1, <3>2
      <4>2. F[k][at[i] + j] = seqs[i][j]
        BY <1>16, <4>1
      <4>3. at[i] + j \in 1..at[k + 1]
        <5>1. at[i] + len[i] <= at[k + 1]
          BY <1>14, <4>1
        <5>2. at[i] \in Nat /\ len[i] \in Nat /\ at[k + 1] \in Nat
          BY ONLY <1>11, <1>12, <1>13, <4>1
        <5>3. j \in 1..len[i]
          BY <1>12, <4>1
        <5> HIDE DEF b, a
        <5>4. \A x, y, z \in Nat : \A w \in 1..y : x + y <= z => x + w \in 1..z
          OBVIOUS
        <5> QED BY ONLY <5>1, <5>2, <5>3, <5>4
      <4> QED BY <2>4, <4>2, <4>3
    <3> QED BY <3>1, <3>2
  <2> QED BY <2>3, <2>4, <2>5
<1>17. Good(n)
  <2> HIDE DEF Good
  <2>1. 1 \in T
    BY <1>1, <1>15
  <2>2. \A i \in 1..n - 1 : i \in T => i + 1 \in T
    <3> TAKE i \in 1..n - 1
    <3>1. i + 1 \in 1..n
      BY <1>1
    <3> QED BY <1>16, <3>1
  <2> HIDE DEF T
  <2>3. n \in Nat /\ n \in 1..n
    BY <1>1
  <2>4. n \in T
    BY <2>1, <2>2, <2>3, AllTheWay
  <2> QED BY <2>4 DEF T
<1> QED BY <1>9, <1>17 DEF n

IsFile(f) ==
  /\ IsSession(f.session) /\ f.form \in Framings /\ f.terminated \in BOOLEAN
  /\ f.terminated => f.form = "LengthPrefixed"
  /\ f.damage.kind \in {"none", "cut", "prefix", "type"}
  /\ f.damage.kind \in {"prefix", "type"} =>
       f.form = "LengthPrefixed" /\ f.damage.frame \in 1..Len(f.session)
  /\ f.damage.kind = "prefix" => f.damage.to \in Nat
  /\ f.damage.kind = "type" => f.damage.to \in Bytes
  /\ f.damage.kind = "cut" => f.damage.at \in 0..Len(WholeFile(f)) - 1

LEMMA BytesAreNumbers == Bytes \subseteq Nat /\ \A z : z \in Seq(Bytes) => z \in Seq(Nat)
<1>1. \A bits : Unsigned(bits) \subseteq Nat
  BY DEF Unsigned
<1>2. Bytes \subseteq Nat
  BY <1>1, FramingAssumption
<1>3. ASSUME NEW z \in Seq(Bytes) PROVE z \in Seq(Nat)
  <2>1. Len(z) \in Nat /\ z \in [1..Len(z) -> Bytes]
    OBVIOUS
  <2>2. z \in [1..Len(z) -> Nat]
    BY <1>2, <2>1
  <2> QED BY <2>1, <2>2
<1> QED BY <1>2, <1>3

LEMMA FilesAreSound ==
  ASSUME NEW f \in Files
  PROVE  IsFile(f)
<1>0. PICK g \in UNION {Intact(s) : s \in Sessions} :
        /\ g.terminated => g.form = "LengthPrefixed"
        /\ f \in {[g EXCEPT !.damage = d] : d \in Damages(g)}
  BY Zenon DEF Files
<1>1. PICK d \in Damages(g) : f = [g EXCEPT !.damage = d]
  BY <1>0, Zenon
<1>2. PICK s \in Sessions, form \in Framings, t \in BOOLEAN :
        g = [session |-> s, form |-> form, terminated |-> t, damage |-> [kind |-> "none"]]
  <2>1. PICK s \in Sessions : g \in Intact(s)
    BY <1>0
  <2>2. PICK form \in Framings, t \in BOOLEAN :
          g = [session |-> s, form |-> form, terminated |-> t, damage |-> [kind |-> "none"]]
    BY <2>1 DEF Intact
  <2> QED BY <2>2
<1>3. /\ f.session = s /\ f.form = form /\ f.terminated = t /\ f.damage = d
      /\ g.session = s /\ g.form = form /\ g.terminated = t /\ g.damage = [kind |-> "none"]
  <2> DEFINE u == [kind |-> "none"]
  <2>1. f = [[session |-> s, form |-> form, terminated |-> t, damage |-> u] EXCEPT !.damage = d]
    BY <1>1, <1>2, Zenon
  <2>2. g = [session |-> s, form |-> form, terminated |-> t, damage |-> u]
    BY <1>2
  <2> HIDE DEF u
  <2>3. f.session = s /\ f.form = form /\ f.terminated = t /\ f.damage = d
    BY ONLY <2>1
  <2>4. g.session = s /\ g.form = form /\ g.terminated = t /\ g.damage = u
    BY ONLY <2>2
  <2> QED BY <2>3, <2>4 DEF u
<1>4. IsSession(s)
  BY SessionsAreSound
<1>5. \/ d = [kind |-> "none"]
      \/ \E n \in 0..Len(WholeFile(g)) - 1 : d = [kind |-> "cut", at |-> n]
      \/ /\ form # "ZeroPrefixed"
         /\ \E i \in 1..Len(s), p \in BadLengths : d = [kind |-> "prefix", frame |-> i, to |-> p]
      \/ /\ form # "ZeroPrefixed"
         /\ \E i \in 1..Len(s), b \in Bytes : d = [kind |-> "type", frame |-> i, to |-> b]
  BY <1>1, <1>3 DEF Damages
<1>6. BadLengths \subseteq Nat
  <2>1. \A bits : Unsigned(bits) \subseteq Nat
    BY DEF Unsigned
  <2> QED BY <2>1, FramingAssumption
<1>7. /\ d.kind \in {"none", "cut", "prefix", "type"}
      /\ d.kind \in {"prefix", "type"} => form = "LengthPrefixed" /\ d.frame \in 1..Len(s)
      /\ d.kind = "prefix" => d.to \in Nat
      /\ d.kind = "type" => d.to \in Bytes
      /\ d.kind = "cut" => d.at \in 0..Len(WholeFile(g)) - 1
  BY <1>5, <1>6 DEF Framings
<1>8. ASSUME d.kind = "cut" PROVE WholeFile(g) = WholeFile(f)
  <2>1. \A i : WrittenPrefix(g, i) = WrittenPrefix(f, i) /\ WrittenBody(g, i) = WrittenBody(f, i)
    BY <1>3, <1>8 DEF WrittenPrefix, WrittenBody
  <2>2. [i \in 1..Len(s) |-> BigEndian(WrittenPrefix(g, i)) \o WrittenBody(g, i)]
          = [i \in 1..Len(s) |-> BigEndian(WrittenPrefix(f, i)) \o WrittenBody(f, i)]
    BY <2>1
  <2> QED BY <1>3, <2>2 DEF WholeFile
<1> QED BY <1>0, <1>2, <1>3, <1>4, <1>7, <1>8 DEF IsFile

\* What the bytes of a file are, where they are there to be read.
Laid(f, b) ==
  LET s   == f.session
      at  == BodyStarts(s)
      all == at[Len(s) + 1] - 2 + (IF f.terminated THEN 2 ELSE 0)
  IN /\ b \in Seq(Bytes)
     /\ f.damage.kind # "cut" => Len(b) = all
     /\ f.damage.kind = "cut" => Len(b) < all
     /\ \A i \in 1..Len(s) :
          /\ at[i] <= Len(b) => Be16(b, at[i] - 2) = WrittenPrefix(f, i)
          /\ at[i] < Len(b) => Byte(b, at[i]) = WrittenBody(f, i)[1]
          /\ at[i] + Len(s[i]) <= Len(b) =>
               SubSeq(b, at[i] + 1, at[i] + Len(s[i])) = WrittenBody(f, i)
     /\ f.terminated /\ at[Len(s) + 1] <= Len(b) => Be16(b, at[Len(s) + 1] - 2) = 0

\* What is written of a message.
LEMMA WrittenSound ==
  ASSUME NEW f, IsFile(f), NEW i \in 1..Len(f.session)
  PROVE  /\ WrittenPrefix(f, i) \in Nat
         /\ WrittenBody(f, i) \in Seq(Bytes) /\ Len(WrittenBody(f, i)) = Len(f.session[i])
         /\ WrittenBody(f, i) \in Seq(Nat)
<1> DEFINE m == f.session[i]
<1>1. m \in Seq(Bytes) /\ Len(m) \in Nat \ {0}
  <2>1. IsSession(f.session)
    BY Zenon DEF IsFile
  <2> QED BY <2>1 DEF IsSession
<1>3. WrittenPrefix(f, i) \in Nat
  BY <1>1 DEF WrittenPrefix, IsFile
<1>4. WrittenBody(f, i) \in Seq(Bytes) /\ Len(WrittenBody(f, i)) = Len(m)
  <2>1. CASE f.damage.kind = "type" /\ f.damage.frame = i
    <3>1. f.damage.to \in Bytes
      BY <2>1 DEF IsFile
    <3> HIDE DEF m
    <3>2. [m EXCEPT ![1] = f.damage.to] \in Seq(Bytes) /\ Len([m EXCEPT ![1] = f.damage.to]) = Len(m)
      <4> DEFINE z == [m EXCEPT ![1] = f.damage.to]
      <4>1. Len(m) \in Nat /\ m \in [1..Len(m) -> Bytes]
        BY <1>1
      <4>2. z \in [1..Len(m) -> Bytes]
        BY <3>1, <4>1
      <4> HIDE DEF z
      <4>3. z \in Seq(Bytes) /\ Len(z) = Len(m)
        BY <4>1, <4>2
      <4> QED BY <4>3 DEF z
    <3> QED BY <2>1, <3>2 DEF WrittenBody, m
  <2>2. CASE ~(f.damage.kind = "type" /\ f.damage.frame = i)
    BY <1>1, <2>2 DEF WrittenBody
  <2> QED BY <2>1, <2>2
<1> QED BY <1>3, <1>4, BytesAreNumbers

\* Two bytes and a body, one after the other.
IsFrame(w, p, m) ==
  /\ w \in Seq(Nat) /\ Len(w) = Len(m) + 2 /\ 256 * w[1] + w[2] = p
  /\ \A x \in 1..Len(m) : w[x + 2] = m[x]

LEMMA FrameSound ==
  ASSUME NEW p \in Nat, NEW m \in Seq(Nat)
  PROVE  IsFrame(BigEndian(p) \o m, p, m)
<1>1. p \div 256 \in Nat /\ p % 256 \in Nat /\ 256 * (p \div 256) + (p % 256) = p
  OBVIOUS
<1> DEFINE h == BigEndian(p)
<1>2. h \in Seq(Nat) /\ Len(h) = 2 /\ 256 * h[1] + h[2] = p
  BY <1>1 DEF BigEndian
<1> HIDE DEF h
<1>3. /\ h \o m \in Seq(Nat) /\ Len(h \o m) = Len(h) + Len(m)
      /\ \A x \in 1..Len(h) : (h \o m)[x] = h[x]
      /\ \A x \in 1..Len(m) : (h \o m)[Len(h) + x] = m[x]
  BY <1>2, Joined
<1>4. Len(m) \in Nat /\ 1 \in 1..Len(h) /\ 2 \in 1..Len(h) /\ \A x \in 1..Len(m) : x + 2 = Len(h) + x
  BY <1>2
<1>5. /\ h \o m \in Seq(Nat) /\ Len(h \o m) = Len(m) + 2 /\ 256 * (h \o m)[1] + (h \o m)[2] = p
      /\ \A x \in 1..Len(m) : (h \o m)[x + 2] = m[x]
  <2> DEFINE w == h \o m
  <2>1. \A x \in 1..Len(m) : w[x + 2] = m[x]
    BY <1>3, <1>4
  <2>2. w[1] = h[1] /\ w[2] = h[2] /\ Len(w) = 2 + Len(m) /\ w \in Seq(Nat)
    BY <1>2, <1>3, <1>4
  <2> HIDE DEF w
  <2>3. Len(w) = Len(m) + 2 /\ 256 * w[1] + w[2] = p
    BY <1>2, <1>4, <2>2
  <2> QED BY <2>1, <2>2, <2>3 DEF w
<1> QED BY <1>5 DEF h, IsFrame

\* Where the bodies of a session start, and that they lie apart.
LEMMA StartsApart ==
  ASSUME NEW s, IsSession(s)
  PROVE  LET n  == Len(s)
             at == BodyStarts(s)
         IN  /\ n \in Nat \ {0} /\ at \in [1..n + 1 -> Nat] /\ at[1] = 2
             /\ \A i \in 1..n : /\ at[i + 1] = at[i] + Len(s[i]) + 2 /\ at[i] \in Nat
                                /\ Len(s[i]) \in Nat \ {0} /\ at[i] >= 2
             /\ at[n + 1] >= 2 /\ at[n + 1] \in Nat
             /\ \A i \in 1..n, k \in 1..n + 1 : i < k => at[i] + Len(s[i]) + 2 <= at[k]
<1> DEFINE n  == Len(s)
           at == BodyStarts(s)
           len == [i \in 1..n |-> Len(s[i]) + 2]
<1>1. /\ at \in [1..n + 1 -> Nat] /\ at[1] = 2
      /\ \A i \in 1..n : at[i + 1] = at[i] + Len(s[i]) + 2
  BY StartsSound
<1>2. n \in Nat \ {0} /\ \A i \in 1..n : Len(s[i]) \in Nat \ {0}
  BY Zenon DEF IsSession
<1> HIDE DEF n, at
<1>3. /\ len \in [1..n -> Nat]
      /\ \A i \in 1..n : len[i] = Len(s[i]) + 2 /\ at[i + 1] = at[i] + len[i]
  <2>1. len \in [1..n -> Nat]
    BY <1>2
  <2>2. ASSUME NEW i \in 1..n PROVE len[i] = Len(s[i]) + 2 /\ at[i + 1] = at[i] + len[i]
    <3>1. /\ at[i + 1] = at[i] + Len(s[i]) + 2 /\ len[i] = Len(s[i]) + 2
          /\ at[i] \in Nat /\ Len(s[i]) \in Nat
      BY <1>1, <1>2
    <3> HIDE DEF len
    <3> QED BY <3>1
  <2> HIDE DEF len
  <2> QED BY <2>1, <2>2
<1> HIDE DEF len
<1>4. \A i \in 1..n, k \in 1..n + 1 : i < k => at[i] + len[i] <= at[k]
  <2>1. n \in Nat
    BY <1>2
  <2> QED BY ONLY <1>1, <1>3, <2>1, SpreadOut
<1>5. ASSUME NEW k \in 1..n + 1 PROVE at[k] \in Nat /\ at[k] >= 2
  <2>1. at[k] \in Nat /\ 1 \in 1..n /\ (k = 1 \/ 1 < k)
    BY <1>1, <1>2
  <2>2. 1 < k => at[1] + len[1] <= at[k]
    BY <1>4, <2>1
  <2>3. len[1] \in Nat
    BY <1>3, <2>1
  <2> QED BY <1>1, <2>1, <2>2, <2>3
<1>6. ASSUME NEW i \in 1..n, NEW k \in 1..n + 1, i < k
      PROVE  at[i] + Len(s[i]) + 2 <= at[k]
  <2>1. at[i] + len[i] <= at[k] /\ len[i] = Len(s[i]) + 2
    BY <1>3, <1>4, <1>6
  <2>2. at[i] \in Nat /\ Len(s[i]) \in Nat
    BY <1>1, <1>2
  <2> QED BY <2>1, <2>2
<1>7. n + 1 \in 1..n + 1 /\ \A i \in 1..n : i \in 1..n + 1
  BY <1>2
<1> QED BY <1>1, <1>2, <1>5, <1>6, <1>7 DEF n, at

\* The file before any of it is cut off.
Whole(f, w) ==
  LET s   == f.session
      at  == BodyStarts(s)
      all == at[Len(s) + 1] - 2 + (IF f.terminated THEN 2 ELSE 0)
  IN /\ w \in Seq(Nat) /\ Len(w) = all
     /\ \A i \in 1..Len(s) :
          /\ 256 * w[at[i] - 1] + w[at[i]] = WrittenPrefix(f, i)
          /\ \A x \in 1..Len(s[i]) : w[at[i] + x] = WrittenBody(f, i)[x]
     /\ f.terminated => w[at[Len(s) + 1] - 1] = 0 /\ w[at[Len(s) + 1]] = 0

LEMMA WholeFileSound ==
  ASSUME NEW f, IsFile(f)
  PROVE  Whole(f, WholeFile(f))
<1> DEFINE s   == f.session
           n   == Len(s)
           at  == BodyStarts(s)
           pre(i) == WrittenPrefix(f, i)
           body(i) == WrittenBody(f, i)
           fr  == [i \in 1..n |-> BigEndian(pre(i)) \o body(i)]
           off == [i \in 1..n + 1 |-> at[i] - 2]
           w   == FlattenSeq(fr)
           tail == IF f.terminated THEN <<0, 0>> ELSE <<>>
<1>1. IsSession(s)
  BY Zenon DEF IsFile
<1>2. /\ n \in Nat \ {0} /\ at \in [1..n + 1 -> Nat] /\ at[1] = 2
      /\ \A i \in 1..n : /\ at[i + 1] = at[i] + Len(s[i]) + 2 /\ at[i] \in Nat
                         /\ Len(s[i]) \in Nat \ {0} /\ at[i] >= 2
      /\ at[n + 1] >= 2 /\ at[n + 1] \in Nat
  BY <1>1, StartsApart
<1>3. ASSUME NEW i \in 1..n
      PROVE  /\ pre(i) \in Nat /\ body(i) \in Seq(Nat) /\ Len(body(i)) = Len(s[i])
  BY WrittenSound
<1>4. WholeFile(f) = w \o tail
  BY DEF WholeFile
<1> HIDE DEF n, at, pre, body
<1>5. ASSUME NEW i \in 1..n
      PROVE  /\ fr[i] \in Seq(Nat) /\ Len(fr[i]) = Len(s[i]) + 2
             /\ 256 * fr[i][1] + fr[i][2] = pre(i)
             /\ \A x \in 1..Len(s[i]) : fr[i][x + 2] = body(i)[x]
  <2> DEFINE p == pre(i)
             m == body(i)
             v == BigEndian(p) \o m
  <2>1. p \in Nat /\ m \in Seq(Nat) /\ Len(m) = Len(s[i])
    BY <1>3
  <2>2. fr[i] = v
    OBVIOUS
  <2> HIDE DEF p, m
  <2>3. IsFrame(v, p, m)
    BY <2>1, FrameSound
  <2> HIDE DEF v, fr
  <2> QED BY <2>1, <2>2, <2>3 DEF p, m, IsFrame
<1>6. fr \in Seq(Seq(Nat)) /\ Len(fr) = n
  <2>1. fr \in [1..n -> Seq(Nat)]
    <3>1. \A i \in 1..n : fr[i] \in Seq(Nat)
      BY <1>5
    <3> QED BY <3>1
  <2> HIDE DEF fr
  <2> QED BY <1>2, <2>1
<1> HIDE DEF fr
<1>7. /\ off \in [1..n + 1 -> Nat] /\ off[1] = 0 /\ off[n + 1] = at[n + 1] - 2
      /\ \A i \in 1..n : off[i] = at[i] - 2 /\ off[i + 1] = off[i] + Len(fr[i])
  <2>1. ASSUME NEW k \in 1..n + 1 PROVE off[k] = at[k] - 2 /\ off[k] \in Nat
    <3>1. k \in 1..n \/ k = n + 1
      BY <1>2
    <3> QED BY <1>2, <3>1
  <2>2. off \in [1..n + 1 -> Nat]
    BY <2>1
  <2> HIDE DEF off
  <2>3. 1 \in 1..n + 1 /\ n + 1 \in 1..n + 1
    BY <1>2
  <2>4. ASSUME NEW i \in 1..n PROVE off[i] = at[i] - 2 /\ off[i + 1] = off[i] + Len(fr[i])
    <3>1. i \in 1..n + 1 /\ i + 1 \in 1..n + 1
      BY <1>2
    <3>2. off[i] = at[i] - 2 /\ off[i + 1] = at[i + 1] - 2
      BY <2>1, <3>1
    <3>3. at[i + 1] = at[i] + Len(s[i]) + 2 /\ at[i] \in Nat /\ Len(s[i]) \in Nat
      BY <1>2
    <3>4. Len(fr[i]) = Len(s[i]) + 2
      BY <1>5
    <3>5. \A x, y \in Nat : (x + y + 2) - 2 = (x - 2) + (y + 2)
      OBVIOUS
    <3> QED BY ONLY <3>2, <3>3, <3>4, <3>5
  <2> QED BY <1>2, <2>1, <2>2, <2>3, <2>4
<1> HIDE DEF off
<1>8. /\ w \in Seq(Nat) /\ Len(w) = off[n + 1]
      /\ \A i \in 1..n : \A j \in 1..Len(fr[i]) : w[off[i] + j] = fr[i][j]
  <2>1. Len(fr) \in Nat \ {0} /\ off \in [1..Len(fr) + 1 -> Nat] /\ off[1] = 0
        /\ \A i \in 1..Len(fr) : off[i + 1] = off[i] + Len(fr[i])
    BY <1>2, <1>6, <1>7
  <2>2. /\ w \in Seq(Nat) /\ Len(w) = off[Len(fr) + 1]
        /\ \A i \in 1..Len(fr) : \A j \in 1..Len(fr[i]) : w[off[i] + j] = fr[i][j]
    BY ONLY <1>6, <2>1, FlattenSound
  <2> HIDE DEF w
  <2> QED BY <1>6, <2>2
<1> HIDE DEF w
<1>9. /\ tail \in Seq(Nat) /\ Len(tail) = (IF f.terminated THEN 2 ELSE 0)
      /\ f.terminated => tail[1] = 0 /\ tail[2] = 0
  <2>1. CASE f.terminated
    BY <2>1
  <2>2. CASE ~f.terminated
    BY <2>2
  <2> QED BY <2>1, <2>2
<1> HIDE DEF tail
<1> DEFINE v == w \o tail
<1>10. /\ v \in Seq(Nat) /\ Len(v) = Len(w) + Len(tail)
       /\ \A x \in 1..Len(w) : v[x] = w[x]
       /\ \A x \in 1..Len(tail) : v[Len(w) + x] = tail[x]
  BY ONLY <1>8, <1>9, Joined
<1> HIDE DEF v
<1>11. ASSUME NEW i \in 1..n, NEW j \in 1..Len(s[i]) + 2
       PROVE  v[at[i] - 2 + j] = fr[i][j]
  <2>1. Len(fr[i]) = Len(s[i]) + 2 /\ off[i] = at[i] - 2
    BY <1>5, <1>7
  <2>2. w[off[i] + j] = fr[i][j]
    BY <1>8, <2>1
  <2>3. off[i] + j \in 1..Len(w)
    <3>1. off[i + 1] <= off[n + 1]
      <4>1. i + 1 = n + 1 \/ (i + 1 \in 1..n /\ i + 1 < n + 1)
        BY <1>2
      <4>2. \A k \in 1..n : k < n + 1 => at[k] + Len(s[k]) + 2 <= at[n + 1]
        <5>1. n + 1 \in 1..n + 1
          BY <1>2
        <5> QED BY <1>1, <5>1, StartsApart DEF n, at
      <4>3. i + 1 \in 1..n => off[i + 1] = at[i + 1] - 2 /\ at[i + 1] \in Nat /\ Len(s[i + 1]) \in Nat
        BY <1>2, <1>7
      <4>4. i + 1 \in 1..n => at[i + 1] + Len(s[i + 1]) + 2 <= at[n + 1]
        BY ONLY <1>2, <4>1, <4>2
      <4>5. off[n + 1] = at[n + 1] - 2 /\ at[n + 1] \in Nat
        BY <1>2, <1>7
      <4>6. CASE i + 1 = n + 1
        BY <4>5, <4>6
      <4>7. CASE i + 1 \in 1..n
        BY <4>3, <4>4, <4>5, <4>7
      <4> QED BY <4>1, <4>6, <4>7
    <3>2. off[i + 1] = off[i] + Len(fr[i]) /\ off[i] \in Nat /\ Len(w) = off[n + 1] /\ Len(s[i]) \in Nat
          /\ off[i + 1] \in Nat /\ off[n + 1] \in Nat
      <4>1. i \in 1..n + 1 /\ i + 1 \in 1..n + 1 /\ n + 1 \in 1..n + 1
        BY <1>2
      <4> QED BY <1>2, <1>7, <1>8, <4>1
    <3> QED BY SMTT(30), <2>1, <3>1, <3>2
  <2>4. v[off[i] + j] = w[off[i] + j]
    BY <1>10, <2>3
  <2> QED BY <2>1, <2>2, <2>4
<1>12. ASSUME NEW i \in 1..n
       PROVE  /\ 256 * v[at[i] - 1] + v[at[i]] = pre(i)
              /\ \A x \in 1..Len(s[i]) : v[at[i] + x] = body(i)[x]
  <2>1. at[i] \in Nat /\ Len(s[i]) \in Nat
    BY <1>2
  <2>2. /\ 1 \in 1..Len(s[i]) + 2 /\ 2 \in 1..Len(s[i]) + 2
        /\ at[i] - 2 + 1 = at[i] - 1 /\ at[i] - 2 + 2 = at[i]
    BY <2>1
  <2>3. v[at[i] - 1] = fr[i][1] /\ v[at[i]] = fr[i][2]
    BY <1>11, <2>2
  <2>4. ASSUME NEW x \in 1..Len(s[i]) PROVE v[at[i] + x] = body(i)[x]
    <3>1. x + 2 \in 1..Len(s[i]) + 2 /\ at[i] - 2 + (x + 2) = at[i] + x
      BY <2>1
    <3>2. v[at[i] - 2 + (x + 2)] = fr[i][x + 2]
      BY <1>11, <3>1
    <3> QED BY <1>5, <3>1, <3>2
  <2> QED BY <1>5, <2>3, <2>4
<1>13. Len(v) = at[n + 1] - 2 + (IF f.terminated THEN 2 ELSE 0)
  BY ONLY <1>7, <1>8, <1>9, <1>10
<1>14. ASSUME f.terminated PROVE v[at[n + 1] - 1] = 0 /\ v[at[n + 1]] = 0
  <2>1. 1 \in 1..Len(tail) /\ 2 \in 1..Len(tail) /\ tail[1] = 0 /\ tail[2] = 0
    BY ONLY <1>9, <1>14
  <2>2. Len(w) = at[n + 1] - 2 /\ at[n + 1] \in Nat
    BY <1>2, <1>7, <1>8
  <2>3. Len(w) + 1 = at[n + 1] - 1 /\ Len(w) + 2 = at[n + 1]
    BY <2>2
  <2> QED BY <1>10, <2>1, <2>3
<1>15. Whole(f, v)
  BY <1>10, <1>12, <1>13, <1>14 DEF Whole, n, at, pre, body
<1> QED BY <1>4, <1>15 DEF v

\* A stretch of a sequence, by what it has where.
LEMMA StretchIs ==
  ASSUME NEW S, NEW b \in Seq(S), NEW k \in Nat, NEW m \in Seq(S), k + Len(m) <= Len(b),
         \A x \in 1..Len(m) : b[k + x] = m[x]
  PROVE  SubSeq(b, k + 1, k + Len(m)) = m
<1> DEFINE z == SubSeq(b, k + 1, k + Len(m))
<1>1. Len(m) \in Nat /\ Len(b) \in Nat /\ \A i \in k + 1..k + Len(m) : b[i] \in S
  OBVIOUS
<1>2. z \in Seq(S) /\ Len(z) = Len(m) /\ \A x \in 1..Len(m) : z[x] = b[k + x]
  OBVIOUS
<1> HIDE DEF z
<1>3. \A x \in 1..Len(m) : z[x] = m[x]
  BY <1>2
<1>4. z = m
  BY <1>1, <1>2, <1>3
<1> QED BY <1>4 DEF z

LEMMA FileLaid ==
  ASSUME NEW f, IsFile(f), BytesOf(f) \in Seq(Bytes)
  PROVE  Laid(f, BytesOf(f))
<1> DEFINE s   == f.session
           n   == Len(s)
           at  == BodyStarts(s)
           all == at[n + 1] - 2 + (IF f.terminated THEN 2 ELSE 0)
           w   == WholeFile(f)
           b   == BytesOf(f)
<1>1. IsSession(s)
  BY Zenon DEF IsFile
<1>2. /\ n \in Nat \ {0} /\ at \in [1..n + 1 -> Nat]
      /\ \A i \in 1..n : at[i] \in Nat /\ Len(s[i]) \in Nat \ {0} /\ at[i] >= 2
      /\ at[n + 1] >= 2 /\ at[n + 1] \in Nat
  BY <1>1, StartsApart
<1>3. ASSUME NEW i \in 1..n
      PROVE  /\ WrittenBody(f, i) \in Seq(Bytes) /\ Len(WrittenBody(f, i)) = Len(s[i])
  BY WrittenSound
<1>4. /\ w \in Seq(Nat) /\ Len(w) = all
      /\ \A i \in 1..n : /\ 256 * w[at[i] - 1] + w[at[i]] = WrittenPrefix(f, i)
                         /\ \A x \in 1..Len(s[i]) : w[at[i] + x] = WrittenBody(f, i)[x]
      /\ f.terminated => w[at[n + 1] - 1] = 0 /\ w[at[n + 1]] = 0
  BY WholeFileSound DEF Whole
<1>5. /\ f.damage.kind # "cut" => Len(b) = all
      /\ f.damage.kind = "cut" => Len(b) < all
      /\ \A x \in 1..Len(b) : b[x] = w[x]
  <2>1. CASE f.damage.kind = "cut"
    <3> DEFINE c == f.damage.at
    <3>1. c \in 0..Len(w) - 1
      BY <2>1, Zenon DEF IsFile
    <3>2. b = SubSeq(w, 1, c)
      BY <2>1 DEF BytesOf
    <3> HIDE DEF c, b, w, all
    <3>3. Len(b) = c /\ \A x \in 1..c : b[x] = w[x]
      BY <1>4, <3>1, <3>2
    <3> QED BY <1>4, <2>1, <3>1, <3>3
  <2>2. CASE f.damage.kind # "cut"
    <3>1. b = w
      BY <2>2 DEF BytesOf
    <3> QED BY <1>4, <2>2, <3>1
  <2> QED BY <2>1, <2>2
<1>6. b \in Seq(Bytes) /\ Len(b) \in Nat
  OBVIOUS
<1> HIDE DEF b, w, at, all, n
<1>7. ASSUME NEW k \in Nat, k >= 2, k <= Len(b)
      PROVE  Be16(b, k - 2) = 256 * w[k - 1] + w[k]
  <2>1. /\ k - 2 < Len(b) /\ (k - 2) + 1 < Len(b) /\ k - 1 \in 1..Len(b) /\ k \in 1..Len(b)
        /\ (k - 2) + 1 = k - 1 /\ (k - 1) + 1 = k
    BY <1>6, <1>7
  <2>2. b[k - 1] = w[k - 1] /\ b[k] = w[k]
    BY <1>5, <2>1
  <2>3. Byte(b, k - 2) = b[k - 1] /\ Byte(b, (k - 2) + 1) = b[k]
    BY <2>1 DEF Byte, Size
  <2> QED BY <2>2, <2>3 DEF Be16
<1>8. ASSUME NEW i \in 1..n
      PROVE  /\ at[i] <= Len(b) => Be16(b, at[i] - 2) = WrittenPrefix(f, i)
             /\ at[i] < Len(b) => Byte(b, at[i]) = WrittenBody(f, i)[1]
             /\ at[i] + Len(s[i]) <= Len(b) =>
                  SubSeq(b, at[i] + 1, at[i] + Len(s[i])) = WrittenBody(f, i)
  <2> DEFINE m == WrittenBody(f, i)
             k == at[i]
  <2>1. k \in Nat /\ k >= 2 /\ Len(m) \in Nat \ {0} /\ m \in Seq(Bytes) /\ Len(s[i]) = Len(m)
    BY <1>2, <1>3
  <2>2. 256 * w[k - 1] + w[k] = WrittenPrefix(f, i) /\ \A x \in 1..Len(m) : w[k + x] = m[x]
    BY <1>4, <2>1
  <2> HIDE DEF m, k
  <2>3. ASSUME k <= Len(b) PROVE Be16(b, k - 2) = WrittenPrefix(f, i)
    BY <1>7, <2>1, <2>2, <2>3
  <2>4. ASSUME k < Len(b) PROVE Byte(b, k) = m[1]
    <3>1. k + 1 \in 1..Len(b) /\ 1 \in 1..Len(m)
      BY <1>6, <2>1, <2>4
    <3>2. b[k + 1] = m[1]
      BY <1>5, <2>2, <3>1
    <3> QED BY <2>4, <3>2 DEF Byte, Size
  <2>5. ASSUME k + Len(m) <= Len(b) PROVE SubSeq(b, k + 1, k + Len(m)) = m
    <3>1. ASSUME NEW x \in 1..Len(m) PROVE b[k + x] = m[x]
      <4>1. k + x \in 1..Len(b)
        BY <1>6, <2>1, <2>5
      <4> QED BY <1>5, <2>2, <4>1
    <3> QED BY <1>6, <2>1, <2>5, <3>1, StretchIs
  <2> QED BY <2>1, <2>3, <2>4, <2>5 DEF m, k
<1>9. f.terminated /\ at[n + 1] <= Len(b) => Be16(b, at[n + 1] - 2) = 0
  <2> SUFFICES ASSUME f.terminated, at[n + 1] <= Len(b) PROVE Be16(b, at[n + 1] - 2) = 0
    OBVIOUS
  <2>1. w[at[n + 1] - 1] = 0 /\ w[at[n + 1]] = 0
    BY <1>4
  <2>2. Be16(b, at[n + 1] - 2) = 256 * w[at[n + 1] - 1] + w[at[n + 1]]
    BY <1>2, <1>7
  <2> QED BY <2>1, <2>2
<1> QED BY <1>5, <1>6, <1>8, <1>9 DEF Laid, n, at, all, b

----------------------------------------------------------------------------
(* detect_framing.                                                         *)

\* One message more of the walk, in terms of what becomes of it after that.
Further(b, form, v) ==
  [at \in 0..Size(b) |->
     IF RunsOut(b, form, at) THEN at > 0
     ELSE Consistent(b, form, at) /\ v[at + 2 + Implied(b, at)]]

IsWalk(b, form, g) ==
  /\ g[0] = [at \in 0..Size(b) |-> TRUE]
  /\ \A i \in 1..kProbe : g[i] = Further(b, form, g[i - 1])

LEMMA WalkSound ==
  ASSUME NEW b \in Seq(Bytes), NEW form
  PROVE  \E g : IsWalk(b, form, g) /\ Walks(b, form) = g[kProbe][0]
<1> DEFINE V == [0..Size(b) -> BOOLEAN]
           base == [at \in 0..Size(b) |-> TRUE]
           S == [i \in Nat |-> [v \in V |-> Further(b, form, v)]]
           Is(g) == g = [i \in 0..kProbe |-> [at \in 0..Size(b) |->
                           IF i = 0 THEN TRUE
                           ELSE IF RunsOut(b, form, at) THEN at > 0
                           ELSE Consistent(b, form, at) /\ g[i - 1][at + 2 + Implied(b, at)]]]
           F == CHOOSE g : Is(g)
<1>1. kProbe \in Nat \ {0}
  BY FramingAssumption
<1>2. base \in V
  OBVIOUS
<1>3. \A v : Further(b, form, v) \in V
  <2> TAKE v
  <2> DEFINE e(at) == IF RunsOut(b, form, at) THEN at > 0
                      ELSE Consistent(b, form, at) /\ v[at + 2 + Implied(b, at)]
  <2>1. ASSUME NEW at \in 0..Size(b) PROVE e(at) \in BOOLEAN
    <3> DEFINE x == Consistent(b, form, at) /\ v[at + 2 + Implied(b, at)]
               y == at > 0
    <3>1. x \in BOOLEAN /\ y \in BOOLEAN
      <4>1. y \in BOOLEAN
        OBVIOUS
      <4>2. x \in BOOLEAN
        <5> DEFINE p == Consistent(b, form, at)
                   q == v[at + 2 + Implied(b, at)]
        <5> HIDE DEF p, q
        <5>1. (p /\ q) \in BOOLEAN
          OBVIOUS
        <5> QED BY <5>1 DEF p, q
      <4> QED BY <4>1, <4>2
    <3>2. e(at) = IF RunsOut(b, form, at) THEN y ELSE x
      OBVIOUS
    <3> HIDE DEF x, y, e
    <3> QED BY <3>1, <3>2
  <2>2. Further(b, form, v) = [at \in 0..Size(b) |-> e(at)]
    BY DEF Further
  <2> HIDE DEF e
  <2> QED BY <2>1, <2>2
<1>4. \A i \in Nat, v \in V : S[i][v] = Further(b, form, v)
  OBVIOUS
<1>5. \A i \in Nat, v \in V : S[i][v] \in V
  BY <1>3, <1>4
<1> HIDE DEF S, V, base
<1>6. PICK h : Recursive(V, base, S, h)
  BY <1>2, <1>5, RecursionWorks
<1>7. /\ h[0] = base
      /\ \A i \in 1..kProbe : h[i] = Further(b, form, h[i - 1])
  <2>1. h[0] = base
    BY <1>6 DEF Recursive
  <2>2. ASSUME NEW i \in 1..kProbe PROVE h[i] = Further(b, form, h[i - 1])
    <3>1. i - 1 \in Nat /\ (i - 1) + 1 = i
      BY <1>1
    <3>2. h[i - 1] \in V /\ h[(i - 1) + 1] = S[i - 1][h[i - 1]]
      BY <1>6, <3>1 DEF Recursive
    <3> QED BY <1>4, <3>1, <3>2
  <2> QED BY <2>1, <2>2
<1> DEFINE g == [i \in 0..kProbe |-> h[i]]
<1>8. g[0] = base /\ \A i \in 1..kProbe : g[i] = Further(b, form, g[i - 1])
  <2>1. 0 \in 0..kProbe /\ \A i \in 1..kProbe : i \in 0..kProbe /\ i - 1 \in 0..kProbe
    BY <1>1
  <2> QED BY <1>7, <2>1
<1>9. Is(g)
  <2>1. g = [i \in 0..kProbe |-> g[i]]
    OBVIOUS
  <2> DEFINE r(i) == [at \in 0..Size(b) |->
                       IF i = 0 THEN TRUE
                       ELSE IF RunsOut(b, form, at) THEN at > 0
                       ELSE Consistent(b, form, at) /\ g[i - 1][at + 2 + Implied(b, at)]]
  <2> HIDE DEF g
  <2>2. ASSUME NEW i \in 0..kProbe PROVE g[i] = r(i)
    <3>1. CASE i = 0
      BY <1>8, <3>1 DEF base
    <3>2. CASE i # 0
      <4>1. i \in 1..kProbe
        BY <1>1, <3>2
      <4>2. g[i] = Further(b, form, g[i - 1])
        BY <1>8, <4>1
      <4> QED BY <3>2, <4>2 DEF Further
    <3> QED BY <3>1, <3>2
  <2> HIDE DEF r
  <2>3. g = [i \in 0..kProbe |-> r(i)]
    BY <2>1, <2>2
  <2> QED BY <2>3 DEF r
<1> HIDE DEF g
<1>10. Is(F)
  <2> HIDE DEF Is
  <2> QED BY <1>9
<1>11. Walks(b, form) = F[kProbe][0]
  BY DEF Walks
<1> HIDE DEF F
<1>12. F[0] = base /\ \A i \in 1..kProbe : F[i] = Further(b, form, F[i - 1])
  <2> DEFINE r(i) == [at \in 0..Size(b) |->
                       IF i = 0 THEN TRUE
                       ELSE IF RunsOut(b, form, at) THEN at > 0
                       ELSE Consistent(b, form, at) /\ F[i - 1][at + 2 + Implied(b, at)]]
  <2>1. F = [i \in 0..kProbe |-> r(i)]
    BY <1>10
  <2>2. r(0) = base
    BY DEF base
  <2>3. ASSUME NEW i \in 1..kProbe PROVE r(i) = Further(b, form, F[i - 1])
    <3>1. i # 0
      BY <1>1
    <3> QED BY <3>1 DEF Further
  <2> HIDE DEF r
  <2>4. 0 \in 0..kProbe /\ \A i \in 1..kProbe : i \in 0..kProbe
    BY <1>1
  <2> HIDE DEF Is
  <2> QED BY <2>1, <2>2, <2>3, <2>4
<1>13. IsWalk(b, form, F)
  BY <1>12 DEF IsWalk, base
<1> QED BY <1>11, <1>13

\* The prefix and the type of a frame, where they are there to be read.
LEMMA HeadsRead ==
  ASSUME NEW f, IsFile(f), NEW b, Laid(f, b), NEW i \in 1..Len(f.session)
  PROVE  LET s  == f.session
             at == BodyStarts(s)
             t  == WrittenBody(f, i)[1]
         IN  /\ at[i] <= Len(b) => Be16(b, at[i] - 2) = WrittenPrefix(f, i)
             /\ at[i] < Len(b) => Implied(b, at[i] - 2) = MsgLen[t] /\ Byte(b, at[i]) = t
             /\ (f.damage.kind = "type" /\ f.damage.frame = i) \/ MsgLen[t] = Len(s[i])
             /\ MsgLen[t] \in Nat
<1> DEFINE s  == f.session
           at == BodyStarts(s)
           t  == WrittenBody(f, i)[1]
<1>1. IsSession(s)
  BY Zenon DEF IsFile
<1>2. at[i] \in Nat /\ at[i] >= 2
  BY <1>1, StartsApart
<1>3. /\ at[i] <= Len(b) => Be16(b, at[i] - 2) = WrittenPrefix(f, i)
      /\ at[i] < Len(b) => Byte(b, at[i]) = t
  BY Zenon DEF Laid
<1>4. MsgLen[t] \in Nat
  <2>1. t \in Bytes
    <3>1. WrittenBody(f, i) \in Seq(Bytes) /\ Len(WrittenBody(f, i)) = Len(s[i])
      BY WrittenSound
    <3>2. Len(s[i]) \in Nat \ {0}
      BY <1>1 DEF IsSession
    <3> QED BY <3>1, <3>2
  <2>2. \A bits : Unsigned(bits) \subseteq Nat
    BY DEF Unsigned
  <2> HIDE DEF t
  <2> QED BY <2>1, <2>2, FramingAssumption
<1>5. (f.damage.kind = "type" /\ f.damage.frame = i) \/ MsgLen[t] = Len(s[i])
  <2> SUFFICES ASSUME ~(f.damage.kind = "type" /\ f.damage.frame = i) PROVE MsgLen[t] = Len(s[i])
    OBVIOUS
  <2>1. WrittenBody(f, i) = s[i]
    BY Zenon DEF WrittenBody
  <2>2. MsgLen[s[i][1]] = Len(s[i])
    BY <1>1 DEF IsSession
  <2> QED BY <2>1, <2>2
<1> HIDE DEF at, t
<1>6. (at[i] - 2) + 2 = at[i]
  BY <1>2
<1>7. at[i] < Len(b) => Implied(b, at[i] - 2) = MsgLen[t]
  BY <1>3, <1>6 DEF Implied
<1> QED BY <1>3, <1>4, <1>5, <1>7 DEF s, at, t

\* What the walks make of the first two bytes.
LEMMA FirstPrefix ==
  ASSUME NEW b \in Seq(Bytes)
  PROVE  /\ Walks(b, "ZeroPrefixed") => Size(b) >= 3 /\ Be16(b, 0) = 0
         /\ Walks(b, "LengthPrefixed") => Be16(b, 0) # 0
<1>1. kProbe \in Nat \ {0} /\ kProbe \in 1..kProbe /\ Size(b) \in Nat /\ 0 \in 0..Size(b)
  BY FramingAssumption DEF Size
<1>2. ASSUME NEW form, Walks(b, form) PROVE ~RunsOut(b, form, 0) /\ Consistent(b, form, 0)
  <2>1. PICK g : IsWalk(b, form, g) /\ Walks(b, form) = g[kProbe][0]
    BY WalkSound
  <2>2. g[kProbe] = Further(b, form, g[kProbe - 1])
    BY <1>1, <2>1 DEF IsWalk
  <2>3. Further(b, form, g[kProbe - 1])[0]
    BY <1>2, <2>1, <2>2
  <2>4. IF RunsOut(b, form, 0) THEN 0 > 0
        ELSE Consistent(b, form, 0) /\ g[kProbe - 1][0 + 2 + Implied(b, 0)]
    BY <1>1, <2>3 DEF Further
  <2> QED BY <2>4
<1>3. ASSUME Walks(b, "ZeroPrefixed") PROVE Size(b) >= 3 /\ Be16(b, 0) = 0
  <2>1. ~RunsOut(b, "ZeroPrefixed", 0) /\ Consistent(b, "ZeroPrefixed", 0)
    BY <1>2, <1>3
  <2> QED BY <1>1, <2>1 DEF RunsOut, Consistent
<1>4. ASSUME Walks(b, "LengthPrefixed") PROVE Be16(b, 0) # 0
  <2>1. Consistent(b, "LengthPrefixed", 0)
    BY <1>2, <1>4
  <2> QED BY <2>1 DEF Consistent
<1> QED BY <1>3, <1>4

\* A session in the zero-prefixed form that nothing happened to survives the
\* walk from any message on.
LEMMA IntactWalks ==
  ASSUME NEW f, IsFile(f), NEW b, Laid(f, b), f.form = "ZeroPrefixed", f.damage.kind = "none"
  PROVE  Walks(b, "ZeroPrefixed")
<1> DEFINE s  == f.session
           n  == Len(s)
           at == BodyStarts(s)
           form == "ZeroPrefixed"
<1>1. IsSession(s) /\ ~f.terminated /\ b \in Seq(Bytes) /\ Len(b) = at[n + 1] - 2
  <2>1. IsSession(s)
    BY Zenon DEF IsFile
  <2>2. ~f.terminated
    BY DEF IsFile
  <2>3. b \in Seq(Bytes) /\ Len(b) = at[n + 1] - 2 + (IF f.terminated THEN 2 ELSE 0)
    BY Zenon DEF Laid
  <2>4. at[n + 1] \in Nat
    BY <2>1, StartsApart
  <2> HIDE DEF n, at, s
  <2> QED BY <2>1, <2>2, <2>3, <2>4
<1>2. /\ n \in Nat \ {0} /\ at \in [1..n + 1 -> Nat] /\ at[1] = 2
      /\ \A i \in 1..n : /\ at[i + 1] = at[i] + Len(s[i]) + 2 /\ at[i] \in Nat
                         /\ Len(s[i]) \in Nat \ {0} /\ at[i] >= 2
      /\ at[n + 1] >= 2 /\ at[n + 1] \in Nat
      /\ \A i \in 1..n, k \in 1..n + 1 : i < k => at[i] + Len(s[i]) + 2 <= at[k]
  BY <1>1, StartsApart
<1> HIDE DEF n, at
<1>3. /\ n + 1 \in 1..n + 1 /\ 1 \in 1..n + 1 /\ 1 \in 1..n
      /\ \A k \in 1..n + 1 : k \in 1..n \/ k = n + 1
      /\ \A k \in 1..n : k \in 1..n + 1 /\ k < n + 1 /\ k + 1 \in 1..n + 1
  BY <1>2
<1>4. ASSUME NEW k \in 1..n
      PROVE  /\ ~RunsOut(b, form, at[k] - 2) /\ Consistent(b, form, at[k] - 2)
             /\ (at[k] - 2) + 2 + Implied(b, at[k] - 2) = at[k + 1] - 2
             /\ at[k] - 2 \in 0..Size(b)
  <2>1. /\ at[k] + Len(s[k]) + 2 <= at[n + 1] /\ at[k] \in Nat /\ at[k] >= 2
        /\ Len(s[k]) \in Nat \ {0} /\ at[k + 1] = at[k] + Len(s[k]) + 2
        /\ Len(b) \in Nat /\ Len(b) = at[n + 1] - 2
    BY <1>1, <1>2, <1>3
  <2>2. at[k] < Len(b) /\ at[k] + Len(s[k]) <= Len(b) /\ at[k] <= Len(b)
    <3> DEFINE x == at[k]
               y == Len(s[k])
               z == at[n + 1]
               u == Len(b)
    <3> HIDE DEF x, y, z, u
    <3>1. x \in Nat /\ y \in Nat \ {0} /\ u \in Nat /\ z \in Nat /\ u = z - 2 /\ x + y + 2 <= z
      BY <1>2, <2>1 DEF x, y, z, u
    <3>2. x < u /\ x + y <= u /\ x <= u
      BY <3>1
    <3> QED BY <3>2 DEF x, y, z, u
  <2>3. /\ at[k] <= Len(b) => Be16(b, at[k] - 2) = WrittenPrefix(f, k)
        /\ at[k] < Len(b) => Implied(b, at[k] - 2) = MsgLen[WrittenBody(f, k)[1]]
        /\ MsgLen[WrittenBody(f, k)[1]] = Len(s[k])
    BY HeadsRead DEF n, at
  <2>4. WrittenPrefix(f, k) = 0
    BY DEF WrittenPrefix
  <2>5. Be16(b, at[k] - 2) = 0 /\ Implied(b, at[k] - 2) = Len(s[k])
    BY <2>2, <2>3, <2>4
  <2>6. ~RunsOut(b, form, at[k] - 2)
    BY <2>1, <2>2 DEF RunsOut, Size
  <2>7. Consistent(b, form, at[k] - 2)
    BY <2>1, <2>2, <2>5 DEF Consistent, Size
  <2> QED BY <2>1, <2>2, <2>5, <2>6, <2>7 DEF Size
<1>5. RunsOut(b, form, at[n + 1] - 2) /\ at[n + 1] - 2 > 0 /\ at[n + 1] - 2 \in 0..Size(b)
  <2>1. at[1] + Len(s[1]) + 2 <= at[n + 1] /\ Len(s[1]) \in Nat /\ at[n + 1] \in Nat
    BY <1>2, <1>3
  <2> QED BY <1>1, <1>2, <2>1 DEF RunsOut, Size
<1>6. PICK g : IsWalk(b, form, g) /\ Walks(b, form) = g[kProbe][0]
  BY <1>1, WalkSound
<1>7. kProbe \in Nat \ {0}
  BY FramingAssumption
<1> DEFINE Fine(i) == \A k \in 1..n + 1 : g[i][at[k] - 2]
           T == {i \in 1..kProbe + 1 : Fine(i - 1)}
<1>8. Fine(0)
  <2> SUFFICES ASSUME NEW k \in 1..n + 1 PROVE g[0][at[k] - 2]
    OBVIOUS
  <2>1. at[k] - 2 \in 0..Size(b)
    BY <1>3, <1>4, <1>5
  <2> QED BY <1>6, <2>1 DEF IsWalk
<1>9. ASSUME NEW i \in 1..kProbe, Fine(i - 1) PROVE Fine(i)
  <2> SUFFICES ASSUME NEW k \in 1..n + 1 PROVE g[i][at[k] - 2]
    OBVIOUS
  <2>1. at[k] - 2 \in 0..Size(b)
    BY <1>3, <1>4, <1>5
  <2>2. g[i] = Further(b, form, g[i - 1])
    BY <1>6 DEF IsWalk
  <2>3. g[i][at[k] - 2] =
          IF RunsOut(b, form, at[k] - 2) THEN at[k] - 2 > 0
          ELSE Consistent(b, form, at[k] - 2) /\ g[i - 1][(at[k] - 2) + 2 + Implied(b, at[k] - 2)]
    BY <2>1, <2>2 DEF Further
  <2>4. CASE k = n + 1
    BY <1>5, <2>3, <2>4
  <2>5. CASE k \in 1..n
    <3>1. g[i - 1][at[k + 1] - 2]
      BY <1>3, <1>9, <2>5
    <3> QED BY <1>4, <2>3, <2>5, <3>1
  <2> QED BY <1>3, <2>4, <2>5
<1>10. Fine(kProbe)
  <2> HIDE DEF Fine
  <2>1. 1 \in T /\ kProbe + 1 \in Nat
    BY <1>7, <1>8
  <2>2. ASSUME NEW i \in 1..(kProbe + 1) - 1, i \in T PROVE i + 1 \in T
    <3>1. i \in 1..kProbe /\ (i + 1) - 1 = i /\ i + 1 \in 1..kProbe + 1
      BY <1>7
    <3> QED BY <1>9, <2>2, <3>1
  <2> HIDE DEF T
  <2>3. \A i \in 1..kProbe + 1 : i \in T
    BY <2>1, <2>2, AllTheWay
  <2>4. kProbe + 1 \in 1..kProbe + 1 /\ (kProbe + 1) - 1 = kProbe
    BY <1>7
  <2>5. kProbe + 1 \in T
    BY <2>3, <2>4
  <2> QED BY <2>4, <2>5 DEF T
<1>11. g[kProbe][at[1] - 2]
  BY <1>3, <1>10
<1>12. at[1] - 2 = 0
  BY <1>2
<1> QED BY <1>6, <1>11, <1>12
\* The form the parser takes a file to have: of a file that nothing happened to
\* the right one; and it takes none with a changed type byte for zero-prefixed.
LEMMA FormTaken ==
  ASSUME NEW f, IsFile(f), NEW b, Laid(f, b)
  PROVE  /\ f.damage.kind = "none" => DetectFraming(b) = f.form
         /\ f.form = "LengthPrefixed" /\ f.damage.kind # "prefix" =>
              DetectFraming(b) = "LengthPrefixed"
         /\ DetectFraming(b) \in Framings
<1> DEFINE s  == f.session
           at == BodyStarts(s)
           n  == Len(s)
<1>1. IsSession(s) /\ f.form \in Framings
  BY Zenon DEF IsFile
<1>2. at[1] = 2 /\ n \in Nat \ {0} /\ Len(s[1]) \in Nat \ {0} /\ 1 \in 1..n
  BY <1>1, StartsApart
<1>3. b \in Seq(Bytes) /\ Len(b) \in Nat
  <2>1. b \in Seq(Bytes)
    BY Zenon DEF Laid
  <2> QED BY <2>1
<1>4. Size(b) >= 2 => Be16(b, 0) = WrittenPrefix(f, 1)
  <2>1. at[1] <= Len(b) => Be16(b, at[1] - 2) = WrittenPrefix(f, 1)
    BY <1>2, HeadsRead
  <2>2. at[1] - 2 = 0
    BY <1>2
  <2> QED BY <1>2, <1>3, <2>1, <2>2 DEF Size
<1>5. ASSUME f.form = "LengthPrefixed", f.damage.kind # "prefix"
      PROVE  DetectFraming(b) = "LengthPrefixed"
  <2> SUFFICES ASSUME Walks(b, "ZeroPrefixed") PROVE FALSE
    BY DEF DetectFraming
  <2>1. Size(b) >= 3 /\ Be16(b, 0) = 0
    BY <1>3, FirstPrefix
  <2>2. WrittenPrefix(f, 1) = Len(s[1])
    BY <1>5 DEF WrittenPrefix
  <2> QED BY <1>2, <1>3, <1>4, <2>1, <2>2 DEF Size
<1>6. ASSUME f.form = "ZeroPrefixed", f.damage.kind = "none"
      PROVE  DetectFraming(b) = "ZeroPrefixed"
  <2>1. Walks(b, "ZeroPrefixed")
    BY <1>6, IntactWalks
  <2>2. Be16(b, 0) = 0
    BY <1>3, <2>1, FirstPrefix
  <2>3. ~Walks(b, "LengthPrefixed")
    BY <1>3, <2>2, FirstPrefix
  <2> QED BY <2>1, <2>3 DEF DetectFraming
<1> QED BY <1>1, <1>5, <1>6 DEF Framings, DetectFraming

----------------------------------------------------------------------------
(* The reader, in a file somebody wrote.                                   *)

Messages == Len(file.session)
Starts == BodyStarts(file.session)
Longs == [i \in 1..Messages |-> Len(file.session[i])]

\* The input is such a file, and does not change.
Written == IsFile(file) /\ Laid(file, buf) /\ framing = DetectFraming(buf)

\* The reader is where message k + 1 starts.
Before(k) == k \in 0..Messages /\ pos = Starts[k + 1] - 2

LEMMA StartsKnown ==
  ASSUME Written
  PROVE  /\ Messages \in Nat \ {0} /\ Starts \in [1..Messages + 1 -> Nat] /\ Starts[1] = 2
         /\ Longs \in [1..Messages -> Nat \ {0}]
         /\ \A i \in 1..Messages :
              /\ Starts[i + 1] = Starts[i] + Longs[i] + 2 /\ Starts[i] \in Nat
              /\ Longs[i] \in Nat \ {0} /\ Starts[i] >= 2
         /\ Starts[Messages + 1] >= 2 /\ Starts[Messages + 1] \in Nat
         /\ \A i \in 1..Messages, k \in 1..Messages + 1 :
              i < k => Starts[i] + Longs[i] + 2 <= Starts[k]
<1> DEFINE s == file.session
<1>1. IsSession(s)
  BY Zenon DEF Written, IsFile
<1>2. LET n  == Len(s)
          at == BodyStarts(s)
      IN  /\ n \in Nat \ {0} /\ at \in [1..n + 1 -> Nat] /\ at[1] = 2
          /\ \A i \in 1..n : /\ at[i + 1] = at[i] + Len(s[i]) + 2 /\ at[i] \in Nat
                             /\ Len(s[i]) \in Nat \ {0} /\ at[i] >= 2
          /\ at[n + 1] >= 2 /\ at[n + 1] \in Nat
          /\ \A i \in 1..n, k \in 1..n + 1 : i < k => at[i] + Len(s[i]) + 2 <= at[k]
  BY <1>1, StartsApart
<1>3. /\ Longs \in [1..Messages -> Nat \ {0}]
      /\ \A i \in 1..Messages : Longs[i] = Len(s[i])
  BY <1>2 DEF Longs, Messages
<1> HIDE DEF s
<1>4. \A i \in 1..Messages :
        /\ Starts[i + 1] = Starts[i] + Len(s[i]) + 2 /\ Starts[i] \in Nat
        /\ Longs[i] = Len(s[i]) /\ Longs[i] \in Nat \ {0} /\ Starts[i] >= 2
  BY <1>2, <1>3 DEF Messages, Starts, s
<1>5. \A i \in 1..Messages, k \in 1..Messages + 1 : i < k => Starts[i] + Len(s[i]) + 2 <= Starts[k]
  BY <1>2 DEF Messages, Starts, s
<1>6. /\ Messages \in Nat \ {0} /\ Starts \in [1..Messages + 1 -> Nat] /\ Starts[1] = 2
      /\ Starts[Messages + 1] >= 2 /\ Starts[Messages + 1] \in Nat
  BY <1>2 DEF Messages, Starts, s
<1> QED BY <1>3, <1>4, <1>5, <1>6

\* How many bytes there are.
LEMMA SizeKnown ==
  ASSUME Written
  PROVE  /\ buf \in Seq(Bytes) /\ Size(buf) \in Nat /\ Size(buf) = Len(buf)
         /\ file.damage.kind # "cut" =>
              \/ Size(buf) = Starts[Messages + 1] - 2 /\ ~file.terminated
              \/ Size(buf) = Starts[Messages + 1] /\ file.terminated
         /\ \/ Size(buf) <= Starts[Messages + 1] - 2
            \/ /\ Size(buf) <= Starts[Messages + 1] /\ file.form = "LengthPrefixed"
               /\ Size(buf) = Starts[Messages + 1] => Be16(buf, Starts[Messages + 1] - 2) = 0
<1> DEFINE e == Starts[Messages + 1]
           z == Len(buf)
<1>1. e \in Nat
  BY StartsKnown
<1>2. /\ buf \in Seq(Bytes)
      /\ file.damage.kind # "cut" => z = e - 2 + (IF file.terminated THEN 2 ELSE 0)
      /\ file.damage.kind = "cut" => z < e - 2 + (IF file.terminated THEN 2 ELSE 0)
      /\ file.terminated /\ e <= z => Be16(buf, e - 2) = 0
  BY Zenon DEF Written, Laid, Messages, Starts
<1>3. file.terminated => file.form = "LengthPrefixed"
  BY Zenon DEF Written, IsFile
<1>4. z \in Nat
  BY <1>2
<1> HIDE DEF e, z
<1>5. CASE file.terminated
  BY <1>1, <1>2, <1>3, <1>4, <1>5 DEF Size, e, z
<1>6. CASE ~file.terminated
  BY <1>1, <1>2, <1>3, <1>4, <1>6 DEF Size, e, z
<1> QED BY <1>5, <1>6

\* What is to be seen of the message the reader is at.
LEMMA HeadSeen ==
  ASSUME Written, NEW k \in 0..Messages - 1, Before(k)
  PROVE  LET i == k + 1
             t == WrittenBody(file, i)[1]
         IN  /\ i \in 1..Messages /\ pos \in Nat /\ pos + 2 = Starts[i]
             /\ pos + 2 <= Size(buf) => Be16(buf, pos) = WrittenPrefix(file, i)
             /\ pos + 3 <= Size(buf) => Implied(buf, pos) = MsgLen[t]
             /\ (file.damage.kind = "type" /\ file.damage.frame = i) \/ MsgLen[t] = Longs[i]
             /\ MsgLen[t] \in Nat
<1> DEFINE i == k + 1
           t == WrittenBody(file, i)[1]
<1>1. i \in 1..Messages /\ k \in Nat
  BY StartsKnown
<1>2. Starts[i] \in Nat /\ Starts[i] >= 2 /\ Size(buf) \in Nat /\ Size(buf) = Len(buf)
  BY <1>1, StartsKnown, SizeKnown
<1>3. pos = Starts[i] - 2
  BY DEF Before
<1>4. /\ Starts[i] <= Len(buf) => Be16(buf, Starts[i] - 2) = WrittenPrefix(file, i)
      /\ Starts[i] < Len(buf) => Implied(buf, Starts[i] - 2) = MsgLen[t]
      /\ (file.damage.kind = "type" /\ file.damage.frame = i) \/ MsgLen[t] = Len(file.session[i])
      /\ MsgLen[t] \in Nat
  BY <1>1, HeadsRead DEF Written, Messages, Starts
<1>5. Longs[i] = Len(file.session[i])
  BY <1>1 DEF Longs
<1> HIDE DEF i, t
<1> QED BY <1>1, <1>2, <1>3, <1>4, <1>5 DEF i, t

\* Behind the last message there is no body to look at.
LEMMA NothingBehind ==
  ASSUME Written, Before(Messages), HasBody
  PROVE  FALSE
<1>1. /\ Starts[Messages + 1] \in Nat /\ pos = Starts[Messages + 1] - 2 /\ Size(buf) \in Nat
  BY StartsKnown, SizeKnown DEF Before
<1>2. \/ Size(buf) <= Starts[Messages + 1] - 2
      \/ /\ Size(buf) <= Starts[Messages + 1]
         /\ Size(buf) = Starts[Messages + 1] => Be16(buf, Starts[Messages + 1] - 2) = 0
  BY SizeKnown
<1>3. pos + (IF Prefixed THEN 2 ELSE 3) <= Size(buf) /\ BodyLen # 0
  BY DEF HasBody, HeadFits
<1>4. Prefixed /\ Size(buf) = Starts[Messages + 1]
  BY <1>1, <1>2, <1>3
<1>5. BodyLen = 0
  BY <1>1, <1>2, <1>4 DEF BodyLen
<1> QED BY <1>3, <1>5

\* A frame that passes for whole and right is, whatever happened to the file.
LEMMA RightFrame ==
  ASSUME Written, NEW k, Before(k), Frame, Implied(buf, pos) = BodyLen
  PROVE  k + 1 \in 1..Messages /\ BodyLen = Longs[k + 1]
<1>1. k \in 0..Messages - 1
  BY NothingBehind, StartsKnown DEF Before, Frame
<1> DEFINE i == k + 1
           t == WrittenBody(file, i)[1]
<1>2. /\ i \in 1..Messages /\ pos \in Nat /\ pos + 2 = Starts[i]
      /\ pos + 2 <= Size(buf) => Be16(buf, pos) = WrittenPrefix(file, i)
      /\ pos + 3 <= Size(buf) => Implied(buf, pos) = MsgLen[t]
      /\ (file.damage.kind = "type" /\ file.damage.frame = i) \/ MsgLen[t] = Longs[i]
      /\ MsgLen[t] \in Nat
  BY <1>1, HeadSeen
<1>3. Size(buf) \in Nat /\ buf \in Seq(Bytes)
  BY SizeKnown
<1>4. BodyLen \in Nat \ {0} /\ pos + 2 + BodyLen <= Size(buf)
  <2>1. BodyLen \in Nat
    BY <1>2, <1>3, ReadsBytes DEF BodyLen
  <2> QED BY <2>1 DEF Frame, HasBody, BodyFits
<1> HIDE DEF i, t
<1>5. Be16(buf, pos) = WrittenPrefix(file, i) /\ Implied(buf, pos) = MsgLen[t] /\ BodyLen = MsgLen[t]
  BY <1>2, <1>3, <1>4
<1>6. CASE file.damage.kind = "type" /\ file.damage.frame = i
  <2>1. file.form = "LengthPrefixed"
    BY <1>6 DEF Written, IsFile
  <2>2. Prefixed
    BY <1>6, <2>1, FormTaken DEF Prefixed, Written
  <2>3. BodyLen = WrittenPrefix(file, i)
    BY <1>5, <2>2 DEF BodyLen
  <2>4. WrittenPrefix(file, i) = Longs[i]
    BY <1>2, <1>6, <2>1 DEF WrittenPrefix, Longs
  <2> QED BY <1>2, <2>3, <2>4 DEF i
<1> QED BY <1>2, <1>5, <1>6 DEF i

----------------------------------------------------------------------------
(* The census.                                                             *)

Nothing == [unknown |-> 0, mismatch |-> 0]

Counters == [unknown : Nat, mismatch : Nat]

\* What is counted is never forgotten, and a frame that is stepped over counts.
LEMMA SkippingCounts ==
  ASSUME skipped \in Counters, ReadOn \/ Dispatch
  PROVE  /\ skipped' \in Counters
         /\ skipped' = Nothing => skipped = Nothing
         /\ UnknownType \/ LengthMismatch \/ NoLength => skipped' # Nothing
<1> DEFINE more(s) == [s EXCEPT !.mismatch = @ + 1]
           unk(s)  == [s EXCEPT !.unknown = @ + 1]
<1>1. ASSUME NEW s \in Counters
      PROVE  /\ more(s) \in Counters /\ more(s) # Nothing
             /\ unk(s) \in Counters /\ unk(s) # Nothing
  <2>1. more(s) \in Counters /\ more(s).mismatch # 0
    BY DEF Counters
  <2>2. unk(s) \in Counters /\ unk(s).unknown # 0
    BY DEF Counters
  <2>3. Nothing.mismatch = 0 /\ Nothing.unknown = 0
    BY DEF Nothing
  <2> HIDE DEF more, unk
  <2> QED BY <2>1, <2>2, <2>3
<1>2. PrefixCounted = skipped \/ PrefixCounted = more(skipped)
  BY DEF PrefixCounted
<1>3. PrefixCounted \in Counters /\ (PrefixCounted = Nothing => skipped = Nothing)
  <2> HIDE DEF more, unk
  <2> QED BY <1>1, <1>2
<1> HIDE DEF more, unk
<1>4. ASSUME UnknownType PROVE skipped' \in Counters /\ skipped' # Nothing
  <2>1. skipped' = unk(skipped)
    BY <1>4 DEF UnknownType, unk
  <2> QED BY <1>1, <2>1
<1>5. ASSUME LengthMismatch PROVE skipped' \in Counters /\ skipped' # Nothing
  <2>1. skipped' = more(skipped)
    BY <1>5 DEF LengthMismatch, more
  <2> QED BY <1>1, <2>1
<1>6. ASSUME NoLength PROVE skipped' \in Counters /\ skipped' # Nothing
  <2>1. skipped' = unk(PrefixCounted)
    BY <1>6 DEF NoLength, unk
  <2> QED BY <1>1, <1>3, <2>1
<1>7. ASSUME EndsAtBoundary \/ EndsInHead \/ ZeroPrefix PROVE skipped' = skipped
  BY <1>7 DEF EndsAtBoundary, EndsInHead, ZeroPrefix
<1>8. ASSUME EndsInBody \/ Dispatch PROVE skipped' = PrefixCounted
  BY <1>8 DEF EndsInBody, Dispatch
<1> QED BY <1>3, <1>4, <1>5, <1>6, <1>7, <1>8 DEF ReadOn

----------------------------------------------------------------------------
(* Whatever happened to the file: as long as nothing was skipped, what was *)
(* handed over is the messages that were written, from the first one on.   *)

Taken(k) == k \in 0..Messages /\ dispatched = [i \in 1..k |-> Starts[i]]

InOrder ==
  skipped = Nothing /\ end # "Truncated" =>
    \E k \in 0..Messages :
      Taken(k) /\ pos = Starts[k + 1] - (IF end = "ZeroLengthPrefix" THEN 0 ELSE 2)

LEMMA WrittenStays ==
  ASSUME Written, UNCHANGED inputVars
  PROVE  Written' /\ Messages' = Messages /\ Starts' = Starts /\ Longs' = Longs /\ Size(buf)' = Size(buf)
BY DEF Written, inputVars, Messages, Starts, Longs

LEMMA InOrderStays ==
  ASSUME Written, InOrder, skipped \in Counters, end = "running", ReadOn \/ Dispatch,
         UNCHANGED inputVars
  PROVE  InOrder'
<1>1. Messages' = Messages /\ Starts' = Starts /\ Messages \in Nat
  BY WrittenStays, StartsKnown
<1> SUFFICES ASSUME skipped' = Nothing, end' # "Truncated"
             PROVE  \E k \in 0..Messages :
                      /\ dispatched' = [i \in 1..k |-> Starts[i]]
                      /\ pos' = Starts[k + 1] - (IF end' = "ZeroLengthPrefix" THEN 0 ELSE 2)
  BY <1>1 DEF InOrder, Taken
<1>2. PICK k \in 0..Messages : dispatched = [i \in 1..k |-> Starts[i]] /\ pos = Starts[k + 1] - 2
  BY SkippingCounts DEF InOrder, Taken
<1>3. Starts[k + 1] \in Nat /\ k \in Nat
  <2>1. k + 1 \in 1..Messages + 1
    BY <1>1
  <2> QED BY <2>1, StartsKnown
<1>4. CASE EndsAtBoundary
  BY <1>2, <1>4 DEF EndsAtBoundary, Ends
<1>5. CASE ZeroPrefix
  <2>1. pos' = Starts[k + 1] /\ end' = "ZeroLengthPrefix" /\ dispatched' = dispatched
    BY <1>2, <1>3, <1>5 DEF ZeroPrefix, Ends
  <2> QED BY <1>2, <1>3, <2>1
<1>6. CASE EndsInHead \/ EndsInBody
  BY <1>6 DEF EndsInHead, EndsInBody, Ends
<1>7. CASE UnknownType \/ LengthMismatch \/ NoLength
  BY <1>7, SkippingCounts
<1>8. CASE Dispatch
  <2>1. /\ Frame /\ Implied(buf, pos) = BodyLen /\ end' = end
        /\ dispatched' = Append(dispatched, pos + 2) /\ pos' = pos + (2 + BodyLen)
    BY <1>8 DEF Dispatch, GoesOn
  <2>2. k + 1 \in 1..Messages /\ BodyLen = Longs[k + 1]
    BY <1>2, <2>1, RightFrame DEF Before
  <2>3. /\ Starts[(k + 1) + 1] = Starts[k + 1] + Longs[k + 1] + 2 /\ Longs[k + 1] \in Nat
        /\ k + 1 \in 0..Messages
    BY <1>1, <2>2, StartsKnown
  <2>4. pos' = Starts[(k + 1) + 1] - 2
    <3>1. \A s, l \in Nat : (s - 2) + (2 + l) = (s + l + 2) - 2
      OBVIOUS
    <3>2. pos' = (Starts[k + 1] - 2) + (2 + Longs[k + 1])
      BY <1>2, <2>1, <2>2
    <3>3. (Starts[k + 1] - 2) + (2 + Longs[k + 1]) = (Starts[k + 1] + Longs[k + 1] + 2) - 2
      BY <1>3, <2>3, <3>1
    <3> QED BY <2>3, <3>2, <3>3
  <2>5. dispatched' = [i \in 1..k + 1 |-> Starts[i]]
    <3>1. pos + 2 = Starts[k + 1]
      BY <1>2, <1>3
    <3> DEFINE d == [i \in 1..k |-> Starts[i]]
    <3>2. d \in Seq(Nat) /\ Len(d) = k
      <4>1. \A i \in 1..k : Starts[i] \in Nat
        BY <1>1, StartsKnown
      <4> QED BY <1>3, <4>1
    <3>3. Append(d, Starts[k + 1]) = [i \in 1..k + 1 |-> Starts[i]]
      <4> DEFINE x == Starts[k + 1]
                 y == [i \in 1..k + 1 |-> Starts[i]]
      <4>1. Append(d, x) \in [1..k + 1 -> Nat]
        <5>1. x \in Nat
          BY <1>3
        <5> HIDE DEF d, x
        <5>2. Append(d, x) \in Seq(Nat) /\ Len(Append(d, x)) = k + 1
          BY <1>3, <3>2, <5>1
        <5> DEFINE z == Append(d, x)
        <5>3. z \in Seq(Nat) /\ Len(z) = k + 1
          BY <5>2
        <5> HIDE DEF z
        <5>4. z \in [1..k + 1 -> Nat]
          BY <5>3
        <5> QED BY <5>4 DEF z
      <4>2. \A i \in 1..k + 1 : Append(d, x)[i] = Starts[i]
        <5> TAKE i \in 1..k + 1
        <5>1. CASE i = k + 1
          <6> HIDE DEF d
          <6> QED BY <1>3, <3>2, <5>1
        <5>2. CASE i # k + 1
          <6>1. i \in 1..k /\ d[i] = Starts[i]
            BY <1>3, <5>2
          <6> HIDE DEF d, x
          <6> QED BY <3>2, <6>1
        <5> QED BY <5>1, <5>2
      <4> HIDE DEF d, x
      <4> QED BY <4>1, <4>2
    <3> QED BY <1>2, <2>1, <3>1, <3>3
  <2> QED BY <2>1, <2>3, <2>4, <2>5
<1> QED BY <1>4, <1>5, <1>6, <1>7, <1>8 DEF ReadOn
\* A reader that has eaten a file that was not cut short has seen every message.
LEMMA SeenAll ==
  ASSUME Written, NEW k \in 0..Messages, Size(buf) >= Starts[Messages + 1] - 2, pos = Size(buf),
         pos <= Starts[k + 1]
  PROVE  k = Messages
<1>1. Messages \in Nat /\ k \in Nat /\ Size(buf) \in Nat /\ Starts[Messages + 1] \in Nat
  BY StartsKnown, SizeKnown
<1>2. ASSUME k # Messages PROVE FALSE
  <2>1. k + 1 \in 1..Messages /\ k + 1 < Messages + 1 /\ Messages + 1 \in 1..Messages + 1
    BY <1>1, <1>2
  <2>2. /\ Starts[k + 1] + Longs[k + 1] + 2 <= Starts[Messages + 1]
        /\ Starts[k + 1] \in Nat /\ Longs[k + 1] \in Nat \ {0}
    BY <2>1, StartsKnown
  <2> QED BY <1>1, <2>2
<1> QED BY <1>2

\* A message that is there whole, as the census looks at it.
LEMMA BodySeen ==
  ASSUME Written, NEW i \in 1..Messages, Starts[i] + Longs[i] <= Size(buf),
         file.damage.kind # "type"
  PROVE  BodyAt(Starts[i]) = file.session[i]
<1> DEFINE t == WrittenBody(file, i)[1]
<1>1. /\ Starts[i] \in Nat /\ Longs[i] \in Nat \ {0} /\ Size(buf) \in Nat /\ Size(buf) = Len(buf)
      /\ Longs[i] = Len(file.session[i])
  BY StartsKnown, SizeKnown DEF Longs
<1>2. Starts[i] < Len(buf) /\ Starts[i] + Len(file.session[i]) <= Len(buf)
  BY <1>1
<1>3. /\ Starts[i] < Len(buf) => Byte(buf, Starts[i]) = t
      /\ (file.damage.kind = "type" /\ file.damage.frame = i) \/ MsgLen[t] = Len(file.session[i])
  BY HeadsRead DEF Written, Messages, Starts
<1>4. SubSeq(buf, Starts[i] + 1, Starts[i] + Len(file.session[i])) = WrittenBody(file, i)
  BY <1>2, Zenon DEF Written, Laid, Messages, Starts
<1>5. WrittenBody(file, i) = file.session[i]
  BY DEF WrittenBody
<1> QED BY <1>2, <1>3, <1>4, <1>5 DEF BodyAt

LEMMA AcceptedSound ==
  ASSUME Written, InOrder, Accepted, end # "running"
  PROVE  dispatched = WrittenAt
<1>1. /\ end # "Truncated" /\ skipped = Nothing /\ Size(buf) - pos = 0
      /\ dispatched # <<>> /\ BodyAt(dispatched[Len(dispatched)]) = EndOfMessages
  BY DEF Accepted, Clean, EndsOnC, Trailing, Nothing
<1>2. PICK k \in 0..Messages :
        /\ dispatched = [i \in 1..k |-> Starts[i]]
        /\ pos = Starts[k + 1] - (IF end = "ZeroLengthPrefix" THEN 0 ELSE 2)
  BY <1>1 DEF InOrder, Taken
<1>3. Messages \in Nat /\ k \in Nat /\ Starts[k + 1] \in Nat /\ Size(buf) \in Nat
  <2>1. k \in Nat /\ k + 1 \in 1..Messages + 1
    BY StartsKnown
  <2> QED BY <2>1, StartsKnown, SizeKnown
<1>4. pos \in Int /\ pos = Size(buf) /\ pos <= Starts[k + 1] /\ Starts[k + 1] - 2 <= pos
  <2>1. pos \in Int /\ pos <= Starts[k + 1] /\ Starts[k + 1] - 2 <= pos
    BY <1>2, <1>3
  <2> QED BY <1>1, <1>3, <2>1
<1>5. k = Messages
  <2>1. CASE file.damage.kind # "cut"
    <3>1. Size(buf) >= Starts[Messages + 1] - 2
      BY <2>1, SizeKnown, StartsKnown
    <3> QED BY <1>4, <3>1, SeenAll
  <2>2. CASE file.damage.kind = "cut"
    <3>1. k # 0
      BY <1>1, <1>2
    <3>2. k \in 1..Messages
      BY <1>3, <3>1
    <3>3. Len(dispatched) = k /\ dispatched[k] = Starts[k]
      BY <1>2, <1>3, <3>2
    <3>4. Starts[k] + Longs[k] <= Size(buf)
      <4>1. Starts[k + 1] = Starts[k] + Longs[k] + 2 /\ Starts[k] \in Nat /\ Longs[k] \in Nat
        BY <3>2, StartsKnown
      <4> QED BY <1>3, <1>4, <4>1
    <3>5. file.session[k] = EndOfMessages
      BY <1>1, <2>2, <3>2, <3>3, <3>4, BodySeen
    <3>6. IsSession(file.session)
      BY Zenon DEF Written, IsFile
    <3> QED BY <3>2, <3>5, <3>6 DEF IsSession, Messages
  <2> QED BY <2>1, <2>2
<1> QED BY <1>2, <1>5 DEF WrittenAt, Messages, Starts

----------------------------------------------------------------------------
(* A file nothing happened to is read to its end, with nothing skipped.    *)

Unhurt ==
  file.damage.kind = "none" =>
    skipped = Nothing /\ end # "Truncated" /\ (end # "running" => pos = Size(buf))

LEMMA UnhurtAt ==
  ASSUME Written, file.damage.kind = "none", NEW k \in 0..Messages - 1, Before(k)
  PROVE  /\ pos # Size(buf) /\ HeadFits /\ BodyFits
         /\ BodyLen = Longs[k + 1] /\ Implied(buf, pos) = Longs[k + 1] /\ Longs[k + 1] # 0
         /\ Be16(buf, pos) = IF Prefixed THEN Longs[k + 1] ELSE 0
<1> DEFINE i == k + 1
           t == WrittenBody(file, i)[1]
<1>1. /\ i \in 1..Messages /\ pos \in Nat /\ pos + 2 = Starts[i]
      /\ pos + 2 <= Size(buf) => Be16(buf, pos) = WrittenPrefix(file, i)
      /\ pos + 3 <= Size(buf) => Implied(buf, pos) = MsgLen[t]
      /\ MsgLen[t] = Longs[i]
  BY HeadSeen
<1>2. Prefixed <=> file.form = "LengthPrefixed"
  BY FormTaken DEF Prefixed, Written
<1>3. WrittenPrefix(file, i) = IF Prefixed THEN Longs[i] ELSE 0
  BY <1>1, <1>2 DEF WrittenPrefix, Longs
<1>4. /\ Starts[i] \in Nat /\ Longs[i] \in Nat \ {0} /\ Starts[Messages + 1] \in Nat
      /\ Starts[i] + Longs[i] + 2 <= Starts[Messages + 1]
      /\ Size(buf) \in Nat /\ Size(buf) >= Starts[Messages + 1] - 2
  <2>1. i < Messages + 1 /\ Messages + 1 \in 1..Messages + 1
    BY SMTT(30), <1>1, StartsKnown
  <2>2. Starts[i] + Longs[i] + 2 <= Starts[Messages + 1]
    BY <1>1, <2>1, StartsKnown
  <2> HIDE DEF i
  <2> QED BY <1>1, <2>2, StartsKnown, SizeKnown
<1> HIDE DEF i, t
<1>5. pos + 3 <= Size(buf) /\ pos + 2 <= Size(buf) /\ pos + 2 + Longs[i] <= Size(buf)
  BY <1>1, <1>4
<1>6. BodyLen = Longs[i] /\ Implied(buf, pos) = Longs[i] /\ Be16(buf, pos) = IF Prefixed THEN Longs[i] ELSE 0
  BY <1>1, <1>3, <1>5 DEF BodyLen
<1>7. HeadFits
  BY <1>5 DEF HeadFits
<1>8. BodyFits
  BY <1>5, <1>6 DEF BodyFits
<1> QED BY <1>1, <1>4, <1>5, <1>6, <1>7, <1>8 DEF i

LEMMA UnhurtBehind ==
  ASSUME Written, file.damage.kind = "none", Before(Messages)
  PROVE  \/ pos = Size(buf)
         \/ pos + 2 = Size(buf) /\ Prefixed /\ Be16(buf, pos) = 0 /\ pos \in Nat
<1>1. Prefixed <=> file.form = "LengthPrefixed"
  BY FormTaken DEF Prefixed, Written
<1>2. file.terminated => file.form = "LengthPrefixed"
  BY Zenon DEF Written, IsFile
<1>3. /\ pos = Starts[Messages + 1] - 2 /\ Starts[Messages + 1] \in Nat /\ Starts[Messages + 1] >= 2
      /\ Size(buf) \in Nat
  BY StartsKnown, SizeKnown DEF Before
<1>4. \/ Size(buf) = Starts[Messages + 1] - 2 /\ ~file.terminated
      \/ Size(buf) = Starts[Messages + 1] /\ file.terminated
  BY SizeKnown
<1>5. Size(buf) = Starts[Messages + 1] => Be16(buf, Starts[Messages + 1] - 2) = 0
  <2>1. \/ Size(buf) <= Starts[Messages + 1] - 2
        \/ Size(buf) = Starts[Messages + 1] => Be16(buf, Starts[Messages + 1] - 2) = 0
    BY SizeKnown
  <2> QED BY <1>3, <2>1
<1> QED BY <1>1, <1>2, <1>3, <1>4, <1>5

LEMMA UnhurtStays ==
  ASSUME Written, InOrder, Unhurt, end = "running", ReadOn \/ Dispatch, UNCHANGED inputVars
  PROVE  Unhurt'
<1>1. Size(buf)' = Size(buf) /\ file' = file /\ Size(buf) \in Nat /\ Messages \in Nat
  BY WrittenStays, SizeKnown, StartsKnown DEF inputVars
<1> SUFFICES ASSUME file.damage.kind = "none"
             PROVE  /\ skipped' = Nothing /\ end' # "Truncated"
                    /\ end' # "running" => pos' = Size(buf)
  BY <1>1 DEF Unhurt
<1>2. skipped = Nothing
  BY DEF Unhurt
<1>3. PICK k \in 0..Messages : pos = Starts[k + 1] - 2
  BY <1>2 DEF InOrder
<1>4. Before(k)
  BY <1>3 DEF Before
<1>5. CASE k = Messages
  <2>1. ~HasBody /\ ~Frame
    BY <1>4, <1>5, NothingBehind DEF Frame
  <2>2. ~EndsInBody /\ ~UnknownType /\ ~LengthMismatch /\ ~Dispatch
    BY <2>1 DEF EndsInBody, UnknownType, LengthMismatch, Dispatch
  <2>3. \/ pos = Size(buf)
        \/ pos + 2 = Size(buf) /\ Prefixed /\ Be16(buf, pos) = 0 /\ pos \in Nat
    BY <1>4, <1>5, UnhurtBehind
  <2>4. CASE pos = Size(buf)
    <3>1. ~HeadFits
      BY <1>1, <2>4 DEF HeadFits
    <3>2. EndsAtBoundary
      BY <2>2, <2>4, <3>1 DEF ReadOn, EndsInHead, ZeroPrefix, NoLength
    <3> QED BY <1>2, <2>4, <3>2 DEF EndsAtBoundary, Ends
  <2>5. CASE pos + 2 = Size(buf) /\ Prefixed /\ pos \in Nat
    <3>1. HeadFits /\ pos # Size(buf)
      BY <1>1, <2>5 DEF HeadFits
    <3>2. ZeroPrefix
      BY <2>2, <2>5, <3>1 DEF ReadOn, EndsAtBoundary, EndsInHead, NoLength
    <3> QED BY <1>2, <2>5, <3>2 DEF ZeroPrefix, Ends
  <2> QED BY <2>3, <2>4, <2>5
<1>6. CASE k # Messages
  <2>1. k \in 0..Messages - 1
    BY <1>1, <1>6
  <2>2. /\ pos # Size(buf) /\ HeadFits /\ BodyFits
        /\ BodyLen = Longs[k + 1] /\ Implied(buf, pos) = Longs[k + 1] /\ Longs[k + 1] # 0
        /\ Be16(buf, pos) = IF Prefixed THEN Longs[k + 1] ELSE 0
    BY <1>4, <2>1, UnhurtAt
  <2>3. Dispatch
    BY <2>2 DEF ReadOn, EndsAtBoundary, EndsInHead, ZeroPrefix, NoLength, EndsInBody,
               UnknownType, LengthMismatch
  <2>4. PrefixCounted = skipped
    BY <2>2 DEF PrefixCounted
  <2> QED BY <1>2, <2>3, <2>4 DEF Dispatch, GoesOn
<1> QED BY <1>5, <1>6

LEMMA UnhurtAccepted ==
  ASSUME Written, InOrder, Unhurt, end # "running", file.damage.kind = "none"
  PROVE  Accepted
<1>1. skipped = Nothing /\ end # "Truncated" /\ pos = Size(buf)
  BY DEF Unhurt
<1>2. PICK k \in 0..Messages :
        /\ dispatched = [i \in 1..k |-> Starts[i]]
        /\ pos = Starts[k + 1] - (IF end = "ZeroLengthPrefix" THEN 0 ELSE 2)
  BY <1>1 DEF InOrder, Taken
<1>3. /\ Messages \in Nat \ {0} /\ k \in Nat /\ Starts[k + 1] \in Nat /\ Size(buf) \in Nat
      /\ Starts[Messages + 1] \in Nat
  <2>1. k \in Nat /\ k + 1 \in 1..Messages + 1
    BY StartsKnown
  <2> QED BY <2>1, StartsKnown, SizeKnown
<1>4. Size(buf) >= Starts[Messages + 1] - 2
  BY <1>3, SizeKnown
<1>5. k = Messages
  <2>1. pos <= Starts[k + 1]
    BY <1>2, <1>3
  <2> QED BY <1>1, <1>4, <2>1, SeenAll
<1>6. dispatched # <<>> /\ Len(dispatched) = Messages /\ dispatched[Messages] = Starts[Messages]
  BY <1>2, <1>3, <1>5
<1>7. /\ Messages \in 1..Messages
      /\ Starts[Messages + 1] = Starts[Messages] + Longs[Messages] + 2
      /\ Starts[Messages] \in Nat /\ Longs[Messages] \in Nat
  <2>1. Messages \in 1..Messages
    BY <1>3
  <2> QED BY <2>1, StartsKnown
<1>8. BodyAt(Starts[Messages]) = file.session[Messages]
  <2>1. Starts[Messages] + Longs[Messages] <= Size(buf)
    BY <1>3, <1>4, <1>7
  <2> QED BY <1>7, <2>1, BodySeen
<1>9. file.session[Messages] = EndOfMessages
  <2>1. IsSession(file.session)
    BY Zenon DEF Written, IsFile
  <2> QED BY <1>7, <2>1 DEF IsSession, Messages
<1>10. Size(buf) - pos = 0
  BY <1>1, <1>3
<1> QED BY <1>1, <1>6, <1>8, <1>9, <1>10 DEF Accepted, Clean, EndsOnC, Trailing, Nothing

----------------------------------------------------------------------------
(* A bad frame is stepped over, and nothing else is.                       *)

\* The good frames among the first k have been handed over, in order.
Handed(k) ==
  /\ dispatched \in Seq(Nat)
  /\ \A x, y \in DOMAIN dispatched : x < y => dispatched[x] < dispatched[y]
  /\ Range(dispatched) = {Starts[i] : i \in {x \in 1..k : GoodFrame(x)}}

\* A file whose prefixes can be trusted.
Trusty == file.form = "LengthPrefixed" /\ file.damage.kind # "prefix"

Skips ==
  Trusty =>
    \E k \in 0..Messages :
      /\ Handed(k)
      /\ end = "running" => pos = Starts[k + 1] - 2
      /\ end # "running" => k = Messages \/ Starts[k + 1] + Longs[k + 1] > Size(buf)

LEMMA GoodMeans ==
  ASSUME Written, NEW i \in 1..Messages
  PROVE  GoodFrame(i) <=> /\ MsgLen[WrittenBody(file, i)[1]] = Longs[i]
                          /\ Starts[i] + Longs[i] <= Size(buf)
<1>1. WrittenAt[i] = Starts[i] /\ Longs[i] = Len(file.session[i])
  BY DEF WrittenAt, Starts, Longs, Messages
<1> QED BY <1>1 DEF GoodFrame

LEMMA TrustyAt ==
  ASSUME Written, Trusty, NEW k \in 0..Messages - 1, Before(k)
  PROVE  LET i == k + 1
         IN  /\ i \in 1..Messages /\ pos + 2 = Starts[i] /\ Prefixed
             /\ Longs[i] \in Nat \ {0} /\ pos \in Nat /\ Starts[i] \in Nat
             /\ HeadFits <=> Starts[i] <= Size(buf)
             /\ HeadFits => Be16(buf, pos) = Longs[i] /\ BodyLen = Longs[i] /\ HasBody
             /\ HeadFits => (BodyFits <=> Starts[i] + Longs[i] <= Size(buf))
             /\ Frame => Implied(buf, pos) = MsgLen[WrittenBody(file, i)[1]]
<1> DEFINE i == k + 1
           t == WrittenBody(file, i)[1]
<1>1. /\ i \in 1..Messages /\ pos \in Nat /\ pos + 2 = Starts[i]
      /\ pos + 2 <= Size(buf) => Be16(buf, pos) = WrittenPrefix(file, i)
      /\ pos + 3 <= Size(buf) => Implied(buf, pos) = MsgLen[t]
  BY HeadSeen
<1>2. Prefixed
  BY FormTaken DEF Prefixed, Written, Trusty
<1>3. WrittenPrefix(file, i) = Longs[i]
  BY <1>1 DEF WrittenPrefix, Longs, Trusty
<1> HIDE DEF i, t
<1>4. Starts[i] \in Nat /\ Longs[i] \in Nat \ {0} /\ Size(buf) \in Nat
  BY <1>1, StartsKnown, SizeKnown
<1>5. HeadFits <=> Starts[i] <= Size(buf)
  BY <1>1, <1>2, <1>4 DEF HeadFits
<1>6. HeadFits => Be16(buf, pos) = Longs[i] /\ BodyLen = Longs[i] /\ HasBody
  BY <1>1, <1>2, <1>3, <1>4, <1>5 DEF BodyLen, HasBody
<1>7. HeadFits => (BodyFits <=> Starts[i] + Longs[i] <= Size(buf))
  BY <1>1, <1>4, <1>6 DEF BodyFits
<1>8. Frame => Implied(buf, pos) = MsgLen[t]
  <2> SUFFICES ASSUME Frame PROVE Implied(buf, pos) = MsgLen[t]
    OBVIOUS
  <2>1. HeadFits /\ BodyFits
    BY DEF Frame, HasBody
  <2>2. Starts[i] + Longs[i] <= Size(buf)
    BY <1>7, <2>1
  <2>3. pos + 3 <= Size(buf)
    BY <1>1, <1>4, <2>2
  <2> QED BY <1>1, <2>3
<1> QED BY <1>1, <1>2, <1>4, <1>5, <1>6, <1>7, <1>8 DEF i, t

\* One more frame, handed over or stepped over.
LEMMA HandedOn ==
  ASSUME Written, NEW k \in 0..Messages - 1, Handed(k), UNCHANGED inputVars,
         \/ GoodFrame(k + 1) /\ dispatched' = Append(dispatched, Starts[k + 1])
         \/ ~GoodFrame(k + 1) /\ dispatched' = dispatched
  PROVE  Handed(k + 1)'
<1>1. /\ Starts' = Starts /\ \A i : GoodFrame(i)' <=> GoodFrame(i)
      /\ k \in Nat /\ k + 1 \in 1..Messages /\ Starts[k + 1] \in Nat
  <2>1. file' = file /\ buf' = buf
    BY DEF inputVars
  <2>2. Starts' = Starts /\ WrittenAt' = WrittenAt
    BY <2>1 DEF Starts, WrittenAt
  <2>3. ASSUME NEW i PROVE GoodFrame(i)' <=> GoodFrame(i)
    BY <2>1, <2>2 DEF GoodFrame
  <2>4. k \in Nat /\ k + 1 \in 1..Messages
    BY StartsKnown
  <2> QED BY <2>2, <2>3, <2>4, StartsKnown
<1> DEFINE G(m) == {Starts[i] : i \in {x \in 1..m : GoodFrame(x)}}
<1>2. G(k + 1) = IF GoodFrame(k + 1) THEN G(k) \cup {Starts[k + 1]} ELSE G(k)
  <2>1. {x \in 1..k + 1 : GoodFrame(x)}
          = IF GoodFrame(k + 1) THEN {x \in 1..k : GoodFrame(x)} \cup {k + 1}
            ELSE {x \in 1..k : GoodFrame(x)}
    BY <1>1
  <2> QED BY <2>1
<1>3. ASSUME NEW x \in DOMAIN dispatched PROVE dispatched[x] < Starts[k + 1]
  <2>1. dispatched[x] \in G(k)
    BY DEF Handed, Range
  <2>2. PICK i \in 1..k : dispatched[x] = Starts[i]
    BY <2>1
  <2>3. i \in 1..Messages /\ k + 1 \in 1..Messages + 1 /\ i < k + 1
    BY <1>1, <2>2, StartsKnown
  <2>4. Starts[i] + Longs[i] + 2 <= Starts[k + 1] /\ Starts[i] \in Nat /\ Longs[i] \in Nat
    BY <2>3, StartsKnown
  <2> QED BY <1>1, <2>2, <2>4
<1>4. CASE ~GoodFrame(k + 1) /\ dispatched' = dispatched
  <2>1. Range(dispatched') = G(k + 1)
    BY <1>2, <1>4 DEF Handed
  <2> QED BY <1>1, <1>4, <2>1 DEF Handed
<1>5. CASE GoodFrame(k + 1) /\ dispatched' = Append(dispatched, Starts[k + 1])
  <2> DEFINE d == dispatched
             v == Starts[k + 1]
             z == Append(d, v)
  <2>1. d \in Seq(Nat) /\ v \in Nat /\ Len(d) \in Nat /\ DOMAIN d = 1..Len(d)
    BY <1>1 DEF Handed
  <2> HIDE DEF d, v
  <2>2. /\ z \in Seq(Nat) /\ DOMAIN z = 1..Len(d) + 1 /\ z[Len(d) + 1] = v
        /\ \A x \in 1..Len(d) : z[x] = d[x]
    BY <2>1
  <2> HIDE DEF z
  <2>3. \A x \in DOMAIN z : x \in DOMAIN d \/ x = Len(d) + 1
    BY <2>1, <2>2
  <2>4. Range(z) = Range(d) \cup {v}
    <3>1. Len(d) + 1 \in DOMAIN z /\ \A x \in DOMAIN d : x \in DOMAIN z /\ z[x] = d[x]
      BY <2>1, <2>2
    <3> QED BY <2>2, <2>3, <3>1 DEF Range
  <2>5. ASSUME NEW x \in DOMAIN z, NEW y \in DOMAIN z, x < y PROVE z[x] < z[y]
    <3>1. x \in DOMAIN d
      BY <2>1, <2>2, <2>5
    <3>2. CASE y = Len(d) + 1
      BY <1>3, <2>1, <2>2, <3>1, <3>2 DEF d, v
    <3>3. CASE y \in DOMAIN d
      <4>1. d[x] < d[y]
        BY <2>5, <3>1, <3>3 DEF Handed, d
      <4> QED BY <2>1, <2>2, <3>1, <3>3, <4>1
    <3> QED BY <2>3, <3>2, <3>3
  <2>6. dispatched' = z
    BY <1>5 DEF z, d, v
  <2>7. Range(z) = G(k + 1)
    BY <1>2, <1>5, <2>4 DEF Handed, d, v
  <2> HIDE DEF G
  <2>8. Range(dispatched)' = G(k + 1)
    BY <2>6, <2>7
  <2> QED BY <1>1, <2>2, <2>5, <2>6, <2>8 DEF Handed, G
<1> QED BY <1>4, <1>5
LEMMA SkipsStays ==
  ASSUME Written, Skips, end = "running", ReadOn \/ Dispatch, UNCHANGED inputVars
  PROVE  Skips'
<1>1. /\ Size(buf)' = Size(buf) /\ file' = file /\ Size(buf) \in Nat /\ Messages \in Nat
      /\ Messages' = Messages /\ Starts' = Starts /\ Longs' = Longs
  BY WrittenStays, SizeKnown, StartsKnown DEF inputVars
<1> SUFFICES ASSUME Trusty PROVE Skips'
  BY <1>1 DEF Skips, Trusty
<1>2. PICK k \in 0..Messages : Handed(k) /\ pos = Starts[k + 1] - 2
  BY DEF Skips
<1>3. Before(k)
  BY <1>2 DEF Before
\* It is enough to say where the reader is then, and what has been handed over.
<1>4. ASSUME NEW m \in 0..Messages, Handed(m)',
             end' = "running" => pos' = Starts[m + 1] - 2,
             end' # "running" => m = Messages \/ Starts[m + 1] + Longs[m + 1] > Size(buf)
      PROVE  Skips'
  BY <1>1, <1>4 DEF Skips
<1>5. ASSUME dispatched' = dispatched PROVE Handed(k)'
  <2>1. file' = file /\ buf' = buf
    BY DEF inputVars
  <2>2. WrittenAt' = WrittenAt
    BY <2>1 DEF WrittenAt
  <2>3. ASSUME NEW i PROVE GoodFrame(i)' <=> GoodFrame(i)
    BY <2>1, <2>2 DEF GoodFrame
  <2> QED BY <1>1, <1>2, <1>5, <2>3 DEF Handed
<1>6. CASE k = Messages
  <2>1. ~HasBody /\ ~Frame /\ Prefixed
    <3>1. Prefixed
      BY FormTaken DEF Prefixed, Written, Trusty
    <3> QED BY <1>3, <1>6, <3>1, NothingBehind DEF Frame
  <2>2. EndsAtBoundary \/ EndsInHead \/ ZeroPrefix
    BY <2>1 DEF ReadOn, NoLength, EndsInBody, UnknownType, LengthMismatch, Dispatch
  <2>3. dispatched' = dispatched /\ end' # "running"
    BY <2>2 DEF EndsAtBoundary, EndsInHead, ZeroPrefix, Ends
  <2> QED BY <1>4, <1>5, <1>6, <2>3
<1>7. CASE k # Messages
  <2> DEFINE i == k + 1
             t == WrittenBody(file, i)[1]
  <2>1. k \in 0..Messages - 1
    BY <1>1, <1>7
  <2>2. /\ i \in 1..Messages /\ pos + 2 = Starts[i] /\ Prefixed
        /\ Longs[i] \in Nat \ {0} /\ pos \in Nat /\ Starts[i] \in Nat
        /\ HeadFits <=> Starts[i] <= Size(buf)
        /\ HeadFits => Be16(buf, pos) = Longs[i] /\ BodyLen = Longs[i] /\ HasBody
        /\ HeadFits => (BodyFits <=> Starts[i] + Longs[i] <= Size(buf))
        /\ Frame => Implied(buf, pos) = MsgLen[t]
    BY <1>3, <2>1, TrustyAt
  <2>3. GoodFrame(i) <=> MsgLen[t] = Longs[i] /\ Starts[i] + Longs[i] <= Size(buf)
    BY <2>2, GoodMeans
  <2> HIDE DEF t
  <2>4. ASSUME dispatched' = dispatched, end' # "running", Starts[i] + Longs[i] > Size(buf)
        PROVE  Skips'
    BY <1>4, <1>5, <2>4
  <2>5. CASE EndsAtBoundary
    BY <1>1, <2>2, <2>4, <2>5 DEF EndsAtBoundary, Ends
  <2>6. CASE EndsInHead
    BY <1>1, <2>2, <2>4, <2>6 DEF EndsInHead, Ends
  <2>7. CASE ZeroPrefix \/ NoLength
    BY <2>2, <2>7 DEF ZeroPrefix, NoLength
  <2>8. CASE EndsInBody
    <3>1. HeadFits /\ ~BodyFits /\ dispatched' = dispatched /\ end' # "running"
      BY <2>8 DEF EndsInBody, HasBody, Ends
    <3> QED BY <1>1, <2>2, <2>4, <3>1
  <2>9. CASE UnknownType \/ LengthMismatch \/ Dispatch
    <3>1. /\ Frame /\ pos' = pos + (2 + BodyLen) /\ end' = end
          /\ \/ dispatched' = dispatched /\ Implied(buf, pos) # BodyLen
             \/ dispatched' = Append(dispatched, pos + 2) /\ Implied(buf, pos) = BodyLen
      <4>1. CASE UnknownType
        BY <4>1 DEF UnknownType, Rejected, GoesOn, Frame, HasBody
      <4>2. CASE LengthMismatch
        BY <4>2 DEF LengthMismatch, Rejected, GoesOn, Frame, HasBody
      <4>3. CASE Dispatch
        BY <4>3 DEF Dispatch, GoesOn
      <4> QED BY <2>9, <4>1, <4>2, <4>3
    <3>2. BodyLen = Longs[i] /\ Starts[i] + Longs[i] <= Size(buf) /\ Implied(buf, pos) = MsgLen[t]
      BY <2>2, <3>1 DEF Frame, HasBody
    <3>3. GoodFrame(i) <=> Implied(buf, pos) = BodyLen
      BY <2>3, <3>2
    <3>4. Handed(i)'
      BY <1>2, <2>1, <2>2, <3>1, <3>3, HandedOn
    <3>5. pos' = Starts[i + 1] - 2
      <4>1. Starts[i + 1] = Starts[i] + Longs[i] + 2
        BY <2>2, StartsKnown
      <4> QED BY <2>2, <3>1, <3>2, <4>1
    <3>6. i \in 0..Messages
      BY <1>1, <2>1
    <3> QED BY <1>4, <3>1, <3>4, <3>5, <3>6
  <2> QED BY <2>5, <2>6, <2>7, <2>8, <2>9 DEF ReadOn
<1> QED BY <1>6, <1>7

\* What was not reached does not fit.
LEMMA SkippedOnlyBad ==
  ASSUME Written, Skips, Trusty, end # "running"
  PROVE  /\ \A x, y \in DOMAIN dispatched : x < y => dispatched[x] < dispatched[y]
         /\ Range(dispatched) = {WrittenAt[i] : i \in {n \in DOMAIN WrittenAt : GoodFrame(n)}}
<1>1. PICK k \in 0..Messages :
        /\ Handed(k)
        /\ k = Messages \/ Starts[k + 1] + Longs[k + 1] > Size(buf)
  BY DEF Skips
<1>2. DOMAIN WrittenAt = 1..Messages /\ \A i \in 1..Messages : WrittenAt[i] = Starts[i]
  BY DEF WrittenAt, Messages, Starts
<1>3. Messages \in Nat /\ k \in Nat /\ Size(buf) \in Nat
  BY StartsKnown, SizeKnown
<1>4. ASSUME NEW i \in 1..Messages, GoodFrame(i) PROVE i \in 1..k
  <2> SUFFICES ASSUME i \notin 1..k PROVE FALSE
    OBVIOUS
  <2>1. k # Messages /\ k + 1 <= i /\ k + 1 \in 1..Messages /\ i \in 1..Messages + 1
    BY <1>3
  <2>2. Starts[i] + Longs[i] <= Size(buf)
    BY <1>4, GoodMeans
  <2>3. /\ Starts[i] \in Nat /\ Longs[i] \in Nat /\ Starts[k + 1] \in Nat /\ Longs[k + 1] \in Nat
        /\ k + 1 < i => Starts[k + 1] + Longs[k + 1] + 2 <= Starts[i]
    BY <2>1, StartsKnown
  <2>4. Starts[k + 1] + Longs[k + 1] <= Size(buf)
    <3>1. CASE k + 1 = i
      BY <2>2, <3>1
    <3>2. CASE k + 1 < i
      BY <1>3, <2>2, <2>3, <3>2
    <3> QED BY <1>3, <2>1, <3>1, <3>2
  <2> QED BY <1>1, <1>3, <2>1, <2>3, <2>4
<1>5. {n \in DOMAIN WrittenAt : GoodFrame(n)} = {x \in 1..k : GoodFrame(x)}
  BY <1>2, <1>3, <1>4
<1>6. {WrittenAt[i] : i \in {n \in DOMAIN WrittenAt : GoodFrame(n)}}
        = {Starts[i] : i \in {x \in 1..k : GoodFrame(x)}}
  BY <1>2, <1>3, <1>5
<1> QED BY <1>1, <1>6 DEF Handed

FileInv == Written /\ skipped \in Counters /\ InOrder /\ Unhurt /\ Skips

LEMMA FileInvariant == ReplaySpec => []FileInv
<1>1. ASSUME FramingInit PROVE FileInv
  <2>1. /\ file \in Files /\ buf = BytesOf(file) /\ framing = DetectFraming(buf)
        /\ pos = 0 /\ skipped = Nothing /\ dispatched = <<>> /\ end = "running"
    BY <1>1 DEF FramingInit, Nothing
  <2>2. Written
    <3>1. IsFile(file) /\ BytesOf(file) \in Seq(Bytes)
      BY <2>1, FilesAreSound, FileAssumption
    <3> QED BY <2>1, <3>1, FileLaid DEF Written
  <2>3. 0 \in 0..Messages /\ Starts[0 + 1] - 2 = 0 /\ 1..0 = {}
    BY <2>2, StartsKnown
  <2>4. skipped \in Counters
    BY <2>1 DEF Counters, Nothing
  <2>5. InOrder
    <3>1. dispatched = [i \in 1..0 |-> Starts[i]]
      BY <2>1
    <3> QED BY <2>1, <2>3, <3>1 DEF InOrder, Taken
  <2>6. Unhurt
    BY <2>1 DEF Unhurt
  <2>7. Skips
    <3>1. Handed(0)
      <4>1. dispatched \in Seq(Nat) /\ DOMAIN dispatched = {}
        BY <2>1
      <4>2. Range(dispatched) = {} /\ {Starts[i] : i \in {x \in 1..0 : GoodFrame(x)}} = {}
        BY <2>3, <4>1 DEF Range
      <4> QED BY <4>1, <4>2 DEF Handed
    <3> QED BY <2>1, <2>3, <3>1 DEF Skips
  <2> QED BY <2>2, <2>4, <2>5, <2>6, <2>7 DEF FileInv
<1>2. ASSUME FileInv, end = "running", ReadOn \/ Dispatch, UNCHANGED inputVars PROVE FileInv'
  BY <1>2, WrittenStays, SkippingCounts, InOrderStays, UnhurtStays, SkipsStays DEF FileInv
<1>3. ASSUME FileInv, UNCHANGED framingVars PROVE FileInv'
  <2>1. UNCHANGED <<file, buf, framing, pos, skipped, dispatched, end>>
    BY <1>3 DEF framingVars, inputVars
  <2>2. Written' /\ Messages' = Messages /\ Starts' = Starts /\ Longs' = Longs
    BY <1>3, <2>1, WrittenStays DEF FileInv, inputVars
  <2>3. WrittenAt' = WrittenAt
    BY <2>1 DEF WrittenAt
  <2>4. ASSUME NEW i PROVE GoodFrame(i)' <=> GoodFrame(i)
    BY <2>1, <2>3 DEF GoodFrame
  <2>5. \A k : Handed(k)' <=> Handed(k)
    BY <2>1, <2>2, <2>4 DEF Handed
  <2>6. Skips'
    BY <1>3, <2>1, <2>2, <2>5 DEF FileInv, Skips, Trusty
  <2>7. InOrder'
    BY <1>3, <2>1, <2>2 DEF FileInv, InOrder, Taken
  <2>8. Unhurt'
    BY <1>3, <2>1 DEF FileInv, Unhurt
  <2> QED BY <1>3, <2>1, <2>2, <2>6, <2>7, <2>8 DEF FileInv
<1>4. FileInv /\ [ReplayNext]_replayVars => FileInv'
  BY <1>2, <1>3 DEF ReplayNext, Hand, Read, Judge, replayVars
<1> QED BY <1>1, <1>4, PTL DEF ReplaySpec, ReplayInit

\* The census's exit status (census.cpp), for every session, damage and byte
\* that may be in a file: what it accepts is whole, handed over in order, and
\* nothing else; and it accepts every file that nothing happened to.
THEOREM CensusIsRight == ReplaySpec => []CensusKnowsAWholeSession
<1>1. FileInv => CensusKnowsAWholeSession
  <2> SUFFICES ASSUME FileInv, end # "running"
               PROVE  /\ Accepted => dispatched = WrittenAt
                      /\ file.damage.kind = "none" => Accepted
    BY DEF CensusKnowsAWholeSession
  <2> QED BY AcceptedSound, UnhurtAccepted DEF FileInv
<1> QED BY <1>1, FileInvariant, PTL

\* wire.hpp: a malformed frame cannot desynchronise the rest of the session.
\* Where the prefixes can be trusted, the frames that are whole and right are
\* handed over, in order, and no other, whichever byte a type became and
\* wherever the file was cut.
THEOREM SkippingIsExact == ReplaySpec => []SkipsOnlyTheBadFrames
<1>1. FileInv => SkipsOnlyTheBadFrames
  BY SkippedOnlyBad DEF FileInv, SkipsOnlyTheBadFrames, Trusty
<1> QED BY <1>1, FileInvariant, PTL

----------------------------------------------------------------------------
(* A sound session is identical.                                           *)

\* A book shows no difference to itself.
LEMMA NoDifference ==
  ASSUME NEW b, NEW c, c[1] \in {"level", "bbo", "live"}
  PROVE  ~Differs(b, b, c)
BY DEF Differs

LEMMA ChecksTagged ==
  /\ \A b : \A c \in Everything(b) : c[1] \in {"level", "bbo", "live"}
  /\ \A m : \A checks \in ChecksFor(m) : \A c \in checks : c[1] \in {"level", "bbo", "live"}
<1>1. /\ \A k : LevelCheck(k)[1] = "level"
      /\ \A l : BboCheck(l)[1] = "bbo"
      /\ LiveCheck[1] = "live"
  BY DEF LevelCheck, BboCheck, LiveCheck
<1>2. ASSUME NEW b, NEW c \in Everything(b) PROVE c[1] \in {"level", "bbo", "live"}
  <2>1. (\E k : c = LevelCheck(k)) \/ (\E l : c = BboCheck(l)) \/ c = LiveCheck
    BY DEF Everything
  <2> QED BY <1>1, <2>1
<1>3. ASSUME NEW m, NEW checks \in ChecksFor(m), NEW c \in checks
      PROVE  c[1] \in {"level", "bbo", "live"}
  <2>1. checks \in StrayChecks(LocateOf(m))
          => (\E k : c = LevelCheck(k)) \/ (\E k : c = BboCheck(k))
    BY DEF StrayChecks
  <2>2. (\E k : c = LevelCheck(k)) \/ (\E k : c = BboCheck(k))
    BY <2>1 DEF ChecksFor
  <2> QED BY <1>1, <2>2
<1> QED BY <1>2, <1>3

\* Where the fast book made no mistake nothing has been reported.
Quiet == faultAt = 0 => ~div.found /\ fullOk

LEMMA QuietInvariant == ReplaySpec => []Quiet
<1>1. ReplayInit => Quiet
  BY DEF ReplayInit, DiffInit, NoDivergence, Quiet
<1>2. ASSUME ReplayInv, ReplayInv', Quiet, NEW m \in LegalMessages, Compared(m) PROVE Quiet'
  <2> SUFFICES ASSUME faultAt' = 0 PROVE ~div'.found /\ fullOk'
    BY DEF Quiet
  <2>1. faultAt = 0
    BY <1>2 DEF Compared, FastApplies, ReplayInv, HarnessInv
  <2>2. ~div.found /\ fullOk' = fullOk /\ fullOk
    BY <1>2, <2>1 DEF Compared, Quiet
  <2>3. fast' = [resting |-> resting', ahead |-> ahead']
    BY <1>2 DEF ReplayInv, HarnessInv, Book
  <2>4. PICK own \in ChecksFor(m) : CompareAfter(own)
    BY <1>2 DEF Compared
  <2>5. ASSUME NEW checks, \A c \in checks : c[1] \in {"level", "bbo", "live"}
        PROVE  Failing(checks) = {}
    BY <2>3, <2>5, NoDifference DEF Failing
  <2>6. /\ Failing(own) = {}
        /\ Failing(Everything([resting |-> resting', ahead |-> ahead'])) = {}
    BY <2>5, ChecksTagged
  <2>7. Recorded({})
    BY <2>4, <2>6 DEF CompareAfter
  <2> QED BY <2>2, <2>7 DEF Recorded
<1>3. ASSUME ReplayInv, Quiet, Judge PROVE Quiet'
  <2> SUFFICES ASSUME faultAt' = 0 PROVE ~div'.found /\ fullOk'
    BY DEF Quiet
  <2>1. faultAt = 0
    BY <1>3 DEF Judge, CompareEverything
  <2>2. ~div.found /\ fast = Book
    BY <1>3, <2>1 DEF ReplayInv, HarnessInv, Quiet
  <2>3. {c \in Everything(Book) : Differs(Book, fast, c)} = {}
    BY <2>2, NoDifference, ChecksTagged
  <2> QED BY <1>3, <2>2, <2>3 DEF Judge, CompareEverything
<1>4. ASSUME Quiet, UNCHANGED <<faultAt, div, fullOk>> PROVE Quiet'
  BY <1>4 DEF Quiet
<1>5. ReplayInv /\ ReplayInv' /\ Quiet /\ [ReplayNext]_replayVars => Quiet'
  <2>1. ASSUME ReplayInv, ReplayInv', Quiet, Hand PROVE Quiet'
    <3>1. \/ \E m \in LegalMessages : Compared(m)
          \/ UNCHANGED <<faultAt, div, fullOk>>
      BY <2>1 DEF Hand, Ignored, CountedOnly, diffOwnVars
    <3> QED BY <1>2, <1>4, <2>1, <3>1
  <2>2. ASSUME Quiet, Read \/ UNCHANGED replayVars PROVE Quiet'
    BY <1>4, <2>2 DEF Read, diffOwnVars, replayVars
  <2> QED BY <1>3, <2>1, <2>2 DEF ReplayNext
<1> QED BY <1>1, <1>5, ReplayInvariant, PTL DEF ReplaySpec

\* The replay tool's verdict: a file that nothing happened to, of a session the
\* fast book got right, is "identical", whichever form it is written in; and
\* "identical" is true of every level of every symbol, provided the comparison
\* reaches every locate.
THEOREM IdenticalIsExact ==
  ASSUME IsFiniteSet(Refs), Unseen = {}
  PROVE  ReplaySpec => []IdenticalMeansIdentical
<1>1. ReplayInv /\ FileInv /\ Quiet => SoundIsIdentical
  <2> SUFFICES ASSUME ReplayInv, FileInv, Quiet, judged, faultAt = 0, file.damage.kind = "none"
               PROVE  Identical
    BY DEF SoundIsIdentical
  <2>1. end # "running" /\ ~div.found /\ fullOk
    BY DEF ReplayInv, Quiet
  <2>2. Accepted
    BY <2>1, UnhurtAccepted DEF FileInv
  <2> QED BY <2>1, <2>2 DEF Accepted, Clean, Identical
<1>2. ReplaySpec => []IdenticalIsIdentical
  BY IdenticalIsTrue
<1>3. SoundIsIdentical /\ IdenticalIsIdentical => IdenticalMeansIdentical
  BY DEF IdenticalMeansIdentical
<1> QED BY <1>1, <1>2, <1>3, ReplayInvariant, FileInvariant, QuietInvariant, PTL
=============================================================================
