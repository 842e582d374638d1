----------------------- MODULE StreamReceive_proofs -----------------------
(***************************************************************************)
(* Type correctness of the receiving end; that the decoder stays in step   *)
(* with what was written; that a block is in place whole or not at all;    *)
(* and that frames and streams are delivered as FrameLink says.            *)
(***************************************************************************)
EXTENDS StreamReceive, TLAPS

-----------------------------------------------------------------------------
(* The wire, and arithmetic *)

\* What Min is of two numbers.
LEMMA MinOfTwo ==
    ASSUME NEW a \in Int, NEW b \in Int
    PROVE  Min({a, b}) = IF a <= b THEN a ELSE b
BY DEF Min

\* An item begins, has its frame, its body, and then the next one begins.
LEMMA Layout ==
    ASSUME NEW i \in Item
    PROVE  /\ i \in 1..(Count + 1) /\ i + 1 \in 1..(Count + 1)
           /\ Start[i] \in Nat /\ Start[i + 1] \in Nat
           /\ FrameEnd(i) \in Nat /\ Body[i] \in Nat
           /\ Start[i] < FrameEnd(i)
           /\ Start[i + 1] = FrameEnd(i) + Body[i]
           /\ i \in Block => Body[i] > 0
           /\ i \notin Block => Body[i] = 0
           /\ Kind[i] = "hello" <=> i = 1
<1>1. Count \in Nat \ {0} /\ i \in 1..(Count + 1) /\ i + 1 \in 1..(Count + 1)
  BY WireAssumption DEF Item
<1>2. Size[i] \in Nat \ {0} /\ Body[i] \in Nat /\ LengthLen \in Nat \ {0}
  BY WireAssumption DEF Item
<1>3. Start[i] \in Nat /\ Start[i + 1] \in Nat
  BY <1>1, WireAssumption
<1>4. Start[i + 1] = Start[i] + LengthLen + Size[i] + Body[i]
  BY WireAssumption
<1>5. (i \in Block => Body[i] > 0) /\ (i \notin Block => Body[i] = 0)
  <2>1. Body[i] > 0 <=> Kind[i] = "block"
    BY WireAssumption
  <2>. QED BY <1>2, <2>1 DEF Block
<1>6. Kind[i] = "hello" <=> i = 1
  <2>1. i # 1 => Kind[i] # "hello"
    BY WireAssumption
  <2>. QED BY <2>1, WireAssumption
<1>. QED BY <1>1, <1>2, <1>3, <1>4, <1>5, <1>6 DEF FrameEnd

\* Where an item begins says which one it is.
LEMMA StartsApart ==
    ASSUME NEW i \in 1..(Count + 1), NEW j \in 1..(Count + 1)
    PROVE  /\ Start[i] = Start[j] => i = j
           /\ Start[i] <= Start[j] => i <= j
           /\ i < j => Start[i] < Start[j]
<1>1. Start[i] \in Nat /\ Start[j] \in Nat /\ i \in Int /\ j \in Int
  BY WireAssumption
<1>2. i < j => Start[i] < Start[j]
  BY WireAssumption
<1>3. j < i => Start[j] < Start[i]
  BY WireAssumption
<1>. QED BY <1>1, <1>2, <1>3

\* At the start of an item the decoder is at the item it takes next.
LEMMA HeadItem ==
    ASSUME AtStart
    PROVE  Next1 \in Item /\ from = Start[Next1]
BY DEF AtStart, Next1

\* Where the items of a sequence are when one is appended.
LEMMA Appended ==
    ASSUME NEW s \in Seq(Item), NEW x \in Item
    PROVE  /\ Append(s, x) \in Seq(Item)
           /\ Len(Append(s, x)) = Len(s) + 1
           /\ \A k \in 1..Len(s) : Append(s, x)[k] = s[k]
           /\ Append(s, x)[Len(s) + 1] = x
OBVIOUS

\* Sequences of items that are put one behind the other.
LEMMA Joined ==
    ASSUME NEW s \in Seq(Item), NEW t \in Seq(Item), NEW x \in Item
    PROVE  /\ s \o t \in Seq(Item)
           /\ s \o Append(t, x) = Append(s \o t, x)
           /\ s \o << >> = s
           /\ << >> \o s = s
OBVIOUS

-----------------------------------------------------------------------------
(* The position of the decoder *)

WireTypes ==
    /\ sent \in Nat /\ flown \in 0..sent
    /\ reader \in {"hello", "greeted", "nobody", "session"}
    /\ at \in {"idle", "feed", "parse"}
    /\ from \in 0..flown /\ total \in Nat /\ received \in Nat
    /\ early \in Seq(Item) /\ handled \in Seq(Item)
    /\ incoming \in Block \cup {None}
    /\ counted \in [Block -> Nat]
    /\ \A i \in Block : counted[i] <= Body[i]
    /\ timer \in BOOLEAN /\ closed \in BOOLEAN /\ lost \in BOOLEAN

\* Where the decoder is while a body comes, and what is counted of it.
Reading ==
    /\ at = "feed" => Streaming /\ from < flown
    /\ at = "parse" /\ Streaming => from = flown
    /\ Streaming => /\ incoming \in Block /\ total = Body[incoming]
                    /\ from = FrameEnd(incoming) + received
                    /\ counted[incoming] <= received
    /\ incoming # None => counted[incoming] < Body[incoming]
    /\ \A i \in Block : from <= Start[i] => counted[i] = 0

\* Which decoder has read how far.
Handover ==
    /\ reader # "session" => \A i \in Block : flown <= Start[i]
    /\ reader = "session" => early = << >>
    /\ reader = "hello" => from = 0 /\ early = << >> /\ handled = << >>
    /\ reader # "hello" => from > 0
    /\ reader \in {"hello", "greeted"} => ~ lost
    /\ reader = "nobody" /\ ~ lost => from = flown

\* What was taken lies behind the decoder, in the order of the wire.
Ordered ==
    /\ \A k \in 1..Len(Taken) : Start[Taken[k] + 1] <= from
    /\ Streaming => \A k \in 1..Len(Taken) : Taken[k] < incoming
    /\ \A k, l \in 1..Len(Taken) : k < l => Taken[k] < Taken[l]
    /\ \A k \in 1..Len(Taken) : k <= Taken[k]

\* Nothing is missing in between, and the decoder is where the next item is.
Unbroken ==
    ~ lost => /\ Len(Taken) <= Count
              /\ \A k \in 1..Len(Taken) : Taken[k] = k
              /\ Streaming => incoming = Len(Taken) + 1
              /\ ~ Streaming => from = Start[Len(Taken) + 1]

Position == WireTypes /\ Reading /\ Handover /\ Ordered /\ Unbroken

\* A body is only read by a session.
LEMMA StreamsInSession ==
    ASSUME Position, Streaming
    PROVE  reader = "session" /\ early = << >> /\ Taken = handled
<1>1. incoming \in Block /\ from = FrameEnd(incoming) + received
  BY DEF Position, Reading
<1>2. incoming \in Item
  BY <1>1 DEF Block
<1>3. Start[incoming] < FrameEnd(incoming) /\ Start[incoming] \in Nat /\ FrameEnd(incoming) \in Nat
  BY <1>2, Layout
<1>4. ~ (flown <= Start[incoming])
  BY <1>1, <1>3 DEF Position, WireTypes
<1>5. reader = "session" /\ early = << >>
  BY <1>1, <1>4 DEF Position, Handover
<1>. QED BY <1>5, Joined DEF Taken, Position, WireTypes

\* No frame is parsed in a body.
LEMMA FramesOutside ==
    ASSUME Position, at = "parse", WholeFrame
    PROVE  /\ ~ Streaming
           /\ Next1 \in Item /\ from = Start[Next1] /\ FrameEnd(Next1) \in 0..flown
           /\ ~ lost => Next1 = Len(Taken) + 1
<1>1. Next1 \in Item /\ from = Start[Next1]
  BY HeadItem DEF WholeFrame
<1>2. FrameEnd(Next1) \in Nat /\ from < FrameEnd(Next1) /\ FrameEnd(Next1) <= flown
  BY <1>1, Layout DEF WholeFrame
<1>3. ~ Streaming
  BY <1>2 DEF Position, Reading, WireTypes
<1>4. ASSUME ~ lost PROVE Next1 = Len(Taken) + 1
  <2>1. Len(Taken) + 1 \in 1..(Count + 1) /\ from = Start[Len(Taken) + 1]
    BY <1>3, <1>4, Joined, WireAssumption DEF Position, Unbroken, WireTypes, Taken
  <2>2. Next1 \in 1..(Count + 1)
    BY <1>1, Layout
  <2>. QED BY <1>1, <2>1, <2>2, StartsApart
<1>. QED BY <1>1, <1>2, <1>3, <1>4 DEF Position, WireTypes

\* Nothing has been read to begin with.
LEMMA PositionInit == Init => Position
<1> SUFFICES ASSUME Init PROVE Position
  OBVIOUS
<1> USE DEF Init
<1>1. WireTypes
  <2>1. sent \in Nat
    BY WireAssumption, ReceiveAssumption
  <2>2. \A i \in Block : 0 <= Body[i]
    BY Layout DEF Block
  <2>3. counted \in [Block -> Nat] /\ \A i \in Block : counted[i] <= Body[i]
    BY <2>2
  <2>4. early \in Seq(Item) /\ handled \in Seq(Item) /\ 0 \in 0..flown /\ flown \in 0..sent
    BY <2>1
  <2>. QED BY <2>1, <2>3, <2>4 DEF WireTypes
<1>2. ~ Streaming /\ Taken = << >>
  BY DEF Streaming, Taken
<1>3. Reading
  BY <1>2 DEF Reading
<1>4. Handover
  <2>1. \A i \in Block : 0 <= Start[i]
    BY Layout DEF Block
  <2>. QED BY <2>1 DEF Handover
<1>5. Ordered
  BY <1>2 DEF Ordered
<1>6. Unbroken
  BY <1>2, WireAssumption DEF Unbroken
<1>. QED BY <1>1, <1>3, <1>4, <1>5, <1>6 DEF Position

\* Drains, and a block stored elsewhere, are beside the wire.
LEMMA PositionBeside ==
    ASSUME Position, UNCHANGED <<wireVars, decodeVars, sessionVars>>
    PROVE  Position'
BY DEF Position, WireTypes, Reading, Handover, Ordered, Unbroken, Streaming, Taken,
       wireVars, decodeVars, sessionVars

\* The connection closes.
LEMMA PositionClosed ==
    ASSUME Position, Lose \/ Throw
    PROVE  Position'
<1>1. /\ UNCHANGED <<sent, flown, reader, lost, from, total, received, early, handled>>
      /\ UNCHANGED <<incoming, counted>>
      /\ at' = "idle" /\ closed' = TRUE /\ timer' = FALSE
  BY DEF Lose, Throw, wireVars, decodeVars
<1>2. Streaming' = Streaming /\ Taken' = Taken
  BY <1>1 DEF Streaming, Taken
<1>3. WireTypes'
  BY <1>1 DEF Position, WireTypes
<1>4. Reading'
  BY <1>1, <1>2 DEF Position, Reading
<1>5. Handover'
  BY <1>1 DEF Position, Handover
<1>6. Ordered' /\ Unbroken'
  BY <1>1, <1>2 DEF Position, Ordered, Unbroken
<1>. QED BY <1>3, <1>4, <1>5, <1>6 DEF Position

\* A chunk that comes is to be read from where the decoder was.
LEMMA PositionChunk ==
    ASSUME Position, Chunk
    PROVE  Position'
<1> USE DEF Position
<1>1. flown' \in 0..sent /\ from < flown' /\ flown < flown'
  BY DEF Chunk, ChunkEnd, WireTypes
<1>2. Streaming' = Streaming /\ Taken' = Taken
  BY DEF Chunk, Streaming, Taken, sessionVars
<1>3. WireTypes'
  BY <1>1 DEF Chunk, WireTypes, sessionVars
<1>4. Reading'
  BY <1>1, <1>2 DEF Chunk, Reading, sessionVars
<1>5. Handover'
  <2>1. reader # "session" => \A i \in Block : flown' <= Start[i]
    BY DEF Chunk, ChunkEnd
  <2>2. reader # "nobody"
    BY DEF Chunk
  <2>. QED BY <2>1, <2>2 DEF Chunk, Handover, sessionVars
<1>6. Ordered' /\ Unbroken'
  BY <1>2 DEF Chunk, Ordered, Unbroken, sessionVars
<1>. QED BY <1>3, <1>4, <1>5, <1>6

\* A chunk that nobody takes moves no decoder.
LEMMA PositionDropped ==
    ASSUME Position, ChunkDropped
    PROVE  Position'
<1> USE DEF Position
<1>1. flown' \in 0..sent /\ from < flown'
  BY DEF ChunkDropped, ChunkEnd, WireTypes
<1>2. ~ Streaming
  BY StreamsInSession DEF ChunkDropped
<1>3. Streaming' = Streaming /\ Taken' = Taken
  BY DEF ChunkDropped, Streaming, Taken, sessionVars, decodeVars
<1>4. WireTypes'
  BY <1>1 DEF ChunkDropped, WireTypes, sessionVars, decodeVars
<1>5. Reading'
  BY <1>1, <1>2, <1>3 DEF ChunkDropped, Reading, sessionVars, decodeVars
<1>6. Handover'
  <2>1. \A i \in Block : flown' <= Start[i]
    BY DEF ChunkDropped, ChunkEnd
  <2>. QED BY <2>1 DEF ChunkDropped, Handover, sessionVars, decodeVars
<1>7. Ordered' /\ Unbroken'
  BY <1>2, <1>3 DEF ChunkDropped, Ordered, Unbroken, sessionVars, decodeVars
<1>. QED BY <1>4, <1>5, <1>6, <1>7

\* The session goes on where the hello has left off.
LEMMA PositionAttach ==
    ASSUME Position, Attach
    PROVE  Position'
<1> USE DEF Position
<1>1. ~ Streaming
  BY StreamsInSession DEF Attach
<1>2. Taken \in Seq(Item)
  BY Joined DEF WireTypes, Taken
<1>3. ~ Streaming' /\ Taken' = Taken
  BY <1>2, Joined DEF Attach, Streaming, Taken
<1>4. WireTypes'
  BY <1>2 DEF Attach, WireTypes
<1>5. \A i \in Block : Start[i] \in Nat
  BY Layout DEF Block
<1>6. Reading'
  BY <1>1, <1>3, <1>5 DEF Attach, Reading, WireTypes
<1>7. Handover'
  BY DEF Attach, Handover, WireTypes
<1>8. Ordered'
  <2>1. \A k \in 1..Len(Taken) : Start[Taken[k] + 1] \in Nat
    BY <1>2, Layout
  <2>. QED BY <1>3, <2>1 DEF Attach, Ordered, WireTypes
<1>9. Unbroken'
  BY <1>1, <1>3 DEF Attach, Unbroken, Handover
<1>. QED BY <1>4, <1>6, <1>7, <1>8, <1>9

\* One more item is taken, and the decoder is behind it.
LEMMA TakesItem ==
    ASSUME Position, NEW x \in Item,
           Taken' = Append(Taken, x), from' \in Nat, from' = Start[x + 1], from <= from',
           \A k \in 1..Len(Taken) : Taken[k] < x,
           ~ Streaming', lost' = lost, ~ lost => x = Len(Taken) + 1
    PROVE  Ordered' /\ Unbroken'
<1>1. Taken \in Seq(Item) /\ Len(Taken) \in Nat
  BY Joined DEF Position, WireTypes, Taken
<1>2. /\ Len(Taken') = Len(Taken) + 1
      /\ \A k \in 1..Len(Taken) : Taken'[k] = Taken[k]
      /\ Taken'[Len(Taken) + 1] = x
  BY <1>1, Appended
<1>3. \A k \in 1..Len(Taken') : k \in 1..Len(Taken) \/ (k = Len(Taken) + 1 /\ Taken'[k] = x)
  BY <1>1, <1>2
<1>4. \A k \in 1..Len(Taken) : Taken[k] \in Item /\ Start[Taken[k] + 1] \in Nat
  BY <1>1, Layout
<1>5. \A k \in 1..Len(Taken') : Start[Taken'[k] + 1] <= from'
  BY <1>2, <1>3, <1>4 DEF Position, Ordered, WireTypes
<1>6. \A k, l \in 1..Len(Taken') : k < l => Taken'[k] < Taken'[l]
  <2> SUFFICES ASSUME NEW k \in 1..Len(Taken'), NEW l \in 1..Len(Taken'), k < l
               PROVE  Taken'[k] < Taken'[l]
    OBVIOUS
  <2>1. k \in 1..Len(Taken)
    BY <1>1, <1>2
  <2>2. CASE l \in 1..Len(Taken)
    BY <1>2, <2>1, <2>2 DEF Position, Ordered
  <2>3. CASE l = Len(Taken) + 1
    BY <1>2, <2>1, <2>3
  <2>. QED BY <1>3, <2>2, <2>3
<1>7. Ordered'
  <2>1. Len(Taken) + 1 <= x
    <3>1. CASE Len(Taken) = 0
      BY <3>1 DEF Item
    <3>2. CASE Len(Taken) # 0
      <4>1. Len(Taken) \in 1..Len(Taken)
        BY <1>1, <3>2
      <4>2. Len(Taken) <= Taken[Len(Taken)] /\ Taken[Len(Taken)] < x
        BY <4>1 DEF Position, Ordered
      <4>. QED BY <1>1, <1>4, <4>1, <4>2 DEF Item
    <3>. QED BY <3>1, <3>2
  <2>2. \A k \in 1..Len(Taken') : k <= Taken'[k]
    BY <1>2, <1>3, <2>1 DEF Position, Ordered
  <2>. QED BY <1>5, <1>6, <2>2 DEF Ordered
<1>8. Unbroken'
  <2> SUFFICES ASSUME ~ lost
               PROVE  /\ Len(Taken') <= Count
                      /\ \A k \in 1..Len(Taken') : Taken'[k] = k
                      /\ from' = Start[Len(Taken') + 1]
    BY DEF Unbroken
  <2>1. x = Len(Taken) + 1 /\ \A k \in 1..Len(Taken) : Taken[k] = k
    BY DEF Position, Unbroken
  <2>2. Len(Taken') = x /\ x <= Count
    BY <1>1, <1>2, <2>1, WireAssumption DEF Item
  <2>3. \A k \in 1..Len(Taken') : Taken'[k] = k
    BY <1>2, <1>3, <2>1
  <2>. QED BY <2>2, <2>3
<1>. QED BY <1>7, <1>8

\* What was taken before a frame that is parsed lies before it on the wire.
LEMMA BeforeFrame ==
    ASSUME Position, at = "parse", WholeFrame
    PROVE  \A k \in 1..Len(Taken) : Taken[k] < Next1
<1> TAKE k \in 1..Len(Taken)
<1>1. Next1 \in Item /\ from = Start[Next1]
  BY FramesOutside
<1>2. Taken \in Seq(Item)
  BY Joined DEF Position, WireTypes, Taken
<1>3. Taken[k] \in Item
  BY <1>2
<1>4. Start[Taken[k] + 1] <= Start[Next1]
  BY <1>1 DEF Position, Ordered
<1>5. Taken[k] + 1 \in 1..(Count + 1) /\ Next1 \in 1..(Count + 1)
  BY <1>1, <1>3, Layout
<1>6. Taken[k] + 1 <= Next1
  BY <1>4, <1>5, StartsApart
<1>. QED BY <1>3, <1>5, <1>6 DEF Item

\* A frame taken before attach is the next one.
LEMMA PositionHello ==
    ASSUME Position, ParseHello
    PROVE  Position'
<1> USE DEF Position
<1>1. /\ ~ Streaming
      /\ Next1 \in Item /\ from = Start[Next1] /\ FrameEnd(Next1) \in 0..flown
      /\ ~ lost => Next1 = Len(Taken) + 1
  BY FramesOutside DEF ParseHello
<1>2. Next1 = 1 /\ from = 0 /\ Next1 \notin Block
  BY <1>1, Layout, WireAssumption DEF ParseHello, Block
<1>3. FrameEnd(Next1) = Start[Next1 + 1] /\ from < FrameEnd(Next1)
  BY <1>1, <1>2, Layout
<1>4. reader = "hello" /\ ~ lost /\ handled = << >> /\ early = << >>
  BY <1>2 DEF Handover, WireTypes
<1>5. handled' \in Seq(Item) /\ Taken' = Append(Taken, Next1) /\ Taken = << >>
  BY <1>1, <1>4, Appended, Joined DEF ParseHello, Taken, WireTypes
<1>6. ~ Streaming'
  BY <1>1 DEF ParseHello, Streaming
<1>7. WireTypes'
  BY <1>1, <1>5 DEF ParseHello, WireTypes
<1>8. Reading'
  <2>1. \A i \in Block : Start[i] \in Nat
    BY Layout DEF Block
  <2>. QED BY <1>1, <1>3, <1>6, <2>1 DEF ParseHello, Reading, WireTypes
<1>9. Handover'
  BY <1>1, <1>2, <1>3, <1>4 DEF ParseHello, Handover
<1>10. Ordered' /\ Unbroken'
  <2>1. \A k \in 1..Len(Taken) : Taken[k] < Next1
    BY BeforeFrame DEF ParseHello
  <2>2. from' \in Nat /\ from' = Start[Next1 + 1] /\ from <= from' /\ lost' = lost
    BY <1>1, <1>2, <1>3 DEF ParseHello
  <2>. QED BY <1>1, <1>5, <1>6, <2>1, <2>2, TakesItem
<1>. QED BY <1>7, <1>8, <1>9, <1>10

\* A frame the session takes is the next one.
LEMMA PositionFrame ==
    ASSUME Position, ParseFrame
    PROVE  Position'
<1> USE DEF Position
<1>1. /\ ~ Streaming
      /\ Next1 \in Item /\ from = Start[Next1] /\ FrameEnd(Next1) \in 0..flown
      /\ ~ lost => Next1 = Len(Taken) + 1
  BY FramesOutside DEF ParseFrame
<1>2. Next1 \notin Block /\ Next1 # 1
  BY <1>1, Layout DEF ParseFrame, Block
<1>3. FrameEnd(Next1) = Start[Next1 + 1] /\ from < FrameEnd(Next1)
  BY <1>1, <1>2, Layout
<1>4. reader # "hello"
  <2>1. 1 \in 1..(Count + 1) /\ Next1 \in 1..(Count + 1) /\ Start[1] = 0
    BY <1>1, Layout, WireAssumption
  <2>. QED BY <1>1, <1>2, <2>1, StartsApart DEF Handover
<1>5. handled' \in Seq(Item) /\ early' \in Seq(Item) /\ Taken' = Append(Taken, Next1)
  <2>1. CASE reader = "session"
    <3>1. early = << >> /\ early' = << >> /\ handled' = Append(handled, Next1)
      BY <2>1 DEF ParseFrame, Handover
    <3>2. handled' \in Seq(Item)
      BY <1>1, <3>1, Appended DEF WireTypes
    <3>. QED BY <3>1, <3>2, Joined DEF WireTypes, Taken
  <2>2. CASE reader # "session"
    <3>1. handled' = handled /\ early' = Append(early, Next1)
      BY <2>2 DEF ParseFrame
    <3>2. early' \in Seq(Item)
      BY <1>1, <3>1, Appended DEF WireTypes
    <3>. QED BY <1>1, <3>1, <3>2, Joined DEF WireTypes, Taken
  <2>. QED BY <2>1, <2>2
<1>6. ~ Streaming'
  BY <1>1 DEF ParseFrame, Streaming
<1>7. WireTypes'
  BY <1>1, <1>5 DEF ParseFrame, WireTypes, wireVars
<1>8. Reading'
  <2>1. \A i \in Block : Start[i] \in Nat
    BY Layout DEF Block
  <2>. QED BY <1>1, <1>3, <1>6, <2>1 DEF ParseFrame, Reading, WireTypes, wireVars
<1>9. Handover'
  <2>1. reader # "nobody" \/ lost
    BY <1>1, <1>3 DEF Handover, WireTypes
  <2>2. reader' = reader /\ lost' = lost /\ flown' = flown /\ from' > 0
    BY <1>1, <1>3 DEF ParseFrame, wireVars, WireTypes
  <2>. QED BY <1>4, <2>1, <2>2 DEF ParseFrame, Handover
<1>10. Ordered' /\ Unbroken'
  <2>1. \A k \in 1..Len(Taken) : Taken[k] < Next1
    BY BeforeFrame DEF ParseFrame
  <2>2. from' \in Nat /\ from' = Start[Next1 + 1] /\ from <= from' /\ lost' = lost
    BY <1>1, <1>3 DEF ParseFrame, wireVars, WireTypes
  <2>. QED BY <1>1, <1>5, <1>6, <2>1, <2>2, TakesItem
<1>. QED BY <1>7, <1>8, <1>9, <1>10

\* A stream begins at the item after the last one taken.
LEMMA PositionBegin ==
    ASSUME Position, ParseBegin
    PROVE  Position'
<1> USE DEF Position
<1>1. /\ ~ Streaming
      /\ Next1 \in Item /\ from = Start[Next1] /\ FrameEnd(Next1) \in 0..flown
      /\ ~ lost => Next1 = Len(Taken) + 1
  BY FramesOutside DEF ParseBegin
<1>2. Next1 \in Block
  BY <1>1 DEF ParseBegin, Block
<1>3. from < FrameEnd(Next1) /\ Body[Next1] \in Nat \ {0} /\ counted[Next1] = 0
  BY <1>1, <1>2, Layout DEF Reading, WireTypes
<1>4. reader = "session"
  BY <1>1, <1>2, <1>3 DEF Handover, WireTypes
<1>5. Streaming' /\ Taken' = Taken
  BY <1>3 DEF ParseBegin, Streaming, Taken
<1>6. WireTypes'
  BY <1>1, <1>2, <1>3 DEF ParseBegin, WireTypes, wireVars
<1>7. Reading'
  <2>1. \A i \in Block : Start[i] \in Nat
    BY Layout DEF Block
  <2>. QED BY <1>1, <1>2, <1>3, <1>5, <2>1 DEF ParseBegin, Reading, WireTypes, wireVars
<1>8. Handover'
  BY <1>1, <1>3, <1>4 DEF ParseBegin, Handover, WireTypes, wireVars
<1>9. Ordered' /\ Unbroken'
  <2>1. \A k \in 1..Len(Taken) : Taken[k] < Next1
    BY BeforeFrame DEF ParseBegin
  <2>2. Taken \in Seq(Item) /\ \A k \in 1..Len(Taken) : Start[Taken[k] + 1] \in Nat
    BY Joined, Layout DEF WireTypes, Taken
  <2>3. incoming' = Next1 /\ from' = FrameEnd(Next1) /\ lost' = lost
    BY DEF ParseBegin, wireVars
  <2>4. Ordered'
    BY <1>1, <1>3, <1>5, <2>1, <2>2, <2>3 DEF Ordered, WireTypes
  <2>5. Unbroken'
    BY <1>1, <1>5, <2>3 DEF Unbroken
  <2>. QED BY <2>4, <2>5
<1>. QED BY <1>6, <1>7, <1>8, <1>9

\* The end of a chunk takes nothing.
LEMMA PositionDone ==
    ASSUME Position, ChunkDone
    PROVE  Position'
<1> USE DEF Position
<1>1. UNCHANGED <<Streaming, Taken>>
  BY DEF ChunkDone, Streaming, Taken
<1>2. timer' \in BOOLEAN /\ lost' \in BOOLEAN /\ (lost => lost')
  <2>1. StreamActive \in BOOLEAN /\ (from < flown) \in BOOLEAN
    BY DEF StreamActive, Streaming
  <2>2. timer' = StreamActive /\ (lost' = (from < flown) \/ lost' = lost)
    BY DEF ChunkDone
  <2>3. reader = "greeted" => ~ lost
    BY DEF Handover
  <2>. QED BY <2>1, <2>2, <2>3, Zenon DEF ChunkDone, WireTypes
<1>3. WireTypes'
  BY <1>2 DEF ChunkDone, WireTypes
<1>4. Reading'
  BY <1>1 DEF ChunkDone, Reading
<1>5. Handover'
  <2>1. CASE reader = "greeted"
    <3>1. reader' = "nobody" /\ (lost' <=> from < flown)
      BY <2>1 DEF ChunkDone
    <3>2. /\ UNCHANGED <<flown, from>>
          /\ from > 0 /\ (\A i \in Block : flown <= Start[i])
      BY <2>1 DEF ChunkDone, Handover
    <3>3. ~ (from < flown) => from = flown
      BY DEF WireTypes
    <3>. QED BY <3>1, <3>2, <3>3 DEF Handover
  <2>2. CASE reader # "greeted"
    BY <2>2 DEF ChunkDone, Handover
  <2>. QED BY <2>1, <2>2
<1>6. Ordered' /\ Unbroken'
  BY <1>1, <1>2 DEF ChunkDone, Ordered, Unbroken
<1>. QED BY <1>3, <1>4, <1>5, <1>6

\* What of a chunk belongs to the body, and what of it is counted.
LEMMA TakeFacts ==
    ASSUME Position, at = "feed"
    PROVE  /\ incoming \in Block /\ incoming \in Item
           /\ total = Body[incoming] /\ received < total
           /\ from = FrameEnd(incoming) + received
           /\ counted[incoming] < Body[incoming] /\ counted[incoming] <= received
           /\ Take \in Nat \ {0}
           /\ received + Take <= total /\ from + Take <= flown
           /\ received + Take = total \/ from + Take = flown
<1> USE DEF Position
<1>1. Streaming /\ from < flown
  BY DEF Reading
<1>2. /\ incoming \in Block /\ incoming \in Item
      /\ total = Body[incoming] /\ received < total
      /\ from = FrameEnd(incoming) + received
      /\ counted[incoming] <= received
  BY <1>1 DEF Reading, Streaming, Block
<1>3. counted[incoming] < Body[incoming]
  BY <1>2, Layout DEF Reading, WireTypes
<1>4. total - received \in Int /\ flown - from \in Int
  BY DEF WireTypes
<1>5. Take = IF total - received <= flown - from THEN total - received ELSE flown - from
  BY <1>4, MinOfTwo DEF Take
<1>. QED BY <1>1, <1>2, <1>3, <1>5 DEF WireTypes

\* What is counted of a body after the next bytes of it.
LEMMA CountFacts ==
    ASSUME Position, at = "feed", NEW n, n = CountedAfter(incoming)
    PROVE  /\ n \in Nat /\ counted[incoming] <= n /\ n <= Body[incoming]
           /\ n <= counted[incoming] + Take
           /\ n = Body[incoming] => received + Take = total
<1>1. /\ incoming \in Block /\ incoming \in Item
      /\ total = Body[incoming]
      /\ counted[incoming] < Body[incoming] /\ counted[incoming] <= received
      /\ Take \in Nat \ {0} /\ received + Take <= total
  BY TakeFacts
<1>2. /\ counted[incoming] \in Nat /\ Body[incoming] \in Nat
      /\ received \in Nat /\ total \in Nat
  BY <1>1, Layout DEF Position, WireTypes
<1> DEFINE m == Min({Body[incoming], counted[incoming] + Take})
<1>3. m = IF Body[incoming] <= counted[incoming] + Take
            THEN Body[incoming] ELSE counted[incoming] + Take
  BY <1>1, <1>2, MinOfTwo
<1>4. n = m \/ n = counted[incoming]
  BY DEF CountedAfter
<1> HIDE DEF m
<1>. QED BY <1>1, <1>2, <1>3, <1>4

\* Bytes of a body are counted, the last of them takes the item.
LEMMA PositionFeed ==
    ASSUME Position, Feed
    PROVE  Position'
<1> USE DEF Position
<1> DEFINE i == incoming
           n == CountedAfter(incoming)
<1>1. /\ i \in Block /\ i \in Item
      /\ total = Body[i] /\ received < total
      /\ from = FrameEnd(i) + received
      /\ counted[i] < Body[i] /\ counted[i] <= received
      /\ Take \in Nat \ {0}
      /\ received + Take <= total /\ from + Take <= flown
      /\ received + Take = total \/ from + Take = flown
  BY TakeFacts DEF Feed
<1>2. /\ n \in Nat /\ counted[i] <= n /\ n <= Body[i]
      /\ n <= counted[i] + Take
      /\ n = Body[i] => received + Take = total
  BY CountFacts DEF Feed
<1>3. /\ from' = from + Take
      /\ total' = (IF n = Body[i] THEN 0 ELSE total)
      /\ received' = (IF n = Body[i] THEN Take ELSE received + Take)
      /\ counted' = [counted EXCEPT ![i] = n]
      /\ incoming' = (IF n = Body[i] THEN None ELSE i)
      /\ timer' = ~ (n = Body[i])
      /\ handled' = (IF received + Take = total THEN Append(handled, i) ELSE handled)
      /\ at' = "parse"
      /\ UNCHANGED <<sent, flown, reader, lost, early, closed>>
  BY DEF Feed, wireVars
<1>4. Streaming /\ reader = "session" /\ early = << >> /\ Taken = handled
  <2>1. Streaming
    BY DEF Feed, Reading
  <2>. QED BY <2>1, StreamsInSession
<1>5. /\ received \in Nat /\ from \in Nat /\ flown \in Nat /\ Body[i] \in Nat
      /\ counted[i] \in Nat /\ FrameEnd(i) \in Nat /\ Start[i] \in Nat
      /\ Start[i] < FrameEnd(i) /\ Start[i + 1] = FrameEnd(i) + Body[i]
  BY <1>1, Layout DEF WireTypes
<1> HIDE DEF n
<1>6. handled' \in Seq(Item)
  BY <1>1, <1>3, Appended DEF WireTypes
<1>7. Streaming' <=> received + Take # total
  <2>1. CASE n = Body[i]
    BY <1>2, <1>3, <1>1, <2>1 DEF Streaming
  <2>2. CASE n # Body[i]
    <3>1. total' = total /\ received' = received + Take
      BY <1>3, <2>2
    <3>2. total \in Nat /\ total > 0
      BY <1>1, <1>5
    <3>. QED BY <1>1, <1>5, <3>1, <3>2 DEF Streaming
  <2>. QED BY <2>1, <2>2
<1>8. WireTypes'
  <2>1. from' \in 0..flown /\ total' \in Nat /\ received' \in Nat
    BY <1>1, <1>3, <1>5
  <2>2. incoming' \in Block \cup {None} /\ timer' \in BOOLEAN
    BY <1>1, <1>3
  <2>3. counted' \in [Block -> Nat] /\ \A j \in Block : counted'[j] <= Body[j]
    BY <1>1, <1>2, <1>3 DEF WireTypes
  <2>. QED BY <1>3, <1>6, <2>1, <2>2, <2>3 DEF WireTypes
<1>9. Reading'
  <2>1. Streaming' => from' = flown'
    BY <1>1, <1>3, <1>7
  <2>2. Streaming' => n # Body[i]
    BY <1>2, <1>7
  <2>3. Streaming' => /\ incoming' \in Block /\ total' = Body[incoming']
                      /\ from' = FrameEnd(incoming') + received'
                      /\ counted'[incoming'] <= received'
    <3> SUFFICES ASSUME n # Body[i]
                 PROVE  /\ incoming' \in Block /\ total' = Body[incoming']
                        /\ from' = FrameEnd(incoming') + received'
                        /\ counted'[incoming'] <= received'
      BY <2>2
    <3>1. incoming' = i /\ total' = total /\ received' = received + Take
      BY <1>3
    <3>2. counted'[i] = n
      BY <1>1, <1>3 DEF WireTypes
    <3>3. FrameEnd(i) + received + Take = FrameEnd(i) + (received + Take) /\ n <= received + Take
      BY <1>1, <1>2, <1>5
    <3>. QED BY <1>1, <1>3, <3>1, <3>2, <3>3
  <2>4. incoming' # None => counted'[incoming'] < Body[incoming']
    BY <1>1, <1>2, <1>3, <1>5 DEF WireTypes
  <2>5. ASSUME NEW j \in Block, from' <= Start[j] PROVE counted'[j] = 0
    <3>1. Start[j] \in Nat
      BY Layout DEF Block
    <3>2. from <= Start[j] /\ j # i
      BY <1>1, <1>3, <1>5, <2>5, <3>1
    <3>. QED BY <1>3, <3>2 DEF Reading, WireTypes
  <2>. QED BY <1>3, <2>1, <2>3, <2>4, <2>5 DEF Reading
<1>10. Handover'
  BY <1>1, <1>3, <1>4, <1>5 DEF Handover
<1>11. Ordered' /\ Unbroken'
  <2>1. CASE received + Take = total
    <3>1. Taken' = Append(Taken, i)
      <4>1. handled' = Append(handled, i) /\ early' = << >>
        BY <1>3, <1>4, <2>1
      <4>. QED BY <1>4, <1>6, <4>1, Joined DEF Taken
    <3>2. from' \in Nat /\ from' = Start[i + 1] /\ from <= from'
      BY <1>1, <1>3, <1>5, <2>1
    <3>3. ~ Streaming' /\ lost' = lost
      BY <1>3, <1>7, <2>1
    <3>4. (\A k \in 1..Len(Taken) : Taken[k] < i) /\ (~ lost => i = Len(Taken) + 1)
      BY <1>4 DEF Ordered, Unbroken
    <3>. QED BY <1>1, <3>1, <3>2, <3>3, <3>4, TakesItem
  <2>2. CASE received + Take # total
    <3>1. Taken' = Taken /\ Taken \in Seq(Item)
      BY <1>3, <2>2, Joined DEF Taken, WireTypes
    <3>2. Streaming' /\ incoming' = i /\ lost' = lost /\ from <= from'
      BY <1>1, <1>2, <1>3, <1>5, <1>7, <2>2
    <3>3. \A k \in 1..Len(Taken) : Start[Taken[k] + 1] \in Nat
      BY <3>1, Layout
    <3>4. Ordered'
      BY <1>3, <1>4, <1>5, <3>1, <3>2, <3>3 DEF Ordered
    <3>5. Unbroken'
      BY <1>4, <3>1, <3>2 DEF Unbroken
    <3>. QED BY <3>4, <3>5
  <2>. QED BY <2>1, <2>2
<1>. QED BY <1>8, <1>9, <1>10, <1>11

\* Sinks and the disk move no decoder.
LEMMA BesideTheWire ==
    ASSUME NEW i \in Block, Drain(i) \/ StoredElsewhere(i)
    PROVE  UNCHANGED <<wireVars, decodeVars, sessionVars>>
BY DEF Drain, HasherReady, HasherFails, Digest, FinishRejected, Finish, Rename,
       BatchWritten, StoredElsewhere

\* Every step keeps the decoder where the items say.
LEMMA PositionStep ==
    ASSUME Position, [Next]_vars
    PROVE  Position'
<1>1. CASE Decode
  <2>1. CASE ParseActive \/ ParseGarbage
    BY <2>1, PositionClosed DEF ParseActive, ParseGarbage
  <2>. QED
    BY <1>1, <2>1, PositionHello, PositionFrame, PositionBegin, PositionFeed, PositionDone
    DEF Decode
<1>2. CASE StreamTimeout \/ Lose
  BY <1>2, PositionClosed DEF StreamTimeout
<1>3. CASE \E i \in Block : Drain(i) \/ StoredElsewhere(i)
  BY <1>3, BesideTheWire, PositionBeside
<1>4. CASE UNCHANGED vars
  BY <1>4, PositionBeside DEF vars
<1>. QED
  BY <1>1, <1>2, <1>3, <1>4, PositionChunk, PositionDropped, PositionAttach DEF Next

\* So the decoder is always there.
LEMMA PositionAlways == Spec => []Position
BY PositionInit, PositionStep, PTL DEF Spec

\* For any items, and any cutting of their bytes into chunks, the decoder of a
\* session is where the items say: behind the last one taken, or in the body of
\* the next one.
THEOREM DecoderInStep == Spec => []InStep
<1>1. Position => InStep
  <2> SUFFICES ASSUME Position, reader = "session", ~ lost
               PROVE  /\ from <= flown
                      /\ from = IF Streaming THEN FrameEnd(Len(handled) + 1) + received
                                             ELSE Start[Len(handled) + 1]
    BY DEF InStep
  <2>1. Taken = handled
    BY Joined DEF Position, Handover, WireTypes, Taken
  <2>. QED BY <2>1 DEF Position, WireTypes, Reading, Unbroken
<1>. QED BY <1>1, PositionAlways, PTL

-----------------------------------------------------------------------------
(* The link that frames and streams come over *)

\* What was taken is kept, and grows in the order of the wire.
LEMMA TakenGrows ==
    ASSUME Position, Position', Len(handled) <= Len(handled'),
           \A k \in 1..Len(handled) : handled'[k] = handled[k],
           handled' = Taken', lost' = lost
    PROVE  Link!Next
<1> DEFINE m == Len(handled')
<1>1. /\ Len(handled) \in Nat /\ m \in Nat
      /\ handled' \in [1..m -> Item]
      /\ handled' = [k \in 1..m |-> handled'[k]]
  BY DEF Position, WireTypes
<1>2. \A k, l \in 1..m : k < l => handled'[k] < handled'[l]
  BY DEF Position, Ordered
<1>3. CASE ~ lost
  <2>1. m <= Count /\ \A k \in 1..m : handled'[k] = k
    BY <1>3 DEF Position, Unbroken
  <2>2. handled' = [k \in 1..m |-> k]
    BY <1>1, <2>1
  <2>3. m \in Len(handled)..Count
    BY <1>1, <2>1, WireAssumption
  <2>. QED BY <1>3, <2>2, <2>3 DEF Link!Next, Link!Deliver
<1>4. CASE lost
  <2>1. m <= Count
    <3>1. CASE m = 0
      BY <3>1, WireAssumption
    <3>2. CASE m # 0
      <4>1. m \in 1..m /\ m <= handled'[m]
        BY <1>1, <3>2 DEF Position, Ordered
      <4>. QED BY <1>1, <4>1, WireAssumption DEF Item
    <3>. QED BY <3>1, <3>2
  <2>2. m \in Len(handled)..Count
    BY <1>1, <2>1, WireAssumption
  <2>3. handled' \in [1..m -> 1..Count]
    BY <1>1 DEF Item
  <2>. QED BY <1>2, <1>4, <2>2, <2>3 DEF Link!Next, Link!DeliverLate
<1>. QED BY <1>3, <1>4 DEF Position, WireTypes

\* One more item is taken.
LEMMA TakesOne ==
    ASSUME Position, Position', NEW x \in Item, handled' = Append(handled, x),
           handled' = Taken', lost' = lost
    PROVE  Link!Next
<1>1. handled \in Seq(Item) /\ Len(handled) \in Nat
  BY DEF Position, WireTypes
<1>2. /\ Len(Append(handled, x)) = Len(handled) + 1
      /\ \A k \in 1..Len(handled) : Append(handled, x)[k] = handled[k]
  BY <1>1, Appended
<1>3. Len(handled) <= Len(handled') /\ \A k \in 1..Len(handled) : handled'[k] = handled[k]
  BY <1>1, <1>2
<1>. QED BY <1>3, TakenGrows

\* A step of the decoders is one of the link, or changes nothing there.
LEMMA LinkStep ==
    ASSUME Position, Position', [Next]_vars
    PROVE  [Link!Next]_<<handled, lost>>
<1> USE DEF Position
<1>1. handled \in Seq(Item) /\ early \in Seq(Item) /\ handled' \in Seq(Item) /\ early' \in Seq(Item)
  BY DEF WireTypes
<1>2. early' = << >> => handled' = Taken'
  BY <1>1, Joined DEF Taken
<1>3. CASE Attach
  <2>1. handled' = Taken /\ early' = << >> /\ lost' = lost
    BY <1>3 DEF Attach
  <2>2. /\ Len(handled) <= Len(handled')
        /\ \A k \in 1..Len(handled) : handled'[k] = handled[k]
    BY <1>1, <2>1 DEF Taken
  <2>. QED BY <1>2, <2>1, <2>2, TakenGrows
<1>4. CASE ParseHello
  <2>1. Next1 \in Item /\ Kind[Next1] = "hello" /\ handled' = Append(handled, Next1) /\ lost' = lost
    BY <1>4, FramesOutside DEF ParseHello
  <2>2. from = 0 /\ early' = early
    BY <1>4, <2>1, FramesOutside, Layout, WireAssumption DEF ParseHello
  <2>3. early' = << >>
    BY <2>2 DEF Handover
  <2>. QED BY <1>2, <2>1, <2>3, TakesOne
<1>5. CASE ParseFrame
  <2>1. CASE reader = "session"
    <3>1. /\ Next1 \in Item /\ handled' = Append(handled, Next1)
          /\ early' = << >> /\ lost' = lost
      BY <1>5, <2>1, FramesOutside DEF ParseFrame, Handover, wireVars
    <3>. QED BY <1>2, <3>1, TakesOne
  <2>2. CASE reader # "session"
    BY <1>5, <2>2 DEF ParseFrame, wireVars
  <2>. QED BY <2>1, <2>2
<1>6. CASE Feed
  <2>1. incoming \in Item /\ Streaming
    BY <1>6, TakeFacts DEF Feed, Reading
  <2>2. early' = << >> /\ lost' = lost
    BY <1>6, <2>1, StreamsInSession DEF Feed, wireVars
  <2>3. handled' = Append(handled, incoming) \/ handled' = handled
    BY <1>6 DEF Feed
  <2>. QED BY <1>2, <2>1, <2>2, <2>3, TakesOne
<1>7. CASE ChunkDropped \/ ChunkDone
  <2>1. handled' = handled
    BY <1>7 DEF ChunkDropped, ChunkDone, sessionVars
  <2>2. lost' = TRUE \/ lost' = lost
    <3>1. CASE reader = "greeted"
      BY <1>7, <3>1, Zenon DEF ChunkDropped, ChunkDone, Handover, WireTypes
    <3>2. CASE reader # "greeted"
      BY <1>7, <3>2 DEF ChunkDropped, ChunkDone
    <3>. QED BY <3>1, <3>2
  <2>. QED BY <2>1, <2>2 DEF Link!Next, Link!Break
<1>8. CASE Chunk \/ ParseBegin \/ ParseActive \/ ParseGarbage \/ Lose \/ StreamTimeout
  BY <1>8 DEF Chunk, ParseBegin, ParseActive, ParseGarbage, Throw, Lose, StreamTimeout,
              wireVars, sessionVars
<1>9. CASE \E i \in Block : Drain(i) \/ StoredElsewhere(i)
  BY <1>9, BesideTheWire DEF wireVars, sessionVars
<1>10. CASE UNCHANGED vars
  BY <1>10 DEF vars, wireVars, sessionVars
<1>. QED
  BY <1>3, <1>4, <1>5, <1>6, <1>7, <1>8, <1>9, <1>10 DEF Next, Decode

\* However a connection cuts what it carries, a session takes each frame and
\* each stream once and in the order of writing, and misses none of them unless
\* bytes were lost between the decoders: the receiving end implements FrameLink.
THEOREM LinkDelivers == Spec => DeliversInOrder
<1>1. Init => Link!Init
  BY DEF Init, Link!Init
<1>2. Position /\ Position' /\ [Next]_vars => [Link!Next]_<<handled, lost>>
  BY LinkStep
<1>. QED BY <1>1, <1>2, PositionAlways, PTL DEF Spec, DeliversInOrder, Link!Spec

-----------------------------------------------------------------------------
(* Division *)

\* What a quotient of natural numbers is, ...
LEMMA DivisionFacts ==
    ASSUME NEW L \in Nat \ {0}, NEW n \in Nat
    PROVE  n \div L \in Nat /\ L * (n \div L) <= n /\ n < L * (n \div L) + L
BY SMT

\* ... and that it grows with what is divided.
LEMMA MonotoneDiv ==
    ASSUME NEW L \in Nat \ {0}, NEW m \in Nat, NEW n \in Nat, m <= n
    PROVE  m \div L <= n \div L
<1> DEFINE a == m \div L
           b == n \div L
<1>1. a \in Nat /\ b \in Nat /\ L * a <= m /\ n < L * b + L
  BY DivisionFacts
<1> SUFFICES ASSUME ~ (a <= b) PROVE FALSE
  OBVIOUS
<1> HIDE DEF a, b
<1>2. b + 1 <= a
  BY <1>1
<1>3. L * (b + 1) <= L * a
  BY <1>1, <1>2, SMT
<1>4. L * (b + 1) = L * b + L
  BY <1>1, SMT
<1>. QED BY <1>1, <1>3, <1>4, SMT

\* Batches of which a part of the block, or all of it, has come.
Given(i, n) == IF n = Body[i] THEN Batches(n) ELSE n \div BatchLen

\* More bytes of a body give as many batches or more, none too many.
LEMMA GivenGrows ==
    ASSUME NEW i \in Block, NEW m \in Nat, NEW n \in Nat, m <= n, n <= Body[i], m < Body[i]
    PROVE  /\ Given(i, m) \in Nat /\ Given(i, n) \in Nat /\ Batches(Body[i]) \in Nat
           /\ Given(i, m) = m \div BatchLen
           /\ Given(i, m) <= Given(i, n) /\ Given(i, n) <= Batches(Body[i])
<1>1. BatchLen \in Nat \ {0} /\ Body[i] \in Nat
  BY ReceiveAssumption, Layout DEF Block
<1> DEFINE top == Body[i] + BatchLen - 1
<1>2. top \in Nat /\ n <= top
  BY <1>1
<1>3. /\ m \div BatchLen \in Nat /\ n \div BatchLen \in Nat /\ top \div BatchLen \in Nat
  BY <1>1, <1>2, DivisionFacts
<1>4. m \div BatchLen <= n \div BatchLen /\ n \div BatchLen <= top \div BatchLen
  BY <1>1, <1>2, MonotoneDiv
<1>5. Batches(Body[i]) = top \div BatchLen
  BY DEF Batches
<1>6. Given(i, m) = m \div BatchLen
  BY DEF Given
<1>7. Given(i, n) = top \div BatchLen \/ Given(i, n) = n \div BatchLen
  BY <1>5 DEF Given
<1> HIDE DEF top
<1>. QED BY <1>3, <1>4, <1>5, <1>6, <1>7

\* Consecutive batches are batches.
LEMMA UptoType ==
    ASSUME NEW m \in Nat, NEW n \in Nat, NEW top \in Nat, m <= n, n <= top
    PROVE  Upto(m, n) \in Seq(1..top)
<1>1. n - m \in Nat /\ \A k \in 1..(n - m) : m + k \in 1..top
  OBVIOUS
<1>. QED BY <1>1 DEF Upto

-----------------------------------------------------------------------------
(* The sinks *)

Stage == {"none", "discard", "open", "renaming"} \cup Settled
SinkState ==
    [stage : Stage, writing : SUBSET Nat, disk : SUBSET Nat, hashed : Seq(Nat),
     queued : Seq(Nat), ready : BOOLEAN, finalizing : BOOLEAN,
     digest : {"none", "match", "differs", "rejected"}, error : BOOLEAN]

\* State r of the sink of block i, of which n bytes are counted, with the
\* decoder at f: each batch is given to the file once it is full, and what is
\* about to be renamed has all of them.
Sound(i, r, n, f) ==
    /\ r \in SinkState
    /\ r.writing \subseteq Batch(i) /\ r.disk \subseteq Batch(i)
    /\ r.hashed \in Seq(Batch(i)) /\ r.queued \in Seq(Batch(i))
    /\ f <= Start[i] => r = NoSink
    /\ r.stage = "open" /\ ~ r.error => r.writing \cup r.disk = 1..Given(i, n)
    /\ r.stage = "renaming" => r.disk = Batch(i) /\ i \notin Corrupt
    /\ r.digest = "match" => i \notin Corrupt

Storage ==
    /\ DOMAIN sink = Block
    /\ sink = [i \in Block |-> sink[i]]
    /\ \A i \in Block : Sound(i, sink[i], counted[i], from)
    /\ file \in [Block -> {"none", "whole"}]

\* No block has a sink to begin with.
LEMMA StorageInit == Init => Storage
<1> SUFFICES ASSUME Init, NEW i \in Block
             PROVE  Sound(i, NoSink, 0, 0)
  BY DEF Init, Storage
<1>1. Body[i] \in Nat \ {0} /\ BatchLen \in Nat \ {0}
  BY Layout, ReceiveAssumption DEF Block
<1>2. Given(i, 0) = 0
  <2>1. BatchLen * (0 \div BatchLen) <= 0 /\ 0 \div BatchLen \in Nat
    BY <1>1, DivisionFacts
  <2>2. 0 \div BatchLen = 0
    BY <1>1, <2>1, SMT
  <2>. QED BY <1>1, <2>2 DEF Given
<1>3. NoSink \in SinkState
  BY DEF NoSink, SinkState, Stage
<1>. QED BY <1>2, <1>3 DEF Sound, NoSink

\* One sink changes at most.
LEMMA StorageKept ==
    ASSUME Storage, NEW i \in Block, NEW r, sink' = [sink EXCEPT ![i] = r],
           Sound(i, r, counted'[i], from'),
           \A j \in Block \ {i} : counted'[j] = counted[j],
           from \in Int, from' \in Int, from <= from',
           file' \in [Block -> {"none", "whole"}]
    PROVE  Storage'
<1>1. DOMAIN sink' = Block /\ sink' = [j \in Block |-> sink'[j]]
  BY DEF Storage
<1>2. ASSUME NEW j \in Block PROVE Sound(j, sink'[j], counted'[j], from')
  <2>1. CASE j = i
    <3>1. sink'[j] = r
      BY <2>1 DEF Storage
    <3>. QED BY <2>1, <3>1
  <2>2. CASE j # i
    <3>1. sink'[j] = sink[j] /\ counted'[j] = counted[j]
      BY <2>2 DEF Storage
    <3>2. Start[j] \in Nat
      BY Layout DEF Block
    <3>3. from' <= Start[j] => from <= Start[j]
      BY <3>2
    <3>4. Sound(j, sink[j], counted[j], from)
      BY DEF Storage
    <3>5. Sound(j, sink[j], counted[j], from')
      BY <3>3, <3>4 DEF Sound
    <3>. QED BY <3>1, <3>5
  <2>. QED BY <2>1, <2>2
<1>. QED BY <1>1, <1>2 DEF Storage

\* A step that only reads on keeps what is said of sinks.
LEMMA StorageSame ==
    ASSUME Storage, sink' = sink, counted' = counted, file' = file,
           from \in Int, from' \in Int, from <= from'
    PROVE  Storage'
<1>1. ASSUME NEW j \in Block PROVE Sound(j, sink[j], counted[j], from')
  <2>1. Start[j] \in Nat
    BY Layout DEF Block
  <2>2. from' <= Start[j] => from <= Start[j]
    BY <2>1
  <2>. QED BY <2>2 DEF Storage, Sound
<1>. QED BY <1>1 DEF Storage

\* A step that leaves the decoder where it is.
LEMMA StorageBeside ==
    ASSUME Position, Storage, UNCHANGED <<decodeVars, sessionVars>>,
           NEW i \in Block, NEW r, sink' = [sink EXCEPT ![i] = r],
           Sound(i, r, counted[i], from), file' \in [Block -> {"none", "whole"}]
    PROVE  Storage'
<1>1. counted' = counted /\ from' = from /\ from \in Int
  BY DEF decodeVars, sessionVars, Position, WireTypes
<1>2. Sound(i, r, counted'[i], from') /\ from <= from' /\ from' \in Int
  BY <1>1
<1>3. \A j \in Block \ {i} : counted'[j] = counted[j]
  BY <1>1
<1>. QED BY <1>1, <1>2, <1>3, StorageKept

\* A sink that has begun is no longer as it was.
LEMMA Begun ==
    ASSUME Position, Storage, NEW i \in Block,
           sink[i].stage # "none" \/ sink[i].writing # {} \/ sink[i].finalizing
    PROVE  ~ (from <= Start[i])
BY DEF Storage, Sound, NoSink

\* The hasher decides nothing about bytes on disk.
LEMMA StorageHasher ==
    ASSUME Position, Storage, NEW i \in Block, HasherReady(i) \/ HasherFails(i) \/ Digest(i)
    PROVE  Storage'
<1> DEFINE k == sink[i]
<1>1. Sound(i, k, counted[i], from) /\ k \in SinkState /\ ~ (from <= Start[i])
  BY Begun DEF HasherReady, HasherFails, HasherAwaited, Digest, Storage, Sound
<1>2. file' \in [Block -> {"none", "whole"}] /\ UNCHANGED <<decodeVars, sessionVars>>
  BY DEF HasherReady, HasherFails, Digest, Storage
<1>3. CASE HasherReady(i)
  <2>1. sink' = [sink EXCEPT ![i] = Driven(i)]
    BY <1>3 DEF HasherReady
  <2> DEFINE b == counted[i] = Body[i]
             e == [sink[i] EXCEPT !.ready = TRUE, !.hashed = sink[i].queued,
                                  !.queued = << >>, !.finalizing = b]
             r == [stage |-> k.stage, writing |-> k.writing, disk |-> k.disk,
                   hashed |-> k.queued, queued |-> << >>, ready |-> TRUE,
                   finalizing |-> b, digest |-> k.digest, error |-> k.error]
  <2>2. b \in BOOLEAN /\ Driven(i) = e
    BY Zenon DEF Driven
  <2> HIDE DEF b
  <2>3. e = r
    BY <1>1, <2>2 DEF SinkState
  <2> HIDE DEF e
  <2>4. Sound(i, r, counted[i], from)
    BY <1>1, <2>2 DEF Sound, SinkState
  <2> HIDE DEF r
  <2>. QED BY <1>2, <2>1, <2>2, <2>3, <2>4, StorageBeside
<1>4. CASE HasherFails(i)
  <2> DEFINE r == [k EXCEPT !.error = TRUE, !.digest = "rejected"]
  <2>1. sink' = [sink EXCEPT ![i] = r]
    BY <1>4 DEF HasherFails, Storage
  <2>2. Sound(i, r, counted[i], from)
    BY <1>1 DEF Sound, SinkState
  <2> HIDE DEF r
  <2>. QED BY <1>2, <2>1, <2>2, StorageBeside
<1>5. CASE Digest(i)
  <2> DEFINE d == IF sink[i].hashed = Upto(0, Batches(Body[i])) /\ i \notin Corrupt
                    THEN "match" ELSE "differs"
             r == [k EXCEPT !.digest = d]
  <2>1. sink' = [sink EXCEPT ![i] = r]
    BY <1>5 DEF Digest, Storage
  <2>2. d \in {"match", "differs"} /\ (d = "match" => i \notin Corrupt)
    OBVIOUS
  <2> HIDE DEF d
  <2>3. Sound(i, r, counted[i], from)
    BY <1>1, <2>2 DEF Sound, SinkState
  <2> HIDE DEF r
  <2>. QED BY <1>2, <2>1, <2>3, StorageBeside
<1>. QED BY <1>3, <1>4, <1>5

\* A batch that was written is on disk, or its sink has failed.
LEMMA StorageWritten ==
    ASSUME Position, Storage, NEW i \in Block, NEW n \in Batch(i), BatchWritten(i, n)
    PROVE  Storage'
<1> DEFINE k == sink[i]
           good == [k EXCEPT !.writing = @ \ {n}, !.disk = @ \cup {n}]
           bad == [k EXCEPT !.writing = @ \ {n}, !.error = TRUE]
<1>1. Sound(i, k, counted[i], from) /\ k \in SinkState /\ ~ (from <= Start[i]) /\ n \in k.writing
  BY Begun DEF BatchWritten, Storage, Sound
<1>2. file' \in [Block -> {"none", "whole"}] /\ UNCHANGED <<decodeVars, sessionVars>>
  BY DEF BatchWritten, Storage
<1>3. sink' = [sink EXCEPT ![i] = good] \/ sink' = [sink EXCEPT ![i] = bad]
  BY DEF BatchWritten
<1>4. Sound(i, good, counted[i], from)
  <2>1. good \in SinkState
    BY <1>1 DEF SinkState
  <2>2. /\ good.writing = k.writing \ {n} /\ good.disk = k.disk \cup {n}
        /\ good.hashed = k.hashed /\ good.queued = k.queued /\ good.stage = k.stage
        /\ good.digest = k.digest /\ good.error = k.error
    BY <1>1 DEF SinkState
  <2> HIDE DEF good
  <2>3. good.writing \cup good.disk = k.writing \cup k.disk
    BY <1>1, <2>2
  <2>4. k.disk = Batch(i) => good.disk = Batch(i)
    BY <2>2
  <2>. QED BY <1>1, <2>1, <2>2, <2>3, <2>4 DEF Sound
<1>5. Sound(i, bad, counted[i], from)
  BY <1>1 DEF Sound, SinkState
<1> HIDE DEF good, bad
<1>. QED BY <1>2, <1>3, <1>4, <1>5, StorageBeside

\* A sink is finished, and renamed, with all its batches on disk.
LEMMA StorageFinish ==
    ASSUME Position, Storage, NEW i \in Block, FinishRejected(i) \/ Finish(i) \/ Rename(i)
    PROVE  Storage'
<1> DEFINE k == sink[i]
           after(s) == [k EXCEPT !.stage = s]
<1>1. Sound(i, k, counted[i], from) /\ k \in SinkState /\ ~ (from <= Start[i])
  BY Begun DEF FinishRejected, Finish, Rename, Storage, Sound
<1>2. UNCHANGED <<decodeVars, sessionVars>>
  BY DEF FinishRejected, Finish, Rename
<1>3. \E s \in Settled \cup {"renaming"} :
         sink' = [sink EXCEPT ![i] = after(s)] /\ (s = "renaming" => Finish(i))
  BY DEF FinishRejected, Finish, Rename, Settled, Storage
<1>4. file' \in [Block -> {"none", "whole"}]
  <2>1. CASE Rename(i)
    <3>1. k.disk = Batch(i) /\ i \notin Corrupt
      BY <1>1, <2>1 DEF Rename, Sound
    <3>. QED BY <2>1, <3>1 DEF Rename, Storage
  <2>2. CASE FinishRejected(i) \/ Finish(i)
    BY <2>2 DEF FinishRejected, Finish, Storage
  <2>. QED BY <2>1, <2>2
<1>5. PICK s \in Settled \cup {"renaming"} :
         sink' = [sink EXCEPT ![i] = after(s)] /\ (s = "renaming" => Finish(i))
  BY <1>3
<1>6. s = "renaming" => k.disk = Batch(i) /\ i \notin Corrupt
  <2> SUFFICES ASSUME s = "renaming" PROVE k.disk = Batch(i) /\ i \notin Corrupt
    OBVIOUS
  <2>1. /\ k.stage = "open" /\ counted[i] = Body[i] /\ k.writing = {} /\ ~ k.error
        /\ k.digest = "match"
    <3>1. Finish(i) /\ sink'[i].stage = "renaming"
      BY <1>1, <1>5 DEF Storage, SinkState
    <3>. QED BY <1>1, <3>1 DEF Finish, WritesDone, Storage, SinkState, Settled
  <2>. QED BY <1>1, <2>1 DEF Sound, Given, Batch
<1>7. Sound(i, after(s), counted[i], from)
  BY <1>1, <1>6 DEF Sound, SinkState, Settled, Stage
<1> HIDE DEF after
<1>. QED BY <1>2, <1>4, <1>5, <1>7, StorageBeside

\* A block that another session stores is whole.
LEMMA StorageElsewhere ==
    ASSUME Position, Storage, NEW i \in Block, StoredElsewhere(i)
    PROVE  Storage'
<1>1. file' \in [Block -> {"none", "whole"}] /\ sink' = sink /\ counted' = counted /\ from' = from
  BY DEF StoredElsewhere, Storage, decodeVars, sessionVars
<1>. QED BY <1>1 DEF Storage

\* A stream begins with an empty sink, or with none.
LEMMA StorageBegin ==
    ASSUME Position, Storage, ParseBegin
    PROVE  Storage'
<1>1. PICK i \in Block : i = Next1 /\ from = Start[i] /\ FrameEnd(i) \in 0..flown
  BY FramesOutside DEF ParseBegin, Block
<1> DEFINE s == IF file[i] = "none" THEN "open" ELSE "discard"
           r == [NoSink EXCEPT !.stage = s]
<1>2. /\ from \in Nat /\ FrameEnd(i) \in Nat /\ from < FrameEnd(i)
      /\ Body[i] \in Nat /\ Body[i] > 0
  BY <1>1, Layout DEF Block
<1>3. sink[i] = NoSink /\ counted[i] = 0
  BY <1>1, <1>2 DEF Storage, Sound, Position, Reading
<1>4. /\ from' = FrameEnd(i) /\ counted' = counted /\ file' = file
      /\ sink' = [sink EXCEPT ![i].stage = s]
  BY <1>1 DEF ParseBegin
<1>5. s \in {"open", "discard"}
  OBVIOUS
<1> HIDE DEF s
<1>6. sink' = [sink EXCEPT ![i] = r]
  BY <1>3, <1>4
<1>7. NoSink \in SinkState
  BY DEF NoSink, SinkState, Stage
<1>8. /\ r \in SinkState /\ r.stage = s /\ r.writing = {} /\ r.disk = {}
      /\ r.hashed = << >> /\ r.queued = << >> /\ r.digest = "none"
  BY <1>5, <1>7 DEF NoSink, SinkState, Stage
<1> HIDE DEF r
<1>9. Given(i, 0) = 0
  <2>1. BatchLen \in Nat \ {0}
    BY ReceiveAssumption
  <2>2. BatchLen * (0 \div BatchLen) <= 0 /\ 0 \div BatchLen \in Nat
    BY <2>1, DivisionFacts
  <2>3. 0 \div BatchLen = 0
    BY <2>1, <2>2, SMT
  <2>. QED BY <1>2, <2>3 DEF Given
<1>10. Sound(i, r, 0, from')
  <2>1. ~ (from' <= Start[i])
    BY <1>1, <1>2, <1>4
  <2>2. r.writing \cup r.disk = 1..Given(i, 0)
    BY <1>8, <1>9
  <2>. QED BY <1>5, <1>8, <2>1, <2>2 DEF Sound
<1>11. /\ Sound(i, r, counted'[i], from')
       /\ \A j \in Block \ {i} : counted'[j] = counted[j]
       /\ from \in Int /\ from' \in Int /\ from <= from'
       /\ file' \in [Block -> {"none", "whole"}]
  BY <1>2, <1>3, <1>4, <1>10 DEF Storage
<1>. QED BY <1>6, <1>11, StorageKept

\* Full batches, and the last one, go to the file and to the hasher.
LEMMA IngestedSound ==
    ASSUME Position, Storage, NEW i \in Block, NEW n \in Nat, NEW f \in Nat,
           sink[i].stage = "open", ~ sink[i].error,
           counted[i] < Body[i], counted[i] <= n, n <= Body[i], from <= f
    PROVE  Sound(i, Ingested(i, n), n, f)
<1> DEFINE k == sink[i]
           old == counted[i] \div BatchLen
           new == IF n = Body[i] THEN Batches(n) ELSE n \div BatchLen
           h == IF k.ready THEN k.hashed \o Upto(old, new) ELSE k.hashed
           q == IF k.ready THEN k.queued ELSE k.queued \o Upto(old, new)
           w == k.writing \cup ((old + 1)..new)
           b == n = Body[i] /\ k.ready
           e == [k EXCEPT !.writing = w, !.hashed = h, !.queued = q, !.finalizing = b]
<1>1. Sound(i, k, counted[i], from) /\ k \in SinkState /\ ~ (from <= Start[i])
  BY Begun DEF Storage, Sound
<1>2. /\ old \in Nat /\ new \in Nat /\ old <= new /\ new <= Batches(Body[i])
      /\ old = Given(i, counted[i]) /\ new = Given(i, n) /\ Batches(Body[i]) \in Nat
  <2>1. counted[i] \in Nat
    BY DEF Position, WireTypes
  <2>. QED BY <2>1, GivenGrows DEF Given
<1>3. Ingested(i, n) = e
  BY Zenon DEF Ingested
<1>4. b \in BOOLEAN
  BY <1>1, Zenon DEF SinkState
<1> HIDE DEF old, new, b
<1>5. Upto(old, new) \in Seq(Batch(i))
  BY <1>2, UptoType DEF Batch
<1>6. h \in Seq(Batch(i)) /\ q \in Seq(Batch(i)) /\ w \subseteq Batch(i)
  <2>1. k.hashed \in Seq(Batch(i)) /\ k.queued \in Seq(Batch(i)) /\ k.writing \subseteq Batch(i)
    BY <1>1 DEF Sound
  <2>2. ((old + 1)..new) \subseteq Batch(i)
    BY <1>2 DEF Batch
  <2>. QED BY <1>5, <2>1, <2>2
<1>7. w \cup k.disk = 1..new
  <2>1. k.writing \cup k.disk = 1..old
    BY <1>1, <1>2 DEF Sound
  <2>2. (1..old) \cup ((old + 1)..new) = 1..new
    BY <1>2
  <2>. QED BY <2>1, <2>2
<1> HIDE DEF h, q, w
<1>8. Batch(i) \subseteq Nat
  BY <1>2 DEF Batch
<1>9. h \in Seq(Nat) /\ q \in Seq(Nat) /\ w \in SUBSET Nat
  BY <1>6, <1>8
<1>10. /\ e \in SinkState
       /\ e.writing = w /\ e.hashed = h /\ e.queued = q
       /\ e.stage = k.stage /\ e.disk = k.disk /\ e.digest = k.digest
       /\ e.error = k.error
  BY <1>1, <1>4, <1>9 DEF SinkState
<1> HIDE DEF e
<1>11. ~ (f <= Start[i])
  <2>1. from \in Nat /\ Start[i] \in Nat
    BY Layout DEF Position, WireTypes, Block
  <2>. QED BY <1>1, <2>1
<1>12. Sound(i, e, n, f)
  BY <1>1, <1>2, <1>6, <1>7, <1>10, <1>11 DEF Sound
<1>. QED BY <1>3, <1>12

\* Bytes that are fed are in batches that are being written.
LEMMA StorageFeed ==
    ASSUME Position, Storage, Feed
    PROVE  Storage'
<1>1. PICK i \in Block : i = incoming
  BY TakeFacts DEF Feed
<1> DEFINE n == CountedAfter(incoming)
<1>2. /\ i \in Item /\ counted[i] < Body[i]
      /\ Take \in Nat /\ from = FrameEnd(i) + received
      /\ n \in Nat /\ counted[i] <= n /\ n <= Body[i]
  BY <1>1, TakeFacts, CountFacts DEF Feed
<1>3. /\ from' = from + Take /\ file' = file
      /\ counted' = [counted EXCEPT ![i] = n]
      /\ sink' = IF sink[i].stage = "open" /\ ~ sink[i].error
                   THEN [sink EXCEPT ![i] = Ingested(i, n)] ELSE sink
  BY <1>1 DEF Feed
<1> HIDE DEF n
<1>4. /\ from \in Int /\ from' \in Nat /\ from' \in Int /\ from <= from'
      /\ counted'[i] = n /\ \A j \in Block \ {i} : counted'[j] = counted[j]
      /\ file' \in [Block -> {"none", "whole"}]
  BY <1>2, <1>3 DEF Position, WireTypes, Storage
<1>5. \E r : sink' = [sink EXCEPT ![i] = r] /\ Sound(i, r, n, from')
  <2>1. CASE sink[i].stage = "open" /\ ~ sink[i].error
    BY <1>2, <1>3, <1>4, <2>1, IngestedSound
  <2>2. CASE ~ (sink[i].stage = "open" /\ ~ sink[i].error)
    <3>1. Sound(i, sink[i], n, from')
      <4>1. Start[i] \in Nat
        BY <1>2, Layout
      <4>. QED BY <1>4, <2>2, <4>1 DEF Sound, Storage
    <3>2. sink' = [sink EXCEPT ![i] = sink[i]]
      BY <1>3, <2>2 DEF Storage
    <3>. QED BY <3>1, <3>2
  <2>. QED BY <2>1, <2>2
<1>6. PICK r : sink' = [sink EXCEPT ![i] = r] /\ Sound(i, r, n, from')
  BY <1>5
<1>7. Sound(i, r, counted'[i], from')
  BY <1>4, <1>6
<1>. QED BY <1>4, <1>6, <1>7, StorageKept

\* Every step keeps what is said of sinks.
LEMMA StorageStep ==
    ASSUME Position, Position', Storage, [Next]_vars
    PROVE  Storage'
<1>1. from \in Nat /\ from' \in Nat /\ flown \in Nat /\ from <= flown
  BY DEF Position, WireTypes
<1>2. CASE ParseHello \/ ParseFrame
  <2>1. sink' = sink /\ counted' = counted /\ file' = file /\ from' = FrameEnd(Next1)
    BY <1>2 DEF ParseHello, ParseFrame
  <2>2. from <= from'
    BY <1>1, <1>2, <2>1, FramesOutside, Layout DEF ParseHello, ParseFrame
  <2>. QED BY <1>1, <2>1, <2>2, StorageSame
<1>3. CASE Attach
  BY <1>1, <1>3, StorageSame DEF Attach
<1>4. CASE \/ Chunk \/ ChunkDropped \/ ParseActive \/ ParseGarbage \/ ChunkDone
           \/ Lose \/ StreamTimeout \/ UNCHANGED vars
  <2>1. sink' = sink /\ counted' = counted /\ file' = file /\ from' = from
    BY <1>4 DEF Chunk, ChunkDropped, ParseActive, ParseGarbage, Throw, ChunkDone, Lose,
                StreamTimeout, vars, decodeVars, sessionVars
  <2>. QED BY <1>1, <2>1, StorageSame
<1>5. CASE \E i \in Block : Drain(i) \/ StoredElsewhere(i)
  BY <1>5, StorageHasher, StorageWritten, StorageFinish, StorageElsewhere DEF Drain
<1>. QED
  BY <1>2, <1>3, <1>4, <1>5, StorageBegin, StorageFeed DEF Next, Decode

\* So it is always true.
LEMMA StorageAlways == Spec => []Storage
BY PositionInit, PositionStep, StorageInit, StorageStep, PTL DEF Spec

\* The receiving end keeps its types: none of a block's batches lies behind its
\* end, and no position of the decoder behind the bytes that have come.
THEOREM ReceiverTypeCorrect == Spec => []TypeOK
<1>1. Position /\ Storage => TypeOK
  <2> SUFFICES ASSUME Position, Storage PROVE TypeOK
    OBVIOUS
  <2>1. ASSUME NEW i \in Block
        PROVE  /\ sink[i].stage \in {"none", "discard", "open", "renaming"} \cup Settled
               /\ sink[i].writing \subseteq Batch(i) /\ sink[i].disk \subseteq Batch(i)
               /\ sink[i].hashed \in Seq(Batch(i)) /\ sink[i].queued \in Seq(Batch(i))
               /\ sink[i].ready \in BOOLEAN /\ sink[i].finalizing \in BOOLEAN
               /\ sink[i].digest \in {"none", "match", "differs", "rejected"}
               /\ sink[i].error \in BOOLEAN
    BY DEF Storage, Sound, SinkState, Stage
  <2>2. file \in [Block -> {"none", "whole", "torn", "corrupt"}]
    BY DEF Storage
  <2>3. from \in Nat /\ DOMAIN sink = Block
    BY DEF Position, WireTypes, Storage
  <2>. QED BY <2>1, <2>2, <2>3 DEF TypeOK, Position, WireTypes
<1>. QED BY <1>1, PositionAlways, StorageAlways, PTL

\* In whatever order hasher, writes, the decoder and other sessions go on, and
\* whatever of it fails, a path has all bytes of its block or nothing.
THEOREM BlocksWholeInPlace == Spec => []WholeInPlace
<1>1. Storage => WholeInPlace
  BY DEF Storage, WholeInPlace
<1>. QED BY <1>1, StorageAlways, PTL
=============================================================================
