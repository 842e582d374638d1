------------------------ MODULE BlockExchange_proofs ------------------------
(***************************************************************************)
(* Proofs about BlockExchange, for any set of nodes, ends, blocks and      *)
(* events: type correctness; the two invariants of the want registry; that *)
(* nothing stays unannounced (ListedOrOffered); that pumps of a block do   *)
(* not meet (PumpAlone); that streams do not run into each other           *)
(* (StreamOrder, which follows begin and body through both queues); and    *)
(* that objects are only copied (Sourced, which follows them from a store  *)
(* through the queues to the store of the other side).                     *)
(***************************************************************************)
EXTENDS BlockExchange, SequenceTheorems, TLAPS

-----------------------------------------------------------------------------
(* Lemmas about the operators of the module *)

\* A control message is a message of every queue that admits its type.
LEMMA ControlMessage ==
    ASSUME NEW types, NEW t \in types, NEW refs \in SUBSET Object,
           t \notin {"pump", "open", "body", "begin"} \/ refs \subseteq Block
    PROVE  Msg(t, refs) \in Message(types)
BY DEF Msg, Message

FrameTypes == {"have", "want", "data"}
AskTypes == {"have", "want"}

\* sendHave and sendWants queue haves and wants, no pumps and no data.
LEMMA SentAsks ==
    ASSUME NEW refs \in SUBSET Object
    PROVE  /\ HaveOf(refs) \in Seq(Message(AskTypes))
           /\ WantsOf(refs) \in Seq(Message(AskTypes))
<1> DEFINE M == Message(AskTypes)
<1>1. <<>> \in Seq(M)
  OBVIOUS
<1>2. ASSUME NEW t \in {"have", "want"}, NEW r \in SUBSET Object
      PROVE  <<Msg(t, r)>> \in Seq(M)
  <2>1. Msg(t, r) \in M
    BY <1>2, ControlMessage DEF AskTypes
  <2>2. QED
    BY <2>1
<1>3. HaveOf(refs) \in Seq(M)
  BY <1>1, <1>2 DEF HaveOf
<1>4. /\ refs \cap Block \in SUBSET Object
      /\ refs \cap Event \in SUBSET Object
  OBVIOUS
<1> DEFINE first == IF refs \cap Block = {} THEN <<>> ELSE <<Msg("want", refs \cap Block)>>
           second == IF refs \cap Event = {} THEN <<>> ELSE <<Msg("want", refs \cap Event)>>
<1>5. first \in Seq(M) /\ second \in Seq(M)
  BY <1>1, <1>2, <1>4
<1>6. first \o second \in Seq(M)
  <2> HIDE DEF first, second, M
  <2>1. QED
    BY <1>5, ConcatProperties
<1>7. QED
  BY <1>3, <1>6 DEF WantsOf

\* So what they queue is fit for outboundWire.
LEMMA SentMessages ==
    ASSUME NEW refs \in SUBSET Object
    PROVE  /\ HaveOf(refs) \in Seq(Message(OutTypes))
           /\ WantsOf(refs) \in Seq(Message(OutTypes))
<1>1. Message(AskTypes) \subseteq Message(OutTypes)
  BY DEF Message, AskTypes, OutTypes
<1>2. QED
  BY <1>1, SentAsks

\* A broadcast leaves the queues and the bookkeeping of haves well typed.
LEMMA BroadcastTyped ==
    ASSUME TypeOK, NEW n \in Node, NEW refs \in SUBSET Object, NEW store,
           NEW out \in [End -> Seq(Message(OutTypes))],
           Broadcast(n, refs, store, out)
    PROVE  /\ pendingHave' \in [Node -> SUBSET Object]
           /\ outbound' \in [End -> Seq(Message(OutTypes))]
           /\ offered' \in [End -> SUBSET Object]
<1>1. refs \cap store \in SUBSET Object
  OBVIOUS
<1>2. HaveOf(refs \cap store) \in Seq(Message(OutTypes))
  BY <1>1, SentMessages
<1>3. \A e \in End : out[e] \o HaveOf(refs \cap store) \in Seq(Message(OutTypes))
  BY <1>2, ConcatProperties
<1>4. /\ pendingHave \in [Node -> SUBSET Object]
      /\ offered \in [End -> SUBSET Object]
  BY DEF TypeOK
<1>5. CASE Announcers(n) = {}
  BY <1>4, <1>5 DEF Broadcast
<1>6. CASE Announcers(n) # {}
  <2>1. /\ outbound' = [e \in End |-> IF e \in Announcers(n)
                          THEN out[e] \o HaveOf(refs \cap store) ELSE out[e]]
        /\ offered' = [e \in End |-> IF e \in Announcers(n)
                          THEN offered[e] \cup (refs \cap store) ELSE offered[e]]
        /\ pendingHave' = pendingHave
    BY <1>6 DEF Broadcast
  <2>2. outbound' \in [End -> Seq(Message(OutTypes))]
    BY <1>3, <2>1
  <2>3. offered' \in [End -> SUBSET Object]
    BY <1>1, <1>4, <2>1
  <2>4. QED
    BY <1>4, <2>1, <2>2, <2>3
<1>7. QED
  BY <1>5, <1>6

\* Arming want timers concerns blocks only.
LEMMA ArmTyped ==
    ASSUME TypeOK, NEW e \in End, NEW refs, Arm(e, refs)
    PROVE  armed' \in [End -> SUBSET Block]
BY DEF Arm, TypeOK

\* A frame put on the wire is one the other end can decode.
LEMMA WrittenTyped ==
    ASSUME TypeOK, NEW e \in End, NEW t \in LinkTypes, NEW refs \in SUBSET Object,
           t \notin {"body", "begin"} \/ refs \subseteq Block
    PROVE  Written(e, t, refs) \in [End -> Seq(Message(LinkTypes))]
<1>1. Msg(t, refs) \in Message(LinkTypes)
  BY ControlMessage DEF LinkTypes
<1>2. Opp[e] \in End
  BY EndsAssumption
<1>3. Append(link[Opp[e]], Msg(t, refs)) \in Seq(Message(LinkTypes))
  BY <1>1, <1>2, AppendProperties DEF TypeOK
<1>4. QED
  BY <1>2, <1>3 DEF Written, TypeOK

-----------------------------------------------------------------------------
(* Type correctness *)

\* The head of a nonempty queue is a message, and what follows it is a queue.
LEMMA Heads ==
    ASSUME TypeOK, NEW e \in End
    PROVE  /\ inbound[e] # <<>> => /\ Head(inbound[e]) \in Message(QueuedTypes)
                                    /\ Tail(inbound[e]) \in Seq(Message(QueuedTypes))
           /\ outbound[e] # <<>> => /\ Head(outbound[e]) \in Message(OutTypes)
                                     /\ Tail(outbound[e]) \in Seq(Message(OutTypes))
           /\ link[e] # <<>> => /\ Head(link[e]) \in Message(LinkTypes)
                                 /\ Tail(link[e]) \in Seq(Message(LinkTypes))
<1>1. /\ inbound[e] \in Seq(Message(QueuedTypes))
      /\ outbound[e] \in Seq(Message(OutTypes))
      /\ link[e] \in Seq(Message(LinkTypes))
  BY DEF TypeOK
<1>2. QED
  BY <1>1, HeadTailProperties

\* Finishing or continuing the handler at the head keeps inboundWire typed.
LEMMA HandlerTyped ==
    ASSUME TypeOK, NEW e \in End, inbound[e] # <<>>
    PROVE  /\ Done(e) \in [End -> Seq(Message(QueuedTypes))]
           /\ \A t \in {"want", "missing", "accepted"}, refs \in SUBSET Object :
                 Replace(e, t, refs) \in [End -> Seq(Message(QueuedTypes))]
<1>1. Tail(inbound[e]) \in Seq(Message(QueuedTypes))
  BY Heads
<1>2. Done(e) \in [End -> Seq(Message(QueuedTypes))]
  BY <1>1 DEF Done, TypeOK
<1>3. ASSUME NEW t \in {"want", "missing", "accepted"}, NEW refs \in SUBSET Object
      PROVE  Replace(e, t, refs) \in [End -> Seq(Message(QueuedTypes))]
  <2>1. Msg(t, refs) \in Message(QueuedTypes)
    BY <1>3, ControlMessage DEF QueuedTypes
  <2>2. <<Msg(t, refs)>> \o Tail(inbound[e]) \in Seq(Message(QueuedTypes))
    <3>1. <<Msg(t, refs)>> \in Seq(Message(QueuedTypes))
      BY <2>1
    <3>2. QED
      BY <1>1, <3>1, ConcatProperties
  <2>3. QED
    BY <2>2 DEF Replace, TypeOK
<1>4. QED
  BY <1>2, <1>3

\* Attaching, announcing and repairing keep the types.
LEMMA StartTyped ==
    ASSUME TypeOK, NEW e \in End, Start(e)
    PROVE  TypeOK'
<1> USE DEF nodeVars, lifeVars, wantVars, streamVars
<1>1. At[e] \in Node
  BY EndsAssumption
<1>2. ASSUME NEW refs \in SUBSET Object
      PROVE  /\ outbound[e] \o HaveOf(refs) \in Seq(Message(OutTypes))
             /\ outbound[e] \o WantsOf(refs) \in Seq(Message(OutTypes))
  BY <1>2, SentMessages, ConcatProperties DEF TypeOK
<1>3. CASE Attach(e)
  <2> DEFINE refs == pendingHave[At[e]] \cap stored[At[e]]
  <2>1. refs \in SUBSET Object
    BY <1>1 DEF TypeOK
  <2>2. outbound' \in [End -> Seq(Message(OutTypes))]
    BY <1>2, <1>3, <2>1 DEF Attach, TypeOK
  <2>3. offered' \in [End -> SUBSET Object]
    BY <1>3, <2>1 DEF Attach, TypeOK
  <2>4. /\ pendingHave' \in [Node -> SUBSET Object]
        /\ phase' \in [End -> {"idle", "open", "listed", "announced", "stopped"}]
    BY <1>3 DEF Attach, TypeOK
  <2>5. QED
    BY <1>3, <2>2, <2>3, <2>4 DEF Attach, TypeOK
<1>4. CASE AttachList(e)
  <2>1. journal[At[e]] \in SUBSET Object
    BY <1>1 DEF TypeOK
  <2>2. QED
    BY <1>4, <2>1 DEF AttachList, TypeOK
<1>5. CASE AttachAnnounce(e)
  <2> DEFINE refs == listing[e] \cap stored[At[e]]
  <2>1. refs \in SUBSET Object
    BY <1>1 DEF TypeOK
  <2>2. outbound' \in [End -> Seq(Message(OutTypes))]
    BY <1>2, <1>5, <2>1 DEF AttachAnnounce, TypeOK
  <2>3. offered' \in [End -> SUBSET Object]
    BY <1>5, <2>1 DEF AttachAnnounce, TypeOK
  <2>4. QED
    BY <1>5, <2>2, <2>3 DEF AttachAnnounce, TypeOK
<1>6. CASE OrphanRepair(e)
  <2> DEFINE lacking == Lacking(At[e], stored[At[e]])
  <2>1. lacking \in SUBSET Object
    BY DataAssumption DEF Lacking
  <2>2. outbound' \in [End -> Seq(Message(OutTypes))]
    BY <1>2, <1>6, <2>1 DEF OrphanRepair, TypeOK
  <2>3. armed' \in [End -> SUBSET Block]
    BY <1>6, ArmTyped DEF OrphanRepair
  <2>4. QED
    BY <1>6, <2>2, <2>3 DEF OrphanRepair, TypeOK
<1>7. QED
  BY <1>3, <1>4, <1>5, <1>6 DEF Start

\* Losing a connection and stopping a session keep the types.
LEMMA FailTyped ==
    ASSUME TypeOK, NEW e \in End, Fail(e)
    PROVE  TypeOK'
<1> USE DEF nodeVars, lifeVars, wantVars, streamVars
<1>1. At[e] \in Node /\ Opp[e] \in End
  BY EndsAssumption
<1>2. CASE CloseConnection(e)
  <2>1. <<>> \in Seq(Message(LinkTypes))
    OBVIOUS
  <2>2. link' \in [End -> Seq(Message(LinkTypes))]
    BY <1>2, <2>1 DEF CloseConnection, TypeOK
  <2>3. cut' \subseteq End
    BY <1>1, <1>2 DEF CloseConnection, TypeOK
  <2>4. QED
    BY <1>2, <2>2, <2>3 DEF CloseConnection, TypeOK
<1>3. CASE Stop(e)
  BY <1>1, <1>3 DEF Stop, TypeOK
<1>4. QED
  BY <1>2, <1>3 DEF Fail, LoseConnection, WantTimeout, DecodeThrows

\* A step of outboundWire puts the head out of the queue, giving a serve mark back
\* if it was a pump without its file, or goes on with the pump at the head.
LEMMA WriteShapes ==
    ASSUME TypeOK, NEW e \in End, Write(e)
    PROVE  LET m == Head(outbound[e]) IN
           /\ outbound[e] # <<>>
           /\ \/ /\ outbound' = [outbound EXCEPT ![e] = Tail(@)]
                 /\ \/ served' = served
                    \/ /\ m.type \in {"pump", "open"}
                       /\ served' = [served EXCEPT ![At[e]] = @ \ m.refs]
              \/ \E t \in {"open", "body"} :
                    /\ m.type \in {"pump", "open"}
                    /\ t = "open" => e \notin Bulk
                    /\ outbound' = [outbound EXCEPT ![e] = <<Msg(t, m.refs)>> \o Tail(@)]
                    /\ served' = served
<1> USE DEF nodeVars
<1>1. CASE WriteFrame(e) \/ PumpBody(e)
  BY <1>1 DEF WriteFrame, PumpBody
<1>2. CASE PumpBegin(e)
  <2>1. Pumping(e, Head(outbound[e]).refs)
          = <<Msg(AfterBegin(e), Head(outbound[e]).refs)>> \o Tail(outbound[e])
    BY DEF Pumping
  <2>2. AfterBegin(e) \in {"open", "body"} /\ (AfterBegin(e) = "open" => e \notin Bulk)
    BY DEF AfterBegin
  <2>3. outbound[e] # <<>> /\ Head(outbound[e]).type = "pump"
    BY <1>2 DEF PumpBegin
  <2>4. CASE PumpFails(e)
    BY <2>3, <2>4 DEF PumpFails
  <2>5. CASE ~ PumpFails(e)
    <3>1. /\ served' = served
          /\ outbound' = [outbound EXCEPT
                 ![e] = <<Msg(AfterBegin(e), Head(outbound[e]).refs)>> \o Tail(@)]
      BY <1>2, <2>1, <2>5 DEF PumpBegin
    <3>2. QED
      BY <2>2, <2>3, <3>1
  <2>6. QED
    BY <2>4, <2>5
<1>3. CASE PumpOpen(e)
  <2>1. outbound[e] # <<>> /\ Head(outbound[e]).type = "open"
    BY <1>3 DEF PumpOpen
  <2>2. CASE PumpFails(e)
    BY <2>1, <2>2 DEF PumpFails
  <2>3. CASE ~ PumpFails(e)
    BY <1>3, <2>1, <2>3 DEF PumpOpen
  <2>4. QED
    BY <2>2, <2>3
<1>4. QED
  BY <1>1, <1>2, <1>3 DEF Write

\* Every write and pump on outboundWire keeps the types.
LEMMA WriteTyped ==
    ASSUME TypeOK, NEW e \in End, Write(e)
    PROVE  TypeOK'
<1> USE DEF nodeVars, lifeVars, wantVars, streamVars
<1> DEFINE m == Head(outbound[e])
<1>1. /\ m \in Message(OutTypes)
      /\ Tail(outbound[e]) \in Seq(Message(OutTypes))
  BY Heads, WriteShapes
<1>2. /\ m.refs \in SUBSET Object
      /\ m.type \in {"pump", "open", "body"} => m.refs \subseteq Block
  BY <1>1 DEF Message
<1>3. outbound' \in [End -> Seq(Message(OutTypes))] /\ served' \in [Node -> SUBSET Block]
  <2>1. ASSUME NEW t \in {"open", "body"}, m.type \in {"pump", "open"}
        PROVE  <<Msg(t, m.refs)>> \o Tail(outbound[e]) \in Seq(Message(OutTypes))
    <3>1. Msg(t, m.refs) \in Message(OutTypes)
      BY <1>2, <2>1, ControlMessage DEF OutTypes
    <3>2. <<Msg(t, m.refs)>> \in Seq(Message(OutTypes))
      BY <3>1
    <3>3. QED
      BY <1>1, <3>2, ConcatProperties
  <2>2. /\ \/ outbound' = [outbound EXCEPT ![e] = Tail(@)]
           \/ \E t \in {"open", "body"} :
                 /\ m.type \in {"pump", "open"}
                 /\ outbound' = [outbound EXCEPT ![e] = <<Msg(t, m.refs)>> \o Tail(@)]
        /\ \/ served' = served
           \/ served' = [served EXCEPT ![At[e]] = @ \ m.refs]
    BY WriteShapes
  <2>3. outbound \in [End -> Seq(Message(OutTypes))] /\ served \in [Node -> SUBSET Block]
    BY DEF TypeOK
  <2>4. outbound' \in [End -> Seq(Message(OutTypes))]
    BY <1>1, <2>1, <2>2, <2>3
  <2>5. served' \in [Node -> SUBSET Block]
    BY <2>2, <2>3
  <2>6. QED
    BY <2>4, <2>5
<1>4. link' \in [End -> Seq(Message(LinkTypes))]
  <2>1. /\ WriteFrame(e) => Written(e, m.type, m.refs) \in [End -> Seq(Message(LinkTypes))]
        /\ PumpBody(e) => Written(e, "body", m.refs) \in [End -> Seq(Message(LinkTypes))]
        /\ PumpBegin(e) => Written(e, "begin", m.refs) \in [End -> Seq(Message(LinkTypes))]
    BY <1>2, WrittenTyped DEF WriteFrame, PumpBody, PumpBegin, LinkTypes
  <2>2. QED
    BY <2>1 DEF Write, WriteFrame, PumpBegin, PumpOpen, PumpBody, TypeOK
<1>5. torn' \subseteq End
  BY DEF Write, WriteFrame, PumpBegin, PumpOpen, PumpBody, TypeOK
<1>6. UNCHANGED <<stored, journal, pendingHave, inflight, lifeVars, inbound, wantVars,
                  receiving, discarding, finishing, renamed, adrift, offered>>
  BY DEF Write, WriteFrame, PumpBegin, PumpOpen, PumpBody
<1>7. QED
  BY <1>3, <1>4, <1>5, <1>6 DEF TypeOK

\* The end of a stream keeps the types of what it touches.
LEMMA DetachTyped ==
    ASSUME TypeOK, NEW e \in End, DetachStream(e)
    PROVE  /\ receiving' \in [End -> SUBSET Block]
           /\ discarding' \in [End -> SUBSET Block]
           /\ claimed' \in [End -> SUBSET Block]
           /\ inflight' \in [Node -> SUBSET Block]
           /\ armed' \in [End -> SUBSET Block]
<1>1. At[e] \in Node
  BY EndsAssumption
<1>2. QED
  BY <1>1 DEF DetachStream, TypeOK

\* Every item decoded, rightly or not, keeps the types.
LEMMA DecodeTyped ==
    ASSUME TypeOK, NEW e \in End, Decode(e)
    PROVE  TypeOK'
<1> USE DEF nodeVars, lifeVars, wantVars, streamVars
<1> DEFINE m == Head(link[e])
<1>1. /\ m \in Message(LinkTypes)
      /\ Tail(link[e]) \in Seq(Message(LinkTypes))
      /\ link' = [link EXCEPT ![e] = Tail(@)]
  BY Heads DEF Decode, DecodeFrame, DecodeBegin, DecodeBody, DecodeMisread, Arrives
<1>2. link' \in [End -> Seq(Message(LinkTypes))]
  BY <1>1 DEF TypeOK
<1>3. CASE DecodeFrame(e)
  <2>1. m \in Message(QueuedTypes)
    BY <1>1, <1>3 DEF DecodeFrame, Arrives, Message, QueuedTypes
  <2>2. inbound' \in [End -> Seq(Message(QueuedTypes))]
    <3>1. Append(inbound[e], m) \in Seq(Message(QueuedTypes))
      BY <2>1, AppendProperties DEF TypeOK
    <3>2. QED
      BY <1>3, <3>1 DEF DecodeFrame, TypeOK
  <2>3. UNCHANGED <<nodeVars, lifeVars, outbound, wantVars, streamVars, offered>>
    BY <1>3 DEF DecodeFrame
  <2>4. QED
    BY <1>2, <2>2, <2>3 DEF TypeOK
<1>4. CASE DecodeBegin(e)
  <2>1. m.refs \in SUBSET Block
    BY <1>1, <1>4 DEF DecodeBegin, Arrives, Message
  <2>2. /\ armed' \in [End -> SUBSET Block]
        /\ receiving' \in [End -> SUBSET Block]
        /\ discarding' \in [End -> SUBSET Block]
    BY <1>4, <2>1 DEF DecodeBegin, TypeOK
  <2>3. UNCHANGED <<nodeVars, lifeVars, inbound, outbound, claimed, finishing,
                    renamed, adrift, torn, offered>>
    BY <1>4 DEF DecodeBegin
  <2>4. QED
    BY <1>2, <2>2, <2>3 DEF TypeOK
<1>5. CASE DecodeBody(e)
  <2>1. finishing' \in [End -> SUBSET Block]
    BY <1>5 DEF DecodeBody, TypeOK
  <2>2. UNCHANGED <<stored, journal, pendingHave, served, lifeVars, inbound,
                    outbound, renamed, adrift, torn, offered>>
    BY <1>5 DEF DecodeBody
  <2>3. DetachStream(e)
    BY <1>5 DEF DecodeBody
  <2>4. QED
    BY <1>2, <2>1, <2>2, <2>3, DetachTyped DEF TypeOK
<1>6. CASE DecodeMisread(e)
  <2>1. UNCHANGED <<stored, journal, pendingHave, served, lifeVars, inbound,
                    outbound, finishing, renamed, torn, offered>>
    BY <1>6 DEF DecodeMisread
  <2>2. /\ DetachStream(e) \/ UNCHANGED <<receiving, discarding, claimed, inflight, armed>>
        /\ adrift' \subseteq End
    BY <1>6 DEF DecodeMisread, TypeOK
  <2>3. CASE DetachStream(e)
    BY <1>2, <2>1, <2>2, <2>3, DetachTyped DEF TypeOK
  <2>4. CASE UNCHANGED <<receiving, discarding, claimed, inflight, armed>>
    BY <1>2, <2>1, <2>2, <2>4 DEF TypeOK
  <2>5. QED
    BY <2>2, <2>3, <2>4
<1>7. QED
  BY <1>3, <1>4, <1>5, <1>6 DEF Decode

\* Putting a received block in place and announcing it keeps the types.
LEMMA FinalizeTyped ==
    ASSUME TypeOK, NEW e \in End, Finalize(e)
    PROVE  TypeOK'
<1> USE DEF nodeVars, lifeVars, wantVars, streamVars
<1>1. At[e] \in Node
  BY EndsAssumption
<1>2. PICK b \in Block : FinishStream(e, b) \/ FinishInvalid(e, b) \/ MarkBlockStored(e, b)
  BY DEF Finalize
<1>3. b \in Object
  BY DEF Object
<1>4. CASE FinishStream(e, b)
  BY <1>1, <1>3, <1>4 DEF FinishStream, TypeOK
<1>5. CASE FinishInvalid(e, b)
  BY <1>5 DEF FinishInvalid, TypeOK
<1>6. CASE MarkBlockStored(e, b)
  <2>1. outbound \in [End -> Seq(Message(OutTypes))] /\ {b} \in SUBSET Object
    BY <1>3 DEF TypeOK
  <2>2. /\ pendingHave' \in [Node -> SUBSET Object]
        /\ outbound' \in [End -> Seq(Message(OutTypes))]
        /\ offered' \in [End -> SUBSET Object]
    BY <1>1, <1>6, <2>1, BroadcastTyped DEF MarkBlockStored
  <2>3. /\ renamed' \in [End -> SUBSET Block]
        /\ journal' \in [Node -> SUBSET Object]
    BY <1>1, <1>3, <1>6 DEF MarkBlockStored, TypeOK
  <2>4. UNCHANGED <<stored, inflight, served, lifeVars, inbound, link, wantVars,
                    receiving, discarding, finishing, adrift, torn>>
    BY <1>6 DEF MarkBlockStored
  <2>5. QED
    BY <2>2, <2>3, <2>4 DEF TypeOK
<1>7. QED
  BY <1>2, <1>4, <1>5, <1>6

\* Every handler of a have, a want or a data message keeps the types.
LEMMA HandleTyped ==
    ASSUME TypeOK, NEW e \in End, Handle(e)
    PROVE  TypeOK'
<1> USE DEF nodeVars, lifeVars, wantVars, streamVars
<1> DEFINE m == Head(inbound[e])
<1>1. At[e] \in Node
  BY EndsAssumption
<1>2. inbound[e] # <<>>
  BY DEF Handle, Running, HaveMissing, HaveWants, AcceptData, DependencyWants,
         ServeBlock, ServeEvent
<1>3. m.refs \in SUBSET Object
  BY <1>2, Heads DEF Message
<1>4. outbound \in [End -> Seq(Message(OutTypes))]
  BY DEF TypeOK
<1>5. ASSUME NEW refs \in SUBSET Object
      PROVE  [outbound EXCEPT ![e] = @ \o WantsOf(refs)] \in [End -> Seq(Message(OutTypes))]
  <2>1. outbound[e] \o WantsOf(refs) \in Seq(Message(OutTypes))
    BY <1>4, <1>5, SentMessages, ConcatProperties
  <2>2. QED
    BY <1>4, <2>1
<1>6. ASSUME NEW t \in {"pump", "data"}, NEW refs \in SUBSET Object,
             t = "data" \/ refs \subseteq Block
      PROVE  [outbound EXCEPT ![e] = Append(@, Msg(t, refs))]
                \in [End -> Seq(Message(OutTypes))]
  <2>1. Msg(t, refs) \in Message(OutTypes)
    BY <1>6, ControlMessage DEF OutTypes
  <2>2. Append(outbound[e], Msg(t, refs)) \in Seq(Message(OutTypes))
    BY <1>4, <2>1, AppendProperties
  <2>3. QED
    BY <1>4, <2>2
<1>7. ASSUME NEW x \in Object
      PROVE  (IF m.refs \ {x} = {} THEN Done(e) ELSE Replace(e, "want", m.refs \ {x}))
                \in [End -> Seq(Message(QueuedTypes))]
  BY <1>2, <1>3, HandlerTyped
<1>8. CASE HaveMissing(e)
  <2>1. inbound' \in [End -> Seq(Message(QueuedTypes))]
    BY <1>2, <1>3, <1>8, HandlerTyped DEF HaveMissing
  <2>2. QED
    BY <1>8, <2>1 DEF HaveMissing, TypeOK
<1>9. CASE HaveWants(e)
  <2> DEFINE won == Claimable(e, m.refs)
             wants == won \cup (m.refs \cap Event)
  <2>1. won \in SUBSET Block /\ wants \in SUBSET Object
    BY <1>3 DEF Claimable, Object
  <2>2. inbound' \in [End -> Seq(Message(QueuedTypes))]
    BY <1>2, <1>9, HandlerTyped DEF HaveWants
  <2>3. outbound' \in [End -> Seq(Message(OutTypes))]
    BY <1>5, <1>9, <2>1 DEF HaveWants
  <2>4. armed' \in [End -> SUBSET Block]
    BY <1>9, ArmTyped DEF HaveWants
  <2>5. /\ claimed' \in [End -> SUBSET Block]
        /\ inflight' \in [Node -> SUBSET Block]
    BY <1>1, <1>9, <2>1 DEF HaveWants, TypeOK
  <2>6. UNCHANGED <<stored, journal, pendingHave, served, lifeVars, link,
                    streamVars, offered>>
    BY <1>9 DEF HaveWants
  <2>7. QED
    BY <2>2, <2>3, <2>4, <2>5, <2>6 DEF TypeOK
<1>10. CASE AcceptData(e)
  <2> DEFINE new == m.refs \ stored[At[e]]
             store == stored[At[e]] \cup new
  <2>1. new \in SUBSET Object /\ store \in SUBSET Object
    BY <1>1, <1>3 DEF TypeOK
  <2>2. Broadcast(At[e], new, store, outbound)
    BY <1>10 DEF AcceptData
  <2>3. /\ pendingHave' \in [Node -> SUBSET Object]
        /\ outbound' \in [End -> Seq(Message(OutTypes))]
        /\ offered' \in [End -> SUBSET Object]
    <3> HIDE DEF new, store
    <3>1. QED
      BY <1>1, <1>4, <2>1, <2>2, BroadcastTyped
  <2>4. inbound' \in [End -> Seq(Message(QueuedTypes))]
    BY <1>2, <1>3, <1>10, HandlerTyped DEF AcceptData
  <2>5. /\ stored' \in [Node -> SUBSET Object]
        /\ journal' \in [Node -> SUBSET Object]
    BY <1>1, <1>10, <2>1 DEF AcceptData, TypeOK
  <2>6. UNCHANGED <<inflight, served, lifeVars, link, wantVars, streamVars>>
    BY <1>10 DEF AcceptData
  <2>7. QED
    BY <2>3, <2>4, <2>5, <2>6 DEF TypeOK
<1>11. CASE DependencyWants(e)
  <2> DEFINE lacking == Lacking(At[e], m.refs)
  <2>1. lacking \in SUBSET Object
    BY DataAssumption DEF Lacking
  <2>2. outbound' \in [End -> Seq(Message(OutTypes))]
    <3>1. outbound' = [outbound EXCEPT ![e] = @ \o WantsOf(lacking)]
      BY <1>11 DEF DependencyWants
    <3>2. QED
      BY <1>5, <2>1, <3>1
  <2>3. armed' \in [End -> SUBSET Block]
    <3>1. Arm(e, lacking)
      BY <1>11 DEF DependencyWants
    <3>2. QED
      BY <3>1, ArmTyped
  <2>4. inbound' \in [End -> Seq(Message(QueuedTypes))]
    BY <1>2, <1>11, HandlerTyped DEF DependencyWants
  <2>5. UNCHANGED <<nodeVars, lifeVars, link, claimed, streamVars, offered>>
    BY <1>11 DEF DependencyWants
  <2>6. QED
    BY <2>2, <2>3, <2>4, <2>5 DEF TypeOK
<1>12. CASE \E b \in Block : ServeBlock(e, b)
  <2>1. PICK b \in Block : ServeBlock(e, b)
    BY <1>12
  <2>2. inbound' \in [End -> Seq(Message(QueuedTypes))]
    BY <1>7, <2>1 DEF ServeBlock, Object
  <2>3. /\ outbound' = outbound
           \/ outbound' = [outbound EXCEPT ![e] = Append(@, Msg("pump", {b}))]
        /\ served' = served \/ served' = [served EXCEPT ![At[e]] = @ \cup {b}]
        /\ UNCHANGED <<stored, journal, pendingHave, inflight, lifeVars, link,
                       wantVars, streamVars, offered>>
    BY <2>1 DEF ServeBlock
  <2>4. outbound' \in [End -> Seq(Message(OutTypes))]
    <3>1. {b} \in SUBSET Object /\ {b} \subseteq Block
      BY DEF Object
    <3>2. QED
      BY <1>4, <1>6, <2>3, <3>1
  <2>5. served' \in [Node -> SUBSET Block]
    <3>1. served \in [Node -> SUBSET Block]
      BY DEF TypeOK
    <3>2. QED
      BY <1>1, <2>3, <3>1
  <2>6. QED
    BY <2>2, <2>3, <2>4, <2>5 DEF TypeOK
<1>13. CASE \E v \in Event : ServeEvent(e, v)
  <2>1. PICK v \in Event : ServeEvent(e, v)
    BY <1>13
  <2>2. inbound' \in [End -> Seq(Message(QueuedTypes))]
    BY <1>7, <2>1 DEF ServeEvent, Object
  <2>3. outbound' \in [End -> Seq(Message(OutTypes))]
    BY <1>4, <1>6, <2>1 DEF ServeEvent, Object
  <2>4. QED
    BY <2>1, <2>2, <2>3 DEF ServeEvent, TypeOK
<1>14. QED
  BY <1>8, <1>9, <1>10, <1>11, <1>12, <1>13 DEF Handle

\* Type correctness of the exchange.
THEOREM TypeCorrect == Spec => []TypeOK
<1>1. Init => TypeOK
  <2> SUFFICES ASSUME Init PROVE TypeOK
    OBVIOUS
  <2>1. \A T : <<>> \in Seq(T)
    OBVIOUS
  <2>2. QED
    BY <2>1, DataAssumption DEF Init, TypeOK
<1>2. TypeOK /\ [Next]_vars => TypeOK'
  <2> SUFFICES ASSUME TypeOK, [Next]_vars PROVE TypeOK'
    OBVIOUS
  <2> USE DEF nodeVars, lifeVars, wantVars, streamVars
  <2>1. ASSUME NEW e \in End,
               Start(e) \/ Write(e) \/ Decode(e) \/ Handle(e) \/ Finalize(e) \/ Fail(e)
        PROVE  TypeOK'
    BY <2>1, StartTyped, WriteTyped, DecodeTyped, HandleTyped, FinalizeTyped, FailTyped
  <2>2. ASSUME NEW n \in Node, NEW o \in Object, LocalWrite(n, o)
        PROVE  TypeOK'
    <3>1. outbound \in [End -> Seq(Message(OutTypes))] /\ {o} \in SUBSET Object
      BY DEF TypeOK
    <3>2. /\ pendingHave' \in [Node -> SUBSET Object]
          /\ outbound' \in [End -> Seq(Message(OutTypes))]
          /\ offered' \in [End -> SUBSET Object]
      BY <2>2, <3>1, BroadcastTyped DEF LocalWrite
    <3>3. /\ stored' \in [Node -> SUBSET Object]
          /\ journal' \in [Node -> SUBSET Object]
      BY <2>2 DEF LocalWrite, TypeOK
    <3>4. UNCHANGED <<inflight, served, lifeVars, inbound, link, wantVars, streamVars>>
      BY <2>2 DEF LocalWrite
    <3>5. QED
      BY <3>2, <3>3, <3>4 DEF TypeOK
  <2>3. ASSUME NEW n \in Node, NEW b \in Block, Evict(n, b)
        PROVE  TypeOK'
    BY <2>3 DEF Evict, TypeOK
  <2>4. CASE UNCHANGED vars
    BY <2>4 DEF vars, TypeOK
  <2>5. QED
    BY <2>1, <2>2, <2>3, <2>4 DEF Next
<1>3. QED
  BY <1>1, <1>2, PTL DEF Spec

-----------------------------------------------------------------------------
(* The want registry *)

\* Only three steps touch the registry or a session's claims; every other one
\* leaves both alone.
LEMMA RegistrySteps ==
    ASSUME [Next]_vars
    PROVE  \/ \E e \in End : HaveWants(e) \/ DetachStream(e) \/ Stop(e)
           \/ UNCHANGED <<inflight, claimed>>
<1> USE DEF nodeVars, lifeVars, wantVars, streamVars
<1> DEFINE Changes == \E e \in End : HaveWants(e) \/ DetachStream(e) \/ Stop(e)
           Keeps == UNCHANGED <<inflight, claimed>>
<1>1. ASSUME NEW e \in End, Start(e) PROVE Keeps
  BY <1>1 DEF Start, Attach, AttachList, AttachAnnounce, OrphanRepair
<1>2. ASSUME NEW e \in End, Write(e) PROVE Keeps
  BY <1>2 DEF Write, WriteFrame, PumpBegin, PumpOpen, PumpFails, PumpBody
<1>3. ASSUME NEW e \in End, Decode(e) PROVE Changes \/ Keeps
  BY <1>3 DEF Decode, DecodeFrame, DecodeBegin, DecodeBody, DecodeMisread
<1>4. ASSUME NEW e \in End, Handle(e) PROVE Changes \/ Keeps
  BY <1>4 DEF Handle, HaveMissing, AcceptData, DependencyWants, ServeBlock, ServeEvent
<1>5. ASSUME NEW e \in End, Finalize(e) PROVE Keeps
  BY <1>5 DEF Finalize, FinishStream, FinishInvalid, MarkBlockStored
<1>6. ASSUME NEW e \in End, Fail(e) PROVE Changes \/ Keeps
  BY <1>6 DEF Fail, LoseConnection, WantTimeout, DecodeThrows, CloseConnection
<1>7. ASSUME NEW n \in Node, NEW x \in Object, LocalWrite(n, x) \/ Evict(n, x)
      PROVE  Keeps
  BY <1>7 DEF LocalWrite, Evict
<1>8. CASE UNCHANGED vars
  BY <1>8 DEF vars
<1>9. QED
  BY <1>1, <1>2, <1>3, <1>4, <1>5, <1>6, <1>7, <1>8 DEF Next, Object

\* The registry stays the disjoint union of the sessions' claims when a session
\* takes slots that were free.
LEMMA LedgerTake ==
    ASSUME TypeOK, ClaimLedger, NEW e \in End, NEW won \in SUBSET Block,
           won \cap inflight[At[e]] = {},
           claimed' = [claimed EXCEPT ![e] = @ \cup won],
           inflight' = [inflight EXCEPT ![At[e]] = @ \cup won]
    PROVE  ClaimLedger'
<1>1. ASSUME NEW n \in Node
      PROVE  inflight'[n] = UNION {claimed'[f] : f \in EndsAt(n)}
  <2>1. inflight[n] = UNION {claimed[f] : f \in EndsAt(n)}
    BY DEF ClaimLedger
  <2>2. CASE At[e] = n
    <3>1. inflight'[n] = inflight[n] \cup won
      BY <2>2 DEF TypeOK
    <3>2. e \in EndsAt(n)
      BY <2>2 DEF EndsAt
    <3>3. \A f \in EndsAt(n) :
            claimed'[f] = IF f = e THEN claimed[f] \cup won ELSE claimed[f]
      BY DEF TypeOK, EndsAt
    <3>4. QED
      BY <2>1, <3>1, <3>2, <3>3
  <2>3. CASE At[e] # n
    <3>1. inflight'[n] = inflight[n]
      BY <2>3 DEF TypeOK
    <3>2. \A f \in EndsAt(n) : claimed'[f] = claimed[f]
      BY <2>3 DEF TypeOK, EndsAt
    <3>3. QED
      BY <2>1, <3>1, <3>2
  <2>4. QED
    BY <2>2, <2>3
<1>2. \A f \in End : At[f] = At[e] => won \cap claimed[f] = {}
  <2> SUFFICES ASSUME NEW f \in End, At[f] = At[e]
               PROVE  claimed[f] \subseteq inflight[At[e]]
    OBVIOUS
  <2>1. f \in EndsAt(At[e]) /\ At[e] \in Node
    BY EndsAssumption DEF EndsAt
  <2>2. QED
    BY <2>1 DEF ClaimLedger
<1>3. ASSUME NEW f \in End, NEW g \in End, f # g, At[f] = At[g]
      PROVE  claimed'[f] \cap claimed'[g] = {}
  <2>1. claimed[f] \cap claimed[g] = {}
    BY <1>3 DEF ClaimLedger
  <2>2. /\ claimed'[f] = IF f = e THEN claimed[f] \cup won ELSE claimed[f]
        /\ claimed'[g] = IF g = e THEN claimed[g] \cup won ELSE claimed[g]
    BY DEF TypeOK
  <2>3. QED
    BY <1>2, <1>3, <2>1, <2>2
<1>4. QED
  BY <1>1, <1>3 DEF ClaimLedger, EndsAt

\* The same when a session gives back slots of its own.
LEMMA LedgerGiveBack ==
    ASSUME TypeOK, ClaimLedger, NEW e \in End, NEW own \in SUBSET claimed[e],
           claimed' = [claimed EXCEPT ![e] = @ \ own],
           inflight' = [inflight EXCEPT ![At[e]] = @ \ own]
    PROVE  ClaimLedger'
<1>1. \A f \in End : (f # e /\ At[f] = At[e]) => own \cap claimed[f] = {}
  BY DEF ClaimLedger
<1>2. ASSUME NEW n \in Node
      PROVE  inflight'[n] = UNION {claimed'[f] : f \in EndsAt(n)}
  <2>1. inflight[n] = UNION {claimed[f] : f \in EndsAt(n)}
    BY DEF ClaimLedger
  <2>2. CASE At[e] = n
    <3>1. inflight'[n] = inflight[n] \ own
      BY <2>2 DEF TypeOK
    <3>2. \A f \in EndsAt(n) : claimed'[f] = claimed[f] \ own
      <4>1. \A f \in EndsAt(n) : f # e => own \cap claimed[f] = {}
        BY <1>1, <2>2 DEF EndsAt
      <4>2. \A f \in EndsAt(n) :
              claimed'[f] = IF f = e THEN claimed[f] \ own ELSE claimed[f]
        BY DEF TypeOK, EndsAt
      <4>3. QED
        BY <4>1, <4>2
    <3>3. QED
      BY <2>1, <3>1, <3>2
  <2>3. CASE At[e] # n
    <3>1. inflight'[n] = inflight[n]
      BY <2>3 DEF TypeOK
    <3>2. \A f \in EndsAt(n) : claimed'[f] = claimed[f]
      BY <2>3 DEF TypeOK, EndsAt
    <3>3. QED
      BY <2>1, <3>1, <3>2
  <2>4. QED
    BY <2>2, <2>3
<1>3. \A f \in End : claimed'[f] \subseteq claimed[f]
  BY DEF TypeOK
<1>4. \A f, g \in End : (f # g /\ At[f] = At[g]) => claimed'[f] \cap claimed'[g] = {}
  BY <1>3 DEF ClaimLedger
<1>5. QED
  BY <1>2, <1>4 DEF ClaimLedger, EndsAt

\* For any number of nodes and sessions, the registry of a node is the disjoint
\* union of what its sessions claimed.
THEOREM RegistryIsLedger == Spec => []ClaimLedger
<1>1. Init => ClaimLedger
  BY DEF Init, ClaimLedger, EndsAt
<1>2. TypeOK /\ ClaimLedger /\ [Next]_vars => ClaimLedger'
  <2> SUFFICES ASSUME TypeOK, ClaimLedger, [Next]_vars
               PROVE  ClaimLedger'
    OBVIOUS
  <2>1. ASSUME NEW e \in End, HaveWants(e)
        PROVE  ClaimLedger'
    <3> DEFINE won == Claimable(e, Head(inbound[e]).refs)
    <3>1. won \in SUBSET Block /\ won \cap inflight[At[e]] = {}
      BY DEF Claimable
    <3>2. /\ claimed' = [claimed EXCEPT ![e] = @ \cup won]
          /\ inflight' = [inflight EXCEPT ![At[e]] = @ \cup won]
      BY <2>1 DEF HaveWants
    <3> HIDE DEF won
    <3>3. QED
      BY <3>1, <3>2, LedgerTake
  <2>2. ASSUME NEW e \in End, DetachStream(e)
        PROVE  ClaimLedger'
    <3>1. Released(e) \in SUBSET claimed[e]
      BY DEF Released
    <3>2. /\ claimed' = [claimed EXCEPT ![e] = @ \ Released(e)]
          /\ inflight' = [inflight EXCEPT ![At[e]] = @ \ Released(e)]
      BY <2>2 DEF DetachStream
    <3>3. QED
      BY <3>1, <3>2, LedgerGiveBack
  <2>3. ASSUME NEW e \in End, Stop(e)
        PROVE  ClaimLedger'
    <3>1. /\ claimed' = [claimed EXCEPT ![e] = @ \ claimed[e]]
          /\ inflight' = [inflight EXCEPT ![At[e]] = @ \ claimed[e]]
      BY <2>3 DEF Stop, TypeOK
    <3>2. QED
      BY <3>1, LedgerGiveBack
  <2>4. CASE UNCHANGED <<inflight, claimed>>
    BY <2>4 DEF ClaimLedger, EndsAt
  <2>5. QED
    BY <2>1, <2>2, <2>3, <2>4, RegistrySteps
<1>3. QED
  BY <1>1, <1>2, TypeCorrect, PTL DEF Spec

\* Other steps than the four that claim, begin, end or stop leave claims and open
\* streams alone, stop no timer and bring no end back from stop.
LEMMA WatchSteps ==
    ASSUME TypeOK, [Next]_vars
    PROVE  \/ \E e \in End : HaveWants(e) \/ DecodeBegin(e) \/ Stop(e)
                            \/ (DetachStream(e) /\ phase' = phase)
           \/ /\ UNCHANGED <<claimed, receiving, discarding>>
              /\ \A f \in End : /\ armed[f] \subseteq armed'[f]
                                /\ phase'[f] # "stopped" => phase[f] # "stopped"
<1> USE DEF nodeVars, lifeVars, wantVars, streamVars
<1> DEFINE Changes == \E e \in End : HaveWants(e) \/ DecodeBegin(e) \/ Stop(e)
                            \/ (DetachStream(e) /\ phase' = phase)
           Keeps == /\ UNCHANGED <<claimed, receiving, discarding>>
                    /\ \A f \in End :
                          /\ armed[f] \subseteq armed'[f]
                          /\ phase'[f] # "stopped" => phase[f] # "stopped"
<1>1. ASSUME UNCHANGED <<claimed, receiving, discarding, armed, phase>> PROVE Keeps
  BY <1>1
<1>2. ASSUME NEW e \in End, Attach(e) \/ AttachList(e) \/ AttachAnnounce(e)
      PROVE  Keeps
  <2>1. UNCHANGED <<claimed, receiving, discarding, armed>>
    BY <1>2 DEF Attach, AttachList, AttachAnnounce
  <2>2. \A f \in End : phase'[f] # "stopped" => phase[f] # "stopped"
    BY <1>2 DEF Attach, AttachList, AttachAnnounce, TypeOK
  <2>3. QED
    BY <2>1, <2>2
<1>3. ASSUME NEW e \in End, OrphanRepair(e) PROVE Keeps
  <2>1. UNCHANGED <<claimed, receiving, discarding, phase>>
    BY <1>3 DEF OrphanRepair
  <2>2. \A f \in End : armed[f] \subseteq armed'[f]
    BY <1>3 DEF OrphanRepair, Arm, TypeOK
  <2>3. QED
    BY <2>1, <2>2
<1>4. ASSUME NEW e \in End, Write(e) PROVE Keeps
  BY <1>1, <1>4 DEF Write, WriteFrame, PumpBegin, PumpOpen, PumpFails, PumpBody
<1>5. ASSUME NEW e \in End, Decode(e) PROVE Changes \/ Keeps
  <2>1. CASE DecodeFrame(e) \/ DecodeBegin(e)
    BY <1>1, <2>1 DEF DecodeFrame
  <2>2. CASE DecodeBody(e) \/ DecodeMisread(e)
    <3>1. phase' = phase /\ (DetachStream(e) \/ UNCHANGED <<claimed, receiving, discarding, armed>>)
      BY <2>2 DEF DecodeBody, DecodeMisread
    <3>2. QED
      BY <1>1, <3>1
  <2>3. QED
    BY <1>5, <2>1, <2>2 DEF Decode
<1>6. ASSUME NEW e \in End, DependencyWants(e) PROVE Keeps
  <2>1. UNCHANGED <<claimed, receiving, discarding, phase>>
    BY <1>6 DEF DependencyWants
  <2>2. \A f \in End : armed[f] \subseteq armed'[f]
    BY <1>6 DEF DependencyWants, Arm, TypeOK
  <2>3. QED
    BY <2>1, <2>2
<1>7. ASSUME NEW e \in End, Handle(e) PROVE Changes \/ Keeps
  BY <1>1, <1>6, <1>7 DEF Handle, HaveMissing, AcceptData, ServeBlock, ServeEvent
<1>8. ASSUME NEW e \in End, Finalize(e) PROVE Keeps
  BY <1>1, <1>8 DEF Finalize, FinishStream, FinishInvalid, MarkBlockStored
<1>9. ASSUME NEW e \in End, Fail(e) PROVE Changes \/ Keeps
  BY <1>1, <1>9 DEF Fail, LoseConnection, WantTimeout, DecodeThrows, CloseConnection
<1>10. ASSUME NEW n \in Node, NEW x \in Object, LocalWrite(n, x) \/ Evict(n, x)
       PROVE  Keeps
  BY <1>1, <1>10 DEF LocalWrite, Evict
<1>11. ASSUME UNCHANGED vars PROVE Keeps
  BY <1>1, <1>11 DEF vars
<1>12. ASSUME NEW e \in End, Start(e) \/ Write(e) \/ Decode(e) \/ Handle(e)
                              \/ Finalize(e) \/ Fail(e)
       PROVE  Changes \/ Keeps
  <2> HIDE DEF Changes, Keeps
  <2>1. CASE Start(e)
    <3>1. Attach(e) \/ AttachList(e) \/ AttachAnnounce(e) \/ OrphanRepair(e)
      BY <2>1 DEF Start
    <3>2. QED
      BY <1>2, <1>3, <3>1
  <2>2. CASE Write(e)
    BY <1>4, <2>2
  <2>3. CASE Decode(e)
    BY <1>5, <2>3
  <2>4. CASE Handle(e)
    BY <1>7, <2>4
  <2>5. CASE Finalize(e)
    BY <1>8, <2>5
  <2>6. CASE Fail(e)
    BY <1>9, <2>6
  <2>7. QED
    BY <1>12, <2>1, <2>2, <2>3, <2>4, <2>5, <2>6
<1>13. Changes \/ Keeps
  <2> HIDE DEF Changes, Keeps
  <2>1. QED
    BY <1>10, <1>11, <1>12 DEF Next, Object
<1>14. QED
  BY <1>13 DEF Changes, Keeps

\* For any number of nodes and sessions, a session that is not stopped watches
\* every slot it holds: with the want timer, or with the stream that has begun.
THEOREM ClaimsAreWatched == Spec => []ClaimsWatched
<1>1. Init => ClaimsWatched
  BY DEF Init, ClaimsWatched
<1>2. TypeOK /\ ClaimsWatched /\ [Next]_vars => ClaimsWatched'
  <2> SUFFICES ASSUME TypeOK, ClaimsWatched, [Next]_vars,
                      NEW f \in End, phase'[f] # "stopped"
               PROVE  claimed'[f] \subseteq armed'[f] \cup receiving'[f] \cup discarding'[f]
    BY DEF ClaimsWatched
  <2> USE DEF nodeVars, lifeVars, wantVars, streamVars
  <2>1. phase[f] # "stopped" =>
          claimed[f] \subseteq armed[f] \cup receiving[f] \cup discarding[f]
    BY DEF ClaimsWatched
  <2>2. ASSUME NEW e \in End, HaveWants(e)
        PROVE  claimed'[f] \subseteq armed'[f] \cup receiving'[f] \cup discarding'[f]
    <3> DEFINE won == Claimable(e, Head(inbound[e]).refs)
    <3>1. /\ UNCHANGED <<phase, receiving, discarding>>
          /\ claimed' = [claimed EXCEPT ![e] = @ \cup won]
          /\ Arm(e, won \cup (Head(inbound[e]).refs \cap Event))
      BY <2>2 DEF HaveWants
    <3>2. won \subseteq Block
      BY DEF Claimable
    <3> HIDE DEF won
    <3>3. CASE f = e
      <4>1. armed'[f] = armed[f] \cup ((won \cup (Head(inbound[e]).refs \cap Event)) \cap Block)
        BY <3>1, <3>3 DEF Arm, TypeOK
      <4>2. claimed'[f] = claimed[f] \cup won
        BY <3>1, <3>3 DEF TypeOK
      <4>3. QED
        BY <2>1, <3>1, <3>2, <4>1, <4>2
    <3>4. CASE f # e
      <4>1. armed'[f] = armed[f] /\ claimed'[f] = claimed[f]
        BY <3>1, <3>4 DEF Arm, TypeOK
      <4>2. QED
        BY <2>1, <3>1, <4>1
    <3>5. QED
      BY <3>3, <3>4
  <2>3. ASSUME NEW e \in End, DecodeBegin(e)
        PROVE  claimed'[f] \subseteq armed'[f] \cup receiving'[f] \cup discarding'[f]
    <3> DEFINE b == Head(link[e]).refs
    <3>1. /\ UNCHANGED <<phase, claimed>>
          /\ armed' = [armed EXCEPT ![e] = @ \ b]
          /\ \/ receiving' = receiving /\ discarding' = [discarding EXCEPT ![e] = b]
             \/ discarding' = discarding /\ receiving' = [receiving EXCEPT ![e] = b]
      BY <2>3 DEF DecodeBegin
    <3>0. OpenStream(e) = {}
      BY <2>3 DEF DecodeBegin, Arrives, Fits
    <3> HIDE DEF b
    <3>2. CASE f = e
      <4>1. armed'[f] = armed[f] \ b /\ b \subseteq receiving'[f] \cup discarding'[f]
        BY <3>1, <3>2 DEF TypeOK
      <4>2. QED
        BY <2>1, <3>0, <3>1, <3>2, <4>1 DEF OpenStream
    <3>3. CASE f # e
      <4>1. /\ armed'[f] = armed[f]
            /\ receiving'[f] = receiving[f]
            /\ discarding'[f] = discarding[f]
        BY <3>1, <3>3 DEF TypeOK
      <4>2. QED
        BY <2>1, <3>1, <4>1
    <3>4. QED
      BY <3>2, <3>3
  <2>4. ASSUME NEW e \in End, DetachStream(e), phase' = phase
        PROVE  claimed'[f] \subseteq armed'[f] \cup receiving'[f] \cup discarding'[f]
    <3>1. /\ phase' = phase
          /\ receiving' = [receiving EXCEPT ![e] = {}]
          /\ discarding' = [discarding EXCEPT ![e] = {}]
          /\ claimed' = [claimed EXCEPT ![e] = @ \ Released(e)]
          /\ armed' = [armed EXCEPT ![e] = @ \ Released(e)]
      BY <2>4 DEF DetachStream
    <3>2. CASE f = e
      <4>1. /\ claimed'[f] = claimed[f] \ Released(f)
            /\ armed'[f] = armed[f] \ Released(f)
        BY <3>1, <3>2 DEF TypeOK
      <4>2. Released(f) = (receiving[f] \cup discarding[f]) \cap claimed[f]
        BY DEF Released, OpenStream
      <4>3. QED
        BY <2>1, <3>1, <4>1, <4>2
    <3>3. CASE f # e
      <4>1. /\ claimed'[f] = claimed[f] /\ armed'[f] = armed[f]
            /\ receiving'[f] = receiving[f] /\ discarding'[f] = discarding[f]
        BY <3>1, <3>3 DEF TypeOK
      <4>2. QED
        BY <2>1, <3>1, <4>1
    <3>4. QED
      BY <3>2, <3>3
  <2>5. ASSUME NEW e \in End, Stop(e)
        PROVE  claimed'[f] \subseteq armed'[f] \cup receiving'[f] \cup discarding'[f]
    <3>1. f # e
      BY <2>5 DEF Stop, TypeOK
    <3>2. /\ claimed'[f] = claimed[f] /\ armed'[f] = armed[f] /\ phase'[f] = phase[f]
          /\ receiving'[f] = receiving[f] /\ discarding'[f] = discarding[f]
      BY <2>5, <3>1 DEF Stop, TypeOK
    <3>3. QED
      BY <2>1, <3>2
  <2>6. CASE /\ UNCHANGED <<claimed, receiving, discarding>>
             /\ \A g \in End : /\ armed[g] \subseteq armed'[g]
                               /\ phase'[g] # "stopped" => phase[g] # "stopped"
    BY <2>1, <2>6
  <2>7. QED
    BY <2>2, <2>3, <2>4, <2>5, <2>6, WatchSteps
<1>3. QED
  BY <1>1, <1>2, TypeCorrect, PTL DEF Spec

-----------------------------------------------------------------------------
(* Announcing *)

\* Journalled and readable objects of a node that no markBlockStored will still
\* announce.
Settled(n) == (journal[n] \cap stored[n]) \ UNION {renamed[f] : f \in EndsAt(n)}

\* JournalOffered is kept together with what holds while the journal is listed:
\* what the listing lacks was pushed, since the end is registered by then.
ListedOrOffered ==
    \A e \in End :
        /\ phase[e] = "listed" => Settled(At[e]) \subseteq offered[e] \cup listing[e]
        /\ phase[e] = "announced" => Settled(At[e]) \subseteq offered[e]

\* A broadcast is an offer to every session that runs at the node, and takes no
\* offer back.
LEMMA BroadcastOffers ==
    ASSUME TypeOK, NEW n \in Node, NEW refs, NEW store, NEW out,
           Broadcast(n, refs, store, out), NEW e \in End
    PROVE  /\ offered[e] \subseteq offered'[e]
           /\ (Live(e) /\ At[e] = n) => refs \cap store \subseteq offered'[e]
<1>1. CASE Announcers(n) = {}
  BY <1>1 DEF Broadcast, Announcers, EndsAt, TypeOK
<1>2. CASE Announcers(n) # {}
  <2>1. offered' = [f \in End |-> IF f \in Announcers(n)
                       THEN offered[f] \cup (refs \cap store) ELSE offered[f]]
    BY <1>2 DEF Broadcast
  <2>2. (Live(e) /\ At[e] = n) => e \in Announcers(n)
    BY DEF Announcers, EndsAt
  <2>3. QED
    BY <2>1, <2>2
<1>3. QED
  BY <1>1, <1>2

\* What becomes settled is offered at once to every session that has listed the
\* journal; only the two steps of the announcement change what is listed.
LEMMA TellSteps ==
    ASSUME TypeOK, [Next]_vars, NEW e \in End, phase'[e] \in {"listed", "announced"}
    PROVE  \/ AttachList(e) \/ AttachAnnounce(e)
           \/ /\ phase'[e] = phase[e]
              /\ listing'[e] = listing[e]
              /\ offered[e] \subseteq offered'[e]
              /\ Settled(At[e])' \subseteq Settled(At[e]) \cup offered'[e]
<1> USE DEF nodeVars, lifeVars, wantVars, streamVars
<1> DEFINE Announces == AttachList(e) \/ AttachAnnounce(e)
           Kept == phase'[e] = phase[e] /\ listing'[e] = listing[e]
           Told == /\ offered[e] \subseteq offered'[e]
                   /\ Settled(At[e])' \subseteq Settled(At[e]) \cup offered'[e]
<1>0. /\ At \in [End -> Node]
      /\ At[e] \in Node
      /\ \A n : EndsAt(n) \subseteq End
      /\ e \in EndsAt(At[e])
  BY EndsAssumption DEF EndsAt
<1>1. ASSUME UNCHANGED <<stored, journal, renamed, offered>> PROVE Told
  BY <1>1 DEF Settled
<1>2. ASSUME NEW f \in End, Start(f) PROVE Announces \/ (Kept /\ Told)
  <2>1. CASE Attach(f)
    <3>1. Kept /\ offered[e] \subseteq offered'[e]
      BY <2>1 DEF Attach, TypeOK
    <3>2. UNCHANGED <<stored, journal, renamed>>
      BY <2>1 DEF Attach
    <3>3. QED
      BY <3>1, <3>2 DEF Settled
  <2>2. CASE AttachList(f)
    BY <2>2, <1>1 DEF AttachList, TypeOK
  <2>3. CASE AttachAnnounce(f)
    <3>1. CASE f = e
      BY <2>3, <3>1
    <3>2. CASE f # e
      <4>1. Kept /\ offered'[e] = offered[e]
        BY <2>3, <3>2 DEF AttachAnnounce, TypeOK
      <4>2. UNCHANGED <<stored, journal, renamed>>
        BY <2>3 DEF AttachAnnounce
      <4>3. QED
        BY <4>1, <4>2 DEF Settled
    <3>3. QED
      BY <3>1, <3>2
  <2>4. CASE OrphanRepair(f)
    BY <2>4, <1>1 DEF OrphanRepair
  <2>5. QED
    BY <1>2, <2>1, <2>2, <2>3, <2>4 DEF Start
<1>3. ASSUME NEW f \in End, Write(f) \/ Decode(f) PROVE Kept /\ Told
  BY <1>1, <1>3 DEF Write, WriteFrame, PumpBegin, PumpOpen, PumpFails, PumpBody,
                    Decode, DecodeFrame, DecodeBegin, DecodeBody, DecodeMisread,
            DetachStream
<1>4. ASSUME NEW f \in End, Handle(f) PROVE Kept /\ Told
  <2>1. CASE AcceptData(f)
    <3> DEFINE n == At[f]
               new == Head(inbound[f]).refs \ stored[n]
    <3>1. /\ Kept
          /\ n \in Node
          /\ stored' = [stored EXCEPT ![n] = @ \cup new]
          /\ journal' = [journal EXCEPT ![n] = @ \cup new]
          /\ renamed' = renamed
          /\ Broadcast(n, new, stored[n] \cup new, outbound)
      BY <1>0, <2>1 DEF AcceptData
    <3> HIDE DEF n, new
    <3>2. /\ offered[e] \subseteq offered'[e]
          /\ At[e] = n => new \subseteq offered'[e]
      BY <3>1, BroadcastOffers DEF Live
    <3>3. journal'[At[e]] \cap stored'[At[e]]
            \subseteq (journal[At[e]] \cap stored[At[e]]) \cup offered'[e]
      <4>1. CASE At[e] = n
        BY <3>1, <3>2, <4>1, <1>0 DEF TypeOK
      <4>2. CASE At[e] # n
        BY <3>1, <4>2, <1>0 DEF TypeOK
      <4>3. QED
        BY <4>1, <4>2
    <3>4. QED
      BY <3>1, <3>2, <3>3 DEF Settled
  <2>2. CASE ~ AcceptData(f)
    BY <1>1, <1>4, <2>2 DEF Handle, HaveMissing, HaveWants, DependencyWants, ServeBlock, ServeEvent
  <2>3. QED
    BY <2>1, <2>2
<1>5. ASSUME NEW f \in End, Finalize(f) PROVE Kept /\ Told
  <2> PICK b \in Block : FinishStream(f, b) \/ FinishInvalid(f, b) \/ MarkBlockStored(f, b)
    BY <1>5 DEF Finalize
  <2>1. CASE FinishStream(f, b)
    <3>1. /\ Kept
          /\ offered' = offered /\ journal' = journal
          /\ stored' = [stored EXCEPT ![At[f]] = @ \cup {b}]
          /\ renamed' = [renamed EXCEPT ![f] = @ \cup {b}]
      BY <2>1 DEF FinishStream
    <3>2. \A g \in End : renamed[g] \subseteq renamed'[g]
      BY <3>1 DEF TypeOK
    <3>3. CASE At[f] = At[e]
      <4>1. b \in renamed'[f] /\ f \in EndsAt(At[e])
        BY <3>1, <3>3 DEF EndsAt, TypeOK
      <4>2. stored'[At[e]] = stored[At[e]] \cup {b}
        BY <1>0, <3>1, <3>3 DEF TypeOK
      <4>3. QED
        BY <1>0, <3>1, <3>2, <4>1, <4>2 DEF Settled
    <3>4. CASE At[f] # At[e]
      <4>1. stored'[At[e]] = stored[At[e]]
        BY <1>0, <3>1, <3>4 DEF TypeOK
      <4>2. QED
        BY <1>0, <3>1, <3>2, <4>1 DEF Settled
    <3>5. QED
      BY <3>3, <3>4
  <2>2. CASE FinishInvalid(f, b)
    BY <1>1, <2>2 DEF FinishInvalid
  <2>3. CASE MarkBlockStored(f, b)
    <3> DEFINE n == At[f]
    <3>1. /\ Kept
          /\ n \in Node
          /\ stored' = stored
          /\ journal' = [journal EXCEPT ![n] = @ \cup {b}]
          /\ renamed' = [renamed EXCEPT ![f] = @ \ {b}]
          /\ Broadcast(n, {b}, stored[n], outbound)
      BY <1>0, <2>3 DEF MarkBlockStored
    <3> HIDE DEF n
    <3>2. /\ offered[e] \subseteq offered'[e]
          /\ At[e] = n => {b} \cap stored[n] \subseteq offered'[e]
      BY <3>1, BroadcastOffers DEF Live
    <3>3. \A g \in EndsAt(At[e]) : renamed[g] \subseteq renamed'[g] \cup {b}
      BY <1>0, <3>1 DEF TypeOK
    <3>4. CASE At[e] = n
      <4>1. journal'[At[e]] = journal[At[e]] \cup {b}
        BY <1>0, <3>1, <3>4 DEF TypeOK
      <4>2. QED
        BY <1>0, <3>1, <3>2, <3>3, <3>4, <4>1 DEF Settled
    <3>5. CASE At[e] # n
      <4>1. journal'[At[e]] = journal[At[e]]
        BY <1>0, <3>1, <3>5 DEF TypeOK
      <4>2. \A g \in EndsAt(At[e]) : renamed'[g] = renamed[g]
        BY <3>1, <3>5 DEF EndsAt, TypeOK, n
      <4>3. QED
        BY <3>1, <3>2, <4>1, <4>2 DEF Settled
    <3>6. QED
      BY <3>4, <3>5
  <2>4. QED
    BY <2>1, <2>2, <2>3
<1>6. ASSUME NEW f \in End, Fail(f) PROVE Kept /\ Told
  <2>1. UNCHANGED <<stored, journal, renamed, offered, listing>>
    BY <1>6 DEF Fail, LoseConnection, WantTimeout, DecodeThrows, CloseConnection, Stop
  <2>2. phase'[e] = phase[e]
    BY <1>6 DEF Fail, LoseConnection, WantTimeout, DecodeThrows, CloseConnection, Stop, TypeOK
  <2>3. QED
    BY <1>1, <2>1, <2>2
<1>7. ASSUME NEW n \in Node, NEW o \in Object, LocalWrite(n, o) PROVE Kept /\ Told
  <2>1. /\ Kept
        /\ stored' = [stored EXCEPT ![n] = @ \cup {o}]
        /\ journal' = [journal EXCEPT ![n] = @ \cup {o}]
        /\ renamed' = renamed
        /\ Broadcast(n, {o}, stored[n] \cup {o}, outbound)
    BY <1>7 DEF LocalWrite
  <2>2. /\ offered[e] \subseteq offered'[e]
        /\ At[e] = n => o \in offered'[e]
    BY <2>1, BroadcastOffers DEF Live
  <2>3. journal'[At[e]] \cap stored'[At[e]]
          \subseteq (journal[At[e]] \cap stored[At[e]]) \cup offered'[e]
    BY <1>0, <2>1, <2>2 DEF TypeOK
  <2>4. QED
    BY <2>1, <2>2, <2>3 DEF Settled
<1>8. ASSUME NEW n \in Node, NEW b \in Block, Evict(n, b) PROVE Kept /\ Told
  <2>1. /\ Kept /\ UNCHANGED <<journal, renamed, offered>>
        /\ stored' = [stored EXCEPT ![n] = @ \ {b}]
    BY <1>8 DEF Evict
  <2>2. stored'[At[e]] \subseteq stored[At[e]]
    BY <1>0, <2>1 DEF TypeOK
  <2>3. QED
    BY <2>1, <2>2 DEF Settled
<1>9. CASE UNCHANGED vars
  BY <1>1, <1>9 DEF vars
<1>10. QED
  BY <1>2, <1>3, <1>4, <1>5, <1>6, <1>7, <1>8, <1>9 DEF Next

\* For any nodes, sessions and data, whatever arrives, is written, evicted or
\* lost while a session starts: once its announcement is out, everything its node
\* has journalled and can read has been offered to the other side.
THEOREM NothingUnannounced == Spec => []JournalOffered
<1>1. Init => ListedOrOffered
  BY DEF Init, ListedOrOffered
<1>2. TypeOK /\ ListedOrOffered /\ [Next]_vars => ListedOrOffered'
  <2> SUFFICES ASSUME TypeOK, ListedOrOffered, [Next]_vars,
                      NEW e \in End, phase'[e] \in {"listed", "announced"}
               PROVE  /\ phase'[e] = "listed" =>
                             Settled(At[e])' \subseteq offered'[e] \cup listing'[e]
                      /\ phase'[e] = "announced" => Settled(At[e])' \subseteq offered'[e]
    BY DEF ListedOrOffered
  <2> USE DEF nodeVars, lifeVars, wantVars, streamVars
  <2>1. CASE AttachList(e)
    <3>1. /\ phase'[e] = "listed" /\ listing'[e] = journal[At[e]]
          /\ UNCHANGED <<stored, journal, renamed, offered>>
      BY <2>1 DEF AttachList, TypeOK
    <3>2. QED
      BY <3>1 DEF Settled
  <2>2. CASE AttachAnnounce(e)
    <3>1. /\ phase[e] = "listed" /\ phase'[e] = "announced"
          /\ offered'[e] = offered[e] \cup (listing[e] \cap stored[At[e]])
          /\ UNCHANGED <<stored, journal, renamed>>
      BY <2>2 DEF AttachAnnounce, TypeOK
    <3>2. Settled(At[e]) \subseteq offered[e] \cup listing[e]
      BY <3>1 DEF ListedOrOffered
    <3>3. QED
      BY <3>1, <3>2 DEF Settled
  <2>3. CASE /\ phase'[e] = phase[e]
             /\ listing'[e] = listing[e]
             /\ offered[e] \subseteq offered'[e]
             /\ Settled(At[e])' \subseteq Settled(At[e]) \cup offered'[e]
    BY <2>3 DEF ListedOrOffered
  <2>4. QED
    BY <2>1, <2>2, <2>3, TellSteps
<1>3. ListedOrOffered => JournalOffered
  BY DEF ListedOrOffered, JournalOffered, Settled
<1>4. QED
  BY <1>1, <1>2, <1>3, TypeCorrect, PTL DEF Spec

-----------------------------------------------------------------------------
(* How outboundWire changes *)

\* `new' is `old' with messages of the given types behind it.
Extended(old, new, types) ==
    /\ Len(old) <= Len(new)
    /\ \A i \in 1..Len(old) : new[i] = old[i]
    /\ \A i \in (Len(old) + 1)..Len(new) : new[i].type \in types

\* A queue behind which messages were put is extended: by several, ...
LEMMA ExtendedBySequence ==
    ASSUME NEW T, NEW types, NEW old \in Seq(T), NEW s \in Seq(Message(types))
    PROVE  Extended(old, old \o s, types)
<1>1. \A i \in 1..Len(s) : s[i].type \in types
  BY DEF Message
<1>2. /\ Len(old) \in Nat /\ Len(s) \in Nat
      /\ Len(old \o s) = Len(old) + Len(s)
      /\ \A i \in 1..Len(old) : (old \o s)[i] = old[i]
      /\ \A i \in (Len(old) + 1)..Len(old \o s) :
            i - Len(old) \in 1..Len(s) /\ (old \o s)[i] = s[i - Len(old)]
  OBVIOUS
<1>3. QED
  BY <1>1, <1>2 DEF Extended

\* ... by one, ...
LEMMA ExtendedByMessage ==
    ASSUME NEW T, NEW types, NEW old \in Seq(T), NEW m, m.type \in types
    PROVE  Extended(old, Append(old, m), types)
<1>1. /\ Len(old) \in Nat
      /\ Len(Append(old, m)) = Len(old) + 1
      /\ \A i \in 1..Len(old) : Append(old, m)[i] = old[i]
      /\ Append(old, m)[Len(old) + 1] = m
  OBVIOUS
<1>2. QED
  BY <1>1 DEF Extended

\* ... or by none.
LEMMA ExtendedByNothing ==
    ASSUME NEW T, NEW types, NEW old \in Seq(T)
    PROVE  Extended(old, old, types)
BY DEF Extended

\* A step that only queues: no link, no stream and no connection changes, and
\* every outboundWire is what it was with messages of the given types behind it.
Queues(types) ==
    /\ UNCHANGED <<link, cut, receiving, discarding, adrift, torn>>
    /\ \A f \in End : Extended(outbound[f], outbound'[f], types)

\* Sending to one session queues at that session.
LEMMA SendingQueues ==
    ASSUME TypeOK, NEW e \in End, NEW s \in Seq(Message(AskTypes)),
           outbound' = [outbound EXCEPT ![e] = @ \o s]
    PROVE  \A f \in End : Extended(outbound[f], outbound'[f], AskTypes)
<1> SUFFICES ASSUME NEW f \in End PROVE Extended(outbound[f], outbound'[f], AskTypes)
  OBVIOUS
<1>1. outbound[f] \in Seq(Message(OutTypes))
  BY DEF TypeOK
<1>2. outbound'[f] = IF f = e THEN outbound[f] \o s ELSE outbound[f]
  BY DEF TypeOK
<1>3. QED
  BY <1>1, <1>2, ExtendedBySequence, ExtendedByNothing

\* A broadcast queues at every session of the node.
LEMMA BroadcastQueues ==
    ASSUME TypeOK, NEW n, NEW refs \in SUBSET Object, NEW store,
           Broadcast(n, refs, store, outbound)
    PROVE  \A f \in End : Extended(outbound[f], outbound'[f], AskTypes)
<1> SUFFICES ASSUME NEW f \in End PROVE Extended(outbound[f], outbound'[f], AskTypes)
  OBVIOUS
<1>1. outbound[f] \in Seq(Message(OutTypes))
  BY DEF TypeOK
<1>2. refs \cap store \in SUBSET Object
  OBVIOUS
<1>3. HaveOf(refs \cap store) \in Seq(Message(AskTypes))
  BY <1>2, SentAsks
<1>4. outbound'[f] \in {outbound[f], outbound[f] \o HaveOf(refs \cap store)}
  BY DEF Broadcast
<1>5. QED
  BY <1>1, <1>3, <1>4, ExtendedBySequence, ExtendedByNothing

\* Apart from writes, from arrivals, from a connection that closes and from what
\* is served, a step queues haves and wants.
LEMMA AskSteps ==
    ASSUME TypeOK, [Next]_vars
    PROVE  \/ \E e \in End : Write(e) \/ Decode(e) \/ CloseConnection(e)
           \/ \E e \in End, b \in Block : ServeBlock(e, b)
           \/ \E e \in End, v \in Event : ServeEvent(e, v)
           \/ Queues(AskTypes) /\ UNCHANGED served
<1> USE DEF nodeVars, lifeVars, wantVars, streamVars
<1> DEFINE Asks == Queues(AskTypes) /\ UNCHANGED served
           Serves == \/ \E e \in End, b \in Block : ServeBlock(e, b)
                     \/ \E e \in End, v \in Event : ServeEvent(e, v)
           Wires == \E e \in End : Write(e) \/ Decode(e) \/ CloseConnection(e)
<1>1. ASSUME UNCHANGED <<link, cut, receiving, discarding, adrift, torn, served, outbound>>
      PROVE  Asks
  <2>1. \A f \in End : outbound[f] \in Seq(Message(OutTypes))
    BY DEF TypeOK
  <2>2. QED
    BY <1>1, <2>1, ExtendedByNothing DEF Queues
<1>2. ASSUME NEW e \in End, NEW refs \in SUBSET Object,
             UNCHANGED <<link, cut, receiving, discarding, adrift, torn, served>>,
             \/ outbound' = [outbound EXCEPT ![e] = @ \o HaveOf(refs)]
             \/ outbound' = [outbound EXCEPT ![e] = @ \o WantsOf(refs)]
      PROVE  Asks
  <2>1. HaveOf(refs) \in Seq(Message(AskTypes)) /\ WantsOf(refs) \in Seq(Message(AskTypes))
    BY SentAsks
  <2>2. \A f \in End : Extended(outbound[f], outbound'[f], AskTypes)
    BY <1>2, <2>1, SendingQueues
  <2>3. QED
    BY <1>2, <2>2 DEF Queues
<1>3. ASSUME NEW n \in Node, NEW refs \in SUBSET Object, NEW store,
             UNCHANGED <<link, cut, receiving, discarding, adrift, torn, served>>,
             Broadcast(n, refs, store, outbound)
      PROVE  Asks
  BY <1>3, BroadcastQueues DEF Queues
<1>4. /\ \A e \in End : At[e] \in Node
      /\ \A n \in Node : stored[n] \in SUBSET Object
      /\ \A e \in End : listing[e] \in SUBSET Object
      /\ \A n, refs : Lacking(n, refs) \in SUBSET Object
  BY EndsAssumption, DataAssumption DEF TypeOK, Lacking
<1>5. ASSUME NEW e \in End, Start(e) PROVE Asks
  <2>1. CASE Attach(e)
    <3>1. pendingHave[At[e]] \cap stored[At[e]] \in SUBSET Object
      BY <1>4
    <3>2. /\ UNCHANGED <<link, cut, receiving, discarding, adrift, torn, served>>
          /\ outbound' = [outbound EXCEPT
                             ![e] = @ \o HaveOf(pendingHave[At[e]] \cap stored[At[e]])]
      BY <2>1 DEF Attach
    <3>3. QED
      BY <1>2, <3>1, <3>2
  <2>2. CASE AttachList(e)
    BY <1>1, <2>2 DEF AttachList
  <2>3. CASE AttachAnnounce(e)
    <3>1. listing[e] \cap stored[At[e]] \in SUBSET Object
      BY <1>4
    <3>2. /\ UNCHANGED <<link, cut, receiving, discarding, adrift, torn, served>>
          /\ outbound' = [outbound EXCEPT ![e] = @ \o HaveOf(listing[e] \cap stored[At[e]])]
      BY <2>3 DEF AttachAnnounce
    <3>3. QED
      BY <1>2, <3>1, <3>2
  <2>4. CASE OrphanRepair(e)
    <3>1. /\ UNCHANGED <<link, cut, receiving, discarding, adrift, torn, served>>
          /\ outbound' = [outbound EXCEPT ![e] = @ \o WantsOf(Lacking(At[e], stored[At[e]]))]
      BY <2>4 DEF OrphanRepair
    <3>2. QED
      BY <1>2, <1>4, <3>1
  <2>5. QED
    BY <1>5, <2>1, <2>2, <2>3, <2>4 DEF Start
<1>6. ASSUME NEW e \in End, Handle(e) PROVE Serves \/ Asks
  <2> DEFINE m == Head(inbound[e])
  <2>1. m.refs \in SUBSET Object
    <3>1. inbound[e] # <<>>
      BY <1>6 DEF Handle, Running, HaveMissing, HaveWants, AcceptData, DependencyWants,
                  ServeBlock, ServeEvent
    <3>2. QED
      BY <3>1, Heads DEF Message
  <2>2. CASE HaveMissing(e)
    BY <1>1, <2>2 DEF HaveMissing
  <2>3. CASE HaveWants(e)
    <3> DEFINE wants == Claimable(e, m.refs) \cup (m.refs \cap Event)
    <3>1. wants \in SUBSET Object
      BY <2>1 DEF Claimable, Object
    <3>2. /\ UNCHANGED <<link, cut, receiving, discarding, adrift, torn, served>>
          /\ outbound' = [outbound EXCEPT ![e] = @ \o WantsOf(wants)]
      BY <2>3 DEF HaveWants
    <3> HIDE DEF wants
    <3>3. QED
      BY <1>2, <3>1, <3>2
  <2>4. CASE AcceptData(e)
    <3> DEFINE new == m.refs \ stored[At[e]]
               store == stored[At[e]] \cup new
    <3>1. new \in SUBSET Object
      BY <2>1
    <3>2. /\ UNCHANGED <<link, cut, receiving, discarding, adrift, torn, served>>
          /\ Broadcast(At[e], new, store, outbound)
      BY <2>4 DEF AcceptData
    <3> HIDE DEF new, store
    <3>3. QED
      BY <1>3, <1>4, <3>1, <3>2
  <2>5. CASE DependencyWants(e)
    <3>1. /\ UNCHANGED <<link, cut, receiving, discarding, adrift, torn, served>>
          /\ outbound' = [outbound EXCEPT ![e] = @ \o WantsOf(Lacking(At[e], m.refs))]
      BY <2>5 DEF DependencyWants
    <3>2. QED
      BY <1>2, <1>4, <3>1
  <2>6. QED
    BY <1>6, <2>2, <2>3, <2>4, <2>5 DEF Handle
<1>7. ASSUME NEW e \in End, Finalize(e) PROVE Asks
  <2> PICK b \in Block : FinishStream(e, b) \/ FinishInvalid(e, b) \/ MarkBlockStored(e, b)
    BY <1>7 DEF Finalize
  <2>1. CASE FinishStream(e, b) \/ FinishInvalid(e, b)
    BY <1>1, <2>1 DEF FinishStream, FinishInvalid
  <2>2. CASE MarkBlockStored(e, b)
    <3>1. /\ UNCHANGED <<link, cut, receiving, discarding, adrift, torn, served>>
          /\ Broadcast(At[e], {b}, stored[At[e]], outbound)
      BY <2>2 DEF MarkBlockStored
    <3>2. {b} \in SUBSET Object
      BY DEF Object
    <3>3. QED
      BY <1>3, <1>4, <3>1, <3>2
  <2>3. QED
    BY <2>1, <2>2
<1>8. ASSUME NEW e \in End, Fail(e) PROVE Wires \/ Asks
  BY <1>1, <1>8 DEF Fail, LoseConnection, WantTimeout, DecodeThrows, Stop
<1>9. ASSUME NEW n \in Node, NEW o \in Object, LocalWrite(n, o) PROVE Asks
  <2>1. /\ UNCHANGED <<link, cut, receiving, discarding, adrift, torn, served>>
        /\ Broadcast(n, {o}, stored[n] \cup {o}, outbound)
    BY <1>9 DEF LocalWrite
  <2>2. {o} \in SUBSET Object
    OBVIOUS
  <2>3. QED
    BY <1>3, <2>1, <2>2
<1>10. ASSUME NEW n \in Node, NEW b \in Block, Evict(n, b) PROVE Asks
  BY <1>1, <1>10 DEF Evict
<1>11. CASE UNCHANGED vars
  BY <1>1, <1>11 DEF vars
<1>12. QED
  BY <1>5, <1>6, <1>7, <1>8, <1>9, <1>10, <1>11 DEF Next

\* An event that is served is queued as well: but for pumps, a step queues frames.
LEMMA QueueSteps ==
    ASSUME TypeOK, [Next]_vars
    PROVE  \/ \E e \in End : Write(e) \/ Decode(e) \/ CloseConnection(e)
           \/ \E e \in End, b \in Block : ServeBlock(e, b)
           \/ Queues(FrameTypes) /\ UNCHANGED served
<1>1. ASSUME NEW e \in End, NEW v \in Event, ServeEvent(e, v)
      PROVE  Queues(FrameTypes) /\ UNCHANGED served
  <2>1. /\ UNCHANGED <<link, cut, receiving, discarding, adrift, torn, served>>
        /\ \/ outbound' = outbound
           \/ outbound' = [outbound EXCEPT ![e] = Append(@, Msg("data", {v}))]
    BY <1>1 DEF ServeEvent, nodeVars, lifeVars, streamVars
  <2>2. Msg("data", {v}).type \in FrameTypes
    BY DEF Msg, FrameTypes
  <2>3. ASSUME NEW f \in End PROVE Extended(outbound[f], outbound'[f], FrameTypes)
    <3>1. outbound[f] \in Seq(Message(OutTypes))
      BY DEF TypeOK
    <3>2. outbound'[f] \in {outbound[f], Append(outbound[f], Msg("data", {v}))}
      BY <2>1 DEF TypeOK
    <3>3. QED
      BY <2>2, <3>1, <3>2, ExtendedByMessage, ExtendedByNothing
  <2>4. QED
    BY <2>1, <2>3 DEF Queues
<1>2. Queues(AskTypes) => Queues(FrameTypes)
  BY DEF Queues, Extended, AskTypes, FrameTypes
<1>3. QED
  BY <1>1, <1>2, AskSteps

-----------------------------------------------------------------------------
(* One pump of a block in a node *)

\* The i-th entry of outboundWire is a pump of b that waits or runs.
IsPump(e, i, b) ==
    /\ i \in 1..Len(outbound[e])
    /\ outbound[e][i].type \in {"pump", "open", "body"}
    /\ b \in outbound[e][i].refs

\* OnePumpPerBlock, said of positions instead of sets of them.
PumpAlone ==
    \A e \in End, i \in Nat, b \in Block : IsPump(e, i, b) =>
        /\ b \in served[At[e]]
        /\ \A f \in End, j \in Nat :
              (At[f] = At[e] /\ IsPump(f, j, b)) => f = e /\ j = i

\* When the head of a queue is done, what follows moves up by one.
LEMMA PumpsMoveUp ==
    ASSUME TypeOK, NEW e \in End, outbound[e] # <<>>,
           outbound' = [outbound EXCEPT ![e] = Tail(@)],
           NEW f \in End, NEW i \in Nat, NEW b, IsPump(f, i, b)'
    PROVE  IsPump(f, IF f = e THEN i + 1 ELSE i, b)
<1>1. outbound[e] \in Seq(Message(OutTypes))
  BY DEF TypeOK
<1>2. /\ Len(outbound[e]) \in Nat
      /\ Len(Tail(outbound[e])) = Len(outbound[e]) - 1
      /\ \A k \in 1..Len(Tail(outbound[e])) : Tail(outbound[e])[k] = outbound[e][k + 1]
  BY <1>1
<1>3. outbound'[f] = IF f = e THEN Tail(outbound[e]) ELSE outbound[f]
  BY DEF TypeOK
<1>4. CASE f = e
  <2>1. /\ i \in 1..Len(Tail(outbound[e]))
        /\ Tail(outbound[e])[i].type \in {"pump", "open", "body"} /\ b \in Tail(outbound[e])[i].refs
    BY <1>3, <1>4 DEF IsPump
  <2>2. Tail(outbound[e])[i] = outbound[e][i + 1] /\ i + 1 \in 1..Len(outbound[e])
    BY <1>2, <2>1
  <2>3. QED
    BY <1>4, <2>1, <2>2 DEF IsPump
<1>5. CASE f # e
  BY <1>3, <1>5 DEF IsPump
<1>6. QED
  BY <1>4, <1>5

\* A queue that got only frames has the pumps it had.
LEMMA PumpsStay ==
    ASSUME TypeOK, Queues(FrameTypes), NEW f \in End, NEW i \in Nat, NEW b, IsPump(f, i, b)'
    PROVE  IsPump(f, i, b)
<1>1. outbound[f] \in Seq(Message(OutTypes)) /\ Extended(outbound[f], outbound'[f], FrameTypes)
  BY DEF TypeOK, Queues
<1>2. Len(outbound[f]) \in Nat
  BY <1>1
<1>3. QED
  BY <1>1, <1>2 DEF Extended, IsPump, FrameTypes

\* A write, the begin of a pump or its end leaves each pump alone, also when the
\* file is gone and the serve mark is given back.
LEMMA WriteKeepsPumps ==
    ASSUME TypeOK, PumpAlone, NEW e \in End, Write(e)
    PROVE  PumpAlone'
<1> USE DEF nodeVars, lifeVars, wantVars, streamVars
<1> DEFINE m == Head(outbound[e])
<1>1. /\ outbound[e] # <<>>
      /\ outbound[e] \in Seq(Message(OutTypes))
      /\ m \in Message(OutTypes) /\ Tail(outbound[e]) \in Seq(Message(OutTypes))
      /\ m = outbound[e][1] /\ Len(outbound[e]) \in Nat /\ Len(outbound[e]) >= 1
  <2>1. outbound[e] # <<>> /\ outbound[e] \in Seq(Message(OutTypes))
    BY WriteShapes DEF TypeOK
  <2>2. QED
    BY <2>1, Heads
<1>2. CASE /\ outbound' = [outbound EXCEPT ![e] = Tail(@)]
           /\ \/ served' = served
              \/ /\ m.type \in {"pump", "open"}
                 /\ served' = [served EXCEPT ![At[e]] = @ \ m.refs]
  <2>1. ASSUME NEW f \in End, NEW i \in Nat, NEW b \in Block, IsPump(f, i, b)'
        PROVE  b \in served'[At[f]]
    <3>1. IsPump(f, IF f = e THEN i + 1 ELSE i, b)
      BY <1>1, <1>2, <2>1, PumpsMoveUp
    <3>2. b \in served[At[f]]
      BY <3>1 DEF PumpAlone
    <3>3. i >= 1
      BY <2>1 DEF IsPump
    <3>4. CASE served' # served /\ At[f] = At[e] /\ b \in m.refs
      <4>1. IsPump(e, 1, b)
        BY <1>1, <1>2, <3>4 DEF IsPump
      <4>2. f = e /\ (IF f = e THEN i + 1 ELSE i) = 1
        BY <3>1, <3>4, <4>1 DEF PumpAlone
      <4>3. QED
        BY <3>3, <4>2
    <3>5. QED
      BY <1>2, <3>2, <3>4, EndsAssumption DEF TypeOK
  <2>2. ASSUME NEW f \in End, NEW i \in Nat, NEW b \in Block, IsPump(f, i, b)',
               NEW g \in End, NEW j \in Nat, At[g] = At[f], IsPump(g, j, b)'
        PROVE  g = f /\ j = i
    <3>1. /\ IsPump(f, IF f = e THEN i + 1 ELSE i, b)
          /\ IsPump(g, IF g = e THEN j + 1 ELSE j, b)
      BY <1>1, <1>2, <2>2, PumpsMoveUp
    <3>2. g = f /\ (IF g = e THEN j + 1 ELSE j) = (IF f = e THEN i + 1 ELSE i)
      BY <2>2, <3>1 DEF PumpAlone
    <3>3. QED
      BY <3>2
  <2>3. QED
    BY <2>1, <2>2 DEF PumpAlone
<1>3. ASSUME NEW t \in {"open", "body"}, m.type \in {"pump", "open"}, served' = served,
             outbound' = [outbound EXCEPT ![e] = <<Msg(t, m.refs)>> \o Tail(@)]
      PROVE  PumpAlone'
  <2> DEFINE next == <<Msg(t, m.refs)>> \o Tail(outbound[e])
  <2>1. /\ Len(next) = Len(outbound[e])
        /\ \A k \in 2..Len(outbound[e]) : next[k] = outbound[e][k]
        /\ next[1] = Msg(t, m.refs)
    <3>1. /\ Len(Tail(outbound[e])) = Len(outbound[e]) - 1
          /\ \A k \in 2..Len(outbound[e]) : Tail(outbound[e])[k - 1] = outbound[e][k]
      BY <1>1
    <3> DEFINE rest == Tail(outbound[e])
               b == Msg(t, m.refs)
    <3> HIDE DEF rest, b
    <3>2. rest \in Seq(Message(OutTypes))
      BY <1>1 DEF rest
    <3>3. /\ Len(<<b>> \o rest) = Len(rest) + 1
          /\ (<<b>> \o rest)[1] = b
          /\ \A k \in 2..(Len(rest) + 1) : (<<b>> \o rest)[k] = rest[k - 1]
      BY <3>2
    <3>4. QED
      BY <1>1, <3>1, <3>3 DEF rest, b
  <2>5. outbound'[e] = next
    BY <1>3 DEF TypeOK
  <2> HIDE DEF next
  <2>2. ASSUME NEW f \in End, NEW i \in Nat, NEW b \in Block
        PROVE  IsPump(f, i, b)' => IsPump(f, i, b)
    <3>1. CASE f = e
      <4>1. outbound'[e] = next
        BY <2>5
      <4>2. CASE i = 1
        BY <1>1, <1>3, <2>1, <3>1, <4>1, <4>2 DEF IsPump, Msg
      <4>3. CASE i # 1
        BY <1>1, <2>1, <3>1, <4>1, <4>3 DEF IsPump
      <4>4. QED
        BY <4>2, <4>3
    <3>2. CASE f # e
      BY <1>3, <3>2 DEF IsPump, TypeOK
    <3>3. QED
      BY <3>1, <3>2
  <2>3. QED
    BY <1>3, <2>2 DEF PumpAlone
<1>4. QED
  BY <1>2, <1>3, WriteShapes

\* A block that is served was served by nobody before.
LEMMA ServeKeepsPumps ==
    ASSUME TypeOK, PumpAlone, NEW e \in End, NEW b \in Block, ServeBlock(e, b)
    PROVE  PumpAlone'
<1> DEFINE n == At[e]
           last == Len(outbound[e]) + 1
<1>1. n \in Node /\ outbound[e] \in Seq(Message(OutTypes))
  BY EndsAssumption DEF TypeOK
<1>2. CASE UNCHANGED <<served, outbound>>
  BY <1>2 DEF PumpAlone, IsPump
<1>3. CASE /\ b \notin served[n]
           /\ served' = [served EXCEPT ![n] = @ \cup {b}]
           /\ outbound' = [outbound EXCEPT ![e] = Append(@, Msg("pump", {b}))]
  <2>1. /\ Len(outbound[e]) \in Nat
        /\ Len(outbound'[e]) = last
        /\ \A k \in 1..Len(outbound[e]) : outbound'[e][k] = outbound[e][k]
        /\ outbound'[e][last] = Msg("pump", {b})
    <3>1. outbound'[e] = Append(outbound[e], Msg("pump", {b}))
      BY <1>3 DEF TypeOK
    <3>2. QED
      BY <1>1, <3>1
  <2>2. \A f \in End : f # e => outbound'[f] = outbound[f]
    BY <1>3 DEF TypeOK
  <2>3. ASSUME NEW f \in End, NEW i \in Nat, NEW c \in Block, IsPump(f, i, c)'
        PROVE  IsPump(f, i, c) \/ (f = e /\ i = last /\ c = b)
    BY <2>1, <2>2, <2>3 DEF IsPump, Msg
  <2>4. \A f \in End, i \in Nat : At[f] = n => ~ IsPump(f, i, b)
    BY <1>3 DEF PumpAlone
  <2>5. \A f \in End : served[At[f]] \subseteq served'[At[f]]
    BY <1>3, EndsAssumption DEF TypeOK
  <2>6. b \in served'[n]
    BY <1>1, <1>3 DEF TypeOK
  <2> HIDE DEF last, n
  <2>7. ASSUME NEW f \in End, NEW i \in Nat, NEW c \in Block, IsPump(f, i, c)'
        PROVE  c \in served'[At[f]]
    BY <2>3, <2>5, <2>6, <2>7 DEF PumpAlone, n
  <2>8. ASSUME NEW f \in End, NEW i \in Nat, NEW c \in Block, IsPump(f, i, c)',
               NEW g \in End, NEW j \in Nat, At[g] = At[f], IsPump(g, j, c)'
        PROVE  g = f /\ j = i
    <3>1. CASE c = b /\ At[f] = n
      BY <2>3, <2>4, <2>8, <3>1
    <3>2. CASE ~ (c = b /\ At[f] = n)
      <4>1. IsPump(f, i, c) /\ IsPump(g, j, c)
        BY <2>3, <2>8, <3>2 DEF n
      <4>2. QED
        BY <2>8, <4>1 DEF PumpAlone
    <3>3. QED
      BY <3>1, <3>2
  <2>9. QED
    BY <2>7, <2>8 DEF PumpAlone
<1>4. QED
  BY <1>2, <1>3 DEF ServeBlock, ClaimOutboundServe

\* For any nodes and sessions: over all sessions of a node, a block has at most
\* one pump queued or running, and while it has one it is marked as served, also
\* when pumps fail and give their mark back.
THEOREM PumpsAreSingle == Spec => []OnePumpPerBlock
<1>1. Init => PumpAlone
  BY DEF Init, PumpAlone, IsPump
<1>2. TypeOK /\ PumpAlone /\ [Next]_vars => PumpAlone'
  <2> SUFFICES ASSUME TypeOK, PumpAlone, [Next]_vars PROVE PumpAlone'
    OBVIOUS
  <2> USE DEF nodeVars, lifeVars, wantVars, streamVars
  <2>1. ASSUME NEW e \in End, Write(e) PROVE PumpAlone'
    BY <2>1, WriteKeepsPumps
  <2>2. ASSUME NEW e \in End, Decode(e) \/ CloseConnection(e) PROVE PumpAlone'
    <3>1. UNCHANGED <<outbound, served>>
      BY <2>2 DEF Decode, DecodeFrame, DecodeBegin, DecodeBody, DecodeMisread,
            DetachStream, CloseConnection
    <3>2. QED
      BY <3>1 DEF PumpAlone, IsPump
  <2>3. ASSUME NEW e \in End, NEW b \in Block, ServeBlock(e, b) PROVE PumpAlone'
    BY <2>3, ServeKeepsPumps
  <2>4. CASE Queues(FrameTypes) /\ UNCHANGED served
    <3>1. \A f \in End, i \in Nat, b \in Block : IsPump(f, i, b)' => IsPump(f, i, b)
      BY <2>4, PumpsStay
    <3>2. QED
      BY <2>4, <3>1 DEF PumpAlone
  <2>5. QED
    BY <2>1, <2>2, <2>3, <2>4, QueueSteps
<1>3. PumpAlone /\ TypeOK => OnePumpPerBlock
  <2> SUFFICES ASSUME PumpAlone, TypeOK, NEW n \in Node, NEW b \in Block
               PROVE  /\ \A p, q \in PumpsOf(n, b) : p = q
                      /\ PumpsOf(n, b) # {} => b \in served[n]
    BY DEF OnePumpPerBlock
  <2>1. ASSUME NEW p \in PumpsOf(n, b)
        PROVE  \E e \in End, i \in Nat : p = <<e, i>> /\ At[e] = n /\ IsPump(e, i, b)
    <3>1. PICK e \in EndsAt(n) :
            p \in {<<e, i>> : i \in {j \in DOMAIN outbound[e] :
                                /\ outbound[e][j].type \in {"pump", "open", "body"}
                                /\ b \in outbound[e][j].refs}}
      BY <2>1 DEF PumpsOf
    <3>2. e \in End /\ At[e] = n /\ outbound[e] \in Seq(Message(OutTypes))
      BY <3>1 DEF EndsAt, TypeOK
    <3>3. DOMAIN outbound[e] = 1..Len(outbound[e]) /\ Len(outbound[e]) \in Nat
      BY <3>2
    <3>4. QED
      BY <3>1, <3>2, <3>3 DEF IsPump
  <2>2. QED
    BY <2>1 DEF PumpAlone
<1>4. QED
  BY <1>1, <1>2, <1>3, TypeCorrect, PTL DEF Spec

-----------------------------------------------------------------------------
(* Streams on one wire *)

\* The body that a running pump has still to write.
Writing(e) ==
    IF outbound[e] # <<>> /\ Head(outbound[e]).type \in {"open", "body"}
      THEN <<Msg("body", Head(outbound[e]).refs)>> ELSE <<>>

\* What an end is about to receive, up to the end of the stream being sent.
Coming(e) == link[e] \o Writing(Opp[e])

\* The stream that is open where the i-th message of w arrives, when `was' was
\* open before the first one.
OpenBefore(w, was, i) ==
    IF i = 1 THEN was ELSE IF w[i - 1].type = "begin" THEN w[i - 1].refs ELSE {}

\* Each body follows the begin of its stream, nothing else follows a begin, and
\* no stream is left open at the end.
WellPaired(w, was) ==
    /\ \A i \in 1..Len(w) :
          OpenBefore(w, was, i) = IF w[i].type = "body" THEN w[i].refs ELSE {}
    /\ OpenBefore(w, was, Len(w) + 1) = {}

\* Only the head of outboundWire is a pump that has begun, and one that writes to
\* a TCP socket has its file open by then.
PumpFirst(e) ==
    /\ \A i \in 2..Len(outbound[e]) : outbound[e][i].type \notin {"open", "body"}
    /\ \A i \in 1..Len(outbound[e]) : outbound[e][i].type = "open" => e \notin Bulk

\* StreamsNeverOverlap follows from the order of everything that is on its way.
StreamOrder ==
    /\ torn \cap Bulk = {}
    /\ \A e \in End :
          /\ e \in cut => link[e] = <<>> /\ Opp[e] \in cut
          /\ Opp[e] \notin torn => e \notin adrift
          /\ (e \notin cut /\ Opp[e] \notin torn) =>
                WellPaired(Coming(e), OpenStream(e))
          /\ PumpFirst(e)

\* A frame at the end keeps the pairing.
LEMMA PairedFrame ==
    ASSUME NEW T, NEW w \in Seq(T), NEW was, WellPaired(w, was),
           NEW m, m.type \notin {"begin", "body"}
    PROVE  WellPaired(Append(w, m), was)
<1>1. /\ Len(w) \in Nat /\ Len(Append(w, m)) = Len(w) + 1
      /\ \A i \in 1..Len(w) : Append(w, m)[i] = w[i]
      /\ Append(w, m)[Len(w) + 1] = m
  OBVIOUS
<1> DEFINE x == Append(w, m)
<1> HIDE DEF x
<1>2. ASSUME NEW i \in 1..(Len(w) + 1)
      PROVE  OpenBefore(x, was, i) = OpenBefore(w, was, i)
  BY <1>1 DEF OpenBefore, x
<1>3. OpenBefore(x, was, Len(x) + 1) = {}
  BY <1>1 DEF OpenBefore, x
<1>4. \A i \in 1..Len(x) : OpenBefore(x, was, i) = IF x[i].type = "body" THEN x[i].refs ELSE {}
  BY <1>1, <1>2 DEF WellPaired, x
<1>5. QED
  BY <1>3, <1>4 DEF WellPaired, x

\* A whole stream at the end keeps the pairing.
LEMMA PairedStream ==
    ASSUME NEW T, NEW w \in Seq(T), NEW was, WellPaired(w, was),
           NEW b, NEW d, b.type = "begin", d.type = "body", d.refs = b.refs
    PROVE  WellPaired(Append(Append(w, b), d), was)
<1> DEFINE x == Append(Append(w, b), d)
<1>1. /\ Len(w) \in Nat /\ Len(x) = Len(w) + 2
      /\ \A i \in 1..Len(w) : x[i] = w[i]
      /\ x[Len(w) + 1] = b /\ x[Len(w) + 2] = d
  OBVIOUS
<1> HIDE DEF x
<1>2. ASSUME NEW i \in 1..(Len(w) + 1)
      PROVE  OpenBefore(x, was, i) = OpenBefore(w, was, i)
  BY <1>1 DEF OpenBefore
<1>3. OpenBefore(x, was, Len(w) + 2) = b.refs /\ OpenBefore(x, was, Len(w) + 3) = {}
  BY <1>1 DEF OpenBefore
<1>4. ASSUME NEW i \in 1..Len(x)
      PROVE  OpenBefore(x, was, i) = IF x[i].type = "body" THEN x[i].refs ELSE {}
  <2>1. CASE i \in 1..(Len(w) + 1)
    BY <1>1, <1>2, <2>1 DEF WellPaired
  <2>2. CASE i = Len(w) + 2
    BY <1>1, <1>3, <2>2
  <2>3. QED
    BY <1>1, <2>1, <2>2
<1>5. QED
  BY <1>1, <1>3, <1>4 DEF WellPaired, x

\* What the first message finds open, and what is left behind it.
LEMMA PairedTail ==
    ASSUME NEW T, NEW w \in Seq(T), NEW was, WellPaired(w, was), w # <<>>
    PROVE  /\ was = IF Head(w).type = "body" THEN Head(w).refs ELSE {}
           /\ WellPaired(Tail(w), IF Head(w).type = "begin" THEN Head(w).refs ELSE {})
<1>1. /\ Len(w) \in Nat /\ Len(w) >= 1 /\ Head(w) = w[1]
      /\ Len(Tail(w)) = Len(w) - 1
      /\ \A i \in 1..Len(Tail(w)) : Tail(w)[i] = w[i + 1]
  OBVIOUS
<1> DEFINE x == Tail(w)
           now == IF Head(w).type = "begin" THEN Head(w).refs ELSE {}
<1> HIDE DEF x
<1>2. was = IF Head(w).type = "body" THEN Head(w).refs ELSE {}
  BY <1>1 DEF WellPaired, OpenBefore
<1>3. ASSUME NEW i \in 1..Len(w)
      PROVE  OpenBefore(x, now, i) = OpenBefore(w, was, i + 1)
  BY <1>1 DEF OpenBefore, x
<1>4. ASSUME NEW i \in 1..Len(x)
      PROVE  OpenBefore(x, now, i) = IF x[i].type = "body" THEN x[i].refs ELSE {}
  <2>1. i + 1 \in 1..Len(w) /\ i \in 1..Len(w) /\ x[i] = w[i + 1]
    BY <1>1 DEF x
  <2>2. QED
    BY <1>3, <2>1 DEF WellPaired
<1>5. OpenBefore(x, now, Len(x) + 1) = {}
  <2>1. Len(x) + 1 = Len(w) /\ Len(w) \in 1..Len(w)
    BY <1>1 DEF x
  <2>2. QED
    BY <1>3, <2>1 DEF WellPaired
<1>6. QED
  BY <1>2, <1>4, <1>5 DEF WellPaired, x

\* Queueing frames and pumps changes nothing that is on its way.
LEMMA QueueingKeepsOrder ==
    ASSUME TypeOK, TypeOK', StreamOrder, Queues(FrameTypes \cup {"pump"})
    PROVE  StreamOrder'
<1>1. ASSUME NEW e \in End
      PROVE  /\ outbound[e] # <<>> => outbound'[e] # <<>> /\ Head(outbound'[e]) = Head(outbound[e])
             /\ (outbound[e] = <<>> /\ outbound'[e] # <<>>) =>
                   Head(outbound'[e]).type \notin {"open", "body"}
             /\ PumpFirst(e)'
  <2>1. /\ outbound[e] \in Seq(Message(OutTypes))
        /\ Extended(outbound[e], outbound'[e], FrameTypes \cup {"pump"})
    BY DEF Queues, TypeOK
  <2>2. Len(outbound[e]) \in Nat /\ Len(outbound'[e]) \in Nat
    BY <2>1, TypeOK' DEF TypeOK
  <2>3. /\ outbound[e] # <<>> <=> Len(outbound[e]) > 0
        /\ outbound'[e] # <<>> <=> Len(outbound'[e]) > 0
        /\ Head(outbound[e]) = outbound[e][1] /\ Head(outbound'[e]) = outbound'[e][1]
    BY <2>1, TypeOK' DEF TypeOK
  <2>4. PumpFirst(e)
    BY DEF StreamOrder
  <2>5. /\ \A i \in 2..Len(outbound'[e]) : outbound'[e][i].type \notin {"open", "body"}
        /\ \A i \in 1..Len(outbound'[e]) : outbound'[e][i].type = "open" => e \notin Bulk
    <3>1. ASSUME NEW i \in 1..Len(outbound'[e])
          PROVE  i \in 1..Len(outbound[e]) \/ outbound'[e][i].type \notin {"open", "body"}
      <4>1. i \in 1..Len(outbound[e]) \/ i \in (Len(outbound[e]) + 1)..Len(outbound'[e])
        BY <2>2
      <4>2. QED
        BY <2>1, <4>1 DEF Extended, FrameTypes
    <3>2. \A i \in 1..Len(outbound[e]) : outbound'[e][i] = outbound[e][i]
      BY <2>1 DEF Extended
    <3>3. \A i \in 2..Len(outbound'[e]) :
             i \in 1..Len(outbound'[e]) /\ (i \in 1..Len(outbound[e]) => i \in 2..Len(outbound[e]))
      BY <2>2
    <3>4. QED
      BY <2>4, <3>1, <3>2, <3>3 DEF PumpFirst
  <2>6. PumpFirst(e)'
    BY <2>5 DEF PumpFirst
  <2>7. outbound[e] # <<>> => outbound'[e] # <<>> /\ Head(outbound'[e]) = Head(outbound[e])
    BY <2>1, <2>2, <2>3 DEF Extended
  <2>8. ASSUME outbound[e] = <<>>, outbound'[e] # <<>>
        PROVE  Head(outbound'[e]).type \notin {"open", "body"}
    <3>1. Len(outbound[e]) = 0 /\ 1 \in (Len(outbound[e]) + 1)..Len(outbound'[e])
      BY <2>2, <2>3, <2>8
    <3>2. QED
      BY <2>1, <2>3, <3>1 DEF Extended, FrameTypes
  <2>9. QED
    BY <2>6, <2>7, <2>8
<1>2. \A e \in End : Writing(e)' = Writing(e)
  BY <1>1 DEF Writing
<1>3. \A e \in End : Coming(e)' = Coming(e) /\ OpenStream(e)' = OpenStream(e)
  BY <1>2, EndsAssumption DEF Coming, OpenStream, Queues
<1>4. QED
  BY <1>1, <1>3 DEF StreamOrder, Queues

\* What comes is a sequence of messages of the link, whose running pump, if one
\* runs, is the last of them.
LEMMA ComingTyped ==
    ASSUME TypeOK, NEW e \in End
    PROVE  /\ link[e] \in Seq(Message(LinkTypes))
           /\ Writing(Opp[e]) \in Seq(Message(LinkTypes))
           /\ Coming(e) \in Seq(Message(LinkTypes))
<1>1. link[e] \in Seq(Message(LinkTypes)) /\ Opp[e] \in End
  BY EndsAssumption DEF TypeOK
<1>2. Writing(Opp[e]) \in Seq(Message(LinkTypes))
  <2>1. outbound[Opp[e]] # <<>> => Head(outbound[Opp[e]]) \in Message(OutTypes)
    BY <1>1, Heads
  <2>2. CASE outbound[Opp[e]] # <<>> /\ Head(outbound[Opp[e]]).type \in {"open", "body"}
    <3>1. Msg("body", Head(outbound[Opp[e]]).refs) \in Message(LinkTypes)
      BY <2>1, <2>2 DEF Message, LinkTypes, Msg
    <3>2. QED
      BY <2>2, <3>1 DEF Writing
  <2>3. CASE ~ (outbound[Opp[e]] # <<>> /\ Head(outbound[Opp[e]]).type \in {"open", "body"})
    BY <2>3 DEF Writing
  <2>4. QED
    BY <2>2, <2>3
<1>3. QED
  BY <1>1, <1>2, ConcatProperties DEF Coming

\* A write at one end moves what is at the head of its queue to the link of the
\* other end, behind what is already there.
LEMMA WriteKeepsOrder ==
    ASSUME TypeOK, TypeOK', StreamOrder, NEW f \in End, Write(f)
    PROVE  StreamOrder'
<1> USE DEF nodeVars, lifeVars, wantVars, streamVars
<1> DEFINE g == Opp[f]
           m == Head(outbound[f])
           rest == Tail(outbound[f])
<1>1. /\ g \in End /\ Opp[g] = f /\ g # f
      /\ \A h \in End : h # g => Opp[h] # f
  BY EndsAssumption
<1>2. /\ outbound[f] # <<>>
      /\ outbound[f] \in Seq(Message(OutTypes))
      /\ m \in Message(OutTypes)
      /\ UNCHANGED <<cut, receiving, discarding, adrift>>
  BY Heads DEF Write, WriteFrame, PumpBegin, PumpOpen, PumpFails, PumpBody, TypeOK
<1>3. /\ Len(outbound[f]) \in Nat /\ Len(outbound[f]) >= 1
      /\ Len(rest) = Len(outbound[f]) - 1
      /\ m = outbound[f][1]
      /\ rest \in Seq(Message(OutTypes))
      /\ rest # <<>> => Head(rest) = outbound[f][2] /\ Len(outbound[f]) >= 2
      /\ \A i \in 1..Len(rest) : rest[i] = outbound[f][i + 1]
  BY <1>2
<1>4. /\ rest # <<>> => Head(rest).type \notin {"open", "body"}
      /\ \A i \in 1..Len(rest) : rest[i].type \notin {"open", "body"}
      /\ m.type = "open" => f \notin Bulk
  <2>1. PumpFirst(f)
    BY DEF StreamOrder
  <2>2. \A i \in 1..Len(rest) : i + 1 \in 2..Len(outbound[f])
    BY <1>3
  <2>3. rest # <<>> => 2 \in 2..Len(outbound[f])
    BY <1>3
  <2>4. 1 \in 1..Len(outbound[f])
    BY <1>3
  <2>5. QED
    BY <1>3, <2>1, <2>2, <2>3, <2>4 DEF PumpFirst
<1>5. /\ \/ outbound'[f] = rest
         \/ \E t \in {"open", "body"} :
               /\ t = "open" => f \notin Bulk
               /\ outbound'[f] = <<Msg(t, m.refs)>> \o rest
      /\ \A h \in End : h # f => outbound'[h] = outbound[h]
  <2>1. outbound \in [End -> Seq(Message(OutTypes))]
    BY DEF TypeOK
  <2>2. QED
    BY <2>1, WriteShapes
<1>6. /\ \A h \in End : h # g => link'[h] = link[h]
      /\ f \in cut => link' = link
  BY <1>1 DEF Write, WriteFrame, PumpBegin, PumpOpen, PumpBody, Written, TypeOK
<1>7. /\ torn' = torn \/ (f \notin Bulk /\ torn' = torn \cup {f})
      /\ torn' \cap Bulk = {}
  <2>1. torn' = torn \/ (m.type = "open" /\ torn' = torn \cup {f})
    BY DEF Write, WriteFrame, PumpBegin, PumpOpen, PumpBody
  <2>2. QED
    BY <1>4, <2>1 DEF StreamOrder
<1>8. PumpFirst(f)'
  <2>1. CASE outbound'[f] = rest
    BY <1>3, <1>4, <2>1 DEF PumpFirst
  <2>2. ASSUME NEW t \in {"open", "body"}, t = "open" => f \notin Bulk,
               outbound'[f] = <<Msg(t, m.refs)>> \o rest
        PROVE  PumpFirst(f)'
    <3>1. /\ \A i \in 2..Len(outbound'[f]) : i - 1 \in 1..Len(rest) /\ outbound'[f][i] = rest[i - 1]
          /\ outbound'[f][1] = Msg(t, m.refs)
          /\ \A i \in 1..Len(outbound'[f]) : i = 1 \/ i \in 2..Len(outbound'[f])
      BY <1>3, <2>2
    <3>2. \A i \in 2..Len(outbound'[f]) : outbound'[f][i].type \notin {"open", "body"}
      BY <1>4, <3>1
    <3>3. outbound'[f][1].type = t
      BY <3>1 DEF Msg
    <3>4. \A i \in 1..Len(outbound'[f]) : outbound'[f][i].type = "open" => f \notin Bulk
      BY <2>2, <3>1, <3>2, <3>3
    <3>5. QED
      BY <3>2, <3>4 DEF PumpFirst
  <2>3. QED
    BY <1>5, <2>1, <2>2
<1>9. ASSUME NEW h \in End PROVE PumpFirst(h)'
  <2>1. h # f => PumpFirst(h)'
    BY <1>5 DEF PumpFirst, StreamOrder
  <2>2. QED
    BY <1>8, <2>1
<1>10. ASSUME NEW h \in End, h # g
      PROVE  Coming(h)' = Coming(h) /\ OpenStream(h)' = OpenStream(h)
  BY <1>1, <1>2, <1>5, <1>6, <1>10, EndsAssumption DEF Coming, OpenStream, Writing
<1>11. ASSUME NEW h \in End, h \in cut PROVE link'[h] = <<>> /\ Opp[h] \in cut
  BY <1>1, <1>6, <1>11 DEF StreamOrder
<1>12. ASSUME f \notin cut, f \notin torn' PROVE WellPaired(Coming(g)', OpenStream(g))
  <2> DEFINE now == link[g]
             T == Message(LinkTypes)
  <2>1. /\ g \notin cut /\ WellPaired(Coming(g), OpenStream(g))
        /\ now \in Seq(T) /\ Coming(g) \in Seq(T)
    BY <1>1, <1>7, <1>12, ComingTyped DEF StreamOrder
  <2>2. Writing(f)' = IF outbound'[f] = rest THEN <<>> ELSE <<Msg("body", m.refs)>>
    <3>1. CASE outbound'[f] = rest
      BY <1>4, <3>1 DEF Writing
    <3>2. ASSUME NEW t \in {"open", "body"}, outbound'[f] = <<Msg(t, m.refs)>> \o rest,
                 outbound'[f] # rest
          PROVE  Writing(f)' = <<Msg("body", m.refs)>>
      <4>1. outbound'[f] # <<>> /\ Head(outbound'[f]) = Msg(t, m.refs)
        BY <1>3, <3>2
      <4>2. Msg(t, m.refs).type = t /\ Msg(t, m.refs).refs = m.refs
        BY DEF Msg
      <4>3. QED
        BY <4>1, <4>2 DEF Writing
    <3>3. QED
      BY <1>5, <3>1, <3>2
  <2>3. Coming(g)' = link'[g] \o Writing(f)' /\ Coming(g) = now \o Writing(f)
    BY <1>1 DEF Coming
  <2>4. m.type \notin {"open", "body"} => Coming(g) = now
    BY <1>2, <2>1, <2>3 DEF Writing
  <2>5. CASE WriteFrame(f)
    <3>1. /\ m.type \notin {"begin", "open", "body"}
          /\ outbound'[f] = rest
          /\ link'[g] = Append(now, Msg(m.type, m.refs))
      BY <1>1, <1>12, <2>5 DEF WriteFrame, Written, TypeOK
    <3>2. Msg(m.type, m.refs).type = m.type
      BY DEF Msg
    <3>3. Coming(g)' = Append(now, Msg(m.type, m.refs))
      <4>1. link'[g] \in Seq(Message(LinkTypes))
        BY <1>1, TypeOK' DEF TypeOK
      <4>2. QED
        BY <2>2, <2>3, <3>1, <4>1
    <3> HIDE DEF now, m, T
    <3>4. QED
      BY <2>1, <2>4, <3>1, <3>2, <3>3, PairedFrame
  <2>6. CASE PumpBegin(f) /\ m.refs \subseteq stored[At[f]]
    <3> DEFINE b == Msg("begin", m.refs)
               d == Msg("body", m.refs)
    <3>1. /\ m.type = "pump"
          /\ outbound'[f] = <<Msg(AfterBegin(f), m.refs)>> \o rest
          /\ link'[g] = Append(now, b)
      BY <1>1, <1>12, <2>6 DEF PumpBegin, Written, Pumping, TypeOK
    <3>2. outbound'[f] # rest
      <4>1. Len(outbound'[f]) = Len(rest) + 1 /\ Len(rest) \in Nat
        BY <1>3, <3>1
      <4> HIDE DEF rest
      <4>2. QED
        BY <4>1
    <3>3. b.type = "begin" /\ d.type = "body" /\ d.refs = b.refs
      BY DEF Msg
    <3>4. Coming(g)' = Append(now, b) \o <<d>>
      BY <2>2, <2>3, <3>1, <3>2
    <3>5. b \in T
      BY <1>2, <3>1, ControlMessage DEF LinkTypes, Message
    <3> HIDE DEF now, m, T, b, d
    <3>6. Append(now, b) \o <<d>> = Append(Append(now, b), d)
      <4>1. Append(now, b) \in Seq(T)
        BY <2>1, <3>5, AppendProperties
      <4>2. QED
        BY <4>1, AppendIsConcat
    <3>7. QED
      BY <2>1, <2>4, <3>1, <3>3, <3>4, <3>6, PairedStream
  <2>7. CASE PumpBegin(f) /\ ~ (m.refs \subseteq stored[At[f]])
    <3>1. m.type = "pump" /\ outbound'[f] = rest /\ link'[g] = now
      BY <1>1, <2>7 DEF PumpBegin, PumpFails, TypeOK
    <3>2. Coming(g)' = now
      BY <2>1, <2>2, <2>3, <3>1
    <3>3. QED
      BY <2>1, <2>4, <3>1, <3>2
  <2>8. CASE PumpBody(f)
    <3>1. /\ m.type = "body" /\ outbound'[f] = rest
          /\ link'[g] = Append(now, Msg("body", m.refs))
      BY <1>1, <1>12, <2>8 DEF PumpBody, Written, TypeOK
    <3>2. Writing(f) = <<Msg("body", m.refs)>> /\ Msg("body", m.refs) \in T
      BY <1>2, <3>1 DEF Writing, Message, Msg, LinkTypes
    <3>3. link'[g] \in Seq(T)
      BY <1>1, TypeOK' DEF TypeOK
    <3>4. Coming(g)' = Append(now, Msg("body", m.refs))
      BY <2>2, <2>3, <3>1, <3>3
    <3> DEFINE d == Msg("body", m.refs)
    <3> HIDE DEF now, m, T, d
    <3>5. now \o <<d>> = Append(now, d)
      BY <2>1, <3>2, AppendIsConcat
    <3>6. QED
      BY <2>1, <2>3, <3>2, <3>4, <3>5 DEF d
  <2>9. CASE PumpOpen(f)
    <3>1. m.refs \subseteq stored[At[f]]
      BY <1>12, <2>9 DEF PumpOpen
    <3>2. /\ m.type = "open" /\ link' = link
          /\ outbound'[f] = <<Msg("body", m.refs)>> \o rest
      BY <2>9, <3>1 DEF PumpOpen, TypeOK
    <3>3. outbound'[f] # rest
      <4>1. Len(outbound'[f]) = Len(rest) + 1 /\ Len(rest) \in Nat
        BY <1>3, <3>2
      <4> HIDE DEF rest
      <4>2. QED
        BY <4>1
    <3>4. Writing(f)' = Writing(f)
      BY <1>2, <2>2, <3>2, <3>3 DEF Writing
    <3>5. QED
      BY <2>1, <2>3, <3>2, <3>4
  <2>10. QED
    BY <2>5, <2>6, <2>7, <2>8, <2>9 DEF Write, PumpBegin
<1>13. ASSUME NEW h \in End, h \notin cut, Opp[h] \notin torn'
       PROVE  WellPaired(Coming(h)', OpenStream(h)')
  <2>1. CASE h = g
    <3>1. f \notin cut
      BY <1>1, <1>13, <2>1 DEF StreamOrder
    <3>2. OpenStream(h)' = OpenStream(h)
      BY <1>2 DEF OpenStream
    <3>3. QED
      BY <1>1, <1>12, <1>13, <2>1, <3>1, <3>2
  <2>2. CASE h # g
    BY <1>7, <1>10, <1>13, <2>2 DEF StreamOrder
  <2>3. QED
    BY <2>1, <2>2
<1>14. ASSUME NEW h \in End, Opp[h] \notin torn' PROVE h \notin adrift
  BY <1>7, <1>14 DEF StreamOrder
<1>15. QED
  BY <1>2, <1>7, <1>9, <1>11, <1>13, <1>14 DEF StreamOrder

\* What is taken from a queue is taken from its first part.
LEMMA HeadTailOfConcat ==
    ASSUME NEW T, NEW s \in Seq(T), NEW t \in Seq(T), s # <<>>
    PROVE  /\ s \o t # <<>>
           /\ Head(s \o t) = Head(s)
           /\ Tail(s \o t) = Tail(s) \o t
<1>1. /\ s \o t \in Seq(T) /\ Tail(s) \in Seq(T)
      /\ Len(s) \in Nat /\ Len(s) >= 1 /\ Len(t) \in Nat
  BY ConcatProperties
<1>2. s \o t # <<>> /\ Head(s \o t) = Head(s)
  BY <1>1
<1>3. Tail(s \o t) \in Seq(T) /\ Tail(s) \o t \in Seq(T)
  BY <1>1, <1>2, ConcatProperties
<1>4. /\ Len(Tail(s \o t)) = Len(Tail(s) \o t)
      /\ \A i \in 1..Len(Tail(s \o t)) : Tail(s \o t)[i] = (Tail(s) \o t)[i]
  BY <1>1
<1>5. QED
  BY <1>2, <1>3, <1>4, SeqEqual

\* An arrival takes the head of the link, and leaves open what it began.
LEMMA DecodeKeepsOrder ==
    ASSUME TypeOK, StreamOrder, NEW e \in End, Decode(e)
    PROVE  StreamOrder'
<1> USE DEF nodeVars, lifeVars, wantVars, streamVars
<1> DEFINE m == Head(link[e])
           T == Message(LinkTypes)
           now == IF m.type = "begin" THEN m.refs ELSE {}
<1>1. /\ e \notin cut /\ link[e] # <<>>
      /\ link[e] \in Seq(T)
      /\ link' = [link EXCEPT ![e] = Tail(link[e])]
      /\ m \in T
      /\ UNCHANGED <<cut, outbound, torn>>
      /\ adrift' \ {e} = adrift \ {e}
  BY Heads DEF Decode, DecodeFrame, DecodeBegin, DecodeBody, DecodeMisread,
            DetachStream, Arrives, TypeOK
<1>2. /\ link'[e] = Tail(link[e])
      /\ \A h \in End : h # e => link'[h] = link[h]
  BY <1>1 DEF TypeOK
<1>3. /\ \A h \in End : Writing(h)' = Writing(h) /\ PumpFirst(h)' = PumpFirst(h)
      /\ \A h \in End : h # e => Coming(h)' = Coming(h) /\ OpenStream(h)' = OpenStream(h)
  <2>1. \A h \in End : Writing(h)' = Writing(h) /\ PumpFirst(h)' = PumpFirst(h)
    BY <1>1 DEF Writing, PumpFirst
  <2>2. \A h \in End : h # e => receiving'[h] = receiving[h] /\ discarding'[h] = discarding[h]
    BY DEF Decode, DecodeFrame, DecodeBegin, DecodeBody, DecodeMisread,
            DetachStream, TypeOK
  <2>3. QED
    BY <1>2, <2>1, <2>2, EndsAssumption DEF Coming, OpenStream
<1>4. /\ Coming(e) = link[e] \o Writing(Opp[e])
      /\ Coming(e) \in Seq(T) /\ Writing(Opp[e]) \in Seq(T)
  BY ComingTyped DEF Coming
<1>5. /\ Coming(e) # <<>> /\ Head(Coming(e)) = m
      /\ Coming(e)' = Tail(Coming(e))
  <2>1. /\ link[e] \o Writing(Opp[e]) # <<>>
        /\ Head(link[e] \o Writing(Opp[e])) = m
        /\ Tail(link[e] \o Writing(Opp[e])) = Tail(link[e]) \o Writing(Opp[e])
    BY <1>1, <1>4, HeadTailOfConcat
  <2>2. Coming(e)' = Tail(link[e]) \o Writing(Opp[e])
    BY <1>2, <1>3, EndsAssumption DEF Coming
  <2>3. QED
    BY <1>4, <2>1, <2>2
<1>6. ASSUME Opp[e] \notin torn
      PROVE  e \notin adrift' /\ WellPaired(Coming(e)', OpenStream(e)')
  <2>1. e \notin adrift /\ WellPaired(Coming(e), OpenStream(e))
    BY <1>1, <1>6 DEF StreamOrder
  <2>2. /\ OpenStream(e) = IF m.type = "body" THEN m.refs ELSE {}
        /\ WellPaired(Coming(e)', now)
    <3> DEFINE w == Coming(e)
               was == OpenStream(e)
    <3>1. WellPaired(w, was) /\ w \in Seq(T) /\ w # <<>> /\ Head(w) = m /\ Coming(e)' = Tail(w)
      BY <1>4, <1>5, <2>1
    <3> HIDE DEF T, m, w, was
    <3>2. /\ was = IF Head(w).type = "body" THEN Head(w).refs ELSE {}
          /\ WellPaired(Tail(w), IF Head(w).type = "begin" THEN Head(w).refs ELSE {})
      BY <3>1, PairedTail
    <3>3. QED
      BY <3>1, <3>2 DEF was
  <2>3. Fits(e)
    BY <2>1, <2>2 DEF Fits
  <2>4. OpenStream(e)' = now /\ adrift' = adrift
    <3>1. CASE DecodeFrame(e)
      BY <2>2, <3>1 DEF DecodeFrame, Arrives, OpenStream
    <3>2. CASE DecodeBegin(e)
      BY <2>2, <3>2 DEF DecodeBegin, Arrives, OpenStream, TypeOK
    <3>3. CASE DecodeBody(e)
      BY <3>3 DEF DecodeBody, DetachStream, Arrives, OpenStream, TypeOK
    <3>4. QED
      BY <2>3, <3>1, <3>2, <3>3 DEF Decode, DecodeMisread
  <2>5. QED
    BY <2>1, <2>2, <2>4
<1>7. \A h \in End : h \in cut => link'[h] = <<>> /\ Opp[h] \in cut
  BY <1>1, <1>2 DEF StreamOrder
<1>8. \A h \in End : (h \notin cut /\ Opp[h] \notin torn) => WellPaired(Coming(h)', OpenStream(h)')
  BY <1>3, <1>6 DEF StreamOrder
<1>9. \A h \in End : Opp[h] \notin torn => h \notin adrift'
  BY <1>1, <1>6 DEF StreamOrder
<1>10. QED
  BY <1>1, <1>3, <1>7, <1>8, <1>9 DEF StreamOrder

\* For any nodes and sessions, whichever transports they use and whatever is
\* evicted, a stream-begin arrives where no stream is open, a body where its own
\* stream is, and no frame falls into a stream, as long as the sender has found
\* the file of every stream it began; one that writes to a TCP socket always has.
THEOREM StreamsApart == Spec => []StreamsNeverOverlap
<1>1. Init => StreamOrder
  <2> SUFFICES ASSUME Init, NEW e \in End
               PROVE  WellPaired(Coming(e), OpenStream(e)) /\ PumpFirst(e)
                      /\ e \notin cut /\ e \notin adrift
    BY DEF Init, StreamOrder
  <2>1. link[e] = <<>> /\ outbound[e] = <<>> /\ outbound[Opp[e]] = <<>>
        /\ receiving[e] = {} /\ discarding[e] = {} /\ cut = {} /\ adrift = {}
    BY EndsAssumption DEF Init
  <2>2. Coming(e) = <<>> /\ OpenStream(e) = {}
    BY <2>1 DEF Coming, OpenStream, Writing
  <2>3. WellPaired(<<>>, {})
    BY DEF WellPaired, OpenBefore
  <2>4. QED
    BY <2>1, <2>2, <2>3 DEF PumpFirst
<1>2. TypeOK /\ TypeOK' /\ StreamOrder /\ [Next]_vars => StreamOrder'
  <2> SUFFICES ASSUME TypeOK, TypeOK', StreamOrder, [Next]_vars PROVE StreamOrder'
    OBVIOUS
  <2> USE DEF nodeVars, lifeVars, wantVars, streamVars
  <2>1. ASSUME NEW e \in End, Write(e) \/ Decode(e) PROVE StreamOrder'
    BY <2>1, WriteKeepsOrder, DecodeKeepsOrder
  <2>2. ASSUME NEW e \in End, CloseConnection(e) PROVE StreamOrder'
    <3>1. /\ UNCHANGED <<outbound, receiving, discarding, adrift, torn>>
          /\ cut' = cut \cup {e, Opp[e]}
          /\ link'[e] = <<>> /\ link'[Opp[e]] = <<>>
          /\ \A h \in End : h \notin {e, Opp[e]} => link'[h] = link[h]
      BY <2>2, EndsAssumption DEF CloseConnection, TypeOK
    <3>2. \A h \in End : h \in cut' => link'[h] = <<>> /\ Opp[h] \in cut'
      BY <3>1, EndsAssumption DEF StreamOrder
    <3>3. \A h \in End : h \notin cut' => Coming(h)' = Coming(h)
      BY <3>1, EndsAssumption DEF Coming, Writing
    <3>4. \A h \in End : OpenStream(h)' = OpenStream(h) /\ PumpFirst(h)' = PumpFirst(h)
      BY <3>1 DEF OpenStream, PumpFirst
    <3>5. QED
      BY <3>1, <3>2, <3>3, <3>4 DEF StreamOrder
  <2>3. ASSUME NEW e \in End, NEW b \in Block, ServeBlock(e, b) PROVE StreamOrder'
    <3>1. /\ UNCHANGED <<link, cut, receiving, discarding, adrift, torn>>
          /\ \/ outbound' = [outbound EXCEPT ![e] = Append(@, Msg("pump", {b}))]
             \/ outbound' = outbound
      BY <2>3 DEF ServeBlock
    <3>2. ASSUME NEW f \in End
          PROVE  Extended(outbound[f], outbound'[f], FrameTypes \cup {"pump"})
      <4>1. outbound[f] \in Seq(Message(OutTypes))
        BY DEF TypeOK
      <4>2. outbound'[f] \in {outbound[f], Append(outbound[f], Msg("pump", {b}))}
        BY <3>1 DEF TypeOK
      <4>3. Msg("pump", {b}).type \in FrameTypes \cup {"pump"}
        BY DEF Msg
      <4>4. QED
        BY <4>1, <4>2, <4>3, ExtendedByMessage, ExtendedByNothing
    <3>3. QED
      BY <3>1, <3>2, QueueingKeepsOrder DEF Queues
  <2>4. CASE Queues(FrameTypes)
    <3>1. Queues(FrameTypes \cup {"pump"})
      BY <2>4 DEF Queues, Extended
    <3>2. QED
      BY <3>1, QueueingKeepsOrder
  <2>5. QED
    BY <2>1, <2>2, <2>3, <2>4, QueueSteps
<1>3. TypeOK /\ StreamOrder => StreamsNeverOverlap
  <2> SUFFICES ASSUME TypeOK, StreamOrder, NEW e \in End, Opp[e] \notin torn, link[e] # <<>>
               PROVE  Fits(e)
    BY DEF StreamsNeverOverlap, StreamOrder
  <2> DEFINE T == Message(LinkTypes)
  <2>1. /\ e \notin cut /\ e \notin adrift /\ WellPaired(Coming(e), OpenStream(e))
        /\ Coming(e) = link[e] \o Writing(Opp[e])
        /\ link[e] \in Seq(T) /\ Coming(e) \in Seq(T) /\ Writing(Opp[e]) \in Seq(T)
    BY ComingTyped DEF StreamOrder, Coming
  <2> HIDE DEF T
  <2>2. Coming(e) # <<>> /\ Head(Coming(e)) = Head(link[e])
    BY <2>1, HeadTailOfConcat
  <2> DEFINE w == Coming(e)
             was == OpenStream(e)
  <2>3. WellPaired(w, was) /\ w \in Seq(T) /\ w # <<>> /\ Head(w) = Head(link[e])
    BY <2>1, <2>2
  <2> HIDE DEF w, was
  <2>4. was = IF Head(w).type = "body" THEN Head(w).refs ELSE {}
    BY <2>3, PairedTail
  <2>5. QED
    BY <2>1, <2>3, <2>4 DEF was, Fits
<1>4. QED
  BY <1>1, <1>2, <1>3, TypeCorrect, PTL DEF Spec

-----------------------------------------------------------------------------
(* Objects are only copied *)

\* What queues hold of objects themselves, not of their names alone, ...
Payload == {"data", "pump", "open", "begin", "body"}
Carries(q, S) == \A i \in 1..Len(q) : q[i].type \in Payload => q[i].refs \subseteq S

\* ... and what is on its way to an end, the process that sends it has had.
SourcedAt(e) ==
    LET far == Had(At[Opp[e]]) IN
    /\ Carries(outbound[e], Had(At[e]))
    /\ Carries(link[e], far)
    /\ Carries(inbound[e], far)
    /\ receiving[e] \cup finishing[e] \subseteq far
Sourced ==
    /\ \A n \in Node : stored[n] \subseteq Had(n)
    /\ \A e \in End : SourcedAt(e)

\* A queue that loses its head, or gets another in its place, ...
LEMMA CarriesRest ==
    ASSUME NEW T, NEW q \in Seq(T), q # <<>>, NEW S, Carries(q, S)
    PROVE  /\ q[1] = Head(q)
           /\ Head(q).type \in Payload => Head(q).refs \subseteq S
           /\ Carries(Tail(q), S)
           /\ \A m : (m.type \in Payload => m.refs \subseteq S)
                        => Carries(<<m>> \o Tail(q), S)
<1>1. /\ Len(q) \in Nat /\ Len(q) >= 1 /\ q[1] = Head(q)
      /\ Tail(q) \in Seq(T)
      /\ Len(Tail(q)) = Len(q) - 1
      /\ \A i \in 1..Len(Tail(q)) : i + 1 \in 1..Len(q) /\ Tail(q)[i] = q[i + 1]
  OBVIOUS
<1>2. Carries(Tail(q), S)
  BY <1>1 DEF Carries
<1>3. ASSUME NEW m, m.type \in Payload => m.refs \subseteq S
      PROVE  Carries(<<m>> \o Tail(q), S)
  <2> DEFINE rest == Tail(q)
  <2>1. rest \in Seq(T) /\ Carries(rest, S)
    BY <1>1, <1>2
  <2> HIDE DEF rest
  <2>2. /\ Len(<<m>> \o rest) = Len(rest) + 1 /\ Len(rest) \in Nat
        /\ (<<m>> \o rest)[1] = m
        /\ \A i \in 2..Len(<<m>> \o rest) :
              i - 1 \in 1..Len(rest) /\ (<<m>> \o rest)[i] = rest[i - 1]
    BY <2>1
  <2>3. \A i \in 1..Len(<<m>> \o rest) : i = 1 \/ i \in 2..Len(<<m>> \o rest)
    BY <2>2
  <2>4. Carries(<<m>> \o rest, S)
    BY <1>3, <2>1, <2>2, <2>3 DEF Carries
  <2>5. QED
    BY <2>4 DEF rest
<1>4. QED
  BY <1>1, <1>2, <1>3 DEF Carries

\* ... or gets a message behind it, carries what is allowed for each, ...
LEMMA CarriesOneMore ==
    ASSUME NEW T, NEW q \in Seq(T), NEW S, Carries(q, S),
           NEW m, m.type \in Payload => m.refs \subseteq S
    PROVE  Carries(Append(q, m), S)
<1>1. /\ Len(q) \in Nat
      /\ Len(Append(q, m)) = Len(q) + 1
      /\ \A i \in 1..Len(q) : Append(q, m)[i] = q[i]
      /\ Append(q, m)[Len(q) + 1] = m
  OBVIOUS
<1>2. \A i \in 1..Len(Append(q, m)) : i \in 1..Len(q) \/ i = Len(q) + 1
  BY <1>1
<1>3. QED
  BY <1>1, <1>2 DEF Carries

\* ... and haves and wants carry nothing.
LEMMA CarriesAsks ==
    ASSUME NEW T, NEW U, NEW old \in Seq(T), NEW new \in Seq(U), NEW S, Carries(old, S),
           Extended(old, new, AskTypes)
    PROVE  Carries(new, S)
<1>1. Len(old) \in Nat /\ Len(new) \in Nat
  OBVIOUS
<1>2. \A i \in 1..Len(new) : i \in 1..Len(old) \/ i \in (Len(old) + 1)..Len(new)
  BY <1>1
<1>3. AskTypes \cap Payload = {}
  BY DEF AskTypes, Payload
<1>4. QED
  BY <1>2, <1>3 DEF Carries, Extended

\* A node gets the objects S, and has had them.
Grows(n, S) ==
    /\ stored' = [stored EXCEPT ![n] = @ \cup S]
    /\ \A m \in Node : Had(m)' = IF m = n THEN Had(m) \cup S ELSE Had(m)

\* What a node has and has had changes when its application writes, when an
\* object arrives from a process that has had it, and when a file is removed.
LEMMA HadSteps ==
    ASSUME TypeOK, Sourced, [Next]_vars
    PROVE  \/ stored' = stored /\ \A m \in Node : Had(m)' = Had(m)
           \/ \E n \in Node, o \in Object : o \in Author[n] /\ Grows(n, {o})
           \/ \E e \in End, S \in SUBSET Object :
                 S \subseteq Had(At[Opp[e]]) /\ Grows(At[e], S)
           \/ \E n \in Node, b \in Block :
                 Evict(n, b) /\ \A m \in Node : Had(m)' = Had(m)
<1> USE DEF nodeVars, lifeVars, wantVars, streamVars
<1> DEFINE Same == \A m \in Node : Had(m)' = Had(m)
           Stays == stored' = stored /\ Same
<1>1. UNCHANGED <<journal, renamed>> => Same
  BY DEF Had, EndsAt
<1>2. /\ journal \in [Node -> SUBSET Object]
      /\ renamed \in [End -> SUBSET Block]
      /\ \A e \in End : At[e] \in Node
  BY EndsAssumption DEF TypeOK
<1>3. ASSUME NEW n \in Node, NEW S, UNCHANGED renamed,
             journal' = [journal EXCEPT ![n] = @ \cup S],
             stored' = [stored EXCEPT ![n] = @ \cup S]
      PROVE  Grows(n, S)
  <2>1. \A m \in Node : journal'[m] = IF m = n THEN journal[m] \cup S ELSE journal[m]
    BY <1>2, <1>3
  <2>2. \A m \in Node : Had(m)' = IF m = n THEN Had(m) \cup S ELSE Had(m)
    BY <1>3, <2>1 DEF Had, EndsAt
  <2>3. QED
    BY <1>3, <2>2 DEF Grows
<1>4. ASSUME NEW e \in End, Handle(e)
      PROVE  \/ Stays
             \/ \E S \in SUBSET Object : S \subseteq Had(At[Opp[e]]) /\ Grows(At[e], S)
  <2>1. CASE AcceptData(e)
    <3> DEFINE m == Head(inbound[e])
               new == m.refs \ stored[At[e]]
    <3>1. /\ inbound[e] # <<>> /\ m.type = "data"
          /\ journal' = [journal EXCEPT ![At[e]] = @ \cup new]
          /\ stored' = [stored EXCEPT ![At[e]] = @ \cup new]
          /\ UNCHANGED renamed
      BY <2>1 DEF AcceptData, Running
    <3>2. new \in SUBSET Object
      BY <3>1, Heads DEF Message
    <3>3. new \subseteq Had(At[Opp[e]])
      <4>1. inbound[e] \in Seq(Message(QueuedTypes)) /\ Carries(inbound[e], Had(At[Opp[e]]))
        BY DEF TypeOK, Sourced, SourcedAt
      <4>2. m.type \in Payload => m.refs \subseteq Had(At[Opp[e]])
        BY <3>1, <4>1, CarriesRest
      <4>3. QED
        BY <3>1, <4>2 DEF Payload
    <3> HIDE DEF new
    <3>4. Grows(At[e], new)
      BY <1>2, <1>3, <3>1
    <3>5. QED
      BY <3>2, <3>3, <3>4
  <2>2. CASE ~ AcceptData(e)
    BY <1>1, <1>4, <2>2 DEF Handle, HaveMissing, HaveWants, DependencyWants, ServeBlock, ServeEvent
  <2>3. QED
    BY <2>1, <2>2
<1>5. ASSUME NEW e \in End, Finalize(e)
      PROVE  \/ Stays
             \/ \E S \in SUBSET Object : S \subseteq Had(At[Opp[e]]) /\ Grows(At[e], S)
  <2> PICK b \in Block : FinishStream(e, b) \/ FinishInvalid(e, b) \/ MarkBlockStored(e, b)
    BY <1>5 DEF Finalize
  <2>1. CASE FinishStream(e, b)
    <3>1. {b} \in SUBSET Object /\ {b} \subseteq Had(At[Opp[e]])
      BY <2>1 DEF FinishStream, Sourced, SourcedAt, Object
    <3>2. \A f \in End : renamed'[f] = IF f = e THEN renamed[f] \cup {b} ELSE renamed[f]
      BY <1>2, <2>1 DEF FinishStream
    <3>3. \A m \in Node : Had(m)' = IF m = At[e] THEN Had(m) \cup {b} ELSE Had(m)
      <4>1. ASSUME NEW m \in Node, NEW o
            PROVE  o \in Had(m)' <=> o \in Had(m) \/ (m = At[e] /\ o = b)
        <5>1. o \in Had(m)' <=> \/ o \in journal[m]
                                \/ \E f \in End : At[f] = m /\ o \in renamed'[f]
          BY <2>1 DEF Had, EndsAt, FinishStream
        <5>2. o \in Had(m) <=> \/ o \in journal[m]
                               \/ \E f \in End : At[f] = m /\ o \in renamed[f]
          BY DEF Had, EndsAt
        <5>3. QED
          BY <3>2, <5>1, <5>2
      <4>2. QED
        BY <4>1
    <3>4. Grows(At[e], {b})
      BY <2>1, <3>3 DEF Grows, FinishStream
    <3>5. QED
      BY <3>1, <3>4
  <2>2. CASE FinishInvalid(e, b)
    BY <1>1, <2>2 DEF FinishInvalid
  <2>3. CASE MarkBlockStored(e, b)
    <3>1. /\ \A f \in End : renamed'[f] = IF f = e THEN renamed[f] \ {b} ELSE renamed[f]
          /\ \A m \in Node : journal'[m] = IF m = At[e] THEN journal[m] \cup {b} ELSE journal[m]
          /\ b \in renamed[e] /\ stored' = stored
      BY <1>2, <2>3 DEF MarkBlockStored
    <3>2. ASSUME NEW m \in Node, NEW o PROVE o \in Had(m)' <=> o \in Had(m)
      <4>1. o \in Had(m)' <=> \/ o \in journal'[m]
                              \/ \E f \in End : At[f] = m /\ o \in renamed'[f]
        BY DEF Had, EndsAt
      <4>2. o \in Had(m) <=> \/ o \in journal[m]
                             \/ \E f \in End : At[f] = m /\ o \in renamed[f]
        BY DEF Had, EndsAt
      <4>3. QED
        BY <3>1, <4>1, <4>2
    <3>3. QED
      BY <3>1, <3>2
  <2>4. QED
    BY <2>1, <2>2, <2>3
<1>6. ASSUME NEW e \in End, Start(e) \/ Write(e) \/ Decode(e) \/ Fail(e) PROVE Stays
  <2>1. CASE Start(e)
    BY <1>1, <2>1 DEF Start, Attach, AttachList, AttachAnnounce, OrphanRepair
  <2>2. CASE Write(e)
    BY <1>1, <2>2 DEF Write, WriteFrame, PumpBegin, PumpOpen, PumpFails, PumpBody
  <2>3. CASE Decode(e)
    BY <1>1, <2>3 DEF Decode, DecodeFrame, DecodeBegin, DecodeBody, DecodeMisread,
            DetachStream
  <2>4. CASE Fail(e)
    BY <1>1, <2>4 DEF Fail, LoseConnection, WantTimeout, DecodeThrows, CloseConnection, Stop
  <2>5. QED
    BY <1>6, <2>1, <2>2, <2>3, <2>4
<1>7. ASSUME NEW n \in Node, NEW o \in Object, LocalWrite(n, o)
      PROVE  o \in Author[n] /\ Grows(n, {o})
  BY <1>3, <1>7 DEF LocalWrite
<1>8. ASSUME NEW n \in Node, NEW b \in Block, Evict(n, b) PROVE Same
  BY <1>1, <1>8 DEF Evict
<1>9. CASE UNCHANGED vars
  BY <1>1, <1>9 DEF vars
<1> HIDE DEF Stays, Same
<1>10. CASE Next
  BY <1>4, <1>5, <1>6, <1>7, <1>8, <1>10 DEF Next, Stays, Same
<1>11. QED
  BY <1>9, <1>10 DEF Stays, Same

\* So a node forgets nothing, and what it can read it has had.
LEMMA HadKept ==
    ASSUME TypeOK, Sourced, [Next]_vars, NEW n \in Node
    PROVE  Had(n) \subseteq Had(n)' /\ stored'[n] \subseteq Had(n)'
<1>1. /\ stored \in [Node -> SUBSET Object]
      /\ stored[n] \subseteq Had(n)
      /\ \A e \in End : At[e] \in Node
  BY EndsAssumption DEF TypeOK, Sourced
<1>2. ASSUME NEW k \in Node, NEW S, Grows(k, S)
      PROVE  Had(n) \subseteq Had(n)' /\ stored'[n] \subseteq Had(n)'
  BY <1>1, <1>2 DEF Grows
<1>3. ASSUME NEW k \in Node, NEW b \in Block, Evict(k, b) PROVE stored'[n] \subseteq stored[n]
  BY <1>1, <1>3 DEF Evict
<1>4. QED
  BY <1>1, <1>2, <1>3, HadSteps

\* What a session queues it reads from the store, ...
LEMMA OutboundSourced ==
    ASSUME TypeOK, TypeOK', Sourced, [Next]_vars, NEW e \in End
    PROVE  Carries(outbound'[e], Had(At[e]))
<1> USE DEF nodeVars, lifeVars, wantVars, streamVars
<1> DEFINE S == Had(At[e])
<1>1. /\ outbound[e] \in Seq(Message(OutTypes))
      /\ outbound'[e] \in Seq(Message(OutTypes))
      /\ Carries(outbound[e], S)
      /\ stored[At[e]] \subseteq S
  BY EndsAssumption DEF TypeOK, Sourced, SourcedAt
<1>2. ASSUME NEW f \in End, Write(f) PROVE Carries(outbound'[e], S)
  <2> DEFINE m == Head(outbound[f])
  <2>1. /\ outbound[f] # <<>>
        /\ \A h \in End : h # f => outbound'[h] = outbound[h]
        /\ \/ outbound'[f] = Tail(outbound[f])
           \/ \E t \in {"open", "body"} :
                 /\ m.type \in {"pump", "open"}
                 /\ outbound'[f] = <<Msg(t, m.refs)>> \o Tail(outbound[f])
    <3>1. outbound \in [End -> Seq(Message(OutTypes))]
      BY DEF TypeOK
    <3>2. QED
      BY <1>2, <3>1, WriteShapes
  <2>2. CASE f = e
    <3> HIDE DEF S
    <3>1. /\ Carries(Tail(outbound[e]), S)
          /\ m.type \in Payload => m.refs \subseteq S
          /\ \A x : (x.type \in Payload => x.refs \subseteq S)
                       => Carries(<<x>> \o Tail(outbound[e]), S)
      BY <1>1, <2>1, <2>2, CarriesRest
    <3>2. ASSUME NEW t, m.type \in {"pump", "open"}
          PROVE  Carries(<<Msg(t, m.refs)>> \o Tail(outbound[e]), S)
      <4>1. Msg(t, m.refs).refs = m.refs /\ m.refs \subseteq S
        BY <3>1, <3>2 DEF Msg, Payload
      <4>2. QED
        BY <3>1, <4>1
    <3>3. CASE outbound'[f] = Tail(outbound[f])
      BY <2>2, <3>1, <3>3
    <3>4. CASE outbound'[f] # Tail(outbound[f])
      <4>1. PICK t \in {"open", "body"} :
                /\ m.type \in {"pump", "open"}
                /\ outbound'[f] = <<Msg(t, m.refs)>> \o Tail(outbound[f])
        BY <2>1, <3>4
      <4>2. Carries(<<Msg(t, m.refs)>> \o Tail(outbound[e]), S)
        BY <3>2, <4>1
      <4>3. QED
        BY <2>2, <4>1, <4>2
    <3>5. QED
      BY <3>3, <3>4
  <2>3. QED
    BY <1>1, <2>1, <2>2
<1>3. ASSUME NEW f \in End, NEW o \in Object, NEW t,
             \/ outbound' = outbound
             \/ /\ o \in stored[At[f]]
                /\ outbound' = [outbound EXCEPT ![f] = Append(@, Msg(t, {o}))]
      PROVE  Carries(outbound'[e], S)
  <2> DEFINE m == Msg(t, {o})
  <2>1. \/ outbound'[e] = outbound[e]
        \/ m.refs \subseteq S /\ outbound'[e] = Append(outbound[e], m)
    BY <1>1, <1>3 DEF TypeOK, Msg
  <2> HIDE DEF m, S
  <2>2. QED
    BY <1>1, <2>1, CarriesOneMore
<1>4. ASSUME NEW f \in End, NEW b \in Block, ServeBlock(f, b) PROVE Carries(outbound'[e], S)
  <2>1. /\ b \in Object
        /\ \/ outbound' = outbound
           \/ /\ b \in stored[At[f]]
              /\ outbound' = [outbound EXCEPT ![f] = Append(@, Msg("pump", {b}))]
    BY <1>4 DEF ServeBlock, ClaimOutboundServe, Object
  <2>2. QED
    BY <1>3, <2>1
<1>5. ASSUME NEW f \in End, NEW v \in Event, ServeEvent(f, v) PROVE Carries(outbound'[e], S)
  <2>1. /\ v \in Object
        /\ \/ outbound' = outbound
           \/ /\ v \in stored[At[f]]
              /\ outbound' = [outbound EXCEPT ![f] = Append(@, Msg("data", {v}))]
    BY <1>5 DEF ServeEvent, Object
  <2>2. QED
    BY <1>3, <2>1
<1>6. ASSUME NEW f \in End, Decode(f) \/ CloseConnection(f) PROVE outbound' = outbound
  BY <1>6 DEF Decode, DecodeFrame, DecodeBegin, DecodeBody, DecodeMisread,
            DetachStream, CloseConnection
<1>7. ASSUME Queues(AskTypes) PROVE Carries(outbound'[e], S)
  <2> HIDE DEF S
  <2>1. Extended(outbound[e], outbound'[e], AskTypes)
    BY <1>7 DEF Queues
  <2>2. QED
    BY <1>1, <2>1, CarriesAsks
<1>8. QED
  BY <1>1, <1>2, <1>4, <1>5, <1>6, <1>7, AskSteps

\* ... what is on a link was queued at the other end, ...
LEMMA LinkSourced ==
    ASSUME TypeOK, Sourced, [Next]_vars, NEW e \in End
    PROVE  Carries(link'[e], Had(At[Opp[e]]))
<1> USE DEF nodeVars, lifeVars, wantVars, streamVars
<1> DEFINE S == Had(At[Opp[e]])
<1>1. /\ link[e] \in Seq(Message(LinkTypes))
      /\ Carries(link[e], S)
      /\ \A f \in End : Opp[f] \in End /\ Opp[Opp[f]] = f
  BY EndsAssumption DEF TypeOK, Sourced, SourcedAt
<1>2. ASSUME NEW f \in End, Write(f) PROVE Carries(link'[e], S)
  <2> DEFINE m == Head(outbound[f])
             b == Msg("begin", m.refs)
             x == Msg(m.type, m.refs)
  <2>1. /\ outbound[f] # <<>>
        /\ \/ link' = link
           \/ link' = [link EXCEPT ![Opp[f]] = Append(@, x)]
           \/ m.type = "pump" /\ link' = [link EXCEPT ![Opp[f]] = Append(@, b)]
    BY <1>2 DEF Write, WriteFrame, PumpBegin, PumpOpen, PumpFails, PumpBody, Written
  <2>2. CASE Opp[f] = e
    <3>1. Opp[e] = f /\ outbound[f] \in Seq(Message(OutTypes)) /\ Carries(outbound[f], S)
      BY <1>1, <2>2 DEF TypeOK, Sourced, SourcedAt
    <3>2. b.type = "begin" /\ b.refs = m.refs /\ x.type = m.type /\ x.refs = m.refs
      BY DEF Msg
    <3>3. \/ link'[e] = link[e]
          \/ link'[e] = Append(link[e], x)
          \/ m.type = "pump" /\ link'[e] = Append(link[e], b)
      BY <2>1, <2>2 DEF TypeOK
    <3> HIDE DEF b, x, S
    <3>4. m.type \in Payload => m.refs \subseteq S
      BY <2>1, <3>1, CarriesRest
    <3>5. /\ x.type \in Payload => x.refs \subseteq S
          /\ m.type = "pump" => (b.type \in Payload => b.refs \subseteq S)
      BY <3>2, <3>4 DEF Payload
    <3>6. /\ Carries(Append(link[e], x), S)
          /\ m.type = "pump" => Carries(Append(link[e], b), S)
      BY <1>1, <3>5, CarriesOneMore
    <3>7. Carries(link'[e], S)
      BY <1>1, <3>3, <3>6
    <3>8. QED
      BY <3>7
  <2>3. CASE Opp[f] # e
    <3>1. link'[e] = link[e]
      BY <1>1, <2>1, <2>3 DEF TypeOK
    <3>2. QED
      BY <1>1, <3>1
  <2>4. QED
    BY <2>2, <2>3
<1>3. ASSUME NEW f \in End, Decode(f) PROVE Carries(link'[e], S)
  <2>1. link[f] # <<>> /\ link' = [link EXCEPT ![f] = Tail(@)]
    BY <1>3 DEF Decode, DecodeFrame, DecodeBegin, DecodeBody, DecodeMisread,
            DetachStream, Arrives
  <2>2. link'[e] = IF f = e THEN Tail(link[e]) ELSE link[e]
    BY <2>1 DEF TypeOK
  <2> HIDE DEF S
  <2>3. link[e] # <<>> => Carries(Tail(link[e]), S)
    BY <1>1, CarriesRest
  <2>4. QED
    BY <1>1, <2>1, <2>2, <2>3
<1>4. ASSUME NEW f \in End, CloseConnection(f) PROVE Carries(link'[e], S)
  <2>1. link'[e] = <<>> \/ link'[e] = link[e]
    BY <1>1, <1>4 DEF CloseConnection, TypeOK
  <2>2. QED
    BY <1>1, <2>1 DEF Carries
<1>5. ASSUME \/ \E f \in End, b \in Block : ServeBlock(f, b)
             \/ \E f \in End, v \in Event : ServeEvent(f, v)
             \/ Queues(AskTypes)
      PROVE  link' = link
  BY <1>5 DEF ServeBlock, ServeEvent, Queues
<1>6. QED
  BY <1>1, <1>2, <1>3, <1>4, <1>5, AskSteps

\* ... what waits for its handler came over the link, ...
LEMMA InboundSourced ==
    ASSUME TypeOK, Sourced, [Next]_vars, NEW e \in End
    PROVE  Carries(inbound'[e], Had(At[Opp[e]]))
<1> USE DEF nodeVars, lifeVars, wantVars, streamVars
<1> DEFINE S == Had(At[Opp[e]])
<1>1. /\ link[e] \in Seq(Message(LinkTypes)) /\ Carries(link[e], S)
      /\ inbound[e] \in Seq(Message(QueuedTypes)) /\ Carries(inbound[e], S)
  BY DEF TypeOK, Sourced, SourcedAt
<1>2. ASSUME NEW f \in End, DecodeFrame(f) PROVE Carries(inbound'[e], S)
  <2> DEFINE m == Head(link[f])
  <2>1. /\ link[f] # <<>>
        /\ inbound'[e] = IF f = e THEN Append(inbound[e], m) ELSE inbound[e]
    BY <1>2 DEF DecodeFrame, Arrives, TypeOK
  <2> HIDE DEF S
  <2>2. f = e => (m.type \in Payload => m.refs \subseteq S)
    BY <1>1, <2>1, CarriesRest
  <2> HIDE DEF m
  <2>3. f = e => Carries(Append(inbound[e], m), S)
    BY <1>1, <2>2, CarriesOneMore
  <2>4. QED
    BY <1>1, <2>1, <2>3
<1>3. ASSUME NEW f \in End, NEW refs, inbound[f] # <<>>,
             \/ inbound' = Done(f)
             \/ inbound' = Replace(f, "want", refs)
             \/ inbound' = Replace(f, "missing", refs)
             \/ inbound' = Replace(f, "accepted", refs)
      PROVE  Carries(inbound'[e], S)
  <2>1. CASE f # e
    <3>1. inbound'[e] = inbound[e]
      BY <1>3, <2>1 DEF Done, Replace, TypeOK
    <3>2. QED
      BY <1>1, <3>1
  <2>2. CASE f = e
    <3>1. PICK t \in {"want", "missing", "accepted"} :
              \/ inbound'[e] = Tail(inbound[e])
              \/ inbound'[e] = <<Msg(t, refs)>> \o Tail(inbound[e])
      BY <1>3, <2>2 DEF Done, Replace, TypeOK
    <3> DEFINE m == Msg(t, refs)
    <3>2. m.type \notin Payload
      BY DEF Msg, Payload
    <3>3. \/ inbound'[e] = Tail(inbound[e])
          \/ inbound'[e] = <<m>> \o Tail(inbound[e])
      BY <3>1
    <3> HIDE DEF m, S
    <3>4. Carries(Tail(inbound[e]), S) /\ Carries(<<m>> \o Tail(inbound[e]), S)
      <4>1. inbound[e] # <<>>
        BY <1>3, <2>2
      <4>2. \A x : (x.type \in Payload => x.refs \subseteq S)
                     => Carries(<<x>> \o Tail(inbound[e]), S)
        BY <1>1, <4>1, CarriesRest
      <4>3. Carries(Tail(inbound[e]), S)
        BY <1>1, <4>1, CarriesRest
      <4>4. Carries(<<m>> \o Tail(inbound[e]), S)
        BY <3>2, <4>2
      <4>5. QED
        BY <4>3, <4>4
    <3>5. QED
      BY <3>3, <3>4
  <2>3. QED
    BY <2>1, <2>2
<1>4. ASSUME NEW f \in End, Handle(f) PROVE Carries(inbound'[e], S)
  <2>1. inbound[f] # <<>>
    BY <1>4 DEF Handle, Running, HaveMissing, HaveWants, AcceptData, DependencyWants,
                ServeBlock, ServeEvent
  <2>2. \E refs : \/ inbound' = Done(f)
                  \/ inbound' = Replace(f, "want", refs)
                  \/ inbound' = Replace(f, "missing", refs)
                  \/ inbound' = Replace(f, "accepted", refs)
    BY <1>4 DEF Handle, HaveMissing, HaveWants, AcceptData, DependencyWants,
                ServeBlock, ServeEvent
  <2>3. QED
    BY <1>3, <2>1, <2>2
<1>5. ASSUME NEW f \in End, DecodeBegin(f) \/ DecodeBody(f) \/ DecodeMisread(f)
      PROVE  inbound' = inbound
  BY <1>5 DEF DecodeBegin, DecodeBody, DecodeMisread
<1>6. ASSUME NEW f \in End, Start(f) \/ Write(f) \/ Fail(f) PROVE inbound' = inbound
  BY <1>6 DEF Start, Attach, AttachList, AttachAnnounce, OrphanRepair,
              Write, WriteFrame, PumpBegin, PumpOpen, PumpFails, PumpBody,
              Fail, LoseConnection, WantTimeout, DecodeThrows, CloseConnection, Stop
<1>7. ASSUME NEW f \in End, Finalize(f) PROVE inbound' = inbound
  BY <1>7 DEF Finalize, FinishStream, FinishInvalid, MarkBlockStored
<1>8. ASSUME \/ \E n \in Node : \E o \in Object : LocalWrite(n, o)
             \/ \E n \in Node : \E b \in Block : Evict(n, b)
             \/ UNCHANGED vars
      PROVE  inbound' = inbound
  BY <1>8 DEF LocalWrite, Evict, vars
<1>9. ASSUME NEW f \in End, Decode(f)
      PROVE  Carries(inbound'[e], S) \/ inbound' = inbound
  BY <1>2, <1>5, <1>9 DEF Decode
<1>10. Carries(inbound'[e], S) \/ inbound' = inbound
  <2> HIDE DEF S
  <2>1. QED
    BY <1>4, <1>6, <1>7, <1>8, <1>9 DEF Next
<1>11. QED
  BY <1>1, <1>10

\* ... and so did the block of a stream.
LEMMA StreamsSourced ==
    ASSUME TypeOK, Sourced, [Next]_vars, NEW e \in End
    PROVE  receiving'[e] \cup finishing'[e] \subseteq Had(At[Opp[e]])
<1> USE DEF nodeVars, lifeVars, wantVars, streamVars
<1> DEFINE S == Had(At[Opp[e]])
<1>1. /\ link[e] \in Seq(Message(LinkTypes)) /\ Carries(link[e], S)
      /\ receiving[e] \cup finishing[e] \subseteq S
      /\ receiving \in [End -> SUBSET Block] /\ finishing \in [End -> SUBSET Block]
  BY DEF TypeOK, Sourced, SourcedAt
<1>2. ASSUME NEW f \in End, DecodeBegin(f) PROVE receiving'[e] \cup finishing'[e] \subseteq S
  <2> DEFINE m == Head(link[f])
  <2>1. /\ link[f] # <<>> /\ m.type = "begin"
        /\ receiving'[e] \in {receiving[e], IF f = e THEN m.refs ELSE receiving[e]}
        /\ finishing' = finishing
    BY <1>1, <1>2 DEF DecodeBegin, Arrives
  <2> HIDE DEF S
  <2>2. f = e => m.refs \subseteq S
    <3>1. f = e => (m.type \in Payload => m.refs \subseteq S)
      BY <1>1, <2>1, CarriesRest
    <3>2. QED
      BY <2>1, <3>1 DEF Payload
  <2>3. QED
    BY <1>1, <2>1, <2>2
<1>3. ASSUME NEW f \in End, DecodeBody(f) \/ DecodeMisread(f)
      PROVE  receiving'[e] \cup finishing'[e] \subseteq S
  <2>1. /\ finishing'[e] \subseteq receiving[e] \cup finishing[e]
        /\ receiving'[e] \subseteq receiving[e]
    BY <1>1, <1>3 DEF DecodeBody, DecodeMisread, DetachStream
  <2>2. QED
    BY <1>1, <2>1
<1>4. ASSUME NEW f \in End, Finalize(f) PROVE receiving'[e] \cup finishing'[e] \subseteq S
  <2>1. finishing'[e] \subseteq finishing[e] /\ receiving' = receiving
    BY <1>1, <1>4 DEF Finalize, FinishStream, FinishInvalid, MarkBlockStored
  <2>2. QED
    BY <1>1, <2>1
<1>5. ASSUME NEW f \in End, Start(f) \/ Write(f) \/ DecodeFrame(f) \/ Fail(f)
      PROVE  UNCHANGED <<receiving, finishing>>
  BY <1>5 DEF Start, Attach, AttachList, AttachAnnounce, OrphanRepair,
              Write, WriteFrame, PumpBegin, PumpOpen, PumpFails, PumpBody, DecodeFrame,
              Fail, LoseConnection, WantTimeout, DecodeThrows, CloseConnection, Stop
<1>6. ASSUME NEW f \in End, Handle(f) PROVE UNCHANGED <<receiving, finishing>>
  BY <1>6 DEF Handle, HaveMissing, HaveWants, AcceptData, DependencyWants,
              ServeBlock, ServeEvent
<1>7. ASSUME \/ \E n \in Node : \E o \in Object : LocalWrite(n, o)
             \/ \E n \in Node : \E b \in Block : Evict(n, b)
             \/ UNCHANGED vars
      PROVE  UNCHANGED <<receiving, finishing>>
  BY <1>7 DEF LocalWrite, Evict, vars
<1> DEFINE Kept == receiving'[e] \cup finishing'[e] \subseteq S
<1>8. UNCHANGED <<receiving, finishing>> => Kept
  BY <1>1
<1>9. ASSUME NEW f \in End, Decode(f) PROVE Kept
  BY <1>2, <1>3, <1>5, <1>8, <1>9 DEF Decode
<1>10. Kept
  <2> HIDE DEF Kept
  <2>1. QED
    BY <1>4, <1>5, <1>6, <1>7, <1>8, <1>9 DEF Next, Kept
<1>11. QED
  BY <1>10

\* For any nodes, sessions and objects, and whatever fails, the exchange only
\* copies: it implements Replicas.
THEOREM ObjectsOnlyCopied == Spec => CopiesOnly
<1> DEFINE had == [n \in Node |-> Had(n)]
<1>1. Init => Sourced
  <2> SUFFICES ASSUME Init PROVE Sourced
    OBVIOUS
  <2>1. \A n \in Node : stored[n] \subseteq Had(n)
    BY DEF Init, Had
  <2>2. \A e \in End : SourcedAt(e)
    BY DEF Init, SourcedAt, Carries
  <2>3. QED
    BY <2>1, <2>2 DEF Sourced
<1>2. TypeOK /\ TypeOK' /\ Sourced /\ [Next]_vars => Sourced'
  <2> SUFFICES ASSUME TypeOK, TypeOK', Sourced, [Next]_vars PROVE Sourced'
    OBVIOUS
  <2>1. \A n \in Node : Had(n) \subseteq Had(n)' /\ stored'[n] \subseteq Had(n)'
    BY HadKept
  <2>2. ASSUME NEW e \in End PROVE SourcedAt(e)'
    <3>1. /\ Had(At[e]) \subseteq Had(At[e])'
          /\ Had(At[Opp[e]]) \subseteq Had(At[Opp[e]])'
      BY <2>1, EndsAssumption
    <3>2. /\ Carries(outbound'[e], Had(At[e]))
          /\ Carries(link'[e], Had(At[Opp[e]]))
          /\ Carries(inbound'[e], Had(At[Opp[e]]))
          /\ receiving'[e] \cup finishing'[e] \subseteq Had(At[Opp[e]])
      BY OutboundSourced, LinkSourced, InboundSourced, StreamsSourced
    <3>3. QED
      BY <3>1, <3>2 DEF SourcedAt, Carries
  <2>3. QED
    BY <2>1, <2>2 DEF Sourced
<1>3. Init => Copies!Init
  <2> SUFFICES ASSUME Init PROVE stored \in Origins /\ had = stored
    BY DEF Copies!Init
  <2>1. stored \in [Node -> SUBSET Object] /\ stored \in Origins
    BY DataAssumption DEF Init
  <2>2. ASSUME NEW n \in Node PROVE Had(n) = stored[n]
    <3>1. UNION {renamed[e] : e \in EndsAt(n)} = {}
      BY DEF Init, EndsAt
    <3>2. QED
      BY <3>1 DEF Init, Had
  <2>3. QED
    BY <2>1, <2>2
<1>4. TypeOK /\ Sourced /\ [Next]_vars => [Copies!Next]_<<had, stored>>
  <2> SUFFICES ASSUME TypeOK, Sourced, [Next]_vars
               PROVE  Copies!Next \/ (had' = had /\ stored' = stored)
    OBVIOUS
  <2>1. ASSUME NEW n \in Node, NEW S, Grows(n, S) PROVE Copies!Add(n, S)
    BY <2>1 DEF Grows, Copies!Add
  <2>2. ASSUME \A m \in Node : Had(m)' = Had(m) PROVE had' = had
    BY <2>2
  <2>3. ASSUME NEW n \in Node, NEW o \in Object, o \in Author[n], Grows(n, {o})
        PROVE  Copies!Next
    BY <2>1, <2>3 DEF Copies!Next, Copies!Write
  <2>4. ASSUME NEW e \in End, NEW S \in SUBSET Object,
               S \subseteq Had(At[Opp[e]]), Grows(At[e], S)
        PROVE  Copies!Next
    <3> DEFINE p == <<At[Opp[e]], At[e]>>
    <3>1. p \in {<<At[Opp[f]], At[f]>> : f \in End} /\ p[1] = At[Opp[e]] /\ p[2] = At[e]
      OBVIOUS
    <3>2. At[e] \in Node /\ At[Opp[e]] \in Node
      BY EndsAssumption
    <3>3. Copies!Copy(p[1], p[2], S)
      BY <2>1, <2>4, <3>1, <3>2 DEF Copies!Copy
    <3>4. QED
      BY <3>1, <3>3 DEF Copies!Next
  <2>5. ASSUME NEW n \in Node, NEW b \in Block, Evict(n, b), had' = had
        PROVE  Copies!Next
    BY <2>5 DEF Copies!Next, Copies!Evict, Evict, Object
  <2>6. QED
    BY <2>2, <2>3, <2>4, <2>5, HadSteps
<1>5. QED
  BY <1>1, <1>2, <1>3, <1>4, TypeCorrect, PTL DEF Spec, CopiesOnly, Copies!Spec
=============================================================================
