--------------------------- MODULE BlockExchange ---------------------------
(***************************************************************************)
(* The have / want / block-stream exchange of attached peer sessions.      *)
(*                                                                         *)
(* Every node runs one process over one storage root; every association   *)
(* between two nodes has two ends, and an end is one attachPeerSession     *)
(* (peerLoop.ts).  Three things of a node are shared by its ends: the      *)
(* block store, the in-flight want registry and the set of hashes already  *)
(* served (inflightBlocks.ts).  An end owns two serial promise chains      *)
(* (inboundWire, outboundWire); a handler that awaits is split where it    *)
(* awaits, so that the steps of sibling ends interleave there.             *)
(*                                                                         *)
(* Left out here: the resume walk (its own module), byte counts, letter    *)
(* case of hashes, traces, and the bench markers.                          *)
(***************************************************************************)
EXTENDS Naturals, Sequences

CONSTANTS
    Node,        \* processes, one per storage root
    Block,       \* content-addressed blocks
    Event,       \* log events
    End,         \* ends of associations; an end is used once
    At,          \* the node an end runs on
    Opp,         \* the end at the other side of the same association
    Needs,       \* what an event's blockRefs name: blocks and prior events
    Origins,     \* what the nodes may hold when the processes start
    Author,      \* what the application of a node may still write
    Bulk,        \* ends that write to a TCP socket (isTcpDuplexPeer)
    Fallible,    \* ends whose connection may be lost or time out
    Evictable,   \* <<node, block>>: a file that may be removed from the store
    Corruptible  \* blocks whose received bytes may fail the digest check

Object == Block \cup Event

ASSUME EndsAssumption ==
    /\ At \in [End -> Node]
    /\ Opp \in [End -> End]
    /\ \A e \in End : Opp[e] # e /\ Opp[Opp[e]] = e

ASSUME DataAssumption ==
    /\ Block \cap Event = {}
    /\ Needs \in [Event -> SUBSET Object]
    /\ Origins \subseteq [Node -> SUBSET Object]
    /\ Author \in [Node -> SUBSET Object]
    /\ Bulk \subseteq End
    /\ Fallible \subseteq End
    /\ Evictable \subseteq Node \X Block
    /\ Corruptible \subseteq Block

VARIABLES
    stored,      \* objects readable at a node
    journal,     \* its reception journal
    pendingHave, \* refs written while no session was attached
    inflight,    \* InflightBlockRegistry of the storage root
    served,      \* outboundServed of the storage root
    phase,       \* of an end: idle, open, listed, announced, stopped
    listing,     \* the journal as runAttachSync has read it
    cut,         \* ends whose connection is closed
    repaired,    \* ends that ran their orphan repair
    inbound,     \* inboundWire: messages decoded and not handled yet
    outbound,    \* outboundWire: writes and pumps not run yet
    link,        \* frames on the way to an end
    claimed,     \* claimedHashes
    armed,       \* running want timers
    receiving,   \* block whose stream goes to a disk sink
    discarding,  \* block whose stream is thrown away
    finishing,   \* streams complete, sink.finish() running
    renamed,     \* block file in place, journal append running
    adrift,      \* ends whose wire decoder is not where the sender is
    torn,        \* history: ends that began a stream and had no file for it
    offered      \* history: refs an end has put into a have

nodeVars == <<stored, journal, pendingHave, inflight, served>>
wantVars == <<claimed, armed>>
streamVars == <<receiving, discarding, finishing, renamed, adrift, torn>>
lifeVars == <<phase, listing, cut, repaired>>
vars == <<nodeVars, lifeVars, inbound, outbound, link, wantVars, streamVars,
          offered>>

Msg(type, refs) == [type |-> type, refs |-> refs]

QueuedTypes == {"have", "missing", "want", "data", "accepted"}
OutTypes == {"have", "want", "data", "pump", "open", "body"}
LinkTypes == {"have", "want", "data", "begin", "body"}
Message(types) ==
    {m \in [type : types, refs : SUBSET Object] :
        m.type \in {"pump", "open", "body", "begin"} => m.refs \subseteq Block}

Live(e) == phase[e] \in {"open", "listed", "announced"}
EndsAt(n) == {e \in End : At[e] = n}
\* Mutant of Announcers: a session registers once its announcement is sent.
AnnouncersAfterListing(n) == {e \in EndsAt(n) : phase[e] = "announced"}
Announcers(n) == {e \in EndsAt(n) : Live(e)}

TypeOK ==
    /\ stored \in [Node -> SUBSET Object]
    /\ journal \in [Node -> SUBSET Object]
    /\ pendingHave \in [Node -> SUBSET Object]
    /\ inflight \in [Node -> SUBSET Block]
    /\ served \in [Node -> SUBSET Block]
    /\ phase \in [End -> {"idle", "open", "listed", "announced", "stopped"}]
    /\ listing \in [End -> SUBSET Object]
    /\ cut \subseteq End
    /\ repaired \subseteq End
    /\ inbound \in [End -> Seq(Message(QueuedTypes))]
    /\ outbound \in [End -> Seq(Message(OutTypes))]
    /\ link \in [End -> Seq(Message(LinkTypes))]
    /\ claimed \in [End -> SUBSET Block]
    /\ armed \in [End -> SUBSET Block]
    /\ receiving \in [End -> SUBSET Block]
    /\ discarding \in [End -> SUBSET Block]
    /\ finishing \in [End -> SUBSET Block]
    /\ renamed \in [End -> SUBSET Block]
    /\ adrift \subseteq End
    /\ torn \subseteq End
    /\ offered \in [End -> SUBSET Object]

Init ==
    /\ stored \in Origins
    /\ journal = stored
    /\ pendingHave = [n \in Node |-> {}]
    /\ inflight = [n \in Node |-> {}]
    /\ served = [n \in Node |-> {}]
    /\ phase = [e \in End |-> "idle"]
    /\ listing = [e \in End |-> {}]
    /\ cut = {}
    /\ repaired = {}
    /\ inbound = [e \in End |-> <<>>]
    /\ outbound = [e \in End |-> <<>>]
    /\ link = [e \in End |-> <<>>]
    /\ claimed = [e \in End |-> {}]
    /\ armed = [e \in End |-> {}]
    /\ receiving = [e \in End |-> {}]
    /\ discarding = [e \in End |-> {}]
    /\ finishing = [e \in End |-> {}]
    /\ renamed = [e \in End |-> {}]
    /\ adrift = {}
    /\ torn = {}
    /\ offered = [e \in End |-> {}]

-----------------------------------------------------------------------------
(* Sending *)

\* sendHave: refs that are no longer readable are not advertised, and a push
\* that has nothing left is not sent.
HaveOf(refs) == IF refs = {} THEN <<>> ELSE <<Msg("have", refs)>>

\* sendWants: blocks before events, in two messages.
WantsOf(refs) ==
    (IF refs \cap Block = {} THEN <<>> ELSE <<Msg("want", refs \cap Block)>>)
    \o
    (IF refs \cap Event = {} THEN <<>> ELSE <<Msg("want", refs \cap Event)>>)

\* Mutant of Broadcast: every broadcast waits for the next registration.
BroadcastLater(n, refs, store, out) ==
    /\ pendingHave' = [pendingHave EXCEPT ![n] = @ \cup refs]
    /\ outbound' = out
    /\ UNCHANGED offered

\* broadcastLocalHave(refs) at node n, whose store is now `store` and whose
\* ends have the outbound queues `out`: every registered session pushes a
\* have; with no session the refs wait for the next registration.
Broadcast(n, refs, store, out) ==
    IF Announcers(n) = {}
      THEN /\ pendingHave' = [pendingHave EXCEPT ![n] = @ \cup refs]
           /\ outbound' = out
           /\ UNCHANGED offered
      ELSE /\ outbound' = [e \in End |->
                  IF e \in Announcers(n)
                    THEN out[e] \o HaveOf(refs \cap store) ELSE out[e]]
           /\ offered' = [e \in End |->
                  IF e \in Announcers(n)
                    THEN offered[e] \cup (refs \cap store) ELSE offered[e]]
           /\ UNCHANGED pendingHave

\* Mutant of Arm: a timer for every object wanted, events included.
ArmEvents(e, refs) ==
    armed' = IF phase[e] = "stopped" THEN armed
             ELSE [armed EXCEPT ![e] = @ \cup refs]

\* armWant for every block of a want; a stopped guard arms nothing.
Arm(e, refs) ==
    armed' = IF phase[e] = "stopped" THEN armed
             ELSE [armed EXCEPT ![e] = @ \cup (refs \cap Block)]

\* missingDepsFromBlockRefs for the events among `refs': what they name and
\* node n has not stored.
Lacking(n, refs) == UNION {Needs[v] : v \in refs \cap Event} \ stored[n]

-----------------------------------------------------------------------------
(* Session start and end *)

\* FriendSessionRegistry admits one live session per remote instance.
\* registerLocalHaveAnnouncer comes first and drains what waited for it.
Attach(e) ==
    LET n == At[e] IN
    /\ phase[e] = "idle"
    /\ e \notin cut
    /\ \A f \in Announcers(n) : At[Opp[f]] # At[Opp[e]]
    /\ phase' = [phase EXCEPT ![e] = "open"]
    /\ pendingHave' = [pendingHave EXCEPT ![n] = {}]
    /\ outbound' = [outbound EXCEPT
                       ![e] = @ \o HaveOf(pendingHave[n] \cap stored[n])]
    /\ offered' = [offered EXCEPT ![e] = @ \cup (pendingHave[n] \cap stored[n])]
    /\ UNCHANGED <<stored, journal, inflight, served, listing, cut, repaired,
                   inbound, link, wantVars, streamVars>>

\* runAttachSync lists the tail of the journal ...
AttachList(e) ==
    /\ phase[e] = "open"
    /\ phase' = [phase EXCEPT ![e] = "listed"]
    /\ listing' = [listing EXCEPT ![e] = journal[At[e]]]
    /\ UNCHANGED <<nodeVars, cut, repaired, inbound, outbound, link, wantVars,
                   streamVars, offered>>

\* ... and announces what of it is readable.
AttachAnnounce(e) ==
    LET refs == listing[e] \cap stored[At[e]] IN
    /\ phase[e] = "listed"
    /\ phase' = [phase EXCEPT ![e] = "announced"]
    /\ listing' = [listing EXCEPT ![e] = {}]
    /\ outbound' = [outbound EXCEPT ![e] = @ \o HaveOf(refs)]
    /\ offered' = [offered EXCEPT ![e] = @ \cup refs]
    /\ UNCHANGED <<nodeVars, cut, repaired, inbound, link, wantVars, streamVars>>

\* The orphan repair that ends the resume walk, once per session: wants for
\* what stored events name and the store lacks, without a registry slot.  A
\* repair that finds nothing lacking changes nothing and is no step here.
OrphanRepair(e) ==
    LET lacking == Lacking(At[e], stored[At[e]]) IN
    /\ Live(e)
    /\ e \notin repaired
    /\ lacking # {}
    /\ repaired' = repaired \cup {e}
    /\ outbound' = [outbound EXCEPT ![e] = @ \o WantsOf(lacking)]
    /\ Arm(e, lacking)
    /\ UNCHANGED <<nodeVars, phase, listing, cut, inbound, link, claimed,
                   streamVars, offered>>

\* The connection closes under both ends; what was on the way is lost.
CloseConnection(e) ==
    /\ e \notin cut
    /\ cut' = cut \cup {e, Opp[e]}
    /\ link' = [link EXCEPT ![e] = <<>>, ![Opp[e]] = <<>>]
    /\ UNCHANGED <<nodeVars, phase, listing, repaired, inbound, outbound, wantVars,
                   streamVars, offered>>

LoseConnection(e) == e \in Fallible /\ CloseConnection(e)

\* A want timer fires: onSessionStall closes the peer.
WantTimeout(e) ==
    /\ e \in Fallible
    /\ Live(e) /\ armed[e] # {}
    /\ CloseConnection(e)

\* stop(), called back by the close of the connection.
Stop(e) ==
    /\ Live(e) /\ e \in cut
    /\ phase' = [phase EXCEPT ![e] = "stopped"]
    /\ inflight' = [inflight EXCEPT ![At[e]] = @ \ claimed[e]]
    /\ claimed' = [claimed EXCEPT ![e] = {}]
    /\ armed' = [armed EXCEPT ![e] = {}]
    /\ UNCHANGED <<stored, journal, pendingHave, served, listing, cut, repaired,
                   inbound, outbound, link, streamVars, offered>>

-----------------------------------------------------------------------------
(* outboundWire: one write or one pump at a time *)

\* A frame written to a closed connection is lost.
Written(e, type, refs) ==
    IF e \in cut THEN link
    ELSE [link EXCEPT ![Opp[e]] = Append(@, Msg(type, refs))]

WriteFrame(e) ==
    /\ outbound[e] # <<>>
    /\ Head(outbound[e]).type \in {"have", "want", "data"}
    /\ link' = Written(e, Head(outbound[e]).type, Head(outbound[e]).refs)
    /\ outbound' = [outbound EXCEPT ![e] = Tail(@)]
    /\ UNCHANGED <<nodeVars, lifeVars, inbound, wantVars, streamVars, offered>>

\* Over a TCP socket the pump opens the file before it writes the stream-begin
\* (pumpBlockFileOverSocket), over any other transport afterwards
\* (pumpBlockFileFromStorage).
AfterBegin(e) == IF e \in Bulk THEN "body" ELSE "open"

\* Mutant of Pumping: the body takes its turn behind the queued writes.
PumpingInterleaved(e, refs) == Append(Tail(outbound[e]), Msg(AfterBegin(e), refs))

\* The pump occupies outboundWire until the body is written.
Pumping(e, refs) == <<Msg(AfterBegin(e), refs)>> \o Tail(outbound[e])

\* A pump that finds no file: releaseOutboundServe gives the serve mark back.
PumpFails(e) ==
    /\ served' = [served EXCEPT ![At[e]] = @ \ Head(outbound[e]).refs]
    /\ outbound' = [outbound EXCEPT ![e] = Tail(@)]

\* The pump up to its stream-begin: without the file it fails.
PumpBegin(e) ==
    LET refs == Head(outbound[e]).refs IN
    /\ outbound[e] # <<>>
    /\ Head(outbound[e]).type = "pump"
    /\ \/ /\ refs \subseteq stored[At[e]]
          /\ link' = Written(e, "begin", refs)
          /\ outbound' = [outbound EXCEPT ![e] = Pumping(e, refs)]
          /\ UNCHANGED served
       \/ /\ ~ (refs \subseteq stored[At[e]])
          /\ PumpFails(e)
          /\ UNCHANGED link
    /\ UNCHANGED <<stored, journal, pendingHave, inflight, lifeVars, inbound,
                   wantVars, streamVars, offered>>

\* openSync once the stream-begin is out.  A file that is gone by now leaves the
\* stream-begin on the wire, and no body follows.
PumpOpen(e) ==
    LET refs == Head(outbound[e]).refs IN
    /\ outbound[e] # <<>>
    /\ Head(outbound[e]).type = "open"
    /\ \/ /\ refs \subseteq stored[At[e]]
          /\ outbound' = [outbound EXCEPT ![e] = <<Msg("body", refs)>> \o Tail(@)]
          /\ UNCHANGED <<served, torn>>
       \/ /\ ~ (refs \subseteq stored[At[e]])
          /\ PumpFails(e)
          /\ torn' = torn \cup {e}
    /\ UNCHANGED <<stored, journal, pendingHave, inflight, lifeVars, inbound, link,
                   wantVars, receiving, discarding, finishing, renamed, adrift,
                   offered>>

PumpBody(e) ==
    /\ outbound[e] # <<>>
    /\ Head(outbound[e]).type = "body"
    /\ link' = Written(e, "body", Head(outbound[e]).refs)
    /\ outbound' = [outbound EXCEPT ![e] = Tail(@)]
    /\ UNCHANGED <<nodeVars, lifeVars, inbound, wantVars, streamVars, offered>>

-----------------------------------------------------------------------------
(* The wire decoder of an end *)

\* The stream the decoder is in, if it is in one.
OpenStream(e) == receiving[e] \cup discarding[e]

\* What comes next is what the decoder expects: a body in the stream it belongs
\* to, anything else outside of streams.
Fits(e) ==
    LET m == Head(link[e]) IN
    /\ e \notin adrift
    /\ OpenStream(e) = IF m.type = "body" THEN m.refs ELSE {}

Arrives(e, types) ==
    /\ Live(e) /\ e \notin cut
    /\ link[e] # <<>>
    /\ Head(link[e]).type \in types
    /\ link' = [link EXCEPT ![e] = Tail(@)]

\* A decoded frame queues behind the handlers that are still running.
DecodeFrame(e) ==
    /\ Arrives(e, {"have", "want", "data"}) /\ Fits(e)
    /\ inbound' = [inbound EXCEPT ![e] = Append(@, Head(link[e]))]
    /\ UNCHANGED <<nodeVars, lifeVars, outbound, wantVars, streamVars, offered>>

\* beginIncomingBlockStream.
DecodeBegin(e) ==
    LET b == Head(link[e]).refs IN
    /\ Arrives(e, {"begin"}) /\ Fits(e)
    /\ armed' = [armed EXCEPT ![e] = @ \ b]
    /\ \/ /\ b \subseteq stored[At[e]]
          /\ discarding' = [discarding EXCEPT ![e] = b]
          /\ UNCHANGED receiving
       \/ /\ ~ (b \subseteq stored[At[e]])
          /\ receiving' = [receiving EXCEPT ![e] = b]
          /\ UNCHANGED discarding
    /\ UNCHANGED <<nodeVars, lifeVars, inbound, outbound, claimed, finishing,
                   renamed, adrift, torn, offered>>

\* Mutant of Released: a discarded stream keeps its claim.
ReleasedWhenKept(e) == receiving[e] \cap claimed[e]

\* releaseBlockClaim for the stream that ends: only the session's own claim.
Released(e) == OpenStream(e) \cap claimed[e]

\* detachIncomingStream: the stream ends and the session's claim with it, before
\* finalizeIncomingStream has put the file in place.
DetachStream(e) ==
    LET own == Released(e) IN
    /\ receiving' = [receiving EXCEPT ![e] = {}]
    /\ discarding' = [discarding EXCEPT ![e] = {}]
    /\ claimed' = [claimed EXCEPT ![e] = @ \ own]
    /\ inflight' = [inflight EXCEPT ![At[e]] = @ \ own]
    /\ armed' = [armed EXCEPT ![e] = @ \ own]

\* The last byte of a stream.
DecodeBody(e) ==
    /\ Arrives(e, {"body"}) /\ Fits(e)
    /\ finishing' = [finishing EXCEPT ![e] = @ \cup receiving[e]]
    /\ DetachStream(e)
    /\ UNCHANGED <<stored, journal, pendingHave, served, lifeVars, inbound,
                   outbound, renamed, adrift, torn, offered>>

\* Anything else that comes is read as what it is not: as bytes of the open
\* stream, or as the rest of a frame that is none.  It may end the stream, whose
\* digest then fails, and the decoder is back in step only if it ends just there.
DecodeMisread(e) ==
    /\ Arrives(e, LinkTypes) /\ ~ Fits(e)
    /\ \/ /\ adrift' = adrift \cup {e}
          /\ UNCHANGED <<receiving, discarding, claimed, inflight, armed>>
       \/ /\ OpenStream(e) # {}
          /\ DetachStream(e)
          /\ adrift' \in {adrift \cup {e}, adrift \ {e}}
    /\ UNCHANGED <<stored, journal, pendingHave, served, lifeVars, inbound,
                   outbound, finishing, renamed, torn, offered>>

\* A frame of no known kind: the decoder throws, and peer.onData closes.
DecodeThrows(e) ==
    /\ e \in adrift
    /\ OpenStream(e) = {}
    /\ CloseConnection(e)

\* sink.finish(): the digest matches and the file is renamed into place.
FinishStream(e, b) ==
    /\ b \in finishing[e]
    /\ finishing' = [finishing EXCEPT ![e] = @ \ {b}]
    /\ renamed' = [renamed EXCEPT ![e] = @ \cup {b}]
    /\ stored' = [stored EXCEPT ![At[e]] = @ \cup {b}]
    /\ UNCHANGED <<journal, pendingHave, inflight, served, lifeVars, inbound,
                   outbound, link, wantVars, receiving, discarding, adrift,
                   torn, offered>>

\* sink.finish(): the digest does not match, the scratch file is dropped.
FinishInvalid(e, b) ==
    /\ b \in finishing[e] \cap Corruptible
    /\ finishing' = [finishing EXCEPT ![e] = @ \ {b}]
    /\ UNCHANGED <<nodeVars, lifeVars, inbound, outbound, link, wantVars,
                   receiving, discarding, renamed, adrift, torn, offered>>

\* Mutant of MarkBlockStored: the block is announced, and never journalled.
MarkBlockUnjournalled(e, b) ==
    /\ b \in renamed[e]
    /\ renamed' = [renamed EXCEPT ![e] = @ \ {b}]
    /\ Broadcast(At[e], {b}, stored[At[e]], outbound)
    /\ UNCHANGED <<stored, journal, inflight, served, lifeVars, inbound, link,
                   wantVars, receiving, discarding, finishing, adrift, torn>>

\* markBlockStored: journal the block, then tell every session.
MarkBlockStored(e, b) ==
    LET n == At[e] IN
    /\ b \in renamed[e]
    /\ renamed' = [renamed EXCEPT ![e] = @ \ {b}]
    /\ journal' = [journal EXCEPT ![n] = @ \cup {b}]
    /\ Broadcast(n, {b}, stored[n], outbound)
    /\ UNCHANGED <<stored, inflight, served, lifeVars, inbound, link, wantVars,
                   receiving, discarding, finishing, adrift, torn>>

-----------------------------------------------------------------------------
(* inboundWire: the handler at the head runs until it is done.  The chain  *)
(* of a stopped end keeps running.                                         *)

Running(e, types) ==
    /\ inbound[e] # <<>>
    /\ Head(inbound[e]).type \in types

Replace(e, type, refs) == [inbound EXCEPT ![e] = <<Msg(type, refs)>> \o Tail(@)]
Done(e) == [inbound EXCEPT ![e] = Tail(@)]

\* processHaveWants up to its await: which refs does the store lack?
HaveMissing(e) ==
    /\ Running(e, {"have"})
    /\ inbound' = Replace(e, "missing", Head(inbound[e]).refs \ stored[At[e]])
    /\ UNCHANGED <<nodeVars, lifeVars, outbound, link, wantVars, streamVars, offered>>

\* Mutant of Claimable: a session looks only at its own claims.
ClaimableAlone(e, refs) == (refs \cap Block) \ claimed[e]

\* claimBlockWant for a set of blocks: those neither this session nor the
\* registry holds.
Claimable(e, refs) == ((refs \cap Block) \ claimed[e]) \ inflight[At[e]]

\* processHaveWants after its await: claim the blocks, want them and the events.
HaveWants(e) ==
    LET refs == Head(inbound[e]).refs
        won == Claimable(e, refs)
        wants == won \cup (refs \cap Event) IN
    /\ Running(e, {"missing"})
    /\ claimed' = [claimed EXCEPT ![e] = @ \cup won]
    /\ inflight' = [inflight EXCEPT ![At[e]] = @ \cup won]
    /\ outbound' = [outbound EXCEPT ![e] = @ \o WantsOf(wants)]
    /\ Arm(e, wants)
    /\ inbound' = Done(e)
    /\ UNCHANGED <<stored, journal, pendingHave, served, lifeVars, link,
                   streamVars, offered>>

\* Mutant of ClaimOutboundServe: whoever asks is served.
ServeAlways(n, b) == b \in stored[n]

\* claimOutboundServe: a storage root serves a block once.
ClaimOutboundServe(n, b) == b \in stored[n] \ served[n]

\* The want handler, one block after the other: a readable block that was
\* never served is queued for its pump, any other gets no reply.
ServeBlock(e, b) ==
    LET n == At[e]
        rest == Head(inbound[e]).refs \ {b} IN
    /\ Running(e, {"want"})
    /\ b \in Head(inbound[e]).refs \cap Block
    /\ \/ /\ ClaimOutboundServe(n, b)
          /\ served' = [served EXCEPT ![n] = @ \cup {b}]
          /\ outbound' = [outbound EXCEPT ![e] = Append(@, Msg("pump", {b}))]
       \/ /\ ~ ClaimOutboundServe(n, b)
          /\ UNCHANGED <<served, outbound>>
    /\ inbound' = IF rest = {} THEN Done(e) ELSE Replace(e, "want", rest)
    /\ UNCHANGED <<stored, journal, pendingHave, inflight, lifeVars, link,
                   wantVars, streamVars, offered>>

\* The want handler for events: each readable one is sent as data.
ServeEvent(e, v) ==
    LET rest == Head(inbound[e]).refs \ {v} IN
    /\ Running(e, {"want"})
    /\ v \in Head(inbound[e]).refs \cap Event
    /\ outbound' = IF v \in stored[At[e]]
                     THEN [outbound EXCEPT ![e] = Append(@, Msg("data", {v}))]
                     ELSE outbound
    /\ inbound' = IF rest = {} THEN Done(e) ELSE Replace(e, "want", rest)
    /\ UNCHANGED <<nodeVars, lifeVars, link, wantVars, streamVars, offered>>

\* The data handler up to its await: acceptData stores and announces the
\* event, or finds it a duplicate.
AcceptData(e) ==
    LET n == At[e]
        new == Head(inbound[e]).refs \ stored[n] IN
    /\ Running(e, {"data"})
    /\ stored' = [stored EXCEPT ![n] = @ \cup new]
    /\ journal' = [journal EXCEPT ![n] = @ \cup new]
    /\ Broadcast(n, new, stored[n] \cup new, outbound)
    /\ inbound' = Replace(e, "accepted", Head(inbound[e]).refs)
    /\ UNCHANGED <<inflight, served, lifeVars, link, wantVars, streamVars>>

\* The data handler after its await: what the event names and the store still
\* lacks is wanted, without a claim.
DependencyWants(e) ==
    LET lacking == Lacking(At[e], Head(inbound[e]).refs) IN
    /\ Running(e, {"accepted"})
    /\ outbound' = [outbound EXCEPT ![e] = @ \o WantsOf(lacking)]
    /\ Arm(e, lacking)
    /\ inbound' = Done(e)
    /\ UNCHANGED <<nodeVars, lifeVars, link, claimed, streamVars, offered>>

-----------------------------------------------------------------------------
(* The application and the file system *)

\* The application appends an object to the log; patchLogForReactiveHave
\* broadcasts it.
LocalWrite(n, o) ==
    /\ o \in Author[n] \ (stored[n] \cup journal[n])
    /\ stored' = [stored EXCEPT ![n] = @ \cup {o}]
    /\ journal' = [journal EXCEPT ![n] = @ \cup {o}]
    /\ Broadcast(n, {o}, stored[n] \cup {o}, outbound)
    /\ UNCHANGED <<inflight, served, lifeVars, inbound, link, wantVars, streamVars>>

Evict(n, b) ==
    /\ b \in stored[n] /\ <<n, b>> \in Evictable
    /\ stored' = [stored EXCEPT ![n] = @ \ {b}]
    /\ UNCHANGED <<journal, pendingHave, inflight, served, lifeVars, inbound,
                   outbound, link, wantVars, streamVars, offered>>

-----------------------------------------------------------------------------
Start(e) == Attach(e) \/ AttachList(e) \/ AttachAnnounce(e) \/ OrphanRepair(e)
Write(e) == WriteFrame(e) \/ PumpBegin(e) \/ PumpOpen(e) \/ PumpBody(e)
Decode(e) == DecodeFrame(e) \/ DecodeBegin(e) \/ DecodeBody(e) \/ DecodeMisread(e)
Handle(e) ==
    \/ HaveMissing(e) \/ HaveWants(e) \/ AcceptData(e) \/ DependencyWants(e)
    \/ \E b \in Block : ServeBlock(e, b)
    \/ \E v \in Event : ServeEvent(e, v)
Finalize(e) ==
    \E b \in Block : FinishStream(e, b) \/ FinishInvalid(e, b) \/ MarkBlockStored(e, b)
Fail(e) == LoseConnection(e) \/ WantTimeout(e) \/ DecodeThrows(e) \/ Stop(e)

Next ==
    \/ \E e \in End : Start(e) \/ Write(e) \/ Decode(e) \/ Handle(e)
                       \/ Finalize(e) \/ Fail(e)
    \/ \E n \in Node : \E o \in Object : LocalWrite(n, o)
    \/ \E n \in Node : \E b \in Block : Evict(n, b)

Spec == Init /\ [][Next]_vars

\* The event loop runs every queued task, a live connection delivers what was
\* written to it, and a closed one calls stop.  Nothing is assumed of the
\* application, of evictions, of lost connections or of a digest that fails.
Fairness ==
    \A e \in End :
        /\ WF_vars(Start(e)) /\ WF_vars(Stop(e))
        /\ WF_vars(Write(e)) /\ WF_vars(Decode(e)) /\ WF_vars(Handle(e))
        /\ WF_vars(\E b \in Block : FinishStream(e, b) \/ MarkBlockStored(e, b))

FairSpec == Spec /\ Fairness

-----------------------------------------------------------------------------
(* Properties *)

\* The in-flight registry of a node is exactly the union of what its sessions
\* hold, and no two sessions hold the same hash: claimBlockWant and
\* releaseBlockClaim of sibling sessions never take or free each other's slots.
ClaimLedger ==
    /\ \A n \in Node : inflight[n] = UNION {claimed[e] : e \in EndsAt(n)}
    /\ \A e, f \in End :
          (e # f /\ At[e] = At[f]) => claimed[e] \cap claimed[f] = {}

\* Until stop(), a claim is always watched: its want timer runs, or the stream
\* it waits for has begun (and the stream timer runs).  A claim nobody watches
\* would keep every session of the node from wanting the block.
ClaimsWatched ==
    \A e \in End : phase[e] # "stopped" =>
        claimed[e] \subseteq armed[e] \cup receiving[e] \cup discarding[e]

\* Per-association serialized I/O: a stream-begin reaches a decoder that is in no
\* stream, a body the stream it belongs to, and no frame falls into a stream.
\* The one way out of step is a sender that has begun a stream and then found no
\* file for it, which never happens to one that writes to a TCP socket.
StreamsNeverOverlap ==
    /\ torn \cap Bulk = {}
    /\ \A e \in End : (Live(e) /\ Opp[e] \notin torn) =>
          e \notin adrift /\ (link[e] # <<>> => Fits(e))

\* claimOutboundServe: over all its sessions a node has at most one pump of a
\* block queued or running, and a block with a pump is marked as served.
PumpsOf(n, b) ==
    UNION {{<<e, i>> : i \in {j \in DOMAIN outbound[e] :
                                /\ outbound[e][j].type \in {"pump", "open", "body"}
                                /\ b \in outbound[e][j].refs}} : e \in EndsAt(n)}
OnePumpPerBlock ==
    \A n \in Node, b \in Block :
        /\ \A p, q \in PumpsOf(n, b) : p = q
        /\ PumpsOf(n, b) # {} => b \in served[n]

\* Announcing misses nothing: once a session has sent its tail announce, every
\* readable journalled object has been offered to the peer, whether it was
\* there before, arrived during the listing or came later.  (A block between
\* its rename and its journal append is announced by markBlockStored.)
JournalOffered ==
    \A e \in End : phase[e] = "announced" =>
        (journal[At[e]] \cap stored[At[e]])
            \ UNION {renamed[f] : f \in EndsAt(At[e])} \subseteq offered[e]

\* What one process has journalled, every process comes to hold: along a chain
\* of sessions nobody has to ask for an object twice.
Convergence ==
    \A o \in Object :
        (\E n \in Node : o \in journal[n]) ~> (\A n \in Node : o \in stored[n])

\* What a node has had: its journal, and blocks on their way into it.
Had(n) == journal[n] \cup UNION {renamed[e] : e \in EndsAt(n)}

\* Whatever is lost, cut off or evicted in between, objects are only written or
\* copied, along associations, from a process that has had them; none is made
\* up, and none forgotten.
Copies == INSTANCE Replicas WITH
    Peers <- {<<At[Opp[e]], At[e]>> : e \in End}, First <- Origins,
    had <- [n \in Node |-> Had(n)], readable <- stored
CopiesOnly == Copies!Spec
=============================================================================
