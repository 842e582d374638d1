--------------------------- MODULE StreamReceive ---------------------------
(***************************************************************************)
(* How an end of an association reads its connection: the decoder that     *)
(* cuts frames and block bodies out of chunks of any size (core/codec.ts), *)
(* the hello that another decoder reads first (core/handshake.ts), the     *)
(* stream that a session is receiving (core/peerLoop.ts), and the sink     *)
(* that writes and hashes it beside the wire (node/blockReceive.ts).       *)
(*                                                                         *)
(* The other side writes the items 1..Count: a hello, then frames and      *)
(* block streams.  A byte is its offset on the wire; what is in the bytes  *)
(* is known only where an item begins.  A chunk is decoded in one turn of  *)
(* the event loop: while `at' is not idle, nothing else runs.              *)
(***************************************************************************)
EXTENDS Integers, Sequences, FiniteSetsExt

CONSTANTS
    Count,      \* items the other side writes
    Kind,       \* of an item: hello, frame, block
    Size,       \* bytes of its frame after the length field
    Body,       \* bytes of its block, 0 for other items
    Start,      \* offset of its first byte; Start[Count + 1] is the end
    LengthLen,  \* bytes of the length field
    MaxChunk,   \* bound: bytes of a chunk
    Sent,       \* how many bytes the other side may come to write
    Pausable,   \* the transport has pauseInbound
    BatchLen,   \* BATCH_BYTES
    Faulty,     \* blocks whose scratch file may fail
    Corrupt,    \* blocks whose bytes do not have the digest announced
    Shared      \* blocks that another session may store meanwhile

Item == 1..Count
Block == {i \in Item : Kind[i] = "block"}

ASSUME WireAssumption ==
    /\ Count \in Nat \ {0}
    /\ Kind \in [Item -> {"hello", "frame", "block"}]
    /\ Kind[1] = "hello" /\ \A i \in Item \ {1} : Kind[i] # "hello"
    /\ LengthLen \in Nat \ {0}
    /\ Size \in [Item -> Nat \ {0}]
    /\ Body \in [Item -> Nat]
    /\ \A i \in Item : Body[i] > 0 <=> Kind[i] = "block"
    /\ Start \in [1..(Count + 1) -> Nat]
    /\ Start[1] = 0
    /\ \A i \in Item : Start[i + 1] = Start[i] + LengthLen + Size[i] + Body[i]
    /\ \A i, j \in 1..(Count + 1) : i < j => Start[i] < Start[j]  \* follows
ASSUME ReceiveAssumption ==
    /\ MaxChunk \in Nat \ {0} /\ BatchLen \in Nat \ {0}
    /\ Sent \subseteq 0..Start[Count + 1]
    /\ Pausable \in BOOLEAN
    /\ Faulty \subseteq Block /\ Corrupt \subseteq Block /\ Shared \subseteq Block

None == 0

VARIABLES
    sent,      \* bytes the other side writes before it falls silent
    flown,     \* bytes the transport has handed over
    reader,    \* who has them: the decoder of the hello, nobody, the session
    at,        \* where decode() is
    from,      \* offset of the first byte of frameBuf, or of the rest of a chunk
    total,     \* streamTotal
    received,  \* streamReceived
    early,     \* earlyMessages
    handled,   \* items the session has taken
    incoming,  \* the block it is receiving, or None
    counted,   \* bytes of it that were counted: sink.received, incoming.received
    timer,     \* the stream timer runs
    closed,    \* the connection is closed
    lost,      \* history: bytes were given to no decoder, or to one let go
    sink,      \* the sink of a block, from its stream-begin on
    file       \* what is at the path of a block

wireVars == <<sent, flown, reader, lost>>
decodeVars == <<at, from, total, received>>
sessionVars == <<early, handled, incoming, counted, timer, closed>>
vars == <<wireVars, decodeVars, sessionVars, sink, file>>

Batches(n) == (n + BatchLen - 1) \div BatchLen
Batch(i) == 1..Batches(Body[i])
Settled == {"stored", "invalid", "failed"}

TypeOK ==
    /\ sent \in Nat /\ flown \in 0..sent
    /\ reader \in {"hello", "greeted", "nobody", "session"}
    /\ at \in {"idle", "feed", "parse"}
    /\ from \in Nat /\ total \in Nat /\ received \in Nat
    /\ early \in Seq(Item) /\ handled \in Seq(Item)
    /\ incoming \in Block \cup {None}
    /\ counted \in [Block -> Nat]
    /\ timer \in BOOLEAN /\ closed \in BOOLEAN /\ lost \in BOOLEAN
    /\ DOMAIN sink = Block
    /\ \A i \in Block :
          /\ sink[i].stage \in {"none", "discard", "open", "renaming"} \cup Settled
          /\ sink[i].writing \subseteq Batch(i) /\ sink[i].disk \subseteq Batch(i)
          /\ sink[i].hashed \in Seq(Batch(i)) /\ sink[i].queued \in Seq(Batch(i))
          /\ sink[i].ready \in BOOLEAN /\ sink[i].finalizing \in BOOLEAN
          /\ sink[i].digest \in {"none", "match", "differs", "rejected"}
          /\ sink[i].error \in BOOLEAN
    /\ file \in [Block -> {"none", "whole", "torn", "corrupt"}]

NoSink == [stage |-> "none", writing |-> {}, disk |-> {}, hashed |-> <<>>,
           queued |-> <<>>, ready |-> FALSE, finalizing |-> FALSE,
           digest |-> "none", error |-> FALSE]

Init ==
    /\ sent \in Sent
    /\ flown = 0
    /\ reader = "hello"
    /\ at = "idle"
    /\ from = 0 /\ total = 0 /\ received = 0
    /\ early = <<>> /\ handled = <<>>
    /\ incoming = None
    /\ counted = [i \in Block |-> 0]
    /\ timer = FALSE
    /\ closed = FALSE
    /\ lost = FALSE
    /\ sink = [i \in Block |-> NoSink]
    /\ file = [i \in Block |-> "none"]

-----------------------------------------------------------------------------
(* The transport *)

\* Offsets where a chunk may end.  A block is sent to a session that has asked
\* for it, so what comes before the session is attached ends before the first
\* block.
ChunkEnd ==
    {n \in (flown + 1)..sent :
        /\ n <= flown + MaxChunk
        /\ reader # "session" => \A i \in Block : n <= Start[i]}

Streaming == total > 0 /\ received < total

\* A chunk, to the decoder that is attached.
Chunk ==
    /\ ~ closed /\ at = "idle" /\ reader \in {"hello", "session"}
    /\ flown' \in ChunkEnd
    /\ at' = IF Streaming THEN "feed" ELSE "parse"
    /\ UNCHANGED <<sent, reader, lost, from, total, received, sessionVars, sink, file>>

\* Between the decoders a socket is paused.  A transport that cannot pause
\* hands its chunks to no handler.
ChunkDropped ==
    /\ ~ closed /\ reader = "nobody" /\ ~ Pausable
    /\ flown' \in ChunkEnd
    /\ lost' = TRUE
    /\ UNCHANGED <<sent, reader, decodeVars, sessionVars, sink, file>>

\* Mutant of Taken: early messages are not replayed.
EarlyForgotten == handled

\* What the session has taken when it is attached: initialMessages.
Taken == handled \o early

\* attachPeerSession: a new decoder, the early messages, then the socket.
Attach ==
    /\ ~ closed /\ reader = "nobody"
    /\ reader' = "session"
    /\ from' = flown /\ total' = 0 /\ received' = 0
    /\ handled' = Taken
    /\ early' = <<>>
    /\ UNCHANGED <<sent, flown, lost, at, incoming, counted, timer, closed, sink, file>>

Lose ==
    /\ ~ closed /\ at = "idle"
    /\ closed' = TRUE /\ timer' = FALSE
    /\ UNCHANGED <<wireVars, decodeVars, early, handled, incoming, counted, sink, file>>

\* The stream timer: no byte for STALL_BLOCK_STREAM_MS.
StreamTimeout == timer /\ flown = sent /\ Lose

-----------------------------------------------------------------------------
(* The sink of a block *)

\* Mutant of Upto: one batch too many.
UptoNext(m, n) == [k \in 1..(n - m + 1) |-> m + k]

\* The batches after m up to n.
Upto(m, n) == [k \in 1..(n - m) |-> m + k]

\* sink.ingest up to byte n of block i: batches that are full, and the last
\* one, are given to the file and to the hasher.
Ingested(i, n) ==
    LET k == sink[i]
        done == n = Body[i]
        old == counted[i] \div BatchLen
        new == IF done THEN Batches(n) ELSE n \div BatchLen IN
    [k EXCEPT
        !.writing = @ \cup ((old + 1)..new),
        !.hashed = IF k.ready THEN @ \o Upto(old, new) ELSE @,
        !.queued = IF k.ready THEN @ ELSE @ \o Upto(old, new),
        !.finalizing = done /\ k.ready]

HasherAwaited(i) ==
    /\ at = "idle" /\ sink[i].stage = "open"
    /\ ~ sink[i].ready /\ sink[i].digest = "none"

\* Mutant of Driven: it is not asked to finalize a stream that is complete.
DrivenOnly(i) ==
    [sink[i] EXCEPT !.ready = TRUE, !.hashed = sink[i].queued, !.queued = <<>>]

\* driveHasher
Driven(i) ==
    [sink[i] EXCEPT !.ready = TRUE, !.hashed = sink[i].queued, !.queued = <<>>,
                    !.finalizing = counted[i] = Body[i]]

\* The hasher is checked out; what has come meanwhile is hashed first, and
\* finalized if the stream is complete.
HasherReady(i) ==
    /\ HasherAwaited(i)
    /\ sink' = [sink EXCEPT ![i] = Driven(i)]
    /\ UNCHANGED <<wireVars, decodeVars, sessionVars, file>>

HasherFails(i) ==
    /\ HasherAwaited(i) /\ i \in Faulty
    /\ sink' = [sink EXCEPT ![i].error = TRUE, ![i].digest = "rejected"]
    /\ UNCHANGED <<wireVars, decodeVars, sessionVars, file>>

Digest(i) ==
    /\ at = "idle" /\ sink[i].finalizing /\ sink[i].digest = "none"
    /\ sink' = [sink EXCEPT ![i].digest =
          IF sink[i].hashed = Upto(0, Batches(Body[i])) /\ i \notin Corrupt
            THEN "match" ELSE "differs"]
    /\ UNCHANGED <<wireVars, decodeVars, sessionVars, file>>

\* Parallel pwrites end in any order, well or not.
BatchWritten(i, n) ==
    /\ at = "idle" /\ n \in sink[i].writing
    /\ \/ sink' = [sink EXCEPT ![i] = [sink[i] EXCEPT !.writing = @ \ {n}, !.disk = @ \cup {n}]]
       \/ /\ i \in Faulty
          /\ sink' = [sink EXCEPT ![i] = [sink[i] EXCEPT !.writing = @ \ {n}, !.error = TRUE]]
    /\ UNCHANGED <<wireVars, decodeVars, sessionVars, file>>

\* Mutant of WritesDone: finish() waits until the writes are issued.
WritesIssued(i) == counted[i] = Body[i]

\* writesDonePromise
WritesDone(i) == counted[i] = Body[i] /\ sink[i].writing = {}

\* Promise.all rejects with the digest, whatever the writes do.
FinishRejected(i) ==
    /\ at = "idle" /\ sink[i].stage = "open"
    /\ counted[i] = Body[i] /\ sink[i].digest = "rejected"
    /\ sink' = [sink EXCEPT ![i].stage = "failed"]
    /\ UNCHANGED <<wireVars, decodeVars, sessionVars, file>>

\* finish() after its waits: an error, a wrong digest, a file that another
\* session has put in place, or the rename.
Finish(i) ==
    /\ at = "idle" /\ sink[i].stage = "open"
    /\ WritesDone(i) /\ sink[i].digest \in {"match", "differs"}
    /\ sink' = [sink EXCEPT ![i].stage =
          IF sink[i].error THEN "failed"
          ELSE IF sink[i].digest = "differs" THEN "invalid"
          ELSE IF file[i] # "none" THEN "stored" ELSE "renaming"]
    /\ UNCHANGED <<wireVars, decodeVars, sessionVars, file>>

Rename(i) ==
    /\ at = "idle" /\ sink[i].stage = "renaming"
    /\ \/ /\ sink' = [sink EXCEPT ![i].stage = "stored"]
          /\ file' = [file EXCEPT ![i] =
                IF sink[i].disk # Batch(i) THEN "torn"
                ELSE IF i \in Corrupt THEN "corrupt" ELSE "whole"]
       \/ /\ i \in Faulty
          /\ sink' = [sink EXCEPT ![i].stage = "failed"]
          /\ UNCHANGED file
    /\ UNCHANGED <<wireVars, decodeVars, sessionVars>>

\* Another session of the storage root stores the same block.
StoredElsewhere(i) ==
    /\ at = "idle" /\ i \in Shared /\ file[i] = "none"
    /\ file' = [file EXCEPT ![i] = "whole"]
    /\ UNCHANGED <<wireVars, decodeVars, sessionVars, sink>>

-----------------------------------------------------------------------------
(* decode() *)

\* The item whose length field is at the head of frameBuf.  Elsewhere than at
\* a start of an item there is none.
AtStart == \E i \in Item : from = Start[i]
Next1 == CHOOSE i \in Item : from = Start[i]
FrameEnd(i) == Start[i] + LengthLen + Size[i]

\* parseFrames goes on: a length field and as many bytes as it says.
WholeFrame == AtStart /\ FrameEnd(Next1) <= flown

ParseHello ==
    /\ at = "parse" /\ WholeFrame /\ Kind[Next1] = "hello"
    /\ from' = FrameEnd(Next1)
    /\ reader' = "greeted"
    /\ handled' = Append(handled, Next1)
    /\ UNCHANGED <<sent, flown, lost, at, total, received, early, incoming, counted,
                   timer, closed, sink, file>>

ParseFrame ==
    /\ at = "parse" /\ WholeFrame /\ Kind[Next1] = "frame"
    /\ from' = FrameEnd(Next1)
    /\ IF reader = "session"
         THEN handled' = Append(handled, Next1) /\ UNCHANGED early
         ELSE early' = Append(early, Next1) /\ UNCHANGED handled
    /\ UNCHANGED <<wireVars, at, total, received, incoming, counted, timer,
                   closed, sink, file>>

\* A stream-begin: beginIncomingBlockStream, unless a stream is active.
ParseBegin ==
    LET i == Next1 IN
    /\ at = "parse" /\ WholeFrame /\ Kind[i] = "block" /\ incoming = None
    /\ from' = FrameEnd(i)
    /\ total' = Body[i] /\ received' = 0
    /\ at' = IF FrameEnd(i) < flown THEN "feed" ELSE "parse"
    /\ incoming' = i
    /\ timer' = TRUE
    /\ sink' = [sink EXCEPT ![i].stage = IF file[i] = "none" THEN "open" ELSE "discard"]
    /\ UNCHANGED <<wireVars, early, handled, counted, closed, file>>

\* The decoder throws, and the connection is closed.
Throw ==
    /\ closed' = TRUE /\ timer' = FALSE /\ at' = "idle"
    /\ UNCHANGED <<wireVars, from, total, received, early, handled, incoming,
                   counted, sink, file>>

ParseActive == at = "parse" /\ WholeFrame /\ Kind[Next1] = "block" /\ incoming # None /\ Throw

\* Bytes that begin no item are no frame either: they are refused, or wait for
\* as many more as they seem to announce (ChunkDone).
ParseGarbage == at = "parse" /\ ~ AtStart /\ flown - from >= LengthLen /\ Throw

\* Mutant of Take: all of the chunk is given to the stream.
TakeRest == flown - from

\* Of the chunk, what belongs to the block.
Take == Min({total - received, flown - from})

\* ingestStreamBytes: a sink with an error counts no more; one that discards
\* counts only.
CountedAfter(i) ==
    IF sink[i].stage = "discard" THEN Min({Body[i], counted[i] + Take})
    ELSE IF sink[i].error THEN counted[i]
    ELSE Min({Body[i], counted[i] + Take})

\* feedStream: the session counts the bytes, then the decoder does, which
\* detachIncomingStream may have reset.
Feed ==
    LET i == incoming
        n == CountedAfter(i)
        complete == n = Body[i] IN
    /\ at = "feed"
    /\ from' = from + Take
    /\ total' = IF complete THEN 0 ELSE total
    /\ received' = IF complete THEN Take ELSE received + Take
    /\ counted' = [counted EXCEPT ![i] = n]
    /\ sink' = IF sink[i].stage = "open" /\ ~ sink[i].error
                 THEN [sink EXCEPT ![i] = Ingested(i, n)] ELSE sink
    /\ incoming' = IF complete THEN None ELSE i
    /\ timer' = ~ complete
    /\ handled' = IF received + Take = total THEN Append(handled, i) ELSE handled
    /\ at' = "parse"
    /\ UNCHANGED <<wireVars, early, closed, file>>

\* isInboundBlockStreamActive.
StreamActive == incoming # None \/ Streaming

\* The end of a chunk: syncInboundStreamStallGuard; the decoder of the hello
\* is let go with whatever it has not parsed.
ChunkDone ==
    /\ at = "parse" /\ ~ WholeFrame
    /\ at' = "idle"
    /\ timer' = StreamActive
    /\ IF reader = "greeted"
         THEN reader' = "nobody" /\ lost' = (from < flown)
         ELSE UNCHANGED <<reader, lost>>
    /\ UNCHANGED <<sent, flown, from, total, received, early, handled, incoming,
                   counted, closed, sink, file>>

-----------------------------------------------------------------------------
Decode ==
    \/ ParseHello \/ ParseFrame \/ ParseBegin \/ ParseActive \/ ParseGarbage
    \/ Feed \/ ChunkDone
Drain(i) ==
    \/ HasherReady(i) \/ HasherFails(i) \/ Digest(i)
    \/ FinishRejected(i) \/ Finish(i) \/ Rename(i)
    \/ \E n \in Batch(i) : BatchWritten(i, n)

Next ==
    \/ Chunk \/ ChunkDropped \/ Attach \/ Decode \/ Lose \/ StreamTimeout
    \/ \E i \in Block : Drain(i) \/ StoredElsewhere(i)

Spec == Init /\ [][Next]_vars

\* The connection delivers what was written, the event loop goes on, the disk
\* and the hasher answer, and a timer that runs fires.
FairSpec ==
    /\ Spec
    /\ WF_vars(Chunk) /\ WF_vars(Attach) /\ WF_vars(Decode) /\ WF_vars(StreamTimeout)
    /\ \A i \in Block : WF_vars(Drain(i))

-----------------------------------------------------------------------------
(* Properties *)

\* Whatever the chunks are, the decoder of a session is where the items say:
\* behind the last one it has taken, or in the body of the next one, as far as
\* it has counted.
InStep ==
    LET n == Len(handled) + 1 IN
    (reader = "session" /\ ~ closed /\ ~ lost) =>
        /\ from <= flown
        /\ from = IF Streaming THEN FrameEnd(n) + received ELSE Start[n]

\* The path of a block has all of its bytes, with the digest announced, or
\* nothing: at every call on the file system, so also after a crash.
WholeInPlace == \A i \in Block : file[i] \in {"none", "whole"}

\* Frames and streams reach the session each once and in order, none of them
\* missing as long as nothing was lost between the decoders.
Link == INSTANCE FrameLink WITH delivered <- handled, broken <- lost
DeliversInOrder == Link!Spec

\* A stream that has begun ends: it is complete, or its connection is closed,
\* also when the sender falls silent or the sink has failed and counts no more.
\* And one that is complete is stored, refused or given up, whatever the order
\* in which hasher, writes and other sessions finish.
StreamSettles ==
    \A i \in Block :
        /\ (incoming = i) ~> (incoming # i \/ closed)
        /\ (sink[i].stage = "open" /\ counted[i] = Body[i]) ~> sink[i].stage \in Settled
=============================================================================
