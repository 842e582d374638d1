----------------------------- MODULE StallGuard -----------------------------
(***************************************************************************)
(* The guard of one session (SessionStallGuard of                          *)
(* core/connectionHealth.ts) beside the work it watches: the wants, the    *)
(* incoming stream and the resume walk of core/peerLoop.ts, and the pumps  *)
(* of blocks that queue on outboundWire (sendBlockStream), which wait for  *)
(* the socket to drain (node/netDuplex.ts).  A timer that runs may fire at *)
(* any time: what it measures may have taken any time.                     *)
(***************************************************************************)
EXTENDS Naturals, Sequences

CONSTANTS
    Wanted,    \* blocks this side lacks
    Served,    \* blocks the other side may want
    Pages,     \* bound: pages of the resume walk
    None       \* no block

ASSUME GuardAssumption ==
    /\ Pages \in Nat
    /\ None \notin Wanted

VARIABLES
    \* SessionStallGuard
    stopped,         \* it has stopped or stalled
    wantTimers,      \* blocks with a want timer
    streamTimer, resumeTimer, outboundTimer, rotationTimer,
    outboundActive,
    stalls,          \* calls of onStall
    \* the session
    live,            \* stop() has not run
    lacking,         \* blocks not received yet
    claimed,         \* claimedHashes
    asked,           \* blocks the other side has been asked for
    incoming,        \* the block it receives
    walk,            \* no request, a page asked for, or done
    page,            \* pages that came
    pumps,           \* pumps on outboundWire, the first one running
    pumpAt,          \* where the first one is
    outboundServed,  \* serve marks of the storage root
    crowded,         \* history: a pump was queued behind another one
    \* the connection
    destroys,        \* close() destroys the socket; otherwise it ends it
    link             \* up, closing after close(), or closed

timerVars == <<wantTimers, streamTimer, resumeTimer, outboundTimer, rotationTimer>>
guardVars == <<stopped, timerVars, outboundActive, stalls>>
inboundVars == <<lacking, claimed, asked, incoming, walk, page>>
pumpVars == <<pumps, pumpAt, outboundServed, crowded>>
linkVars == <<live, destroys, link>>
vars == <<guardVars, inboundVars, pumpVars, linkVars>>

TypeOK ==
    /\ stopped \in BOOLEAN
    /\ wantTimers \subseteq Wanted
    /\ streamTimer \in BOOLEAN /\ resumeTimer \in BOOLEAN
    /\ outboundTimer \in BOOLEAN /\ rotationTimer \in BOOLEAN
    /\ outboundActive \in BOOLEAN
    /\ stalls \in Nat
    /\ lacking \subseteq Wanted /\ claimed \subseteq lacking /\ asked \subseteq lacking
    /\ incoming \in lacking \cup {None}
    /\ walk \in {"idle", "asked", "done"} /\ page \in 0..Pages
    /\ pumps \in Seq(Served)
    /\ pumpAt \in {"queued", "drain", "finally"}
    /\ pumps = <<>> => pumpAt = "queued"
    /\ outboundServed \subseteq Served
    /\ crowded \in BOOLEAN
    /\ live \in BOOLEAN /\ destroys \in BOOLEAN
    /\ link \in {"up", "closing", "closed"}

Init ==
    /\ stopped = FALSE /\ wantTimers = {}
    /\ streamTimer = FALSE /\ resumeTimer = FALSE /\ outboundTimer = FALSE
    /\ rotationTimer = TRUE
    /\ outboundActive = FALSE /\ stalls = 0
    /\ live = TRUE
    /\ lacking = Wanted /\ claimed = {} /\ asked = {} /\ incoming = None
    /\ walk = "idle" /\ page = 0
    /\ pumps = <<>> /\ pumpAt = "queued"
    /\ outboundServed = {} /\ crowded = FALSE
    /\ destroys \in BOOLEAN
    /\ link = "up"

-----------------------------------------------------------------------------
(* Wants, the stream and the walk *)

\* armWant, armStream, armResume, armOutbound do nothing once stopped.
Arms == ~ stopped

\* Blocks missingRefsForWant leaves.
Askable == lacking \ asked

\* sendWants for a block the session has claimed (processHaveWants), or that an
\* event depends on, which claims nothing.
Want(h) ==
    /\ live /\ h \in Askable
    /\ claimed' \in {claimed, claimed \cup {h}}
    /\ asked' = asked \cup {h}
    /\ wantTimers' = IF Arms THEN wantTimers \cup {h} ELSE wantTimers
    /\ UNCHANGED <<stopped, streamTimer, resumeTimer, outboundTimer, rotationTimer,
                   outboundActive, stalls, lacking, incoming, walk, page,
                   pumpVars, linkVars>>

\* Mutant of StreamArmed: the timer is started with the first chunk.
StreamArmedLater == streamTimer

\* The stream timer after armStream.
StreamArmed == IF Arms THEN TRUE ELSE streamTimer

\* beginIncomingBlockStream
Begin(h) ==
    /\ live /\ link = "up" /\ h \in asked /\ incoming = None
    /\ incoming' = h
    /\ wantTimers' = wantTimers \ {h}
    /\ streamTimer' = StreamArmed
    /\ UNCHANGED <<stopped, resumeTimer, outboundTimer, rotationTimer, outboundActive,
                   stalls, lacking, claimed, asked, walk, page, pumpVars, linkVars>>

\* detachIncomingStream: the last byte has come.
End ==
    /\ live /\ link = "up" /\ incoming # None
    /\ incoming' = None
    /\ lacking' = lacking \ {incoming}
    /\ asked' = asked \ {incoming}
    /\ claimed' = claimed \ {incoming}
    /\ wantTimers' = wantTimers \ {incoming}
    /\ streamTimer' = FALSE
    /\ UNCHANGED <<stopped, resumeTimer, outboundTimer, rotationTimer, outboundActive,
                   stalls, walk, page, pumpVars, linkVars>>

\* requestResumeWalkPage
AskPage ==
    /\ live /\ walk = "idle"
    /\ walk' = "asked"
    /\ resumeTimer' = (Arms \/ resumeTimer)
    /\ UNCHANGED <<stopped, wantTimers, streamTimer, outboundTimer, rotationTimer,
                   outboundActive, stalls, lacking, claimed, asked, incoming, page,
                   pumpVars, linkVars>>

\* onResumeWalkHave, finishResumeWalk
PageCame ==
    /\ live /\ link = "up" /\ walk = "asked"
    /\ \/ walk' = "idle" /\ page < Pages /\ page' = page + 1
       \/ walk' = "done" /\ UNCHANGED page
    /\ resumeTimer' = FALSE
    /\ UNCHANGED <<stopped, wantTimers, streamTimer, outboundTimer, rotationTimer,
                   outboundActive, stalls, lacking, claimed, asked, incoming,
                   pumpVars, linkVars>>

-----------------------------------------------------------------------------
(* Pumps *)

\* sendBlockStream up to runOutbound; the want handler may also run after stop().
Serve(b) ==
    /\ b \notin outboundServed
    /\ outboundServed' = outboundServed \cup {b}
    /\ outboundActive' = (Arms \/ outboundActive)
    /\ outboundTimer' = (Arms \/ outboundTimer)
    /\ pumps' = Append(pumps, b)
    /\ crowded' = (crowded \/ pumps # <<>>)
    /\ UNCHANGED <<stopped, wantTimers, streamTimer, resumeTimer, rotationTimer,
                   stalls, inboundVars, pumpAt, linkVars>>

PumpAt(at) == pumps # <<>> /\ pumpAt = at

\* The file is gone before its first byte.
PumpMissing ==
    /\ PumpAt("queued")
    /\ outboundServed' = outboundServed \ {Head(pumps)}
    /\ pumpAt' = "finally"
    /\ UNCHANGED <<guardVars, inboundVars, pumps, crowded, linkVars>>

\* The socket takes all of the file, or a write returns false and the pump
\* waits.  A socket that is gone takes nothing.
PumpWrites ==
    /\ PumpAt("queued")
    /\ \/ pumpAt' = "finally" /\ link # "closed"
       \/ pumpAt' = "drain"
    /\ UNCHANGED <<guardVars, inboundVars, pumps, outboundServed, crowded, linkVars>>

\* drainSocket: the other side has read, and this pump ends.
Drained ==
    /\ PumpAt("drain") /\ link # "closed" /\ ~ (link = "closing" /\ destroys)
    /\ pumpAt' = "finally"
    /\ UNCHANGED <<guardVars, inboundVars, pumps, outboundServed, crowded, linkVars>>

\* Mutant of OutboundCleared: the flag stays set while pumps are queued.
OutboundClearedLast ==
    /\ outboundActive' = (Len(pumps) > 1)
    /\ outboundTimer' = FALSE

\* clearOutbound, whoever has armed it.
OutboundCleared == outboundActive' = FALSE /\ outboundTimer' = FALSE

\* The finally of sendBlockStream; the next pump runs.
PumpEnd ==
    /\ PumpAt("finally")
    /\ OutboundCleared
    /\ pumps' = Tail(pumps) /\ pumpAt' = "queued"
    /\ UNCHANGED <<stopped, wantTimers, streamTimer, resumeTimer, rotationTimer,
                   stalls, inboundVars, outboundServed, crowded, linkVars>>

-----------------------------------------------------------------------------
(* The guard and the connection *)

\* Mutant of TimersOff: the rotation timer is left running.
TimersOffButRotation ==
    /\ wantTimers' = {} /\ streamTimer' = FALSE /\ resumeTimer' = FALSE
    /\ outboundTimer' = FALSE /\ UNCHANGED rotationTimer

\* SessionStallGuard.stop
TimersOff ==
    /\ wantTimers' = {} /\ streamTimer' = FALSE /\ resumeTimer' = FALSE
    /\ outboundTimer' = FALSE /\ rotationTimer' = FALSE

\* stall() and onSessionStall: peer.close().
Stall ==
    /\ ~ stopped
    /\ stopped' = TRUE
    /\ TimersOff
    /\ stalls' = stalls + 1
    /\ link' = IF link = "up" THEN "closing" ELSE link
    /\ UNCHANGED <<outboundActive, inboundVars, pumpVars, live, destroys>>

WantFires == wantTimers # {} /\ Stall
StreamFires == streamTimer /\ Stall
ResumeFires == resumeTimer /\ Stall
OutboundFires == outboundTimer /\ Stall

\* Mutant of Quiescent: an outgoing pump is not asked for.
QuiescentInbound == claimed = {} /\ incoming = None /\ walk # "asked"

\* isSessionQuiescent
Quiescent ==
    claimed = {} /\ incoming = None /\ ~ outboundActive /\ walk # "asked"

\* armRotation's timer; while the session is busy it is armed again.
RotationFires == rotationTimer /\ Quiescent /\ Stall

\* The close handlers: stop() of the session.
Stopped ==
    /\ link' = "closed"
    /\ live' = FALSE
    /\ stopped' = TRUE
    /\ TimersOff
    /\ claimed' = {}
    /\ UNCHANGED <<outboundActive, stalls, lacking, asked, incoming, walk, page,
                   pumps, outboundServed, crowded, destroys>>

\* A connection that breaks: a pump that waits hears of an error.
LinkFails ==
    /\ link # "closed"
    /\ pumpAt' = IF PumpAt("drain") THEN "finally" ELSE pumpAt
    /\ Stopped

\* A close that is no error: destroyed here, or ended with nothing left to send,
\* or closed by the other side.  A pump that waits hears nothing.
Closes ==
    /\ link # "closed"
    /\ link = "closing" => destroys \/ ~ PumpAt("drain")
    /\ UNCHANGED pumpAt
    /\ Stopped

-----------------------------------------------------------------------------
Work == (\E h \in Wanted : Want(h) \/ Begin(h)) \/ End \/ AskPage \/ PageCame
Pump == PumpMissing \/ PumpWrites \/ PumpEnd
Fires == WantFires \/ StreamFires \/ ResumeFires \/ OutboundFires \/ RotationFires

Next ==
    \/ Work \/ Pump \/ Fires
    \/ (\E b \in Served : Serve(b)) \/ Drained
    \/ LinkFails \/ Closes

Spec == Init /\ [][Next]_vars

\* The outbound chain goes on, a timer that stays armed fires, and a socket that
\* was destroyed says so.  Nothing is assumed of the other side.
FairSpec ==
    /\ Spec
    /\ WF_vars(Pump)
    /\ WF_vars(WantFires) /\ WF_vars(StreamFires) /\ WF_vars(ResumeFires)
    /\ WF_vars(OutboundFires) /\ WF_vars(RotationFires)
    /\ WF_vars(link = "closing" /\ destroys /\ Closes)

-----------------------------------------------------------------------------
(* Properties *)

\* Until the guard stops, whatever this side waits for has its timer.  Pumps
\* share one, and have it as long as none was queued behind another.
Watched ==
    ~ stopped =>
        /\ claimed \ {incoming} \subseteq wantTimers
        /\ incoming # None => streamTimer
        /\ walk = "asked" => resumeTimer
        /\ (pumps # <<>> /\ ~ crowded) => outboundTimer /\ outboundActive
        /\ rotationTimer

\* A guard that has stopped is silent for good, however its session goes on
\* until the connection is closed.
SilentOnceStopped ==
    /\ stopped => /\ wantTimers = {}
                  /\ ~ (streamTimer \/ resumeTimer \/ outboundTimer \/ rotationTimer)
    /\ stalls <= IF stopped THEN 1 ELSE 0

\* Rotation interrupts nothing: no block that is wanted or on its way, no page,
\* and no pump as long as none was queued behind another.
RotationSpares ==
    [][RotationFires =>
        /\ claimed = {} /\ incoming = None /\ walk # "asked"
        /\ pumps = <<>> \/ crowded]_vars

\* Whatever the other side fails to do, nothing waits for it for ever: where
\* close() destroys the socket, a claim, a page and a pump end, or the session.
\* Of pumps that have lost their timer, rotation takes care.
NothingWaitsForEver ==
    /\ \A h \in Wanted : (destroys /\ h \in claimed) ~> h \notin claimed
    /\ (destroys /\ walk = "asked") ~> (walk # "asked" \/ ~ live)
    /\ (destroys /\ live /\ pumpAt = "drain") ~> (~ live \/ pumpAt # "drain")
=============================================================================
