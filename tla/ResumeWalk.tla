----------------------------- MODULE ResumeWalk -----------------------------
(***************************************************************************)
(* The resume walk: how a walker catches up with the reception journal of  *)
(* a server, page by page, from a cursor it keeps on disk (peerLoop.ts,    *)
(* receptionSync.ts, sessionAttach.ts).  Both ends of an association walk  *)
(* each other's journal with the same code; one direction is modelled.     *)
(*                                                                         *)
(* A journal entry is its sequence number, 1, 2, ...; cursor 0 is the      *)
(* absent cursor (`start').  Sessions 1, 2, ... follow each other.  The    *)
(* wire and inboundWire of an end are one queue here: losing a connection  *)
(* keeps what was decoded, a prefix of it.  How a wanted object travels    *)
(* and what repairs want besides is the subject of BlockExchange; here a   *)
(* want is answered by one message, with which the claim of a block ends.  *)
(***************************************************************************)
EXTENDS Integers, Sequences, FiniteSets

CONSTANTS
    Last,      \* bound: journal entries of the server
    Held,      \* how many of them it has when the walker first meets it
    Sessions,  \* bound: number of sessions
    Limit,     \* RECEPTION_RESUME_PAGE
    TailLen,   \* RECEPTION_ATTACH_TAIL
    Readable,  \* entries whose object the server still has
    Blocks,    \* entries that are blocks; the others are events
    Own,       \* journal entries of the walker that the server lacks
    Losable,   \* sessions that may be cut or crash
    Wipeable,  \* sessions before which the walker's storage root may be lost
    Forgetful  \* sessions that the store may give no cursor (CursorMap!Store)

Entry == 1..Last
Cursor == 0..Last
Session == 1..Sessions

ASSUME WalkAssumption ==
    /\ Last \in Nat /\ Sessions \in Nat /\ Limit \in Nat \ {0}
    /\ Held \in 0..Last /\ TailLen \in Nat /\ Own \in Nat
    /\ Readable \subseteq Entry /\ Blocks \subseteq Entry
    /\ Losable \subseteq Session /\ Wipeable \subseteq Session
    /\ Forgetful \subseteq Session

None == -1

VARIABLES
    written,   \* the server's journal is 1..written
    got,       \* entries of it whose object the walker has stored
    localMax,  \* length of the walker's own journal
    cursor,    \* fetch cursor on the walker's disk
    phase,     \* of a session: idle, up, ended
    announced, \* sessions whose server sent its tail announce
    initial,   \* initialFetchCursor
    awaiting,  \* resumeWalkInFlight, or None
    done,      \* resumeWalkDone
    rewound,   \* resumeWalkRewound
    pending,   \* pendingPageCursor, or None
    ending,    \* the closure that handles an empty page is running
    repairIn,  \* handlers the scheduled orphan repair still waits for, or None
    answered,  \* lastResumeRespondedKey, or None
    served,    \* blocks in outboundServed of the server's process
    claimed,   \* claimedHashes; their union is the walker's in-flight registry
    toServer,  \* messages on their way to the server
    toWalker,  \* messages on their way to the walker, or queued there
    paged,     \* history: entries the server has listed in a page
    risked,    \* history: of those, the ones not stored when a session was lost
    refused    \* history: blocks the server was asked for and did not send

vars == <<written, got, localMax, cursor, phase, announced, initial, awaiting,
          done, rewound, pending, ending, repairIn, answered, served, claimed,
          toServer, toWalker, paged, risked, refused>>

walkVars == <<awaiting, done, rewound, ending, repairIn>>
serveVars == <<served, refused>>

Request(type, c) == [type |-> type, cursor |-> c]
Want(refs) == [type |-> "want", refs |-> refs]
Data(refs) == [type |-> "data", refs |-> refs]
Have(refs, more, next, from) ==
    [type |-> "have", refs |-> refs, more |-> more, next |-> next, from |-> from]

ToServer == [type : {"delta", "subscribe"}, cursor : Cursor]
                \cup [type : {"want"}, refs : SUBSET Entry]
ToWalker == [type : {"data"}, refs : SUBSET Entry]
                \cup [type : {"have"}, refs : SUBSET Entry, more : BOOLEAN,
                      next : Cursor \cup {None}, from : Cursor \cup {None}]

TypeOK ==
    /\ written \in Cursor
    /\ got \subseteq Entry
    /\ localMax \in Nat
    /\ cursor \in Cursor
    /\ phase \in [Session -> {"idle", "up", "ended"}]
    /\ announced \subseteq Session
    /\ initial \in [Session -> Cursor]
    /\ awaiting \in [Session -> Cursor \cup {None}]
    /\ done \subseteq Session
    /\ rewound \subseteq Session
    /\ pending \in [Session -> Cursor \cup {None}]
    /\ ending \subseteq Session
    /\ repairIn \in [Session -> Nat \cup {None}]
    /\ answered \in [Session -> Cursor \cup {None}]
    /\ served \subseteq Blocks
    /\ claimed \in [Session -> SUBSET Blocks]
    /\ toServer \in [Session -> Seq(ToServer)]
    /\ toWalker \in [Session -> Seq(ToWalker)]
    /\ paged \subseteq Entry
    /\ risked \subseteq Entry
    /\ refused \subseteq Blocks

Init ==
    /\ written = Held
    /\ got = {}
    /\ localMax = Own
    /\ cursor = 0
    /\ phase = [s \in Session |-> "idle"]
    /\ announced = {}
    /\ initial = [s \in Session |-> 0]
    /\ awaiting = [s \in Session |-> None]
    /\ done = {}
    /\ rewound = {}
    /\ pending = [s \in Session |-> None]
    /\ ending = {}
    /\ repairIn = [s \in Session |-> None]
    /\ answered = [s \in Session |-> None]
    /\ served \in SUBSET (Blocks \cap 1..Held)
    /\ claimed = [s \in Session |-> {}]
    /\ toServer = [s \in Session |-> <<>>]
    /\ toWalker = [s \in Session |-> <<>>]
    /\ paged = {}
    /\ risked = {}
    /\ refused = {}

Up(s) == phase[s] = "up"

-----------------------------------------------------------------------------
(* The server *)

\* What the server writes to a session that is down is lost.
Reply(s, msgs) ==
    toWalker' = [toWalker EXCEPT ![s] = IF Up(s) THEN @ \o msgs ELSE @]

\* listAfter: at most n entries after cursor c.
PageEnd(c, n) == IF c + n < written THEN c + n ELSE written

\* sendHave of the entries from..to.  Unreadable entries are left out; when
\* none is left, only a page that has a successor is sent.
HaveOf(first, last, more, next, from) ==
    LET refs == (first..last) \cap Readable IN
    IF refs = {} /\ ~ more THEN <<>> ELSE <<Have(refs, more, next, from)>>

\* Mutant of PageOf: the last page carries the end of the journal as its
\* cursor, a page that is not the last one too.
PageToJournalEnd(c) ==
    IF c >= written THEN <<Have({}, FALSE, None, c)>>
    ELSE LET end == PageEnd(c, Limit) IN
         HaveOf(c + 1, end, end < written, written, c)

\* listLocalReceptionPage and the sendHave of its result: past the end of the
\* journal an empty page without a cursor.
PageOf(c) ==
    IF c >= written THEN <<Have({}, FALSE, None, c)>>
    ELSE LET end == PageEnd(c, Limit) IN
         HaveOf(c + 1, end, end < written, end, c)

\* Mutant of Deduped: every request is answered.
NeverDeduped(s, c) == FALSE

\* Mutant of Deduped: a cursor that goes back is taken for a duplicate.
DedupedByOrder(s, c) == answered[s] >= c

\* Attach sends a delta and a subscribe with the same cursor; the second is
\* not answered.
Deduped(s, c) == answered[s] = c

\* respondToGlobalResume, for a delta or a subscribe.
Respond(s) ==
    /\ toServer[s] # <<>>
    /\ Head(toServer[s]).type \in {"delta", "subscribe"}
    /\ LET c == Head(toServer[s]).cursor IN
       \/ /\ Deduped(s, c)
          /\ UNCHANGED <<answered, toWalker, paged>>
       \/ /\ ~ Deduped(s, c)
          /\ answered' = [answered EXCEPT ![s] = c]
          /\ Reply(s, PageOf(c))
          /\ paged' = paged \cup ((c + 1)..PageEnd(c, Limit))
    /\ toServer' = [toServer EXCEPT ![s] = Tail(@)]
    /\ UNCHANGED <<written, got, localMax, cursor, phase, announced, initial,
                   pending, walkVars, serveVars, claimed, risked>>

\* claimOutboundServe refuses a block that this root has served since its
\* process started, to whomever and in whichever session.
ServedBefore(refs) == refs \cap served

\* The want handler: what is readable is sent, a block only once.
ServeWant(s) ==
    /\ toServer[s] # <<>>
    /\ Head(toServer[s]).type = "want"
    /\ LET refs == Head(toServer[s]).refs \cap Readable
           sent == refs \ ServedBefore(refs) IN
       /\ Reply(s, IF sent = {} THEN <<>> ELSE <<Data(sent)>>)
       /\ served' = served \cup (sent \cap Blocks)
       /\ refused' = refused \cup (ServedBefore(refs) \cap Blocks)
    /\ toServer' = [toServer EXCEPT ![s] = Tail(@)]
    /\ UNCHANGED <<written, got, localMax, cursor, phase, announced, initial,
                   pending, walkVars, answered, claimed, paged, risked>>

\* The tail announce of runAttachSync, once per session; not a resume page.
Announce(s) ==
    /\ Up(s) /\ s \notin announced
    /\ announced' = announced \cup {s}
    /\ LET first == IF written > TailLen THEN written - TailLen + 1 ELSE 1 IN
       Reply(s, HaveOf(first, written, FALSE, None, None))
    /\ UNCHANGED <<written, got, localMax, cursor, phase, initial, pending,
                   walkVars, answered, serveVars, claimed, toServer, paged, risked>>

\* The server journals a new object and pushes it to its sessions.
Journal ==
    /\ written < Last
    /\ written' = written + 1
    /\ toWalker' = [s \in Session |-> IF Up(s)
                       THEN toWalker[s] \o HaveOf(written + 1, written + 1, FALSE, None, None)
                       ELSE toWalker[s]]
    /\ UNCHANGED <<got, localMax, cursor, phase, announced, initial, pending,
                   walkVars, answered, serveVars, claimed, toServer, paged, risked>>

-----------------------------------------------------------------------------
(* The walker *)

Send(s, msgs) ==
    toServer' = [toServer EXCEPT ![s] = IF Up(s) THEN @ \o msgs ELSE @]

\* A session starts when its predecessor is gone: requestResumeWalkPage with
\* the stored cursor, if the store has kept it, and the subscribe.
Attach(s) ==
    /\ phase[s] = "idle"
    /\ \A t \in Session : t < s => phase[t] = "ended"
    /\ phase' = [phase EXCEPT ![s] = "up"]
    /\ \E c \in {cursor} \cup (IF s \in Forgetful THEN {0} ELSE {}) :
          /\ initial' = [initial EXCEPT ![s] = c]
          /\ awaiting' = [awaiting EXCEPT ![s] = c]
          /\ toServer' = [toServer EXCEPT ![s] =
                             <<Request("delta", c), Request("subscribe", c)>>]
    /\ UNCHANGED <<written, got, localMax, cursor, announced, done, rewound,
                   pending, ending, repairIn, answered, serveVars, claimed,
                   toWalker, paged, risked>>

\* The handler at the head of inboundWire is done; a scheduled repair has one
\* handler less to wait for.
CountDown(s) == IF repairIn[s] \in Nat \ {0} THEN repairIn[s] - 1 ELSE repairIn[s]
HandlerDone(s) == toWalker' = [toWalker EXCEPT ![s] = Tail(@)]

\* What a have is good for: objects the walker has not stored, apart from blocks
\* that a session has claimed and not given back (claimBlockWant).
Wanted(s) == (Head(toWalker[s]).refs \ got) \ UNION {claimed[t] : t \in Session}

\* processHaveWants after `page', the pendingPageCursor it finds, and `sent',
\* what this handler has sent before.
ProcessHave(s, page, sent) ==
    LET m == Head(toWalker[s])
        wants == Wanted(s)
        resume == m.from # None /\ m.next # None IN
    /\ claimed' = [claimed EXCEPT ![s] = @ \cup (wants \cap Blocks)]
    /\ \/ /\ wants # {}
          /\ pending' = [pending EXCEPT ![s] = IF resume THEN m.next ELSE page]
          /\ Send(s, sent \o <<Want(wants)>>)
          /\ UNCHANGED cursor
       \/ /\ wants = {}
          /\ Send(s, sent)
          /\ \/ /\ resume /\ page = m.next
                /\ cursor' = m.next
                /\ pending' = [pending EXCEPT ![s] = None]
             \/ /\ ~ (resume /\ page = m.next)
                /\ pending' = [pending EXCEPT ![s] = page]
                /\ UNCHANGED cursor

AtHave(s) == toWalker[s] # <<>> /\ Head(toWalker[s]).type = "have"

\* onResumeWalkHave goes on with pages only, and of those not with one that
\* answers another request than the outstanding one.
Expected(s) ==
    /\ Head(toWalker[s]).from # None
    /\ awaiting[s] \in {None, Head(toWalker[s]).from}

\* pendingPageCursor once a page is taken.
PageCursor(s) ==
    IF Head(toWalker[s]).next = None THEN pending[s] ELSE Head(toWalker[s]).next

\* A push, or a stale page: wants only.
TakePush(s) ==
    /\ AtHave(s) /\ ~ Expected(s)
    /\ ProcessHave(s, pending[s], <<>>)
    /\ HandlerDone(s)
    /\ repairIn' = [repairIn EXCEPT ![s] = CountDown(s)]
    /\ UNCHANGED <<written, got, localMax, phase, announced, initial, awaiting,
                   done, rewound, ending, answered, serveVars, paged, risked>>

\* Mutant of TakeMore: nobody requests the next page.
TakeMoreAndRest(s) ==
    LET m == Head(toWalker[s]) IN
    /\ AtHave(s) /\ Expected(s) /\ m.more
    /\ awaiting' = [awaiting EXCEPT ![s] = None]
    /\ ProcessHave(s, PageCursor(s), <<>>)
    /\ HandlerDone(s)
    /\ repairIn' = [repairIn EXCEPT ![s] = CountDown(s)]
    /\ UNCHANGED <<written, got, localMax, phase, announced, initial, done,
                   rewound, ending, answered, serveVars, paged, risked>>

\* A page with a successor, which is requested at once, before the objects of
\* this page are wanted.
TakeMore(s) ==
    LET m == Head(toWalker[s])
        go == m.next # None /\ s \notin done IN
    /\ AtHave(s) /\ Expected(s) /\ m.more
    /\ awaiting' = [awaiting EXCEPT ![s] = IF go THEN m.next ELSE None]
    /\ ProcessHave(s, PageCursor(s), IF go THEN <<Request("delta", m.next)>> ELSE <<>>)
    /\ HandlerDone(s)
    /\ repairIn' = [repairIn EXCEPT ![s] = CountDown(s)]
    /\ UNCHANGED <<written, got, localMax, phase, announced, initial, done,
                   rewound, ending, answered, serveVars, paged, risked>>

\* finishResumeWalk: the orphan repair waits for the handlers that are queued.
\* How many of the messages behind this one are queued is open.
Finish(s, queued) ==
    /\ done' = done \cup {s}
    /\ \E k \in 0..queued : repairIn' = [repairIn EXCEPT ![s] = k]

\* The last page, with objects.
TakeLast(s) ==
    LET m == Head(toWalker[s]) IN
    /\ AtHave(s) /\ Expected(s) /\ ~ m.more /\ m.refs # {}
    /\ awaiting' = [awaiting EXCEPT ![s] = None]
    /\ Finish(s, Len(toWalker[s]) - 1)
    /\ ProcessHave(s, PageCursor(s), <<>>)
    /\ HandlerDone(s)
    /\ UNCHANGED <<written, got, localMax, phase, announced, initial, rewound,
                   ending, answered, serveVars, paged, risked>>

\* An empty page: the walk is over, unless the cursor was stale.  That is
\* decided in a closure the handler does not wait for.
TakeEmpty(s) ==
    LET m == Head(toWalker[s]) IN
    /\ AtHave(s) /\ Expected(s) /\ ~ m.more /\ m.refs = {}
    /\ awaiting' = [awaiting EXCEPT ![s] = None]
    /\ ending' = ending \cup {s}
    /\ ProcessHave(s, pending[s], <<>>)
    /\ HandlerDone(s)
    /\ repairIn' = [repairIn EXCEPT ![s] = CountDown(s)]
    /\ UNCHANGED <<written, got, localMax, phase, announced, initial, done,
                   rewound, answered, serveVars, paged, risked>>

\* Mutant of CursorStale: the rewind is forgotten.
NeverStale(s) == FALSE

\* The session began at a cursor beyond the walker's own journal, which a
\* walker that still has its storage root would not hold.
CursorStale(s) == s \notin rewound /\ initial[s] # 0 /\ initial[s] > localMax

EndWalk(s) ==
    /\ s \in ending
    /\ ending' = ending \ {s}
    /\ \/ /\ CursorStale(s)
          /\ rewound' = rewound \cup {s}
          /\ IF s \in done \/ awaiting[s] = 0
               THEN UNCHANGED <<awaiting, toServer>>
               ELSE /\ awaiting' = [awaiting EXCEPT ![s] = 0]
                    /\ Send(s, <<Request("delta", 0)>>)
          /\ UNCHANGED <<done, repairIn>>
       \/ /\ ~ CursorStale(s)
          /\ Finish(s, Len(toWalker[s]))
          /\ UNCHANGED <<awaiting, rewound, toServer>>
    /\ UNCHANGED <<written, got, localMax, cursor, phase, announced, initial,
                   pending, answered, serveVars, claimed, toWalker, paged, risked>>

\* The end of scheduleOrphanRepair: flushPendingPageCursor.
FlushAfterRepair(s) ==
    /\ repairIn[s] = 0
    /\ repairIn' = [repairIn EXCEPT ![s] = None]
    /\ cursor' = IF pending[s] = None THEN cursor ELSE pending[s]
    /\ pending' = [pending EXCEPT ![s] = None]
    /\ UNCHANGED <<written, got, localMax, phase, announced, initial, awaiting,
                   done, rewound, ending, answered, serveVars, claimed, toServer,
                   toWalker, paged, risked>>

\* acceptData, or the end of a block's stream: each object that is new is stored
\* and journalled.  A live session gives the claims of its blocks back; one that
\* stop() has emptied keeps those that its handlers took afterwards.
AcceptData(s) ==
    /\ toWalker[s] # <<>>
    /\ Head(toWalker[s]).type = "data"
    /\ LET new == Head(toWalker[s]).refs \ got IN
       /\ got' = got \cup new
       /\ localMax' = localMax + Cardinality(new)
    /\ claimed' = [claimed EXCEPT
                      ![s] = IF Up(s) THEN @ \ Head(toWalker[s]).refs ELSE @]
    /\ HandlerDone(s)
    /\ repairIn' = [repairIn EXCEPT ![s] = CountDown(s)]
    /\ UNCHANGED <<written, cursor, phase, announced, initial, awaiting, done,
                   rewound, pending, ending, answered, serveVars, toServer, paged,
                   risked>>

-----------------------------------------------------------------------------
(* Ends of sessions *)

\* SessionStallGuard rotates a session that is old and quiet.  Here: with
\* nothing on its way; a cut covers the rest.  (The last session, a bound of
\* the model, stays.)
Rotate(s) ==
    /\ Up(s) /\ s \in done /\ s < Sessions
    /\ awaiting[s] = None /\ repairIn[s] = None /\ s \notin ending
    /\ toServer[s] = <<>> /\ toWalker[s] = <<>>
    /\ s \in announced
    /\ claimed[s] = {}
    /\ phase' = [phase EXCEPT ![s] = "ended"]
    /\ UNCHANGED <<written, got, localMax, cursor, announced, initial, pending,
                   walkVars, answered, serveVars, claimed, toServer, toWalker,
                   paged, risked>>

\* stop() gives the claims back.
StopClaims(s) == claimed' = [claimed EXCEPT ![s] = {}]

\* The want timer of a claim whose block does not come: the session is closed.
\* Here: with nothing on its way; a cut covers the rest.
WantTimeout(s) ==
    /\ Up(s) /\ s < Sessions
    /\ claimed[s] # {}
    /\ toServer[s] = <<>> /\ toWalker[s] = <<>>
    /\ s \in announced
    /\ phase' = [phase EXCEPT ![s] = "ended"]
    /\ StopClaims(s)
    /\ UNCHANGED <<written, got, localMax, cursor, announced, initial, pending,
                   walkVars, answered, serveVars, toServer, toWalker, paged,
                   risked>>

\* The connection is lost, or the resume timer fires.  The handlers of what
\* the walker had decoded go on.
Cut(s) ==
    /\ Up(s) /\ s \in Losable
    /\ phase' = [phase EXCEPT ![s] = "ended"]
    /\ toServer' = [toServer EXCEPT ![s] = <<>>]
    /\ \E k \in 0..Len(toWalker[s]) :
          toWalker' = [toWalker EXCEPT ![s] = SubSeq(@, 1, k)]
    /\ StopClaims(s)
    /\ risked' = risked \cup (paged \ got)
    /\ UNCHANGED <<written, got, localMax, cursor, announced, initial, pending,
                   walkVars, answered, serveVars, paged>>

\* The walker's process dies: what is on disk is left.
Crash(s) ==
    /\ Up(s) /\ s \in Losable
    /\ phase' = [phase EXCEPT ![s] = "ended"]
    /\ toServer' = [t \in Session |-> <<>>]
    /\ toWalker' = [t \in Session |-> <<>>]
    /\ ending' = {}
    /\ repairIn' = [t \in Session |-> None]
    /\ pending' = [t \in Session |-> None]
    /\ claimed' = [t \in Session |-> {}]
    /\ risked' = risked \cup (paged \ got)
    /\ UNCHANGED <<written, got, localMax, cursor, announced, initial, awaiting,
                   done, rewound, answered, serveVars, paged>>

\* With no process running the storage root is lost, objects and journal; the
\* cursors, which live in the data directory, are not.
Wipe(s) ==
    /\ s \in Wipeable /\ phase[s] = "idle" /\ s > 1
    /\ \A t \in Session : t < s =>
          phase[t] = "ended" /\ toWalker[t] = <<>> /\ repairIn[t] = None /\ t \notin ending
    /\ got # {}
    /\ got' = {}
    /\ localMax' = 0
    /\ claimed' = [t \in Session |-> {}]
    /\ UNCHANGED <<written, cursor, phase, announced, initial, pending, walkVars,
                   answered, serveVars, toServer, toWalker, paged, risked>>

-----------------------------------------------------------------------------
Serve(s) == Respond(s) \/ ServeWant(s)
Handle(s) ==
    \/ TakePush(s) \/ TakeMore(s) \/ TakeLast(s) \/ TakeEmpty(s) \/ AcceptData(s)
Settle(s) == EndWalk(s) \/ FlushAfterRepair(s)

Next ==
    \/ Journal
    \/ \E s \in Session :
          \/ Attach(s) \/ Announce(s) \/ Serve(s) \/ Handle(s) \/ Settle(s)
          \/ Rotate(s) \/ WantTimeout(s) \/ Cut(s) \/ Crash(s) \/ Wipe(s)

Spec == Init /\ [][Next]_vars

\* Every process runs its queued handlers, timers fire, peers dial again, and an
\* old quiet session is rotated.  Nothing is assumed of writes, losses and wipes.
\* (One session is up at a time, so what only a live one does needs no fairness
\* of its own for each.)
Fairness ==
    /\ WF_vars(\E s \in Session : Attach(s))
    /\ WF_vars(\E s \in Session : Announce(s))
    /\ WF_vars(\E s \in Session : Serve(s))
    /\ WF_vars(\E s \in Session : Rotate(s) \/ WantTimeout(s))
    /\ \A s \in Session : WF_vars(Handle(s)) /\ WF_vars(Settle(s))

FairSpec == Spec /\ Fairness

-----------------------------------------------------------------------------
(* Properties *)

\* The walk leaves no hole: the stored cursor never passes an entry that no
\* page has listed, whatever sessions were cut, raced or rewound in between.
CursorCovered == 1..cursor \subseteq paged

\* A request is answered by at most one page, and it is the page waited for.
\* With two, the second would be taken as the answer to a later request, or
\* drive the walk once more when none is outstanding.
PagesExpected ==
    \A s \in Session : Up(s) =>
        LET pages == {i \in DOMAIN toWalker[s] :
                        /\ toWalker[s][i].type = "have"
                        /\ toWalker[s][i].from # None} IN
        /\ Cardinality(pages) <= 1
        /\ \A i \in pages : toWalker[s][i].from = awaiting[s]

\* The page after cursor c is the last one the server has listed, and all its
\* objects are gone: nothing is sent for it.
NothingToSend(c) ==
    \E last \in (c + 1)..PageEnd(c, Limit) :
        paged \subseteq 1..last /\ ((c + 1)..last) \cap Readable = {}

\* A walk that is neither over nor deciding about an empty page has its request
\* on the way, one that will be answered, or the answer.  Apart from a last page
\* whose objects are gone, no walk waits for what does not come.
WalkGoesOn ==
    \A s \in Session : Up(s) /\ s \notin done \cup ending =>
        LET c == awaiting[s] IN
        /\ c # None
        /\ \/ /\ \E i \in DOMAIN toServer[s] : toServer[s][i] = Request("delta", c)
              /\ answered[s] # c
           \/ \E i \in DOMAIN toWalker[s] :
                 toWalker[s][i].type = "have" /\ toWalker[s][i].from = c
           \/ NothingToSend(c)

\* A walk comes to its end, or its session does: time and again the session that
\* is up has finished its walk.
WalkFinishes == []<>(\A s \in Session : Up(s) => s \in done)

\* Blocks that a session claimed after its stop(): no session will want them
\* while the process lives.
Stuck == UNION {claimed[s] : s \in {t \in Session : phase[t] = "ended"}}

\* What the server has journalled and can still read, and the walker has not
\* stored.  Two things stand in the way of a block, and nothing does of an event:
\* the server has served it before, or the registry keeps a claim of a session
\* that is gone.
Missing ==
    {r \in Readable : r <= written} \ (got \cup risked \cup refused \cup Stuck)

\* The walker catches up, time and again: after every write, and after the loss of
\* its root, when the cursor it has kept stands for what is gone.
CaughtUp == []<>(Missing = {})

\* peerLoop.ts:671 "Page cursor to checkpoint only after outstanding
\* `want`/`data` work finishes": a cursor on disk stands for objects stored.
CheckpointAfterData == (1..cursor) \cap Readable \subseteq got
=============================================================================
