-------------------------- MODULE ResumeWalk_proofs --------------------------
(***************************************************************************)
(* Proofs about ResumeWalk, for journals, pages and session counts of any  *)
(* length: type correctness, and that the stored cursor passes no entry    *)
(* that was not listed.  CursorCovered is not inductive: a cursor reaches  *)
(* the disk from pendingPageCursor, gets there from a page, and the page's *)
(* answers the cursor of a request.  The inductive invariant says of every *)
(* cursor, wherever it is on that way, that no entry below it was skipped. *)
(* And that pages are the ones awaited: InTurn says that a session has one *)
(* request or page at a time, in a queue or in the hands of a handler.     *)
(* And that a walk has one until it is over (Running): the request is not  *)
(* taken for a duplicate, since a session asks ever higher cursors, but    *)
(* for the one rewind to 0.                                                *)
(***************************************************************************)
EXTENDS ResumeWalk, SequenceTheorems, FiniteSetTheorems, TLAPS

Reached(c) == 1..c \subseteq paged
Requests == {m \in ToServer : m.type # "want" => Reached(m.cursor)}
Answers == {m \in ToWalker : m.type = "have" => Reached(m.next)}

Safe ==
    /\ TypeOK
    /\ Reached(cursor)
    /\ \A s \in Session : Reached(pending[s])
    /\ toServer \in [Session -> Seq(Requests)]
    /\ toWalker \in [Session -> Seq(Answers)]

-----------------------------------------------------------------------------
(* Queues *)

\* Queues of some messages are queues of more messages.
LEMMA QueueWidened ==
    ASSUME NEW M, NEW N, M \subseteq N, NEW q \in [Session -> Seq(M)]
    PROVE  q \in [Session -> Seq(N)]
<1>1. \A r \in Seq(M) : r \in Seq(N)
  BY SeqMonotonic
<1>2. QED
  BY <1>1

\* Taking the head off a queue, and appending to it when the session is up,
\* keep it a queue of the same messages.
LEMMA QueueTyped ==
    ASSUME NEW M, NEW q \in [Session -> Seq(M)], NEW s \in Session
    PROVE  /\ \A msgs \in Seq(M) :
                 [q EXCEPT ![s] = IF Up(s) THEN @ \o msgs ELSE @] \in [Session -> Seq(M)]
           /\ q[s] # <<>> => /\ Head(q[s]) \in M
                             /\ [q EXCEPT ![s] = Tail(@)] \in [Session -> Seq(M)]
<1>1. ASSUME NEW msgs \in Seq(M) PROVE q[s] \o msgs \in Seq(M)
  BY <1>1, ConcatProperties
<1>2. q[s] # <<>> => Head(q[s]) \in M /\ Tail(q[s]) \in Seq(M)
  BY HeadTailProperties
<1>3. QED
  BY <1>1, <1>2

\* More listed entries make no message worse.
LEMMA Growth ==
    ASSUME Safe, paged \subseteq paged'
    PROVE  /\ toServer \in [Session -> Seq(Requests')]
           /\ toWalker \in [Session -> Seq(Answers')]
<1>1. Requests \subseteq Requests' /\ Answers \subseteq Answers'
  BY DEF Requests, Answers, Reached
<1>2. QED
  BY <1>1, QueueWidened DEF Safe

\* A have whose cursor was reached is a good message.
LEMMA HaveTyped ==
    ASSUME NEW first, NEW last, NEW more \in BOOLEAN,
           NEW next \in Cursor \cup {None}, NEW from \in Cursor \cup {None},
           Reached(next)
    PROVE  HaveOf(first, last, more, next, from) \in Seq(Answers)
<1> DEFINE refs == (first..last) \cap Readable
<1>1. refs \in SUBSET Entry
  BY WalkAssumption
<1>2. Have(refs, more, next, from) \in Answers
  BY <1>1 DEF Have, Answers, ToWalker
<1>3. QED
  BY <1>2 DEF HaveOf

\* A page lists what lies between the cursor it answers and the cursor it
\* carries, so with the former the latter has been reached.
LEMMA PageTyped ==
    ASSUME Safe, NEW c \in Cursor, Reached(c),
           paged' = paged \cup ((c + 1)..PageEnd(c, Limit))
    PROVE  /\ PageOf(c) \in Seq(Answers')
           /\ paged' \subseteq Entry
<1>1. /\ written \in Nat /\ written <= Last /\ Last \in Nat
      /\ Limit \in Nat /\ c \in Nat
      /\ paged \subseteq Entry
  BY WalkAssumption DEF Safe, TypeOK, Cursor
<1>2. PageEnd(c, Limit) \in Int /\ PageEnd(c, Limit) <= written
  BY <1>1 DEF PageEnd
<1>3. paged' \subseteq Entry
  <2>1. (c + 1)..PageEnd(c, Limit) \subseteq 1..Last
    BY <1>1, <1>2
  <2>2. QED
    BY <1>1, <2>1 DEF Entry
<1>4. CASE c >= written
  <2>1. Have({}, FALSE, None, c) \in Answers'
    BY DEF Have, Answers, ToWalker, Reached, None
  <2>2. <<Have({}, FALSE, None, c)>> \in Seq(Answers')
    <3>1. \A x \in Answers' : <<x>> \in Seq(Answers')
      OBVIOUS
    <3>2. QED
      BY <2>1, <3>1, Zenon
  <2>3. QED
    BY <1>3, <1>4, <2>2 DEF PageOf
<1>5. CASE ~ (c >= written)
  <2> DEFINE end == PageEnd(c, Limit)
  <2>1. end \in Cursor
    BY <1>1, <1>2, <1>5 DEF PageEnd, Cursor
  <2>2. 1..end \subseteq paged'
    BY <1>1, <1>2 DEF Reached
  <2>3. HaveOf(c + 1, end, end < written, end, c) \in Seq(Answers')
    <3>1. (c + 1..end) \cap Readable \in SUBSET Entry
      BY WalkAssumption
    <3>2. Have((c + 1..end) \cap Readable, end < written, end, c) \in Answers'
      BY <2>1, <2>2, <3>1 DEF Have, Answers, ToWalker, Reached
    <3>3. QED
      BY <3>2 DEF HaveOf
  <2>4. QED
    BY <1>3, <1>5, <2>3 DEF PageOf
<1>6. QED
  BY <1>4, <1>5

-----------------------------------------------------------------------------
(* Serving and claiming *)

\* Every step keeps marks and claims those of blocks.
LEMMA ClaimsTyped ==
    ASSUME TypeOK, [Next]_vars
    PROVE  /\ served' \subseteq Blocks /\ refused' \subseteq Blocks
           /\ claimed' \in [Session -> SUBSET Blocks]
<1>1. served \subseteq Blocks /\ refused \subseteq Blocks /\ claimed \in [Session -> SUBSET Blocks]
  BY DEF TypeOK
<1>2. CASE UNCHANGED <<serveVars, claimed>>
  BY <1>1, <1>2 DEF serveVars
<1>3. ASSUME NEW s \in Session, ServeWant(s)
      PROVE  UNCHANGED claimed /\ served' \subseteq Blocks /\ refused' \subseteq Blocks
  BY <1>1, <1>3 DEF ServeWant
<1>4. ASSUME NEW s \in Session, NEW page, NEW sent, ProcessHave(s, page, sent)
      PROVE  claimed' \in [Session -> SUBSET Blocks]
  BY <1>1, <1>4 DEF ProcessHave
<1>5. ASSUME NEW s \in Session, Handle(s)
      PROVE  UNCHANGED serveVars /\ claimed' \in [Session -> SUBSET Blocks]
  <2>1. CASE AcceptData(s)
    BY <1>1, <2>1 DEF AcceptData
  <2>2. CASE ~ AcceptData(s)
    <3>1. UNCHANGED serveVars /\ \E page, sent : ProcessHave(s, page, sent)
      BY <1>5, <2>2 DEF Handle, TakePush, TakeMore, TakeLast, TakeEmpty
    <3>2. QED
      BY <1>4, <3>1
  <2>3. QED
    BY <2>1, <2>2
<1>6. ASSUME NEW s \in Session, WantTimeout(s) \/ Cut(s) \/ Crash(s) \/ Wipe(s)
      PROVE  UNCHANGED serveVars /\ claimed' \in [Session -> SUBSET Blocks]
  BY <1>1, <1>6 DEF WantTimeout, Cut, Crash, Wipe, StopClaims
<1>7. ASSUME NEW s \in Session,
             \/ Journal \/ Attach(s) \/ Announce(s) \/ Respond(s) \/ Settle(s) \/ Rotate(s)
      PROVE  UNCHANGED <<serveVars, claimed>>
  BY <1>7 DEF Journal, Attach, Announce, Respond, Settle, EndWalk, FlushAfterRepair, Rotate
<1>8. CASE Journal \/ UNCHANGED vars
  BY <1>2, <1>8 DEF Journal, vars, serveVars
<1>9. QED
  BY <1>1, <1>2, <1>3, <1>5, <1>6, <1>7, <1>8 DEF Next, Serve, serveVars

\* What a have makes the walker want are entries.
LEMMA WantedTyped ==
    ASSUME NEW s \in Session, Head(toWalker[s]).refs \subseteq Entry
    PROVE  Wanted(s) \subseteq Entry
BY DEF Wanted

-----------------------------------------------------------------------------
(* The handlers of the walker *)

\* processHaveWants puts only reached cursors on disk and on hold.
LEMMA HaveProcessed ==
    ASSUME Safe, NEW s \in Session, AtHave(s),
           NEW page \in Cursor \cup {None}, Reached(page),
           NEW sent \in Seq(Requests), ProcessHave(s, page, sent)
    PROVE  /\ cursor' \in Cursor
           /\ 1..cursor' \subseteq paged
           /\ pending' \in [Session -> Cursor \cup {None}]
           /\ \A t \in Session : 1..pending'[t] \subseteq paged
           /\ toServer' \in [Session -> Seq(Requests)]
<1> DEFINE m == Head(toWalker[s])
           wants == Wanted(s)
<1>1. m \in Answers /\ m.type = "have"
  BY QueueTyped DEF Safe, AtHave
<1>2. /\ m.refs \subseteq Entry
      /\ m.next \in Cursor \cup {None}
      /\ Reached(m.next)
  BY <1>1 DEF Answers, ToWalker
<1>3. Want(wants) \in Requests
  BY <1>2, WantedTyped DEF Want, Requests, ToServer
<1>4. <<Want(wants)>> \in Seq(Requests)
  BY <1>3
<1>5. sent \o <<Want(wants)>> \in Seq(Requests)
  BY <1>4, ConcatProperties
<1>6. toServer' \in [Session -> Seq(Requests)]
  <2>1. Send(s, sent \o <<Want(wants)>>) \/ Send(s, sent)
    BY DEF ProcessHave
  <2>2. toServer \in [Session -> Seq(Requests)]
    BY DEF Safe
  <2>3. PICK msgs \in Seq(Requests) : Send(s, msgs)
    BY <1>5, <2>1
  <2>4. QED
    BY <2>2, <2>3, QueueTyped DEF Send
<1>7. cursor' \in Cursor /\ 1..cursor' \subseteq paged
  <2>1. cursor' = cursor \/ (cursor' = m.next /\ m.next # None)
    BY DEF ProcessHave
  <2>2. QED
    BY <1>2, <2>1 DEF Safe, TypeOK, Reached
<1>8. \E p \in {m.next, page, None} : pending' = [pending EXCEPT ![s] = p]
  BY DEF ProcessHave
<1>9. /\ pending' \in [Session -> Cursor \cup {None}]
      /\ \A t \in Session : 1..pending'[t] \subseteq paged
  <2>1. PICK p \in {m.next, page, None} : pending' = [pending EXCEPT ![s] = p]
    BY <1>8
  <2>2. p \in Cursor \cup {None} /\ 1..p \subseteq paged
    BY <1>2, <2>1 DEF Reached, None
  <2>3. QED
    BY <2>1, <2>2 DEF Safe, TypeOK, Reached
<1>10. QED
  BY <1>6, <1>7, <1>9

\* The countdown of a repair stays a countdown.
LEMMA CountDownTyped ==
    ASSUME TypeOK, NEW s \in Session
    PROVE  [repairIn EXCEPT ![s] = CountDown(s)] \in [Session -> Nat \cup {None}]
<1>1. CountDown(s) \in Nat \cup {None}
  BY DEF CountDown, TypeOK
<1>2. QED
  BY <1>1 DEF TypeOK

\* Finishing the walk schedules a repair behind some of the queued handlers.
LEMMA FinishTyped ==
    ASSUME TypeOK, NEW s \in Session, NEW n \in Int, Finish(s, n)
    PROVE  /\ done' \subseteq Session
           /\ repairIn' \in [Session -> Nat \cup {None}]
BY DEF Finish, TypeOK

\* Every handler of a have or data message keeps the invariant.
LEMMA HandleSafe ==
    ASSUME Safe, NEW s \in Session, Handle(s)
    PROVE  Safe'
<1> DEFINE m == Head(toWalker[s])
<1>1. /\ toWalker[s] # <<>>
      /\ toWalker' = [toWalker EXCEPT ![s] = Tail(@)]
      /\ UNCHANGED <<written, phase, announced, initial, rewound, answered, paged, risked>>
  BY DEF Handle, TakePush, TakeMore, TakeLast, TakeEmpty, AcceptData, AtHave, HandlerDone
<1>2. Requests' = Requests /\ Answers' = Answers
  BY <1>1 DEF Requests, Answers, Reached
<1>3. toWalker' \in [Session -> Seq(Answers')] /\ m \in Answers
  BY <1>1, <1>2, QueueTyped DEF Safe
<1>4. /\ TypeOK
      /\ served' \subseteq Blocks /\ refused' \subseteq Blocks
      /\ claimed' \in [Session -> SUBSET Blocks]
  BY ClaimsTyped DEF Safe, Next
<1>5. ASSUME AtHave(s),
             NEW page \in Cursor \cup {None}, Reached(page),
             NEW sent \in Seq(Requests), ProcessHave(s, page, sent),
             UNCHANGED <<got, localMax>>,
             awaiting' \in [Session -> Cursor \cup {None}],
             done' \subseteq Session, ending' \subseteq Session,
             repairIn' \in [Session -> Nat \cup {None}]
      PROVE  Safe'
  <2>1. /\ cursor' \in Cursor
        /\ 1..cursor' \subseteq paged'
        /\ pending' \in [Session -> Cursor \cup {None}]
        /\ \A t \in Session : 1..pending'[t] \subseteq paged'
        /\ toServer' \in [Session -> Seq(Requests')]
    BY <1>1, <1>2, <1>5, HaveProcessed
  <2>2. /\ toServer' \in [Session -> Seq(ToServer)]
        /\ toWalker' \in [Session -> Seq(ToWalker)]
    BY <1>3, <2>1, QueueWidened DEF Requests, Answers
  <2>3. TypeOK'
    BY <1>1, <1>4, <1>5, <2>1, <2>2 DEF TypeOK
  <2>4. QED
    BY <1>3, <2>1, <2>3 DEF Safe, Reached
<1>6. /\ pending[s] \in Cursor \cup {None}
      /\ Reached(pending[s])
      /\ <<>> \in Seq(Requests)
  BY <1>4 DEF Safe, TypeOK
<1>7. AtHave(s) => m.next \in Cursor \cup {None} /\ Reached(m.next)
  BY <1>3 DEF AtHave, Answers, ToWalker
<1>8. AtHave(s) => m.from \in Cursor \cup {None}
  BY <1>3 DEF AtHave, Answers, ToWalker
<1>9. repairIn' = [repairIn EXCEPT ![s] = CountDown(s)]
        => repairIn' \in [Session -> Nat \cup {None}]
  BY <1>4, CountDownTyped
<1>10. CASE TakePush(s)
  <2>1. /\ AtHave(s) /\ ProcessHave(s, pending[s], <<>>)
        /\ UNCHANGED <<got, localMax, awaiting, done, ending>>
        /\ repairIn' = [repairIn EXCEPT ![s] = CountDown(s)]
    BY <1>10 DEF TakePush
  <2>2. QED
    BY <1>4, <1>5, <1>6, <1>9, <2>1 DEF TypeOK
<1>11. (PageCursor(s) \in Cursor \cup {None} /\ Reached(PageCursor(s))) \/ ~ AtHave(s)
  BY <1>6, <1>7 DEF PageCursor
<1>12. CASE TakeMore(s)
  <2> DEFINE go == m.next # None /\ s \notin done
             sent == IF go THEN <<Request("delta", m.next)>> ELSE <<>>
  <2>1. /\ AtHave(s) /\ ProcessHave(s, PageCursor(s), sent)
        /\ UNCHANGED <<got, localMax, done, ending>>
        /\ awaiting' = [awaiting EXCEPT ![s] = IF go THEN m.next ELSE None]
        /\ repairIn' = [repairIn EXCEPT ![s] = CountDown(s)]
    BY <1>12 DEF TakeMore
  <2>2. awaiting' \in [Session -> Cursor \cup {None}]
    BY <1>4, <1>7, <2>1 DEF TypeOK
  <2>3. sent \in Seq(Requests)
    <3>1. go => Request("delta", m.next) \in Requests
      BY <1>7, <2>1 DEF Request, Requests, ToServer
    <3>2. QED
      BY <1>6, <3>1
  <2>4. done \subseteq Session /\ ending \subseteq Session
    BY <1>4 DEF TypeOK
  <2> HIDE DEF sent, m
  <2>5. QED
    BY <1>5, <1>9, <1>11, <2>1, <2>2, <2>3, <2>4
<1>13. CASE TakeLast(s)
  <2>1. /\ AtHave(s) /\ ProcessHave(s, PageCursor(s), <<>>)
        /\ UNCHANGED <<got, localMax, ending>>
        /\ awaiting' = [awaiting EXCEPT ![s] = None]
        /\ Finish(s, Len(toWalker[s]) - 1)
    BY <1>13 DEF TakeLast
  <2>2. /\ awaiting' \in [Session -> Cursor \cup {None}]
        /\ ending' \subseteq Session
    BY <1>4, <2>1 DEF TypeOK
  <2>3. Len(toWalker[s]) - 1 \in Int
    BY <1>4, LenProperties DEF TypeOK
  <2>4. done' \subseteq Session /\ repairIn' \in [Session -> Nat \cup {None}]
    BY <1>4, <2>1, <2>3, FinishTyped
  <2>5. QED
    BY <1>5, <1>6, <1>11, <2>1, <2>2, <2>4
<1>14. CASE TakeEmpty(s)
  <2>1. /\ AtHave(s) /\ ProcessHave(s, pending[s], <<>>)
        /\ UNCHANGED <<got, localMax, done>>
        /\ awaiting' = [awaiting EXCEPT ![s] = None]
        /\ ending' = ending \cup {s}
        /\ repairIn' = [repairIn EXCEPT ![s] = CountDown(s)]
    BY <1>14 DEF TakeEmpty
  <2>2. /\ awaiting' \in [Session -> Cursor \cup {None}]
        /\ ending' \subseteq Session /\ done' \subseteq Session
    BY <1>4, <2>1 DEF TypeOK
  <2>3. QED
    BY <1>5, <1>6, <1>9, <2>1, <2>2
<1>15. CASE AcceptData(s)
  <2> DEFINE new == m.refs \ got
  <2>1. /\ got' = got \cup new /\ localMax' = localMax + Cardinality(new)
        /\ UNCHANGED <<cursor, awaiting, done, pending, ending, toServer>>
        /\ m.type = "data"
        /\ repairIn' = [repairIn EXCEPT ![s] = CountDown(s)]
    BY <1>15 DEF AcceptData
  <2>2. new \in SUBSET Entry
    BY <1>3, <2>1 DEF Answers, ToWalker
  <2>3. IsFiniteSet(Entry)
    BY FS_Interval, WalkAssumption DEF Entry
  <2>4. Cardinality(new) \in Nat
    BY <2>2, <2>3, FS_Subset, FS_CardinalityType
  <2>5. got' \subseteq Entry /\ localMax' \in Nat
    BY <1>4, <2>1, <2>2, <2>4 DEF TypeOK
  <2>6. toServer' \in [Session -> Seq(Requests')]
    BY <1>2, <2>1 DEF Safe
  <2>7. /\ toServer' \in [Session -> Seq(ToServer)]
        /\ toWalker' \in [Session -> Seq(ToWalker)]
    BY <1>3, <2>6, QueueWidened DEF Requests, Answers
  <2>8. TypeOK'
    BY <1>1, <1>4, <1>9, <2>1, <2>5, <2>7 DEF TypeOK
  <2>9. QED
    BY <1>1, <1>3, <2>1, <2>6, <2>8 DEF Safe, Reached
<1>16. QED
  BY <1>10, <1>12, <1>13, <1>14, <1>15 DEF Handle

-----------------------------------------------------------------------------
(* The other steps *)

\* Answering a request or a want, announcing and journalling keep the invariant.
LEMMA ServerSafe ==
    ASSUME Safe, NEW s \in Session, Serve(s) \/ Announce(s) \/ Journal
    PROVE  Safe'
<1> USE DEF walkVars
<1>1. /\ TypeOK
      /\ served' \subseteq Blocks /\ refused' \subseteq Blocks
      /\ claimed' \in [Session -> SUBSET Blocks]
  BY ClaimsTyped DEF Safe, Next
<1>2. /\ UNCHANGED <<got, localMax, cursor, phase, initial, pending, walkVars, risked>>
      /\ paged \subseteq paged'
  BY DEF Serve, Respond, ServeWant, Announce, Journal
<1>3. /\ written' \in Cursor
      /\ announced' \subseteq Session
      /\ answered' \in [Session -> Cursor \cup {None}]
      /\ paged' \subseteq Entry
      /\ toServer' \in [Session -> Seq(Requests')]
      /\ toWalker' \in [Session -> Seq(Answers')]
  <2>1. toServer \in [Session -> Seq(Requests')] /\ toWalker \in [Session -> Seq(Answers')]
    BY <1>2, Growth
  <2>2. CASE Respond(s)
    <3> DEFINE c == Head(toServer[s]).cursor
    <3>1. Head(toServer[s]) \in Requests /\ toServer' \in [Session -> Seq(Requests')]
      <4>1. /\ toServer[s] # <<>>
            /\ toServer' = [toServer EXCEPT ![s] = Tail(@)]
        BY <2>2 DEF Respond
      <4>2. QED
        BY <2>1, <4>1, QueueTyped DEF Safe
    <3>2. c \in Cursor /\ Reached(c)
      BY <2>2, <3>1 DEF Respond, Requests, ToServer
    <3>3. CASE Deduped(s, c)
      <4>1. UNCHANGED <<written, announced, answered, toWalker, paged>>
        BY <2>2, <3>3 DEF Respond
      <4>2. QED
        BY <1>1, <2>1, <3>1, <4>1 DEF TypeOK
    <3>4. CASE ~ Deduped(s, c)
      <4>1. /\ UNCHANGED <<written, announced>>
            /\ answered' = [answered EXCEPT ![s] = c]
            /\ Reply(s, PageOf(c))
            /\ paged' = paged \cup ((c + 1)..PageEnd(c, Limit))
        BY <2>2, <3>4 DEF Respond
      <4>2. PageOf(c) \in Seq(Answers') /\ paged' \subseteq Entry
        BY <3>2, <4>1, PageTyped
      <4>3. toWalker' \in [Session -> Seq(Answers')]
        BY <2>1, <4>1, <4>2, QueueTyped DEF Reply
      <4>4. answered' \in [Session -> Cursor \cup {None}]
        BY <1>1, <3>2, <4>1 DEF TypeOK
      <4>5. QED
        BY <1>1, <3>1, <4>1, <4>2, <4>3, <4>4 DEF TypeOK
    <3>5. QED
      BY <3>3, <3>4
  <2>3. CASE ServeWant(s)
    <3> DEFINE asked == Head(toServer[s]).refs \cap Readable
               refs == asked \ ServedBefore(asked)
               msgs == IF refs = {} THEN <<>> ELSE <<Data(refs)>>
    <3>1. /\ toServer[s] # <<>>
          /\ toServer' = [toServer EXCEPT ![s] = Tail(@)]
          /\ Reply(s, msgs)
          /\ UNCHANGED <<written, announced, answered, paged>>
      BY <2>3 DEF ServeWant
    <3>2. refs \in SUBSET Entry
      BY WalkAssumption
    <3>3. Data(refs) \in Answers'
      BY <3>2 DEF Data, Answers, ToWalker
    <3>4. msgs \in Seq(Answers')
      BY <3>3
    <3>5. toServer' \in [Session -> Seq(Requests')]
      BY <2>1, <3>1, QueueTyped
    <3>6. toWalker' \in [Session -> Seq(Answers')]
      BY <2>1, <3>1, <3>4, QueueTyped DEF Reply
    <3>7. QED
      BY <1>1, <3>1, <3>5, <3>6 DEF TypeOK
  <2>4. ASSUME NEW first, NEW last
        PROVE  HaveOf(first, last, FALSE, None, None) \in Seq(Answers)
    <3>1. Reached(None) /\ None \in Cursor \cup {None} /\ FALSE \in BOOLEAN
      BY DEF Reached, None
    <3>2. QED
      BY <3>1, HaveTyped, Zenon
  <2>5. CASE Announce(s)
    <3>1. PICK first : Reply(s, HaveOf(first, written, FALSE, None, None))
      BY <2>5 DEF Announce
    <3>2. /\ announced' = announced \cup {s}
          /\ UNCHANGED <<written, answered, toServer, paged>>
      BY <2>5 DEF Announce
    <3>3. Answers' = Answers
      BY <3>2 DEF Answers, Reached
    <3>4. toWalker' \in [Session -> Seq(Answers')]
      BY <2>1, <2>4, <3>1, <3>3, QueueTyped DEF Reply
    <3>5. QED
      BY <1>1, <2>1, <3>2, <3>4 DEF TypeOK
  <2>6. CASE Journal
    <3> DEFINE push == HaveOf(written + 1, written + 1, FALSE, None, None)
    <3>1. /\ written < Last /\ written' = written + 1
          /\ toWalker' = [t \in Session |-> IF Up(t) THEN toWalker[t] \o push ELSE toWalker[t]]
          /\ UNCHANGED <<announced, answered, toServer, paged>>
      BY <2>6 DEF Journal
    <3>2. Answers' = Answers
      BY <3>1 DEF Answers, Reached
    <3>3. \A t \in Session : toWalker[t] \o push \in Seq(Answers')
      BY <2>1, <2>4, <3>2, ConcatProperties
    <3>4. toWalker' \in [Session -> Seq(Answers')]
      BY <2>1, <3>1, <3>3
    <3>5. written' \in Cursor
      BY <1>1, <3>1, WalkAssumption DEF TypeOK, Cursor
    <3>6. QED
      BY <1>1, <2>1, <3>1, <3>4, <3>5 DEF TypeOK
  <2>7. QED
    BY <2>2, <2>3, <2>5, <2>6 DEF Serve
<1>4. /\ toServer' \in [Session -> Seq(ToServer)]
      /\ toWalker' \in [Session -> Seq(ToWalker)]
  BY <1>3, QueueWidened DEF Requests, Answers
<1>5. TypeOK'
  BY <1>1, <1>2, <1>3, <1>4 DEF TypeOK
<1>6. Reached(cursor)' /\ \A t \in Session : Reached(pending[t])'
  BY <1>2 DEF Safe, Reached
<1>7. QED
  BY <1>3, <1>5, <1>6 DEF Safe

\* So do attaching, ending a walk or a session, a crash and a wipe.
LEMMA SessionSafe ==
    ASSUME Safe, NEW s \in Session,
           \/ Attach(s) \/ Settle(s) \/ Rotate(s) \/ WantTimeout(s) \/ Cut(s) \/ Crash(s) \/ Wipe(s)
    PROVE  Safe'
<1> USE DEF walkVars
<1>1. /\ TypeOK
      /\ served' \subseteq Blocks /\ refused' \subseteq Blocks
      /\ claimed' \in [Session -> SUBSET Blocks]
  BY ClaimsTyped DEF Safe, Next
<1>2. UNCHANGED <<written, announced, answered, paged>> /\ risked' \subseteq Entry
  BY <1>1 DEF TypeOK, Attach, Settle, EndWalk, FlushAfterRepair, Rotate, WantTimeout,
              Cut, Crash, Wipe
<1>3. Requests' = Requests /\ Answers' = Answers
  BY <1>2 DEF Requests, Answers, Reached
<1>4. \A c \in Cursor : Reached(c) => /\ Request("delta", c) \in Requests
                                       /\ Request("subscribe", c) \in Requests
  BY DEF Request, Requests, ToServer
<1>5. 0 \in Cursor /\ Reached(0)
  BY WalkAssumption DEF Cursor, Reached
<1>6. ASSUME /\ got' \subseteq Entry /\ localMax' \in Nat
             /\ cursor' \in Cursor /\ Reached(cursor')
             /\ phase' \in [Session -> {"idle", "up", "ended"}]
             /\ initial' \in [Session -> Cursor]
             /\ awaiting' \in [Session -> Cursor \cup {None}]
             /\ done' \subseteq Session /\ rewound' \subseteq Session
             /\ pending' \in [Session -> Cursor \cup {None}]
             /\ \A t \in Session : Reached(pending'[t])
             /\ ending' \subseteq Session
             /\ repairIn' \in [Session -> Nat \cup {None}]
             /\ toServer' \in [Session -> Seq(Requests)]
             /\ toWalker' \in [Session -> Seq(Answers)]
      PROVE  Safe'
  <2>1. /\ toServer' \in [Session -> Seq(ToServer)]
        /\ toWalker' \in [Session -> Seq(ToWalker)]
    BY <1>6, QueueWidened DEF Requests, Answers
  <2>2. TypeOK'
    BY <1>1, <1>2, <1>6, <2>1 DEF TypeOK
  <2>3. QED
    BY <1>2, <1>3, <1>6, <2>2 DEF Safe, Reached
<1>7. /\ toServer \in [Session -> Seq(Requests)]
      /\ toWalker \in [Session -> Seq(Answers)]
      /\ Reached(cursor)
      /\ \A t \in Session : Reached(pending[t])
  BY DEF Safe
<1>8. CASE Attach(s)
  <2>1. PICK c \in {cursor, 0} :
           /\ initial' = [initial EXCEPT ![s] = c]
           /\ awaiting' = [awaiting EXCEPT ![s] = c]
           /\ toServer' = [toServer EXCEPT ![s] =
                              <<Request("delta", c), Request("subscribe", c)>>]
    BY <1>8 DEF Attach
  <2>2. /\ UNCHANGED <<got, localMax, cursor, done, rewound, pending, ending, repairIn, toWalker>>
        /\ phase' = [phase EXCEPT ![s] = "up"]
    BY <1>8 DEF Attach
  <2>3. c \in Cursor /\ Reached(c)
    BY <1>1, <1>5, <1>7, <2>1 DEF TypeOK
  <2>4. <<Request("delta", c), Request("subscribe", c)>> \in Seq(Requests)
    BY <1>4, <2>3
  <2>5. toServer' \in [Session -> Seq(Requests)]
    BY <1>7, <2>1, <2>4
  <2>6. QED
    BY <1>1, <1>6, <1>7, <2>1, <2>2, <2>3, <2>5 DEF TypeOK
<1>9. CASE EndWalk(s)
  <2>1. UNCHANGED <<got, localMax, cursor, phase, initial, pending, toWalker>>
        /\ ending' = ending \ {s}
    BY <1>9 DEF EndWalk
  <2>2. CASE CursorStale(s)
    <3>1. /\ rewound' = rewound \cup {s}
          /\ UNCHANGED <<done, repairIn>>
          /\ \/ UNCHANGED <<awaiting, toServer>>
             \/ /\ awaiting' = [awaiting EXCEPT ![s] = 0]
                /\ Send(s, <<Request("delta", 0)>>)
      BY <1>9, <2>2 DEF EndWalk
    <3>2. <<Request("delta", 0)>> \in Seq(Requests)
      BY <1>4, <1>5
    <3>3. toServer' \in [Session -> Seq(Requests)]
      <4>1. CASE UNCHANGED toServer
        BY <1>7, <4>1
      <4>2. ASSUME NEW msgs \in Seq(Requests), Send(s, msgs)
            PROVE  toServer' \in [Session -> Seq(Requests)]
        BY <1>7, <4>2, QueueTyped DEF Send
      <4>3. QED
        BY <3>1, <3>2, <4>1, <4>2
    <3>4. awaiting' \in [Session -> Cursor \cup {None}]
      BY <1>1, <1>5, <3>1 DEF TypeOK
    <3>5. QED
      BY <1>1, <1>6, <1>7, <2>1, <3>1, <3>3, <3>4 DEF TypeOK
  <2>3. CASE ~ CursorStale(s)
    <3>1. /\ Finish(s, Len(toWalker[s]))
          /\ UNCHANGED <<awaiting, rewound, toServer>>
      BY <1>9, <2>3 DEF EndWalk
    <3>2. Len(toWalker[s]) \in Int
      BY <1>7, LenProperties
    <3>3. done' \subseteq Session /\ repairIn' \in [Session -> Nat \cup {None}]
      BY <1>1, <3>1, <3>2, FinishTyped
    <3>4. QED
      BY <1>1, <1>6, <1>7, <2>1, <3>1, <3>3 DEF TypeOK
  <2>4. QED
    BY <2>2, <2>3
<1>10. CASE FlushAfterRepair(s)
  <2>1. /\ UNCHANGED <<got, localMax, phase, initial, awaiting, done, rewound, ending,
                       toServer, toWalker>>
        /\ repairIn' = [repairIn EXCEPT ![s] = None]
        /\ cursor' = IF pending[s] = None THEN cursor ELSE pending[s]
        /\ pending' = [pending EXCEPT ![s] = None]
    BY <1>10 DEF FlushAfterRepair
  <2>2. cursor' \in Cursor /\ Reached(cursor')
    BY <1>1, <1>7, <2>1 DEF TypeOK
  <2>3. Reached(None)
    BY DEF Reached, None
  <2>4. /\ pending' \in [Session -> Cursor \cup {None}]
        /\ \A t \in Session : Reached(pending'[t])
    BY <1>1, <1>7, <2>1, <2>3 DEF TypeOK
  <2>5. QED
    BY <1>1, <1>6, <1>7, <2>1, <2>2, <2>4 DEF TypeOK
<1>11. CASE Rotate(s) \/ WantTimeout(s)
  BY <1>1, <1>6, <1>7, <1>11 DEF Rotate, WantTimeout, TypeOK
<1>12. CASE Cut(s)
  <2>1. PICK k \in 0..Len(toWalker[s]) :
           toWalker' = [toWalker EXCEPT ![s] = SubSeq(@, 1, k)]
    BY <1>12 DEF Cut
  <2>2. SubSeq(toWalker[s], 1, k) \in Seq(Answers)
    <3>1. toWalker[s] \in Seq(Answers) /\ Len(toWalker[s]) \in Nat
      BY <1>7, LenProperties
    <3>2. \A i \in 1..k : toWalker[s][i] \in Answers
      BY <3>1, ElementOfSeq
    <3>3. QED
      BY <3>1, <3>2, SubSeqProperties
  <2>3. toWalker' \in [Session -> Seq(Answers)]
    BY <1>7, <2>1, <2>2
  <2>4. /\ UNCHANGED <<got, localMax, cursor, initial, pending, walkVars>>
        /\ phase' \in [Session -> {"idle", "up", "ended"}]
        /\ toServer' \in [Session -> Seq(Requests)]
    BY <1>1, <1>7, <1>12 DEF Cut, TypeOK
  <2>5. QED
    BY <1>1, <1>6, <1>7, <2>3, <2>4 DEF TypeOK
<1>13. CASE Crash(s)
  <2>1. /\ UNCHANGED <<got, localMax, cursor, initial, awaiting, done, rewound>>
        /\ phase' \in [Session -> {"idle", "up", "ended"}]
        /\ toServer' \in [Session -> Seq(Requests)]
        /\ toWalker' \in [Session -> Seq(Answers)]
        /\ ending' \subseteq Session
        /\ repairIn' \in [Session -> Nat \cup {None}]
        /\ pending' = [t \in Session |-> None]
    BY <1>1, <1>13 DEF Crash, TypeOK
  <2>2. \A t \in Session : Reached(pending'[t])
    BY <2>1 DEF Reached, None
  <2>3. QED
    BY <1>1, <1>6, <1>7, <2>1, <2>2 DEF TypeOK
<1>14. CASE Wipe(s)
  BY <1>1, <1>6, <1>7, <1>14 DEF Wipe, TypeOK
<1>15. QED
  BY <1>8, <1>9, <1>10, <1>11, <1>12, <1>13, <1>14 DEF Settle

-----------------------------------------------------------------------------
(* The theorems *)

\* The inductive invariant.
THEOREM WalkSafe == Spec => []Safe
<1>1. Init => Safe
  <2> SUFFICES ASSUME Init PROVE Safe
    OBVIOUS
  <2>1. \A M : <<>> \in Seq(M)
    OBVIOUS
  <2>2. /\ 0 \in Cursor /\ Held \in Cursor /\ Own \in Nat
        /\ Reached(0) /\ Reached(None)
    BY WalkAssumption DEF Cursor, Reached, None
  <2>3. TypeOK
    BY <2>1, <2>2 DEF Init, TypeOK
  <2>4. QED
    BY <2>1, <2>2, <2>3 DEF Init, Safe
<1>2. Safe /\ [Next]_vars => Safe'
  <2> SUFFICES ASSUME Safe, [Next]_vars PROVE Safe'
    OBVIOUS
  <2>1. CASE Journal /\ Session # {}
    BY <2>1, ServerSafe
  <2>2. CASE Journal /\ Session = {}
    <3>1. /\ written' \in Cursor
          /\ UNCHANGED <<got, localMax, cursor, phase, announced, initial, pending,
                         walkVars, answered, serveVars, claimed, toServer, paged, risked>>
          /\ toWalker' = [s \in Session |-> IF Up(s) THEN toWalker[s]
                \o HaveOf(written + 1, written + 1, FALSE, None, None) ELSE toWalker[s]]
      BY <2>2, WalkAssumption DEF Journal, Safe, TypeOK, Cursor
    <3>2. toWalker' = toWalker
      BY <2>2, <3>1 DEF Safe
    <3>3. TypeOK'
      BY <3>1, <3>2 DEF Safe, TypeOK, walkVars, serveVars
    <3>4. QED
      BY <3>1, <3>2, <3>3 DEF Safe, Requests, Answers, Reached
  <2>3. ASSUME NEW s \in Session,
               \/ Attach(s) \/ Announce(s) \/ Serve(s) \/ Handle(s) \/ Settle(s)
               \/ Rotate(s) \/ WantTimeout(s) \/ Cut(s) \/ Crash(s) \/ Wipe(s)
        PROVE  Safe'
    BY <2>3, ServerSafe, HandleSafe, SessionSafe
  <2>4. CASE UNCHANGED vars
    BY <2>4 DEF vars, serveVars, Safe, TypeOK, Requests, Answers, Reached
  <2>5. QED
    BY <2>1, <2>2, <2>3, <2>4 DEF Next
<1>3. QED
  BY <1>1, <1>2, PTL DEF Spec

\* Type correctness of the walk.
THEOREM WalkTypeCorrect == Spec => []TypeOK
BY WalkSafe, PTL DEF Safe

\* The walk leaves no hole: for any journal, page size and number of sessions,
\* cut, crashed, rewound or wiped, the stored cursor passes no entry that the
\* server did not list.
THEOREM NoHoles == Spec => []CursorCovered
BY WalkSafe, PTL DEF Safe, Reached, CursorCovered

-----------------------------------------------------------------------------
(* Pages and the requests for them *)

\* Where a queue to the walker has pages, and a queue to the server requests.
Pages(w) == {i \in 1..Len(w) : w[i].type = "have" /\ w[i].from # None}
Asks(q, type) == {i \in 1..Len(q) : q[i].type = type}

\* With q on the way to the server and w on the way to the walker, who awaits
\* the page of cursor a, where the server answered cursor c last and `ends' says
\* that an empty page is being handled: of pages and requests for them there is
\* one at most, it is the one awaited, and a subscribe still to be read will be
\* found answered.
InTurn(q, w, a, c, ends) ==
    /\ \A i \in Pages(w) :
          w[i].from = a /\ ~ ends /\ Pages(w) = {i} /\ Asks(q, "delta") = {}
    /\ \A i \in Asks(q, "delta") :
          q[i].cursor = a /\ ~ ends /\ Asks(q, "delta") = {i}
    /\ \A i \in Asks(q, "subscribe") :
          \/ i = 1 /\ q[1].cursor = c
          \/ i = 2 /\ 1 \in Asks(q, "delta") /\ q[1].cursor = q[2].cursor

\* Nothing is asked and nothing comes.
Quiet(q, w, c) ==
    /\ Pages(w) = {} /\ Asks(q, "delta") = {}
    /\ \A i \in Asks(q, "subscribe") : i = 1 /\ q[1].cursor = c

Turn(s) ==
    /\ phase[s] = "idle" => toServer[s] = <<>> /\ toWalker[s] = <<>> /\ s \notin ending
    /\ Up(s) => InTurn(toServer[s], toWalker[s], awaiting[s], answered[s], s \in ending)

\* Where the messages of a queue are when others are put behind them.
LEMMA Appended ==
    ASSUME NEW S, NEW T, NEW w \in Seq(S), NEW x \in Seq(T)
    PROVE  /\ Len(w) \in Nat /\ Len(x) \in Nat /\ Len(w \o x) = Len(w) + Len(x)
           /\ \A i \in 1..Len(w) : (w \o x)[i] = w[i]
           /\ \A i \in 1..Len(w \o x) : i \in 1..Len(w) \/ i - Len(w) \in 1..Len(x)
           /\ \A i \in 1..Len(w \o x) :
                 i - Len(w) \in 1..Len(x) => (w \o x)[i] = x[i - Len(w)]
<1>1. /\ Len(w) \in Nat /\ Len(x) \in Nat /\ Len(w \o x) = Len(w) + Len(x)
      /\ \A i \in 1..Len(w) : (w \o x)[i] = w[i]
      /\ \A i \in 1..Len(x) : (w \o x)[Len(w) + i] = x[i]
  OBVIOUS
<1>2. ASSUME NEW i \in 1..Len(w \o x), i - Len(w) \in 1..Len(x)
      PROVE  (w \o x)[i] = x[i - Len(w)]
  <2>1. i = Len(w) + (i - Len(w))
    BY <1>1
  <2>2. QED
    BY <1>1, <1>2, <2>1
<1>3. \A i \in 1..Len(w \o x) : i \in 1..Len(w) \/ i - Len(w) \in 1..Len(x)
  BY <1>1
<1>4. QED
  BY <1>1, <1>2, <1>3

\* Where they are when the first one is taken.
LEMMA HeadAndTail ==
    ASSUME NEW T, NEW w \in Seq(T), w # <<>>
    PROVE  /\ Len(w) \in Nat /\ Len(w) >= 1 /\ Len(Tail(w)) = Len(w) - 1
           /\ Head(w) = w[1]
           /\ \A i \in 1..Len(Tail(w)) : Tail(w)[i] = w[i + 1]
OBVIOUS

\* A quiet session is in turn, whatever it awaits; one that handles an empty
\* page is quiet.
LEMMA QuietInTurn ==
    ASSUME NEW q, NEW w, NEW a, NEW c
    PROVE  /\ Quiet(q, w, c) => \A e : InTurn(q, w, a, c, e)
           /\ InTurn(q, w, a, c, TRUE) => Quiet(q, w, c)
BY DEF Quiet, InTurn

\* Pushes and data that come, and wants that go, are no pages and no requests.
LEMMA PushKeepsTurn ==
    ASSUME NEW T, NEW w \in Seq(T), NEW x \in Seq(T), Pages(x) = {},
           NEW q, NEW a, NEW c, NEW e, InTurn(q, w, a, c, e)
    PROVE  InTurn(q, w \o x, a, c, e)
<1> DEFINE z == w \o x
<1>1. /\ Len(w) \in Nat /\ Len(x) \in Nat /\ Len(z) = Len(w) + Len(x)
      /\ \A i \in 1..Len(w) : z[i] = w[i]
      /\ \A i \in 1..Len(z) : i \in 1..Len(w) \/ i - Len(w) \in 1..Len(x)
      /\ \A i \in 1..Len(z) : i - Len(w) \in 1..Len(x) => z[i] = x[i - Len(w)]
  BY Appended
<1> HIDE DEF z
<1>2. ASSUME NEW i \in 1..Len(z), i - Len(w) \in 1..Len(x) PROVE i \notin Pages(z)
  <2>1. z[i] = x[i - Len(w)]
    BY <1>1, <1>2
  <2>2. QED
    BY <1>2, <2>1 DEF Pages
<1>3. Pages(z) = Pages(w)
  BY <1>1, <1>2 DEF Pages
<1>4. \A i \in Pages(w) : z[i] = w[i]
  BY <1>1 DEF Pages
<1>5. QED
  BY <1>3, <1>4 DEF InTurn, z

\* Wants behind a queue ask for no page, ...
LEMMA WantsAskNothing ==
    ASSUME NEW T, NEW q \in Seq(T), NEW x \in Seq(T),
           \A i \in 1..Len(x) : x[i].type = "want"
    PROVE  /\ \A t \in {"delta", "subscribe"} : Asks(q \o x, t) = Asks(q, t)
           /\ \A i \in 1..Len(q) : (q \o x)[i] = q[i]
<1> DEFINE z == q \o x
<1>1. /\ Len(q) \in Nat /\ Len(x) \in Nat /\ Len(z) = Len(q) + Len(x)
      /\ \A i \in 1..Len(q) : z[i] = q[i]
      /\ \A i \in 1..Len(z) : i \in 1..Len(q) \/ i - Len(q) \in 1..Len(x)
      /\ \A i \in 1..Len(z) : i - Len(q) \in 1..Len(x) => z[i] = x[i - Len(q)]
  BY Appended
<1> HIDE DEF z
<1>2. ASSUME NEW i \in 1..Len(z), i - Len(q) \in 1..Len(x) PROVE z[i].type = "want"
  BY <1>1, <1>2
<1>3. \A t \in {"delta", "subscribe"} : Asks(z, t) = Asks(q, t)
  BY <1>1, <1>2 DEF Asks
<1>4. QED
  BY <1>1, <1>3 DEF z

\* ... and so take no turn.
LEMMA WantsKeepTurn ==
    ASSUME NEW T, NEW q \in Seq(T), NEW x \in Seq(T),
           \A i \in 1..Len(x) : x[i].type = "want",
           NEW w, NEW a, NEW c, NEW e
    PROVE  /\ InTurn(q, w, a, c, e) => InTurn(q \o x, w, a, c, e)
           /\ Quiet(q, w, c) => Quiet(q \o x, w, c)
<1> DEFINE z == q \o x
<1>1. /\ Asks(z, "delta") = Asks(q, "delta")
      /\ Asks(z, "subscribe") = Asks(q, "subscribe")
      /\ \A i \in 1..Len(q) : z[i] = q[i]
  BY WantsAskNothing
<1>2. \A t : \A i \in Asks(q, t) : i \in 1..Len(q)
  BY DEF Asks
<1>3. 2 \in Asks(q, "subscribe") => 1 \in 1..Len(q)
  BY DEF Asks
<1> HIDE DEF z
<1>4. QED
  BY <1>1, <1>2, <1>3 DEF InTurn, Quiet, z

\* A quiet session that asks for the page it awaits is in turn.
LEMMA AskInTurn ==
    ASSUME NEW T, NEW q \in Seq(T), NEW x \in Seq(T), Len(x) >= 1,
           NEW a, x[1].type = "delta", x[1].cursor = a,
           \A i \in 2..Len(x) : x[i].type = "want",
           NEW w, NEW c, Quiet(q, w, c)
    PROVE  InTurn(q \o x, w, a, c, FALSE)
<1> DEFINE z == q \o x
<1>1. /\ Len(q) \in Nat /\ Len(x) \in Nat /\ Len(z) = Len(q) + Len(x)
      /\ \A i \in 1..Len(q) : z[i] = q[i]
      /\ \A i \in 1..Len(z) : i \in 1..Len(q) \/ i - Len(q) \in 1..Len(x)
      /\ \A i \in 1..Len(z) : i - Len(q) \in 1..Len(x) => z[i] = x[i - Len(q)]
  BY Appended
<1> HIDE DEF z
<1>2. z[Len(q) + 1] = x[1]
  <2>1. Len(q) + 1 \in 1..Len(z) /\ (Len(q) + 1) - Len(q) = 1
    BY <1>1
  <2>2. QED
    BY <1>1, <2>1
<1>3. ASSUME NEW i \in 1..Len(z), i - Len(q) \in 2..Len(x) PROVE z[i].type = "want"
  BY <1>1, <1>3
<1>4. Asks(z, "delta") = {Len(q) + 1}
  BY <1>1, <1>2, <1>3 DEF Asks, Quiet
<1>5. Asks(z, "subscribe") = Asks(q, "subscribe")
  BY <1>1, <1>2, <1>3 DEF Asks
<1>6. \A i \in Asks(q, "subscribe") : z[i] = q[i]
  BY <1>1 DEF Asks
<1>7. QED
  BY <1>2, <1>4, <1>5, <1>6 DEF InTurn, Quiet, z

\* The page that answers what was asked is in turn.
LEMMA PageInTurn ==
    ASSUME NEW T, NEW w \in Seq(T), NEW m, m.type = "have", m.from # None,
           NEW q, Quiet(q, w, m.from)
    PROVE  InTurn(q, w \o <<m>>, m.from, m.from, FALSE)
<1> DEFINE z == w \o <<m>>
<1>1. /\ Len(w) \in Nat /\ Len(z) = Len(w) + 1
      /\ \A i \in 1..Len(w) : z[i] = w[i]
      /\ z[Len(w) + 1] = m
  OBVIOUS
<1> HIDE DEF z
<1>2. Pages(z) = {Len(w) + 1}
  BY <1>1 DEF Pages, Quiet
<1>3. QED
  BY <1>1, <1>2 DEF InTurn, Quiet, z

\* The server takes a request: a second one with the cursor it has answered
\* last changes nothing, any other leaves the session quiet but for the page.
LEMMA AnswerKeepsTurn ==
    ASSUME NEW T, NEW q \in Seq(T), q # <<>>, Head(q).type \in {"delta", "subscribe"},
           NEW w, NEW a, NEW c, NEW e, InTurn(q, w, a, c, e)
    PROVE  /\ c = Head(q).cursor => InTurn(Tail(q), w, a, c, e)
           /\ c # Head(q).cursor =>
                 /\ Quiet(Tail(q), w, Head(q).cursor)
                 /\ a = Head(q).cursor /\ ~ e
<1> DEFINE z == Tail(q)
           k == Head(q).cursor
<1>1. /\ Len(q) \in Nat /\ Len(q) >= 1 /\ Len(z) = Len(q) - 1
      /\ Head(q) = q[1]
      /\ \A i \in 1..Len(z) : z[i] = q[i + 1]
  BY HeadAndTail
<1> HIDE DEF z
<1>2. \A t : \A i \in Asks(z, t) : i + 1 \in Asks(q, t) /\ z[i] = q[i + 1] /\ i \in Nat /\ i >= 1
  BY <1>1 DEF Asks
<1>3. 1 \in Asks(q, "delta") \/ 1 \in Asks(q, "subscribe")
  BY <1>1 DEF Asks
<1>4. ~ (1 \in Asks(q, "delta") /\ 1 \in Asks(q, "subscribe"))
  BY DEF Asks
<1>5. ASSUME NEW i \in Asks(z, "subscribe") PROVE i = 1 /\ z[1].cursor = k
  <2>1. i + 1 \in Asks(q, "subscribe") /\ i + 1 # 1
    BY <1>2
  <2>2. i + 1 = 2 /\ q[1].cursor = q[2].cursor
    BY <2>1 DEF InTurn
  <2>3. i = 1
    BY <1>2, <2>2
  <2>4. QED
    BY <1>1, <1>2, <2>2, <2>3
<1>6. ASSUME NEW i \in Asks(z, "delta") PROVE 1 \notin Asks(q, "delta")
  <2>1. i + 1 \in Asks(q, "delta") /\ i + 1 # 1
    BY <1>2
  <2>2. QED
    BY <2>1 DEF InTurn
<1>7. ASSUME c = k PROVE InTurn(z, w, a, c, e)
  <2>1. \A i \in Asks(z, "delta") : z[i].cursor = a /\ ~ e /\ Asks(z, "delta") = {i}
    <3>1. ASSUME NEW i \in Asks(z, "delta"), NEW j \in Asks(z, "delta")
          PROVE  i = j /\ z[i].cursor = a /\ ~ e
      <4>1. i + 1 \in Asks(q, "delta") /\ j + 1 \in Asks(q, "delta")
        BY <1>2
      <4>2. i + 1 = j + 1 /\ q[i + 1].cursor = a /\ ~ e
        BY <4>1 DEF InTurn
      <4>3. QED
        BY <1>2, <4>2
    <3>2. QED
      BY <3>1
  <2>2. \A i \in Pages(w) : /\ w[i].from = a /\ ~ e /\ Pages(w) = {i}
                            /\ Asks(z, "delta") = {}
    BY <1>2 DEF InTurn
  <2>3. QED
    BY <1>5, <1>7, <2>1, <2>2 DEF InTurn
<1>8. ASSUME c # k PROVE Quiet(z, w, k) /\ a = k /\ ~ e
  <2>1. 1 \in Asks(q, "delta")
    BY <1>1, <1>3, <1>8 DEF InTurn
  <2>2. Asks(z, "delta") = {}
    BY <1>6, <2>1
  <2>3. Pages(w) = {}
    BY <2>1 DEF InTurn
  <2>4. q[1].cursor = a /\ ~ e
    BY <2>1 DEF InTurn
  <2>5. QED
    BY <1>1, <1>5, <2>2, <2>3, <2>4 DEF Quiet
<1>9. QED
  BY <1>7, <1>8 DEF z

\* So does a want that is served.
LEMMA WantTakenKeepsTurn ==
    ASSUME NEW T, NEW q \in Seq(T), q # <<>>, Head(q).type = "want",
           NEW w, NEW a, NEW c, NEW e, InTurn(q, w, a, c, e)
    PROVE  InTurn(Tail(q), w, a, c, e)
<1> DEFINE z == Tail(q)
<1>1. /\ Len(q) \in Nat /\ Len(q) >= 1 /\ Len(z) = Len(q) - 1
      /\ Head(q) = q[1]
      /\ \A i \in 1..Len(z) : z[i] = q[i + 1]
  BY HeadAndTail
<1> HIDE DEF z
<1>2. \A t : \A i \in Asks(z, t) : i + 1 \in Asks(q, t) /\ z[i] = q[i + 1] /\ i \in Nat /\ i >= 1
  BY <1>1 DEF Asks
<1>3. 1 \notin Asks(q, "delta") /\ 1 \notin Asks(q, "subscribe")
  BY <1>1 DEF Asks
<1>4. Asks(q, "subscribe") = {}
  BY <1>3 DEF InTurn
<1>5. Asks(z, "subscribe") = {}
  BY <1>2, <1>4
<1>6. \A i \in Asks(z, "delta") : z[i].cursor = a /\ ~ e /\ Asks(z, "delta") = {i}
  <2>1. ASSUME NEW i \in Asks(z, "delta"), NEW j \in Asks(z, "delta")
        PROVE  i = j /\ z[i].cursor = a /\ ~ e
    <3>1. i + 1 \in Asks(q, "delta") /\ j + 1 \in Asks(q, "delta")
      BY <1>2
    <3>2. i + 1 = j + 1 /\ q[i + 1].cursor = a /\ ~ e
      BY <3>1 DEF InTurn
    <3>3. QED
      BY <1>2, <3>2
  <2>2. QED
    BY <2>1
<1>7. \A i \in Pages(w) : /\ w[i].from = a /\ ~ e /\ Pages(w) = {i}
                          /\ Asks(z, "delta") = {}
  BY <1>2 DEF InTurn
<1>8. QED
  BY <1>5, <1>6, <1>7 DEF InTurn, z

\* The walker takes a message: a page leaves the session quiet, anything else in
\* turn.
LEMMA TakingKeepsTurn ==
    ASSUME NEW T, NEW w \in Seq(T), w # <<>>,
           NEW q, NEW a, NEW c, NEW e, InTurn(q, w, a, c, e)
    PROVE  IF Head(w).type = "have" /\ Head(w).from # None
             THEN Quiet(q, Tail(w), c) /\ Head(w).from = a /\ ~ e
             ELSE InTurn(q, Tail(w), a, c, e)
<1> DEFINE z == Tail(w)
<1>1. /\ Len(w) \in Nat /\ Len(w) >= 1 /\ Len(z) = Len(w) - 1
      /\ Head(w) = w[1]
      /\ \A i \in 1..Len(z) : z[i] = w[i + 1]
  BY HeadAndTail
<1> HIDE DEF z
<1>2. \A i \in Pages(z) : i + 1 \in Pages(w) /\ z[i] = w[i + 1] /\ i \in Nat /\ i >= 1
  BY <1>1 DEF Pages
<1>3. (Head(w).type = "have" /\ Head(w).from # None) <=> 1 \in Pages(w)
  BY <1>1 DEF Pages
<1>4. ASSUME 1 \in Pages(w) PROVE Quiet(q, z, c) /\ Head(w).from = a /\ ~ e
  <2>1. Pages(w) = {1} /\ w[1].from = a /\ ~ e /\ Asks(q, "delta") = {}
    BY <1>4 DEF InTurn
  <2>2. Pages(z) = {}
    <3>1. ASSUME NEW i \in Pages(z) PROVE FALSE
      <4>1. i + 1 \in Pages(w) /\ i + 1 # 1
        BY <1>2
      <4>2. QED
        BY <2>1, <4>1
    <3>2. QED
      BY <3>1
  <2>3. QED
    BY <1>1, <2>1, <2>2 DEF Quiet, InTurn
<1>5. ASSUME 1 \notin Pages(w) PROVE InTurn(q, z, a, c, e)
  <2>1. ASSUME NEW i \in Pages(z), NEW j \in Pages(z)
        PROVE  i = j /\ z[i].from = a /\ ~ e /\ Asks(q, "delta") = {}
    <3>1. i + 1 \in Pages(w) /\ j + 1 \in Pages(w)
      BY <1>2
    <3>2. i + 1 = j + 1 /\ w[i + 1].from = a /\ ~ e /\ Asks(q, "delta") = {}
      BY <3>1 DEF InTurn
    <3>3. QED
      BY <1>2, <3>2
  <2>2. \A i \in Asks(q, "delta") : q[i].cursor = a /\ ~ e /\ Asks(q, "delta") = {i}
    BY DEF InTurn
  <2>3. QED
    BY <2>1, <2>2 DEF InTurn
<1>6. QED
  BY <1>3, <1>4, <1>5 DEF z

\* What a step leaves alone at a session keeps its turn.
LEMMA TurnStays ==
    ASSUME NEW t, Turn(t),
           phase'[t] = phase[t], toServer'[t] = toServer[t], toWalker'[t] = toWalker[t],
           awaiting'[t] = awaiting[t], answered'[t] = answered[t],
           t \in ending' <=> t \in ending
    PROVE  Turn(t)'
BY DEF Turn, Up

\* A message that is no page, or none at all, brings no page.
LEMMA NoPage ==
    ASSUME NEW T, NEW m \in T, m.type # "have" \/ m.from = None,
           NEW x, x = <<>> \/ x = <<m>>
    PROVE  x \in Seq(T) /\ Pages(x) = {}
<1>1. CASE x = <<>>
  <2>1. x \in Seq(T) /\ Len(x) = 0
    BY <1>1
  <2>2. QED
    BY <2>1 DEF Pages
<1>2. CASE x = <<m>>
  <2>1. x \in Seq(T) /\ Len(x) = 1 /\ x[1] = m
    BY <1>2
  <2>2. QED
    BY <2>1 DEF Pages
<1>3. QED
  BY <1>1, <1>2

\* Pushes, announces and data are no pages.
LEMMA NoPages ==
    ASSUME NEW refs \in SUBSET Entry
    PROVE  /\ \A first, last :
                 LET x == HaveOf(first, last, FALSE, None, None)
                 IN  x \in Seq(ToWalker) /\ Pages(x) = {}
           /\ LET x == IF refs = {} THEN <<>> ELSE <<Data(refs)>>
              IN  x \in Seq(ToWalker) /\ Pages(x) = {}
<1>1. ASSUME NEW first, NEW last, NEW x, x = HaveOf(first, last, FALSE, None, None)
      PROVE  x \in Seq(ToWalker) /\ Pages(x) = {}
  <2> DEFINE m == Have((first..last) \cap Readable, FALSE, None, None)
  <2>1. m \in ToWalker /\ m.from = None
    BY WalkAssumption DEF Have, ToWalker
  <2>2. x = <<>> \/ x = <<m>>
    BY <1>1 DEF HaveOf
  <2> HIDE DEF m
  <2>3. QED
    BY <2>1, <2>2, NoPage
<1>2. ASSUME NEW x, x = IF refs = {} THEN <<>> ELSE <<Data(refs)>>
      PROVE  x \in Seq(ToWalker) /\ Pages(x) = {}
  <2> DEFINE m == Data(refs)
  <2>1. m \in ToWalker /\ m.type # "have"
    BY DEF Data, ToWalker
  <2>2. x = <<>> \/ x = <<m>>
    BY <1>2
  <2> HIDE DEF m
  <2>3. QED
    BY <2>1, <2>2, NoPage
<1>3. QED
  BY <1>1, <1>2

\* A page answers the cursor it was asked with.
LEMMA PageAnswers ==
    ASSUME NEW c
    PROVE  PageOf(c) = <<>>
           \/ \E m : PageOf(c) = <<m>> /\ m.type = "have" /\ m.from = c
BY DEF PageOf, HaveOf, Have

\* The server answers a request with a page at most, and takes the request.
LEMMA ServeKeepsTurn ==
    ASSUME TypeOK, \A t \in Session : Turn(t), NEW s \in Session, Serve(s)
    PROVE  \A t \in Session : Turn(t)'
<1> USE DEF walkVars
<1> DEFINE q == toServer[s]
           w == toWalker[s]
           m == Head(q)
<1>1. /\ q # <<>> /\ q \in Seq(ToServer) /\ w \in Seq(ToWalker) /\ m \in ToServer
      /\ toServer' = [toServer EXCEPT ![s] = Tail(q)]
      /\ UNCHANGED <<phase, awaiting, ending>>
  <2>1. q # <<>> /\ toServer' = [toServer EXCEPT ![s] = Tail(q)] /\ UNCHANGED <<phase, awaiting, ending>>
    BY DEF Serve, Respond, ServeWant
  <2>2. q \in Seq(ToServer) /\ w \in Seq(ToWalker)
    BY DEF TypeOK
  <2>3. QED
    BY <2>1, <2>2, HeadTailProperties
<1>2. ASSUME NEW t \in Session, t # s PROVE Turn(t)'
  <2>1. toServer'[t] = toServer[t] /\ toWalker'[t] = toWalker[t] /\ answered'[t] = answered[t]
    BY <1>1, <1>2 DEF Serve, Respond, ServeWant, Reply, TypeOK
  <2>2. QED
    BY <1>1, <2>1, TurnStays
<1>3. phase[s] # "idle"
  BY <1>1 DEF Turn
<1>4. ASSUME Up(s) PROVE InTurn(toServer'[s], toWalker'[s], awaiting[s], answered'[s], s \in ending)
  <2>1. InTurn(q, w, awaiting[s], answered[s], s \in ending)
    BY <1>4 DEF Turn
  <2>2. toServer'[s] = Tail(q) /\ Tail(q) \in Seq(ToServer)
    BY <1>1, HeadTailProperties DEF TypeOK
  <2>3. CASE ServeWant(s)
    <3> DEFINE asked == m.refs \cap Readable
               refs == asked \ ServedBefore(asked)
               x == IF refs = {} THEN <<>> ELSE <<Data(refs)>>
    <3>1. m.type = "want" /\ toWalker'[s] = w \o x /\ answered'[s] = answered[s]
      BY <1>4, <2>3 DEF ServeWant, Reply, TypeOK
    <3>2. refs \in SUBSET Entry
      BY WalkAssumption
    <3>3. x \in Seq(ToWalker) /\ Pages(x) = {}
      BY <3>2, NoPages
    <3> HIDE DEF x, q, w, m
    <3>4. InTurn(Tail(q), w, awaiting[s], answered[s], s \in ending)
      BY <1>1, <2>1, <3>1, WantTakenKeepsTurn DEF m
    <3>5. InTurn(Tail(q), w \o x, awaiting[s], answered[s], s \in ending)
      BY <1>1, <3>3, <3>4, PushKeepsTurn
    <3>6. QED
      BY <2>2, <3>1, <3>5
  <2>4. CASE Respond(s)
    <3> DEFINE c == m.cursor
    <3>1. m.type \in {"delta", "subscribe"}
      BY <2>4 DEF Respond
    <3>2. /\ answered[s] = c => InTurn(Tail(q), w, awaiting[s], answered[s], s \in ending)
          /\ answered[s] # c => Quiet(Tail(q), w, c) /\ awaiting[s] = c /\ ~ (s \in ending)
      <4> DEFINE e == s \in ending
                 a == awaiting[s]
                 k == answered[s]
      <4>1. InTurn(q, w, a, k, e)
        BY <2>1
      <4> HIDE DEF e, a, k, q, w
      <4>2. /\ k = Head(q).cursor => InTurn(Tail(q), w, a, k, e)
            /\ k # Head(q).cursor =>
                  Quiet(Tail(q), w, Head(q).cursor) /\ a = Head(q).cursor /\ ~ e
        BY <1>1, <3>1, <4>1, AnswerKeepsTurn
      <4>3. QED
        BY <4>2 DEF e, a, k
    <3>3. CASE Deduped(s, c)
      <4>1. answered'[s] = answered[s] /\ toWalker'[s] = w
        BY <2>4, <3>3 DEF Respond
      <4>2. answered[s] = c
        BY <3>3 DEF Deduped
      <4>3. QED
        BY <2>2, <3>2, <4>1, <4>2
    <3>4. CASE ~ Deduped(s, c)
      <4>1. answered'[s] = c /\ toWalker'[s] = w \o PageOf(c)
        BY <1>4, <2>4, <3>4 DEF Respond, Reply, TypeOK
      <4>2. Quiet(Tail(q), w, c) /\ awaiting[s] = c /\ ~ (s \in ending)
        BY <3>2, <3>4 DEF Deduped
      <4>3. c \in Cursor /\ c # None
        BY <1>1, <3>1, WalkAssumption DEF ToServer, Cursor, None
      <4>4. CASE PageOf(c) = <<>>
        <5>1. toWalker'[s] = w
          BY <1>1, <4>1, <4>4, ConcatEmptySeq
        <5>2. QED
          BY <2>2, <4>1, <4>2, <5>1, QuietInTurn
      <4>5. ASSUME NEW p, PageOf(c) = <<p>>, p.type = "have", p.from = c
            PROVE  InTurn(toServer'[s], toWalker'[s], awaiting[s], answered'[s], s \in ending)
        <5> HIDE DEF q, w, c
        <5>1. InTurn(Tail(q), w \o <<p>>, p.from, p.from, FALSE)
          BY <1>1, <4>2, <4>3, <4>5, PageInTurn
        <5>2. (s \in ending) = FALSE
          BY <4>2
        <5>3. QED
          BY <2>2, <4>1, <4>2, <4>5, <5>1, <5>2
      <4>6. QED
        BY <4>4, <4>5, PageAnswers
    <3>5. QED
      BY <3>3, <3>4
  <2>5. QED
    BY <2>3, <2>4 DEF Serve
<1>5. Turn(s)'
  BY <1>1, <1>3, <1>4 DEF Turn, Up
<1>6. QED
  BY <1>2, <1>5

\* What comes without being asked keeps the turn of every session.
LEMMA PushesKeepTurn ==
    ASSUME TypeOK, \A t \in Session : Turn(t), Journal \/ \E s \in Session : Announce(s)
    PROVE  \A t \in Session : Turn(t)'
<1> USE DEF walkVars
<1> SUFFICES ASSUME NEW t \in Session PROVE Turn(t)'
  OBVIOUS
<1>1. /\ UNCHANGED <<phase, awaiting, ending, answered, toServer>>
      /\ \/ toWalker'[t] = toWalker[t]
         \/ /\ Up(t)
            /\ \E first, last :
                  toWalker'[t] = toWalker[t] \o HaveOf(first, last, FALSE, None, None)
  <2>1. CASE Journal
    BY <2>1 DEF Journal
  <2>2. ASSUME NEW s \in Session, Announce(s)
        PROVE  /\ UNCHANGED <<phase, awaiting, ending, answered, toServer>>
               /\ \E first : Reply(s, HaveOf(first, written, FALSE, None, None))
               /\ Up(s)
    BY <2>2 DEF Announce
  <2>3. ASSUME NEW s \in Session, NEW x, Reply(s, x), Up(s)
        PROVE  toWalker'[t] = IF t = s THEN toWalker[t] \o x ELSE toWalker[t]
    BY <2>3 DEF Reply, TypeOK
  <2>4. QED
    BY <2>1, <2>2, <2>3
<1>2. CASE toWalker'[t] = toWalker[t]
  BY <1>1, <1>2, TurnStays
<1>3. ASSUME Up(t), NEW first, NEW last,
             toWalker'[t] = toWalker[t] \o HaveOf(first, last, FALSE, None, None)
      PROVE  Turn(t)'
  <2> DEFINE x == HaveOf(first, last, FALSE, None, None)
  <2>1. x \in Seq(ToWalker) /\ Pages(x) = {}
    <3>1. {} \in SUBSET Entry
      OBVIOUS
    <3>2. QED
      BY <3>1, NoPages
  <2> HIDE DEF x
  <2>2. toWalker[t] \in Seq(ToWalker) /\ toWalker'[t] = toWalker[t] \o x
    BY <1>3 DEF TypeOK, x
  <2>3. InTurn(toServer[t], toWalker[t], awaiting[t], answered[t], t \in ending)
    BY <1>3 DEF Turn
  <2>4. InTurn(toServer[t], toWalker[t] \o x, awaiting[t], answered[t], t \in ending)
    BY <2>1, <2>2, <2>3, PushKeepsTurn
  <2>5. QED
    BY <1>1, <1>3, <2>2, <2>4 DEF Turn, Up
<1>4. QED
  BY <1>1, <1>2, <1>3

\* What the handler of a have sends: what it was given, and perhaps a want.
LEMMA HaveSends ==
    ASSUME TypeOK, NEW s \in Session, AtHave(s), NEW page, NEW sent,
           ProcessHave(s, page, sent)
    PROVE  /\ \A t \in Session : t # s => toServer'[t] = toServer[t]
           /\ Up(s) => \/ toServer'[s] = toServer[s] \o sent
                       \/ \E m \in ToServer : /\ m.type = "want"
                                              /\ toServer'[s] = toServer[s] \o (sent \o <<m>>)
<1> DEFINE m == Want(Wanted(s))
<1>1. Head(toWalker[s]) \in ToWalker
  <2>1. toWalker[s] \in Seq(ToWalker) /\ toWalker[s] # <<>>
    BY DEF TypeOK, AtHave
  <2>2. QED
    BY <2>1, HeadTailProperties
<1>2. m \in ToServer /\ m.type = "want"
  <2>1. Wanted(s) \subseteq Entry
    BY <1>1, WantedTyped DEF AtHave, ToWalker
  <2>2. QED
    BY <2>1 DEF Want, ToServer
<1>3. Send(s, sent) \/ Send(s, sent \o <<m>>)
  BY DEF ProcessHave
<1> HIDE DEF m
<1>4. QED
  BY <1>2, <1>3 DEF Send, TypeOK

\* So a handler that had nothing to send before sends wants, if anything, and
\* one that asked for a page sends the request and then wants.
LEMMA WantsSent ==
    ASSUME TypeOK, NEW s \in Session, AtHave(s), NEW page,
           ProcessHave(s, page, <<>>), Up(s)
    PROVE  \E x \in Seq(ToServer) : /\ toServer'[s] = toServer[s] \o x
                                    /\ \A i \in 1..Len(x) : x[i].type = "want"
<1>1. CASE toServer'[s] = toServer[s] \o <<>>
  <2>1. <<>> \in Seq(ToServer) /\ \A i \in 1..Len(<<>>) : <<>>[i].type = "want"
    OBVIOUS
  <2>2. QED
    BY <1>1, <2>1
<1>2. ASSUME NEW m \in ToServer, m.type = "want",
             toServer'[s] = toServer[s] \o (<<>> \o <<m>>)
      PROVE  \E x \in Seq(ToServer) : /\ toServer'[s] = toServer[s] \o x
                                      /\ \A i \in 1..Len(x) : x[i].type = "want"
  <2>1. <<m>> \in Seq(ToServer) /\ \A i \in 1..Len(<<m>>) : <<m>>[i].type = "want"
    BY <1>2
  <2>2. <<>> \o <<m>> = <<m>>
    BY <2>1, ConcatEmptySeq
  <2>3. QED
    BY <1>2, <2>1, <2>2
<1>3. QED
  BY <1>1, <1>2, HaveSends

\* A page is followed by the request its handler makes, and then by wants.
LEMMA RequestSent ==
    ASSUME TypeOK, NEW s \in Session, AtHave(s), NEW page, NEW r \in ToServer,
           ProcessHave(s, page, <<r>>), Up(s)
    PROVE  \E x \in Seq(ToServer) : /\ toServer'[s] = toServer[s] \o x
                                    /\ Len(x) >= 1 /\ x[1] = r
                                    /\ \A i \in 2..Len(x) : x[i].type = "want"
<1>1. CASE toServer'[s] = toServer[s] \o <<r>>
  <2>1. /\ <<r>> \in Seq(ToServer) /\ Len(<<r>>) >= 1 /\ <<r>>[1] = r
        /\ \A i \in 2..Len(<<r>>) : <<r>>[i].type = "want"
    OBVIOUS
  <2>2. QED
    BY <1>1, <2>1
<1>2. ASSUME NEW m \in ToServer, m.type = "want",
             toServer'[s] = toServer[s] \o (<<r>> \o <<m>>)
      PROVE  \E x \in Seq(ToServer) : /\ toServer'[s] = toServer[s] \o x
                                      /\ Len(x) >= 1 /\ x[1] = r
                                      /\ \A i \in 2..Len(x) : x[i].type = "want"
  <2> DEFINE x == <<r>> \o <<m>>
  <2>1. <<r>> \in Seq(ToServer) /\ <<m>> \in Seq(ToServer)
    OBVIOUS
  <2>2. x \in Seq(ToServer)
    BY <2>1, ConcatProperties
  <2>3. Len(x) = 2 /\ x[1] = r /\ x[2] = m
    BY <2>1
  <2> HIDE DEF x
  <2>4. Len(x) >= 1 /\ x[1] = r /\ \A i \in 2..Len(x) : x[i].type = "want"
    BY <1>2, <2>3
  <2>5. QED
    BY <1>2, <2>2, <2>4 DEF x
<1>3. QED
  BY <1>1, <1>2, HaveSends

\* The walker takes the page it awaits before it asks for the next one.
LEMMA HandleKeepsTurn ==
    ASSUME TypeOK, \A t \in Session : Turn(t), NEW s \in Session, Handle(s)
    PROVE  \A t \in Session : Turn(t)'
<1> DEFINE q == toServer[s]
           w == toWalker[s]
           a == awaiting[s]
           c == answered[s]
           m == Head(w)
<1>1. /\ w # <<>> /\ w \in Seq(ToWalker) /\ q \in Seq(ToServer) /\ m \in ToWalker
      /\ toWalker' = [toWalker EXCEPT ![s] = Tail(w)]
      /\ UNCHANGED <<phase, answered>>
      /\ AtHave(s) \/ AcceptData(s)
  <2>1. /\ w # <<>> /\ toWalker' = [toWalker EXCEPT ![s] = Tail(w)]
        /\ UNCHANGED <<phase, answered>>
        /\ AtHave(s) \/ AcceptData(s)
    BY DEF Handle, TakePush, TakeMore, TakeLast, TakeEmpty, AcceptData, AtHave, HandlerDone
  <2>2. w \in Seq(ToWalker) /\ q \in Seq(ToServer)
    BY DEF TypeOK
  <2>3. m \in ToWalker
    BY <2>1, <2>2, HeadTailProperties
  <2>4. QED
    BY <2>1, <2>2, <2>3
<1>2. \A t \in Session : t # s => toServer'[t] = toServer[t]
  <2>1. CASE AcceptData(s)
    BY <2>1 DEF AcceptData
  <2>2. CASE ~ AcceptData(s)
    <3>1. AtHave(s) /\ \E page, sent : ProcessHave(s, page, sent)
      BY <1>1, <2>2 DEF Handle, TakePush, TakeMore, TakeLast, TakeEmpty
    <3>2. QED
      BY <3>1, HaveSends
  <2>3. QED
    BY <2>1, <2>2
<1>3. ASSUME NEW t \in Session, t # s PROVE Turn(t)'
  <2>1. awaiting'[t] = awaiting[t] /\ (t \in ending' <=> t \in ending)
    BY <1>3 DEF Handle, TakePush, TakeMore, TakeLast, TakeEmpty, AcceptData, TypeOK
  <2>2. toWalker'[t] = toWalker[t]
    BY <1>1, <1>3
  <2>3. QED
    BY <1>1, <1>2, <1>3, <2>1, <2>2, TurnStays
<1>4. phase[s] # "idle" /\ toWalker'[s] = Tail(w)
  BY <1>1 DEF Turn, TypeOK
<1>5. ASSUME Up(s)
      PROVE  InTurn(toServer'[s], Tail(w), awaiting'[s], c, s \in ending')
  <2>1. IF m.type = "have" /\ m.from # None
          THEN Quiet(q, Tail(w), c) /\ m.from = a /\ s \notin ending
          ELSE InTurn(q, Tail(w), a, c, s \in ending)
    <3> DEFINE e == s \in ending
    <3>1. InTurn(q, w, a, c, e)
      BY <1>5 DEF Turn
    <3> HIDE DEF e, q, w, a, c
    <3>2. IF Head(w).type = "have" /\ Head(w).from # None
            THEN Quiet(q, Tail(w), c) /\ Head(w).from = a /\ ~ e
            ELSE InTurn(q, Tail(w), a, c, e)
      BY <1>1, <3>1, TakingKeepsTurn
    <3>3. QED
      BY <3>2 DEF e
  <2>2. Expected(s) /\ AtHave(s) => Quiet(q, Tail(w), c) /\ s \notin ending
    BY <2>1 DEF Expected, AtHave
  <2>3. ASSUME Quiet(q, Tail(w), c), AtHave(s), NEW page, ProcessHave(s, page, <<>>)
        PROVE  InTurn(toServer'[s], Tail(w), awaiting'[s], c, s \in ending')
    <3>1. PICK x \in Seq(ToServer) : /\ toServer'[s] = q \o x
                                     /\ \A i \in 1..Len(x) : x[i].type = "want"
      BY <1>5, <2>3, WantsSent
    <3> HIDE DEF q, w, c
    <3>2. Quiet(q \o x, Tail(w), c)
      BY <1>1, <2>3, <3>1, WantsKeepTurn
    <3>3. QED
      BY <3>1, <3>2, QuietInTurn
  <2>4. CASE TakePush(s)
    <3>1. /\ AtHave(s) /\ ~ Expected(s) /\ ProcessHave(s, pending[s], <<>>)
          /\ UNCHANGED <<awaiting, ending>>
      BY <2>4 DEF TakePush
    <3>2. InTurn(q, Tail(w), a, c, s \in ending)
      BY <2>1, <3>1 DEF Expected, AtHave
    <3>3. PICK x \in Seq(ToServer) : /\ toServer'[s] = q \o x
                                     /\ \A i \in 1..Len(x) : x[i].type = "want"
      BY <1>5, <3>1, WantsSent
    <3> HIDE DEF q, w, c
    <3>4. InTurn(q \o x, Tail(w), a, c, s \in ending)
      BY <1>1, <3>2, <3>3, WantsKeepTurn
    <3>5. QED
      BY <3>1, <3>3, <3>4
  <2>5. CASE TakeMore(s)
    <3> DEFINE go == m.next # None /\ s \notin done
    <3>1. /\ AtHave(s) /\ Expected(s)
          /\ awaiting' = [awaiting EXCEPT ![s] = IF go THEN m.next ELSE None]
          /\ ProcessHave(s, PageCursor(s), IF go THEN <<Request("delta", m.next)>> ELSE <<>>)
          /\ UNCHANGED ending
      BY <2>5 DEF TakeMore
    <3>2. Quiet(q, Tail(w), c) /\ s \notin ending
      BY <2>2, <3>1
    <3>3. CASE ~ go
      BY <2>3, <3>1, <3>2, <3>3
    <3>4. CASE go
      <4> DEFINE r == Request("delta", m.next)
      <4>1. r.type = "delta" /\ r.cursor = m.next /\ r \in ToServer
        BY <1>1, <3>1, <3>4 DEF Request, ToServer, ToWalker, AtHave
      <4>2. ProcessHave(s, PageCursor(s), <<r>>)
        BY <3>1, <3>4
      <4> HIDE DEF r
      <4>3. PICK x \in Seq(ToServer) : /\ toServer'[s] = q \o x
                                       /\ Len(x) >= 1 /\ x[1] = r
                                       /\ \A i \in 2..Len(x) : x[i].type = "want"
        BY <1>5, <3>1, <4>1, <4>2, RequestSent
      <4>4. awaiting'[s] = m.next
        BY <3>1, <3>4 DEF TypeOK
      <4> HIDE DEF q, w, c, m
      <4>5. InTurn(q \o x, Tail(w), m.next, c, FALSE)
        BY <1>1, <3>2, <4>1, <4>3, AskInTurn
      <4>6. (s \in ending') = FALSE
        BY <3>1, <3>2
      <4>7. QED
        BY <4>3, <4>4, <4>5, <4>6
    <3>5. QED
      BY <3>3, <3>4
  <2>6. CASE TakeLast(s) \/ TakeEmpty(s)
    <3>1. AtHave(s) /\ Expected(s) /\ \E page : ProcessHave(s, page, <<>>)
      BY <2>6 DEF TakeLast, TakeEmpty
    <3>2. QED
      BY <2>2, <2>3, <3>1
  <2>7. CASE AcceptData(s)
    <3>1. m.type = "data" /\ UNCHANGED <<awaiting, ending, toServer>>
      BY <2>7 DEF AcceptData
    <3>2. QED
      BY <2>1, <3>1
  <2>8. QED
    BY <2>4, <2>5, <2>6, <2>7 DEF Handle
<1>6. Turn(s)'
  BY <1>1, <1>4, <1>5 DEF Turn, Up
<1>7. QED
  BY <1>3, <1>6

\* So do the steps that begin and end sessions and walks.
LEMMA SessionKeepsTurn ==
    ASSUME TypeOK, TypeOK', \A t \in Session : Turn(t), NEW s \in Session,
           \/ Attach(s) \/ Settle(s) \/ Rotate(s) \/ WantTimeout(s) \/ Cut(s) \/ Crash(s) \/ Wipe(s)
    PROVE  \A t \in Session : Turn(t)'
<1> USE DEF walkVars
<1>1. CASE Attach(s)
  <2>1. PICK c \in Cursor :
           /\ awaiting' = [awaiting EXCEPT ![s] = c]
           /\ toServer' = [toServer EXCEPT ![s] =
                              <<Request("delta", c), Request("subscribe", c)>>]
    <3>1. 0 \in Cursor /\ cursor \in Cursor
      BY WalkAssumption DEF Cursor, TypeOK
    <3>2. QED
      BY <1>1, <3>1 DEF Attach
  <2>2. /\ phase[s] = "idle" /\ phase' = [phase EXCEPT ![s] = "up"]
        /\ UNCHANGED <<ending, answered, toWalker>>
    BY <1>1 DEF Attach
  <2>3. ASSUME NEW t \in Session, t # s PROVE Turn(t)'
    BY <2>1, <2>2, <2>3, TurnStays DEF TypeOK
  <2>4. toWalker[s] = <<>> /\ s \notin ending
    BY <2>2 DEF Turn
  <2>5. ASSUME NEW q, q = <<Request("delta", c), Request("subscribe", c)>>
        PROVE  InTurn(q, <<>>, c, answered[s], FALSE)
    <3>1. /\ Len(q) = 2 /\ q[1].type = "delta" /\ q[2].type = "subscribe"
          /\ q[1].cursor = c /\ q[2].cursor = c
      BY <2>5 DEF Request
    <3>2. Asks(q, "delta") = {1} /\ Asks(q, "subscribe") = {2}
      BY <3>1 DEF Asks
    <3>3. Pages(<<>>) = {}
      BY DEF Pages
    <3>4. QED
      BY <3>1, <3>2, <3>3 DEF InTurn
  <2>6. /\ toServer'[s] = <<Request("delta", c), Request("subscribe", c)>>
        /\ awaiting'[s] = c /\ phase'[s] = "up"
    BY <2>1, <2>2 DEF TypeOK
  <2>7. Turn(s)'
    <3>1. (s \in ending') = FALSE
      BY <2>2, <2>4
    <3>2. QED
      BY <2>2, <2>4, <2>5, <2>6, <3>1 DEF Turn, Up
  <2>8. QED
    BY <2>3, <2>7
<1>2. CASE EndWalk(s)
  <2>1. s \in ending /\ ending' = ending \ {s} /\ UNCHANGED <<phase, answered, toWalker>>
    BY <1>2 DEF EndWalk
  <2>2. ASSUME NEW t \in Session, t # s PROVE Turn(t)'
    <3>1. toServer'[t] = toServer[t] /\ awaiting'[t] = awaiting[t]
      BY <1>2, <2>2 DEF EndWalk, Send, TypeOK
    <3>2. QED
      BY <2>1, <2>2, <3>1, TurnStays
  <2>3. phase[s] # "idle"
    BY <2>1 DEF Turn
  <2>4. ASSUME Up(s)
        PROVE  InTurn(toServer'[s], toWalker[s], awaiting'[s], answered[s], FALSE)
    <3> DEFINE q == toServer[s]
               w == toWalker[s]
               c == answered[s]
    <3>1. Quiet(q, w, c)
      <4>1. (s \in ending) = TRUE
        BY <2>1
      <4>2. QED
        BY <2>4, <4>1, QuietInTurn DEF Turn
    <3>2. CASE UNCHANGED <<awaiting, toServer>>
      BY <3>1, <3>2, QuietInTurn
    <3>3. CASE awaiting' = [awaiting EXCEPT ![s] = 0] /\ Send(s, <<Request("delta", 0)>>)
      <4> DEFINE r == Request("delta", 0)
      <4>1. r \in ToServer /\ r.type = "delta" /\ r.cursor = 0
        BY WalkAssumption DEF Request, ToServer, Cursor
      <4>2. awaiting'[s] = 0 /\ toServer'[s] = q \o <<r>> /\ q \in Seq(ToServer)
        BY <2>4, <3>3 DEF Send, TypeOK
      <4> HIDE DEF r
      <4>3. /\ <<r>> \in Seq(ToServer) /\ Len(<<r>>) >= 1 /\ <<r>>[1] = r
            /\ \A i \in 2..Len(<<r>>) : <<r>>[i].type = "want"
        BY <4>1
      <4> DEFINE x == <<r>>
      <4> HIDE DEF x, q, w, c
      <4>4. /\ x \in Seq(ToServer) /\ Len(x) >= 1 /\ x[1].type = "delta" /\ x[1].cursor = 0
            /\ \A i \in 2..Len(x) : x[i].type = "want"
        BY <4>1, <4>3 DEF x
      <4>5. InTurn(q \o x, w, 0, c, FALSE)
        BY <3>1, <4>2, <4>4, AskInTurn
      <4>6. QED
        BY <4>2, <4>5 DEF x, w, c
    <3>4. QED
      BY <1>2, <3>2, <3>3 DEF EndWalk
  <2>5. Turn(s)'
    <3>1. (s \in ending') = FALSE
      BY <2>1
    <3>2. QED
      BY <2>1, <2>3, <2>4, <3>1 DEF Turn, Up
  <2>6. QED
    BY <2>2, <2>5
<1>3. CASE FlushAfterRepair(s) \/ Wipe(s)
  <2>1. UNCHANGED <<phase, awaiting, ending, answered, toServer, toWalker>>
    BY <1>3 DEF FlushAfterRepair, Wipe
  <2>2. QED
    BY <2>1, TurnStays
<1>4. CASE Rotate(s) \/ WantTimeout(s) \/ Cut(s)
  <2>1. /\ phase' = [phase EXCEPT ![s] = "ended"]
        /\ UNCHANGED <<awaiting, ending, answered>>
        /\ \A t \in Session : t # s => toServer'[t] = toServer[t] /\ toWalker'[t] = toWalker[t]
    BY <1>4 DEF Rotate, WantTimeout, Cut, TypeOK
  <2>2. ASSUME NEW t \in Session, t # s PROVE Turn(t)'
    BY <2>1, <2>2, TurnStays DEF TypeOK
  <2>3. phase'[s] = "ended"
    BY <2>1 DEF TypeOK
  <2>4. Turn(s)'
    BY <2>3 DEF Turn, Up
  <2>5. QED
    BY <2>2, <2>4
<1>5. CASE Crash(s)
  <2>1. /\ phase' = [phase EXCEPT ![s] = "ended"]
        /\ toServer' = [t \in Session |-> <<>>] /\ toWalker' = [t \in Session |-> <<>>]
        /\ ending' = {}
    BY <1>5 DEF Crash
  <2>2. \A a, c, e : InTurn(<<>>, <<>>, a, c, e)
    <3>1. Pages(<<>>) = {} /\ Asks(<<>>, "delta") = {} /\ Asks(<<>>, "subscribe") = {}
      BY DEF Pages, Asks
    <3>2. QED
      BY <3>1 DEF InTurn
  <2>3. QED
    BY <2>1, <2>2 DEF Turn, Up
<1>6. QED
  BY <1>1, <1>2, <1>3, <1>4, <1>5 DEF Settle

\* For any journal, page size and number of sessions: a request is answered by
\* one page at most, and every page that comes is the one awaited.
THEOREM OnePageAtATime == Spec => []PagesExpected
<1>1. Init => \A s \in Session : Turn(s)
  BY DEF Init, Turn, Up
<1>2. TypeOK /\ TypeOK' /\ (\A s \in Session : Turn(s)) /\ [Next]_vars
        => (\A s \in Session : Turn(s))'
  <2> SUFFICES ASSUME TypeOK, TypeOK', \A s \in Session : Turn(s), [Next]_vars
               PROVE  \A s \in Session : Turn(s)'
    OBVIOUS
  <2>1. CASE Journal
    BY <2>1, PushesKeepTurn
  <2>2. ASSUME NEW s \in Session,
               \/ Attach(s) \/ Announce(s) \/ Serve(s) \/ Handle(s) \/ Settle(s)
               \/ Rotate(s) \/ WantTimeout(s) \/ Cut(s) \/ Crash(s) \/ Wipe(s)
        PROVE  \A t \in Session : Turn(t)'
    BY <2>2, PushesKeepTurn, ServeKeepsTurn, HandleKeepsTurn, SessionKeepsTurn
  <2>3. CASE UNCHANGED vars
    BY <2>3, TurnStays DEF vars
  <2>4. QED
    BY <2>1, <2>2, <2>3 DEF Next
<1>3. TypeOK /\ (\A s \in Session : Turn(s)) => PagesExpected
  <2> SUFFICES ASSUME TypeOK, \A s \in Session : Turn(s), NEW s \in Session, Up(s)
               PROVE  LET pages == {i \in DOMAIN toWalker[s] :
                                      /\ toWalker[s][i].type = "have"
                                      /\ toWalker[s][i].from # None}
                      IN  /\ Cardinality(pages) <= 1
                          /\ \A i \in pages : toWalker[s][i].from = awaiting[s]
    BY DEF PagesExpected
  <2> DEFINE pages == Pages(toWalker[s])
  <2>1. pages = {i \in DOMAIN toWalker[s] : /\ toWalker[s][i].type = "have"
                                            /\ toWalker[s][i].from # None}
    <3>1. toWalker[s] \in Seq(ToWalker)
      BY DEF TypeOK
    <3>2. QED
      BY <3>1, LenProperties DEF Pages
  <2>2. \A i \in pages : toWalker[s][i].from = awaiting[s] /\ pages = {i}
    BY DEF Turn, InTurn
  <2> HIDE DEF pages
  <2>3. Cardinality(pages) <= 1
    <3>1. CASE pages = {}
      <4>1. Cardinality(pages) = 0
        BY <3>1, FS_EmptySet
      <4>2. QED
        BY <4>1
    <3>2. ASSUME NEW i, pages = {i} PROVE Cardinality(pages) <= 1
      <4>1. Cardinality({i}) = 1
        BY FS_Singleton, Zenon
      <4>2. QED
        BY <3>2, <4>1
    <3>3. QED
      BY <2>2, <3>1, <3>2
  <2>4. QED
    BY <2>1, <2>2, <2>3
<1>4. QED
  BY <1>1, <1>2, <1>3, WalkTypeCorrect, PTL DEF Spec

-----------------------------------------------------------------------------
(* Walks go on *)

\* The cursor that no request of a session goes below.
Low(s) == IF s \in rewound THEN 0 ELSE initial[s]

\* What was answered, and what is asked, is not below it.
Fresh(q, k, low) ==
    /\ k = None \/ k >= low
    /\ \A i \in 1..Len(q) : q[i].type = "want" \/ q[i].cursor >= low

\* The page on the way answers what was answered last, and one with a successor
\* goes beyond it.
Answering(w, k) == \A i \in Pages(w) : w[i].from = k /\ (w[i].more => w[i].next > k)

\* Why a walk that is not over may wait, in the notation of InTurn.
Waits(q, w, a, k, ends) ==
    \/ ends /\ a = None
    \/ /\ ~ ends /\ a # None
       /\ \/ Asks(q, "delta") # {} /\ k # a
          \/ Pages(w) # {}
          \/ NothingToSend(a)

Going(s) ==
    /\ phase[s] = "idle" => answered[s] = None
    /\ ~ Up(s) => toServer[s] = <<>>
    /\ Up(s) =>
         /\ Fresh(toServer[s], answered[s], Low(s))
         /\ Answering(toWalker[s], answered[s])
         /\ s \in done \/ Waits(toServer[s], toWalker[s], awaiting[s], answered[s], s \in ending)

\* A session begins when the earlier ones have ended.
OneByOne == \A s, t \in Session : s < t /\ phase[t] # "idle" => phase[s] = "ended"

Running ==
    /\ TypeOK
    /\ \A s \in Session : Turn(s) /\ Going(s)
    /\ paged \subseteq 1..written
    /\ OneByOne

\* Longer journals have longer pages, so what was not sent for want of objects
\* has still not been.
LEMMA SilenceStays ==
    ASSUME TypeOK, NEW c, c \in Cursor, NothingToSend(c),
           paged' = paged, written' \in Cursor, written <= written'
    PROVE  NothingToSend(c)'
<1>1. /\ written \in Nat /\ written' \in Nat /\ c \in Nat /\ Limit \in Nat
  BY WalkAssumption DEF TypeOK, Cursor
<1>2. PageEnd(c, Limit) \in Nat /\ PageEnd(c, Limit)' \in Nat
      /\ PageEnd(c, Limit) <= PageEnd(c, Limit)'
  BY <1>1 DEF PageEnd
<1>3. PICK last \in (c + 1)..PageEnd(c, Limit) :
         paged \subseteq 1..last /\ ((c + 1)..last) \cap Readable = {}
  BY DEF NothingToSend
<1>4. last \in (c + 1)..PageEnd(c, Limit)'
  BY <1>1, <1>2, <1>3
<1>5. QED
  BY <1>3, <1>4 DEF NothingToSend

\* What a step leaves alone at a session goes on there.
LEMMA GoingStays ==
    ASSUME TypeOK, NEW t \in Session, Going(t),
           phase'[t] = phase[t], toServer'[t] = toServer[t], toWalker'[t] = toWalker[t],
           awaiting'[t] = awaiting[t], answered'[t] = answered[t], initial'[t] = initial[t],
           t \in ending' <=> t \in ending, t \in done' <=> t \in done,
           t \in rewound' <=> t \in rewound,
           \/ ~ Up(t)
           \/ paged' = paged /\ written' \in Cursor /\ written <= written'
    PROVE  Going(t)'
<1>1. CASE ~ Up(t)
  BY <1>1 DEF Going, Up
<1>2. CASE Up(t) /\ paged' = paged /\ written' \in Cursor /\ written <= written'
  <2>1. Low(t)' = Low(t)
    BY DEF Low
  <2>2. Waits(toServer[t], toWalker[t], awaiting[t], answered[t], t \in ending)
          => Waits(toServer[t], toWalker[t], awaiting[t], answered[t], t \in ending)'
    <3>1. NothingToSend(awaiting[t]) /\ awaiting[t] # None => NothingToSend(awaiting[t])'
      <4>1. awaiting[t] \in Cursor \cup {None}
        BY DEF TypeOK
      <4>2. ASSUME NEW c, c = awaiting[t], c # None, NothingToSend(c)
            PROVE  NothingToSend(c)'
        BY <1>2, <4>1, <4>2, SilenceStays
      <4>3. QED
        BY <4>2 DEF NothingToSend, PageEnd
    <3>2. QED
      BY <3>1 DEF Waits
  <2>3. (Fresh(toServer[t], answered[t], Low(t)) <=> Fresh(toServer[t], answered[t], Low(t))')
        /\ (Answering(toWalker[t], answered[t]) <=> Answering(toWalker[t], answered[t])')
    BY <2>1 DEF Fresh, Answering
  <2>4. QED
    BY <1>2, <2>2, <2>3 DEF Going, Up
<1>3. QED
  BY <1>1, <1>2

\* Wants behind a queue, ...
LEMMA FreshBehind ==
    ASSUME NEW T, NEW q \in Seq(T), NEW x \in Seq(T), NEW k, NEW low,
           Fresh(q, k, low), \A i \in 1..Len(x) : x[i].type = "want" \/ x[i].cursor >= low
    PROVE  Fresh(q \o x, k, low)
<1> DEFINE z == q \o x
<1>1. /\ Len(q) \in Nat /\ Len(x) \in Nat /\ Len(z) = Len(q) + Len(x)
      /\ \A i \in 1..Len(q) : z[i] = q[i]
      /\ \A i \in 1..Len(z) : i \in 1..Len(q) \/ i - Len(q) \in 1..Len(x)
      /\ \A i \in 1..Len(z) : i - Len(q) \in 1..Len(x) => z[i] = x[i - Len(q)]
  BY Appended
<1> HIDE DEF z
<1>2. ASSUME NEW i \in 1..Len(z) PROVE z[i].type = "want" \/ z[i].cursor >= low
  <2>1. CASE i \in 1..Len(q)
    BY <1>1, <2>1 DEF Fresh
  <2>2. CASE i - Len(q) \in 1..Len(x)
    <3>1. z[i] = x[i - Len(q)]
      BY <1>1, <2>2
    <3>2. QED
      BY <2>2, <3>1
  <2>3. QED
    BY <1>1, <2>1, <2>2
<1>3. QED
  BY <1>2 DEF Fresh, z

\* ... what is left when the first message is taken, ...
LEMMA FreshTail ==
    ASSUME NEW T, NEW q \in Seq(T), q # <<>>, NEW k, NEW low, Fresh(q, k, low)
    PROVE  /\ Fresh(Tail(q), k, low)
           /\ Head(q).type = "want" \/ Head(q).cursor >= low
           /\ Head(q).type # "delta" /\ Asks(q, "delta") # {} => Asks(Tail(q), "delta") # {}
<1> DEFINE z == Tail(q)
<1>1. /\ Len(q) \in Nat /\ Len(q) >= 1 /\ Len(z) = Len(q) - 1
      /\ Head(q) = q[1]
      /\ \A i \in 1..Len(z) : z[i] = q[i + 1]
  BY HeadAndTail
<1> HIDE DEF z
<1>2. \A i \in 1..Len(z) : z[i] = q[i + 1] /\ i + 1 \in 1..Len(q)
  BY <1>1
<1>3. Fresh(z, k, low)
  BY <1>2 DEF Fresh
<1>4. Head(q).type = "want" \/ Head(q).cursor >= low
  BY <1>1 DEF Fresh
<1>5. ASSUME Head(q).type # "delta", NEW j \in Asks(q, "delta") PROVE j - 1 \in Asks(z, "delta")
  <2>1. j \in 1..Len(q) /\ q[j].type = "delta" /\ j # 1
    BY <1>1, <1>5 DEF Asks
  <2>2. j - 1 \in 1..Len(z) /\ z[j - 1] = q[(j - 1) + 1] /\ (j - 1) + 1 = j
    BY <1>1, <2>1
  <2>3. QED
    BY <2>1, <2>2 DEF Asks
<1>6. QED
  BY <1>3, <1>4, <1>5 DEF z

\* ... messages that are no pages, ...
LEMMA PagesBehind ==
    ASSUME NEW T, NEW w \in Seq(T), NEW x \in Seq(T), Pages(x) = {}
    PROVE  Pages(w \o x) = Pages(w) /\ \A i \in Pages(w) : (w \o x)[i] = w[i]
<1> DEFINE z == w \o x
<1>1. /\ Len(w) \in Nat /\ Len(x) \in Nat /\ Len(z) = Len(w) + Len(x)
      /\ \A i \in 1..Len(w) : z[i] = w[i]
      /\ \A i \in 1..Len(z) : i \in 1..Len(w) \/ i - Len(w) \in 1..Len(x)
      /\ \A i \in 1..Len(z) : i - Len(w) \in 1..Len(x) => z[i] = x[i - Len(w)]
  BY Appended
<1> HIDE DEF z
<1>2. ASSUME NEW i \in 1..Len(z), i - Len(w) \in 1..Len(x) PROVE i \notin Pages(z)
  <2>1. z[i] = x[i - Len(w)]
    BY <1>1, <1>2
  <2>2. QED
    BY <1>2, <2>1 DEF Pages
<1>3. Pages(z) = Pages(w)
  BY <1>1, <1>2 DEF Pages
<1>4. \A i \in Pages(w) : z[i] = w[i]
  BY <1>1 DEF Pages
<1>5. QED
  BY <1>3, <1>4 DEF z

\* ... and what the walker has left when it takes a message.
LEMMA PagesLeft ==
    ASSUME NEW T, NEW w \in Seq(T), w # <<>>, NEW k, Answering(w, k)
    PROVE  /\ Answering(Tail(w), k)
           /\ ~ (Head(w).type = "have" /\ Head(w).from # None) /\ Pages(w) # {}
                => Pages(Tail(w)) # {}
           /\ Head(w).type = "have" /\ Head(w).from # None
                => Head(w).from = k /\ (Head(w).more => Head(w).next > k)
<1> DEFINE z == Tail(w)
<1>1. /\ Len(w) \in Nat /\ Len(w) >= 1 /\ Len(z) = Len(w) - 1
      /\ Head(w) = w[1]
      /\ \A i \in 1..Len(z) : z[i] = w[i + 1]
  BY HeadAndTail
<1> HIDE DEF z
<1>2. \A i \in Pages(z) : i + 1 \in Pages(w) /\ z[i] = w[i + 1]
  BY <1>1 DEF Pages
<1>3. (Head(w).type = "have" /\ Head(w).from # None) <=> 1 \in Pages(w)
  BY <1>1 DEF Pages
<1>4. Answering(z, k)
  BY <1>2 DEF Answering
<1>5. ASSUME 1 \notin Pages(w), NEW j \in Pages(w) PROVE j - 1 \in Pages(z)
  <2>1. j \in 1..Len(w) /\ j # 1 /\ w[j].type = "have" /\ w[j].from # None
    BY <1>5 DEF Pages
  <2>2. j - 1 \in 1..Len(z) /\ z[j - 1] = w[(j - 1) + 1] /\ (j - 1) + 1 = j
    BY <1>1, <2>1
  <2>3. QED
    BY <2>1, <2>2 DEF Pages
<1>6. 1 \in Pages(w) => w[1].from = k /\ (w[1].more => w[1].next > k)
  BY DEF Answering
<1>7. QED
  BY <1>1, <1>3, <1>4, <1>5, <1>6 DEF z

\* A page with a successor goes beyond the cursor it answers.  When nothing is
\* sent, the page is the last one and its objects are gone.
LEMMA PageGoesBeyond ==
    ASSUME TypeOK, NEW c \in Cursor, paged \subseteq 1..written,
           paged' = paged \cup ((c + 1)..PageEnd(c, Limit)), written' = written
    PROVE  /\ paged' \subseteq 1..written'
           /\ \/ PageOf(c) = <<>> /\ NothingToSend(c)'
              \/ \E m : /\ PageOf(c) = <<m>> /\ m.type = "have" /\ m.from = c
                        /\ m.more => m.next > c
<1>1. written \in Nat /\ c \in Nat /\ Limit \in Nat /\ Limit > 0
  BY WalkAssumption DEF TypeOK, Cursor
<1>2. PageEnd(c, Limit) \in Nat /\ PageEnd(c, Limit) <= written
      /\ (c < written => PageEnd(c, Limit) > c)
  BY <1>1 DEF PageEnd
<1>3. paged' \subseteq 1..written'
  <2>1. (c + 1)..PageEnd(c, Limit) \subseteq 1..written
    BY <1>1, <1>2
  <2>2. QED
    BY <2>1
<1>4. CASE c >= written
  <2> DEFINE m == Have({}, FALSE, None, c)
  <2>1. PageOf(c) = <<m>> /\ m.type = "have" /\ m.from = c /\ ~ m.more
    BY <1>4 DEF PageOf, Have
  <2>2. QED
    BY <1>3, <2>1
<1>5. CASE ~ (c >= written)
  <2> DEFINE end == PageEnd(c, Limit)
             refs == ((c + 1)..end) \cap Readable
             m == Have(refs, end < written, end, c)
  <2>1. end > c
    BY <1>1, <1>2, <1>5
  <2>2. CASE refs = {} /\ ~ (end < written)
    <3>1. PageOf(c) = <<>>
      BY <1>5, <2>2 DEF PageOf, HaveOf
    <3>2. end = written
      BY <1>1, <1>2, <2>2
    <3>3. written \in (c + 1)..PageEnd(c, Limit)' /\ ((c + 1)..written) \cap Readable = {}
      <4>1. PageEnd(c, Limit)' = PageEnd(c, Limit)
        BY DEF PageEnd
      <4>2. QED
        BY <1>1, <1>2, <2>1, <2>2, <3>2, <4>1
    <3>4. NothingToSend(c)'
      BY <1>3, <3>3 DEF NothingToSend
    <3>5. QED
      BY <1>3, <3>1, <3>4
  <2>3. CASE ~ (refs = {} /\ ~ (end < written))
    <3>1. PageOf(c) = <<m>>
      BY <1>5, <2>3 DEF PageOf, HaveOf
    <3>2. m.type = "have" /\ m.from = c /\ m.next = end
      BY DEF Have
    <3>3. QED
      BY <1>3, <2>1, <3>1, <3>2
  <2>4. QED
    BY <2>2, <2>3
<1>6. QED
  BY <1>4, <1>5

\* The server answers the request a walk waits with, unless nothing is left of
\* the last page; a request that it drops was not the one.
LEMMA ServeGoesOn ==
    ASSUME Running, NEW s \in Session, Serve(s)
    PROVE  (\A t \in Session : Going(t)') /\ paged' \subseteq 1..written'
<1> USE DEF walkVars
<1> DEFINE q == toServer[s]
           w == toWalker[s]
           m == Head(q)
           a == awaiting[s]
           k == answered[s]
           e == s \in ending
<1>1. /\ q # <<>> /\ q \in Seq(ToServer) /\ w \in Seq(ToWalker) /\ m \in ToServer
      /\ toServer' = [toServer EXCEPT ![s] = Tail(q)]
      /\ UNCHANGED <<written, phase, initial, awaiting, done, rewound, ending>>
  <2>1. /\ q # <<>> /\ toServer' = [toServer EXCEPT ![s] = Tail(q)]
        /\ UNCHANGED <<written, phase, initial, awaiting, done, rewound, ending>>
    BY DEF Serve, Respond, ServeWant
  <2>2. q \in Seq(ToServer) /\ w \in Seq(ToWalker)
    BY DEF Running, TypeOK
  <2>3. QED
    BY <2>1, <2>2, HeadTailProperties
<1>2. Up(s) /\ phase[s] # "idle"
  BY <1>1 DEF Running, Going, Up
<1>3. ASSUME NEW t \in Session, t # s PROVE Going(t)'
  <2>1. toServer'[t] = toServer[t] /\ toWalker'[t] = toWalker[t] /\ answered'[t] = answered[t]
    BY <1>1, <1>3 DEF Serve, Respond, ServeWant, Reply, Running, TypeOK
  <2>2. ~ Up(t)
    BY <1>2, <1>3 DEF Up, Running, OneByOne, Session
  <2>3. QED
    BY <1>1, <1>3, <2>1, <2>2, GoingStays DEF Running
<1>4. /\ Fresh(q, k, Low(s)) /\ Answering(w, k)
      /\ s \in done \/ Waits(q, w, a, k, e)
      /\ InTurn(q, w, a, k, e)
  BY <1>2 DEF Running, Going, Turn
<1>5. /\ Fresh(Tail(q), k, Low(s))
      /\ m.type = "want" \/ m.cursor >= Low(s)
      /\ m.type # "delta" /\ Asks(q, "delta") # {} => Asks(Tail(q), "delta") # {}
  <2> HIDE DEF q, k
  <2>1. QED
    BY <1>1, <1>4, FreshTail DEF m
<1>6. toServer'[s] = Tail(q) /\ Low(s)' = Low(s)
  BY <1>1 DEF Running, TypeOK, Low
<1>7. CASE ServeWant(s)
  <2> DEFINE asked == m.refs \cap Readable
             refs == asked \ ServedBefore(asked)
             x == IF refs = {} THEN <<>> ELSE <<Data(refs)>>
  <2>1. m.type = "want" /\ toWalker'[s] = w \o x /\ answered'[s] = k /\ paged' = paged
    BY <1>2, <1>7 DEF ServeWant, Reply, Running, TypeOK
  <2>2. refs \in SUBSET Entry
    BY WalkAssumption
  <2>3. x \in Seq(ToWalker) /\ Pages(x) = {}
    BY <2>2, NoPages
  <2> HIDE DEF x, w
  <2>4. Pages(w \o x) = Pages(w) /\ \A i \in Pages(w) : (w \o x)[i] = w[i]
    BY <1>1, <2>3, PagesBehind
  <2>5. Answering(w \o x, k)
    BY <1>4, <2>4 DEF Answering
  <2>6. s \in done \/ Waits(Tail(q), w \o x, a, k, e)
    BY <1>4, <1>5, <2>1, <2>4 DEF Waits
  <2>7. (NothingToSend(a) <=> NothingToSend(a)')
    BY <1>1, <2>1 DEF NothingToSend, PageEnd
  <2>8. Going(s)'
    BY <1>1, <1>2, <1>5, <1>6, <2>1, <2>5, <2>6, <2>7 DEF Going, Up, Waits, Answering, Fresh
  <2>9. QED
    BY <1>1, <1>3, <2>1, <2>8 DEF Running
<1>8. CASE Respond(s)
  <2>1. m.type \in {"delta", "subscribe"}
    BY <1>8 DEF Respond
  <2>2. PICK c \in Cursor : c = m.cursor /\ c # None
    BY <1>1, <2>1, WalkAssumption DEF ToServer, Cursor, None
  <2>3. CASE Deduped(s, c)
    <3>1. k = c /\ answered'[s] = k /\ toWalker'[s] = w /\ paged' = paged
      BY <1>8, <2>2, <2>3 DEF Respond, Deduped
    <3>2. ASSUME m.type = "delta" PROVE a = c
      <4>1. 1 \in Asks(q, "delta") /\ q[1] = m
        <5>1. Len(q) \in Nat /\ Len(q) >= 1 /\ m = q[1]
          BY <1>1, HeadAndTail
        <5>2. QED
          BY <3>2, <5>1 DEF Asks
      <4>2. QED
        BY <1>4, <2>2, <4>1 DEF InTurn
    <3>3. s \in done \/ Waits(Tail(q), w, a, k, e)
      <4>1. CASE m.type = "delta"
        <5>1. a = k
          BY <3>1, <3>2, <4>1
        <5>2. QED
          BY <1>4, <5>1 DEF Waits
      <4>2. CASE m.type # "delta"
        BY <1>4, <1>5, <4>2 DEF Waits
      <4>3. QED
        BY <4>1, <4>2
    <3>4. (NothingToSend(a) <=> NothingToSend(a)')
      BY <1>1, <3>1 DEF NothingToSend, PageEnd
    <3>5. Going(s)'
      BY <1>1, <1>2, <1>4, <1>5, <1>6, <3>1, <3>3, <3>4 DEF Going, Up, Waits, Answering, Fresh
    <3>6. QED
      BY <1>1, <1>3, <3>1, <3>5 DEF Running
  <2>4. CASE ~ Deduped(s, c)
    <3>1. /\ k # c /\ answered'[s] = c /\ toWalker'[s] = w \o PageOf(c)
          /\ paged' = paged \cup ((c + 1)..PageEnd(c, Limit))
      BY <1>2, <1>8, <2>2, <2>4 DEF Respond, Reply, Running, TypeOK, Deduped
    <3>2. Quiet(Tail(q), w, c) /\ a = c /\ ~ e
      <4> HIDE DEF q, w, a, k, e
      <4>1. Quiet(Tail(q), w, Head(q).cursor) /\ a = Head(q).cursor /\ ~ e
        BY <1>1, <1>4, <2>1, <2>2, <3>1, AnswerKeepsTurn DEF m
      <4>2. QED
        BY <2>2, <4>1 DEF m
    <3>3. /\ paged' \subseteq 1..written'
          /\ \/ PageOf(c) = <<>> /\ NothingToSend(c)'
             \/ \E p : /\ PageOf(c) = <<p>> /\ p.type = "have" /\ p.from = c
                       /\ p.more => p.next > c
      <4>1. TypeOK /\ paged \subseteq 1..written /\ written' = written
        BY <1>1 DEF Running
      <4>2. QED
        BY <2>2, <3>1, <4>1, PageGoesBeyond
    <3>4. Fresh(Tail(q), c, Low(s))
      BY <1>5, <2>1, <2>2 DEF Fresh
    <3>5. ASSUME PageOf(c) = <<>>, NothingToSend(c)' PROVE Going(s)'
      <4>1. toWalker'[s] = w
        BY <1>1, <3>1, <3>5, ConcatEmptySeq
      <4>2. Answering(w, c)
        BY <3>2 DEF Answering, Quiet
      <4>3. Up(s)' /\ phase'[s] # "idle"
        BY <1>1, <1>2 DEF Up
      <4>4. Waits(toServer[s], toWalker[s], awaiting[s], answered[s], s \in ending)'
        <5>1. awaiting'[s] = c /\ ~ (s \in ending')
          BY <1>1, <3>2
        <5>2. QED
          BY <2>2, <3>5, <5>1 DEF Waits
      <4>5. Fresh(toServer[s], answered[s], Low(s))'
        BY <1>6, <3>1, <3>4 DEF Fresh
      <4>6. Answering(toWalker[s], answered[s])'
        BY <3>1, <4>1, <4>2 DEF Answering
      <4>7. QED
        BY <4>3, <4>4, <4>5, <4>6 DEF Going
    <3>6. ASSUME NEW p, PageOf(c) = <<p>>, p.type = "have", p.from = c, p.more => p.next > c
          PROVE  Going(s)'
      <4> DEFINE z == w \o <<p>>
      <4>1. /\ Len(w) \in Nat /\ Len(z) = Len(w) + 1
            /\ \A i \in 1..Len(w) : z[i] = w[i]
            /\ z[Len(w) + 1] = p
        BY <1>1
      <4>2. toWalker'[s] = z
        BY <3>1, <3>6
      <4> HIDE DEF z
      <4>3. Pages(z) = {Len(w) + 1}
        BY <2>2, <3>2, <3>6, <4>1 DEF Pages, Quiet
      <4>4. Answering(z, c)
        BY <3>6, <4>1, <4>3 DEF Answering
      <4>5. QED
        BY <1>1, <1>2, <1>6, <2>2, <3>1, <3>2, <3>4, <4>2, <4>3, <4>4
        DEF Going, Up, Waits, Answering, Fresh
    <3>7. QED
      BY <1>3, <3>3, <3>5, <3>6
  <2>5. QED
    BY <2>3, <2>4
<1>9. QED
  BY <1>7, <1>8 DEF Serve

\* A walk goes on when something comes that it did not ask for.
LEMMA PushesGoOn ==
    ASSUME Running, TypeOK', Journal \/ \E s \in Session : Announce(s)
    PROVE  (\A t \in Session : Going(t)') /\ paged' \subseteq 1..written'
<1> USE DEF walkVars
<1>1. /\ UNCHANGED <<phase, initial, awaiting, done, rewound, ending, answered, toServer, paged>>
      /\ written' \in Cursor /\ written \in Nat /\ written <= written'
      /\ \A t \in Session :
           \/ toWalker'[t] = toWalker[t]
           \/ /\ Up(t)
              /\ \E first, last :
                    toWalker'[t] = toWalker[t] \o HaveOf(first, last, FALSE, None, None)
  <2>1. written \in Nat /\ written' \in Cursor
    BY WalkAssumption DEF Running, TypeOK, Cursor
  <2>2. CASE Journal
    <3>1. written' = written + 1
          /\ UNCHANGED <<phase, initial, awaiting, done, rewound, ending, answered, toServer, paged>>
      BY <2>2 DEF Journal
    <3>2. ASSUME NEW t \in Session
          PROVE  \/ toWalker'[t] = toWalker[t]
                 \/ /\ Up(t)
                    /\ \E first, last :
                          toWalker'[t] = toWalker[t] \o HaveOf(first, last, FALSE, None, None)
      BY <2>2 DEF Journal
    <3>3. written <= written'
      BY <2>1, <3>1
    <3>4. QED
      BY <2>1, <3>1, <3>2, <3>3, Zenon
  <2>3. ASSUME NEW s \in Session, Announce(s)
        PROVE  /\ UNCHANGED <<written, phase, initial, awaiting, done, rewound, ending,
                              answered, toServer, paged>>
               /\ \E first : Reply(s, HaveOf(first, written, FALSE, None, None))
               /\ Up(s)
    BY <2>3 DEF Announce
  <2>4. ASSUME NEW s \in Session, NEW x, Reply(s, x), Up(s), NEW t \in Session
        PROVE  toWalker'[t] = IF t = s THEN toWalker[t] \o x ELSE toWalker[t]
    BY <2>4 DEF Reply, Running, TypeOK
  <2>5. ASSUME NEW s \in Session, Announce(s), NEW t \in Session
        PROVE  \/ toWalker'[t] = toWalker[t]
               \/ /\ Up(t)
                  /\ \E first, last :
                        toWalker'[t] = toWalker[t] \o HaveOf(first, last, FALSE, None, None)
    BY <2>3, <2>4, <2>5
  <2>6. ASSUME NEW s \in Session, Announce(s) PROVE written' \in Cursor /\ written <= written'
    BY <2>1, <2>6 DEF Announce
  <2>7. QED
    BY <2>1, <2>2, <2>3, <2>5, <2>6
<1>2. paged' \subseteq 1..written'
  BY <1>1 DEF Running, Cursor
<1>3. ASSUME NEW t \in Session PROVE Going(t)'
  <2>1. CASE toWalker'[t] = toWalker[t]
    BY <1>1, <2>1, GoingStays DEF Running
  <2>2. ASSUME Up(t), NEW first, NEW last,
               toWalker'[t] = toWalker[t] \o HaveOf(first, last, FALSE, None, None)
        PROVE  Going(t)'
    <3> DEFINE x == HaveOf(first, last, FALSE, None, None)
               w == toWalker[t]
               q == toServer[t]
               a == awaiting[t]
               k == answered[t]
               e == t \in ending
    <3>1. x \in Seq(ToWalker) /\ Pages(x) = {}
      <4>1. {} \in SUBSET Entry
        OBVIOUS
      <4>2. QED
        BY <4>1, NoPages
    <3>2. w \in Seq(ToWalker) /\ toWalker'[t] = w \o x
      BY <2>2 DEF Running, TypeOK
    <3>3. /\ Fresh(q, k, Low(t)) /\ Answering(w, k)
          /\ t \in done \/ Waits(q, w, a, k, e)
      BY <2>2 DEF Running, Going
    <3> HIDE DEF x, w
    <3>4. Pages(w \o x) = Pages(w) /\ \A i \in Pages(w) : (w \o x)[i] = w[i]
      BY <3>1, <3>2, PagesBehind
    <3>5. Answering(w \o x, k)
      BY <3>3, <3>4 DEF Answering
    <3>6. t \in done \/ Waits(q, w \o x, a, k, e)
      BY <3>3, <3>4 DEF Waits
    <3>7. a # None /\ NothingToSend(a) => NothingToSend(a)'
      <4>1. a \in Cursor \cup {None} /\ a' = a
        BY <1>1 DEF Running, TypeOK
      <4>2. ASSUME NEW c, c = a, c # None, NothingToSend(c) PROVE NothingToSend(c)'
        BY <1>1, <4>1, <4>2, SilenceStays DEF Running
      <4>3. QED
        BY <4>1, <4>2 DEF NothingToSend, PageEnd
    <3>8. Low(t)' = Low(t)
      BY <1>1 DEF Low
    <3>9. QED
      BY <1>1, <2>2, <3>2, <3>3, <3>5, <3>6, <3>7, <3>8 DEF Going, Up, Waits, Answering, Fresh
  <2>3. QED
    BY <1>1, <2>1, <2>2
<1>4. QED
  BY <1>2, <1>3

\* The walker asks for the next page, decides about an empty one, or is done.
LEMMA HandleGoesOn ==
    ASSUME Running, NEW s \in Session, Handle(s)
    PROVE  (\A t \in Session : Going(t)') /\ paged' \subseteq 1..written'
<1> DEFINE q == toServer[s]
           w == toWalker[s]
           a == awaiting[s]
           k == answered[s]
           e == s \in ending
           m == Head(w)
<1>1. /\ w # <<>> /\ w \in Seq(ToWalker) /\ q \in Seq(ToServer) /\ m \in ToWalker
      /\ toWalker' = [toWalker EXCEPT ![s] = Tail(w)]
      /\ UNCHANGED <<written, phase, initial, rewound, answered, paged>>
      /\ AtHave(s) \/ AcceptData(s)
  <2>1. /\ w # <<>> /\ toWalker' = [toWalker EXCEPT ![s] = Tail(w)]
        /\ UNCHANGED <<written, phase, initial, rewound, answered, paged>>
        /\ AtHave(s) \/ AcceptData(s)
    BY DEF Handle, TakePush, TakeMore, TakeLast, TakeEmpty, AcceptData, AtHave, HandlerDone
  <2>2. w \in Seq(ToWalker) /\ q \in Seq(ToServer)
    BY DEF Running, TypeOK
  <2>3. m \in ToWalker
    BY <2>1, <2>2, HeadTailProperties
  <2>4. QED
    BY <2>1, <2>2, <2>3
<1>2. AcceptData(s) \/ \E page, sent : ProcessHave(s, page, sent)
  BY DEF Handle, TakePush, TakeMore, TakeLast, TakeEmpty
<1>3. /\ \A t \in Session : t # s => toServer'[t] = toServer[t]
      /\ ~ Up(s) => toServer'[s] = q
  <2>1. CASE AcceptData(s)
    BY <2>1 DEF AcceptData
  <2>2. ASSUME NEW page, NEW sent, ProcessHave(s, page, sent)
        PROVE  \E msgs : Send(s, msgs)
    BY <2>2 DEF ProcessHave
  <2>3. ASSUME NEW msgs, Send(s, msgs)
        PROVE  /\ \A t \in Session : t # s => toServer'[t] = toServer[t]
               /\ ~ Up(s) => toServer'[s] = q
    BY <2>3 DEF Send, Running, TypeOK
  <2>4. QED
    BY <1>2, <2>1, <2>2, <2>3
<1>4. ASSUME NEW t \in Session, t # s PROVE Going(t)'
  <2>1. /\ awaiting'[t] = awaiting[t]
        /\ t \in ending' <=> t \in ending
        /\ t \in done' <=> t \in done
    BY <1>4 DEF Handle, TakePush, TakeMore, TakeLast, TakeEmpty, AcceptData, Finish,
                Running, TypeOK
  <2>2. toWalker'[t] = toWalker[t]
    BY <1>1, <1>4
  <2>3. written' \in Cursor /\ written <= written'
    BY <1>1, WalkAssumption DEF Running, TypeOK, Cursor
  <2>4. QED
    BY <1>1, <1>3, <1>4, <2>1, <2>2, <2>3, GoingStays DEF Running
<1>5. phase[s] # "idle" /\ toWalker'[s] = Tail(w) /\ Low(s)' = Low(s)
  <2>1. phase[s] # "idle"
    BY <1>1 DEF Running, Turn
  <2>2. QED
    BY <1>1, <2>1 DEF Running, TypeOK, Low
<1>6. ASSUME ~ Up(s) PROVE Going(s)'
  BY <1>1, <1>3, <1>5, <1>6 DEF Running, Going, Up
<1>7. ASSUME Up(s)
      PROVE  /\ Fresh(toServer'[s], k, Low(s)) /\ Answering(Tail(w), k)
             /\ s \in done' \/ Waits(toServer'[s], Tail(w), awaiting'[s], k, s \in ending')
  <2>1. /\ Fresh(q, k, Low(s)) /\ Answering(w, k)
        /\ s \in done \/ Waits(q, w, a, k, e)
        /\ InTurn(q, w, a, k, e)
    BY <1>7 DEF Running, Going, Turn
  <2>2. /\ Answering(Tail(w), k)
        /\ ~ (m.type = "have" /\ m.from # None) /\ Pages(w) # {} => Pages(Tail(w)) # {}
        /\ m.type = "have" /\ m.from # None => m.from = k /\ (m.more => m.next > k)
    <3> HIDE DEF w, k
    <3>1. QED
      BY <1>1, <2>1, PagesLeft DEF m
  <2>3. m.type = "have" /\ m.from # None => m.from = a /\ ~ e
    <3> HIDE DEF q, w, a, k, e
    <3>1. Head(w).type = "have" /\ Head(w).from # None => Head(w).from = a /\ ~ e
      BY <1>1, <2>1, TakingKeepsTurn
    <3>2. QED
      BY <3>1 DEF m
  <2>4. ASSUME AtHave(s), NEW page, ProcessHave(s, page, <<>>)
        PROVE  /\ Fresh(toServer'[s], k, Low(s))
               /\ Asks(toServer'[s], "delta") = Asks(q, "delta")
    <3>1. PICK x \in Seq(ToServer) : /\ toServer'[s] = q \o x
                                     /\ \A i \in 1..Len(x) : x[i].type = "want"
      BY <1>7, <2>4, WantsSent DEF Running
    <3> HIDE DEF q, k
    <3>2. Fresh(q \o x, k, Low(s))
      BY <1>1, <2>1, <3>1, FreshBehind
    <3>3. Asks(q \o x, "delta") = Asks(q, "delta")
      BY <1>1, <3>1, WantsAskNothing
    <3>4. QED
      BY <3>1, <3>2, <3>3
  <2>5. CASE TakePush(s)
    <3>1. /\ AtHave(s) /\ ~ Expected(s) /\ ProcessHave(s, pending[s], <<>>)
          /\ UNCHANGED <<awaiting, done, ending>>
      BY <2>5 DEF TakePush
    <3>2. ~ (m.type = "have" /\ m.from # None)
      BY <2>3, <3>1 DEF Expected
    <3>3. s \in done \/ Waits(toServer'[s], Tail(w), a, k, e)
      BY <2>1, <2>2, <2>4, <3>1, <3>2 DEF Waits
    <3>4. QED
      BY <2>2, <2>4, <3>1, <3>3
  <2>6. CASE TakeMore(s)
    <3> DEFINE go == m.next # None /\ s \notin done
    <3>1. /\ AtHave(s) /\ Expected(s) /\ m.more
          /\ awaiting' = [awaiting EXCEPT ![s] = IF go THEN m.next ELSE None]
          /\ ProcessHave(s, PageCursor(s), IF go THEN <<Request("delta", m.next)>> ELSE <<>>)
          /\ UNCHANGED <<done, ending>>
      BY <2>6 DEF TakeMore
    <3>2. m.type = "have" /\ m.from # None /\ m.next \in Cursor \cup {None}
      BY <1>1, <3>1 DEF AtHave, Expected, ToWalker
    <3>3. k \in Cursor /\ m.next > k /\ ~ e /\ Low(s) \in Cursor /\ k >= Low(s)
      <4>1. k \in Cursor \cup {None} /\ k # None /\ m.next > k /\ ~ e
        BY <2>2, <2>3, <3>1, <3>2 DEF Running, TypeOK
      <4>2. Low(s) \in Cursor
        BY WalkAssumption DEF Low, Running, TypeOK, Cursor
      <4>3. QED
        BY <2>1, <4>1, <4>2 DEF Fresh
    <3>4. m.next # None /\ m.next \in Cursor /\ m.next >= Low(s) /\ m.next # k
      BY <3>2, <3>3 DEF Cursor, None
    <3>5. CASE s \in done
      BY <2>2, <2>4, <3>1, <3>5
    <3>6. CASE s \notin done
      <4> DEFINE r == Request("delta", m.next)
      <4>1. r.type = "delta" /\ r.cursor = m.next /\ r \in ToServer
        BY <3>4 DEF Request, ToServer
      <4>2. ProcessHave(s, PageCursor(s), <<r>>)
        BY <3>1, <3>4, <3>6
      <4> HIDE DEF r
      <4>3. PICK x \in Seq(ToServer) : /\ toServer'[s] = q \o x
                                       /\ Len(x) >= 1 /\ x[1] = r
                                       /\ \A i \in 2..Len(x) : x[i].type = "want"
        BY <1>7, <3>1, <4>1, <4>2, RequestSent DEF Running
      <4>4. awaiting'[s] = m.next
        BY <3>1, <3>4, <3>6 DEF Running, TypeOK
      <4>5. \A i \in 1..Len(x) : x[i].type = "want" \/ x[i].cursor >= Low(s)
        BY <3>4, <4>1, <4>3
      <4>6. Fresh(q \o x, k, Low(s))
        <5> HIDE DEF q, k
        <5>1. QED
          BY <1>1, <2>1, <4>5, FreshBehind
      <4>7. Asks(q \o x, "delta") # {}
        <5>1. Len(q) + 1 \in 1..Len(q \o x) /\ (q \o x)[Len(q) + 1] = r
          BY <1>1, <4>3
        <5>2. QED
          BY <4>1, <5>1 DEF Asks
      <4>8. Waits(toServer'[s], Tail(w), awaiting'[s], k, s \in ending')
        BY <3>1, <3>3, <3>4, <4>3, <4>4, <4>7 DEF Waits
      <4>9. QED
        BY <2>2, <4>3, <4>6, <4>8
    <3>7. QED
      BY <3>5, <3>6
  <2>7. CASE TakeLast(s)
    <3>1. AtHave(s) /\ ProcessHave(s, PageCursor(s), <<>>) /\ s \in done'
      BY <2>7 DEF TakeLast, Finish
    <3>2. QED
      BY <2>2, <2>4, <3>1
  <2>8. CASE TakeEmpty(s)
    <3>1. AtHave(s) /\ ProcessHave(s, pending[s], <<>>) /\ s \in ending' /\ awaiting'[s] = None
      BY <2>8 DEF TakeEmpty, Running, TypeOK
    <3>2. QED
      BY <2>2, <2>4, <3>1 DEF Waits
  <2>9. CASE AcceptData(s)
    <3>1. m.type = "data" /\ UNCHANGED <<awaiting, done, ending, toServer>>
      BY <2>9 DEF AcceptData
    <3>2. s \in done \/ Waits(q, Tail(w), a, k, e)
      BY <2>1, <2>2, <3>1 DEF Waits
    <3>3. QED
      BY <2>1, <2>2, <3>1, <3>2
  <2>10. QED
    BY <2>5, <2>6, <2>7, <2>8, <2>9 DEF Handle
<1>8. ASSUME Up(s) PROVE Going(s)'
  <2>1. /\ Fresh(toServer'[s], k, Low(s)) /\ Answering(Tail(w), k)
        /\ s \in done' \/ Waits(toServer'[s], Tail(w), awaiting'[s], k, s \in ending')
    BY <1>7, <1>8
  <2>2. Fresh(toServer[s], answered[s], Low(s))' /\ Answering(toWalker[s], answered[s])'
    BY <1>1, <1>5, <2>1 DEF Fresh, Answering
  <2>3. (s \in done \/ Waits(toServer[s], toWalker[s], awaiting[s], answered[s], s \in ending))'
    <3>1. NothingToSend(awaiting'[s]) <=> NothingToSend(awaiting[s])'
      BY <1>1 DEF NothingToSend, PageEnd
    <3>2. QED
      BY <1>1, <1>5, <2>1, <3>1 DEF Waits
  <2>4. QED
    BY <1>1, <1>5, <1>8, <2>2, <2>3 DEF Going, Up
<1>9. paged' \subseteq 1..written'
  BY <1>1 DEF Running
<1>10. QED
  BY <1>4, <1>6, <1>8, <1>9

\* So do the steps that begin and end sessions and walks; a rewind asks for
\* cursor 0, which the server has not answered in this session.
LEMMA SessionGoesOn ==
    ASSUME Running, NEW s \in Session,
           \/ Attach(s) \/ Settle(s) \/ Rotate(s) \/ WantTimeout(s) \/ Cut(s) \/ Crash(s) \/ Wipe(s)
    PROVE  (\A t \in Session : Going(t)') /\ paged' \subseteq 1..written'
<1> USE DEF walkVars
<1>1. /\ UNCHANGED <<written, answered, paged>>
      /\ written \in Cursor /\ written <= written
  <2>1. UNCHANGED <<written, answered, paged>>
    BY DEF Attach, Settle, EndWalk, FlushAfterRepair, Rotate, WantTimeout, Cut,
           Crash, Wipe
  <2>2. QED
    BY <2>1, WalkAssumption DEF Running, TypeOK, Cursor
<1>2. paged' \subseteq 1..written'
  BY <1>1 DEF Running
<1>3. ASSUME NEW t \in Session,
             phase'[t] = phase[t], toServer'[t] = toServer[t], toWalker'[t] = toWalker[t],
             awaiting'[t] = awaiting[t], initial'[t] = initial[t],
             t \in ending' <=> t \in ending, t \in done' <=> t \in done,
             t \in rewound' <=> t \in rewound
      PROVE  Going(t)'
  BY <1>1, <1>3, GoingStays DEF Running
<1>4. CASE Attach(s)
  <2>1. PICK c \in Cursor :
           /\ initial' = [initial EXCEPT ![s] = c]
           /\ awaiting' = [awaiting EXCEPT ![s] = c]
           /\ toServer' = [toServer EXCEPT ![s] =
                              <<Request("delta", c), Request("subscribe", c)>>]
    <3>1. 0 \in Cursor /\ cursor \in Cursor
      BY WalkAssumption DEF Cursor, Running, TypeOK
    <3>2. QED
      BY <1>4, <3>1 DEF Attach
  <2>2. /\ phase[s] = "idle" /\ phase' = [phase EXCEPT ![s] = "up"]
        /\ UNCHANGED <<ending, done, rewound, toWalker>>
    BY <1>4 DEF Attach
  <2>3. ASSUME NEW t \in Session, t # s PROVE Going(t)'
    BY <1>3, <2>1, <2>2, <2>3 DEF Running, TypeOK
  <2>4. toWalker[s] = <<>> /\ s \notin ending /\ answered[s] = None
    BY <2>2 DEF Running, Turn, Going
  <2>5. /\ toServer'[s] = <<Request("delta", c), Request("subscribe", c)>>
        /\ awaiting'[s] = c /\ phase'[s] = "up" /\ initial'[s] = c
    BY <2>1, <2>2 DEF Running, TypeOK
  <2>6. c \in Nat /\ c # None
    BY WalkAssumption DEF Cursor, None
  <2>7. Low(s)' <= c
    BY <2>5, <2>6 DEF Low
  <2>8. ASSUME NEW q, q = <<Request("delta", c), Request("subscribe", c)>>
        PROVE  /\ \A low : low <= c => Fresh(q, None, low)
               /\ Asks(q, "delta") # {}
    <3>1. /\ Len(q) = 2 /\ q[1].type = "delta"
          /\ q[1].cursor = c /\ q[2].cursor = c
      BY <2>8 DEF Request
    <3>2. 1 \in Asks(q, "delta")
      BY <3>1 DEF Asks
    <3>3. \A i \in 1..Len(q) : q[i].cursor = c
      BY <3>1
    <3>4. ASSUME NEW low, low <= c PROVE Fresh(q, None, low)
      <4>1. c >= low
        BY <3>4
      <4>2. QED
        BY <3>3, <4>1 DEF Fresh
    <3>5. QED
      BY <3>2, <3>4
  <2>9. Answering(<<>>, None)
    BY DEF Answering, Pages
  <2>10. Fresh(toServer[s], answered[s], Low(s))' /\ Answering(toWalker[s], answered[s])'
    BY <1>1, <2>2, <2>4, <2>5, <2>7, <2>8, <2>9 DEF Fresh, Answering
  <2>11. Waits(toServer[s], toWalker[s], awaiting[s], answered[s], s \in ending)'
    <3>1. /\ s \notin ending' /\ awaiting'[s] # None /\ answered'[s] # awaiting'[s]
          /\ Asks(toServer'[s], "delta") # {}
      BY <1>1, <2>2, <2>4, <2>5, <2>6, <2>8
    <3>2. QED
      BY <3>1 DEF Waits
  <2>12. Going(s)'
    BY <2>5, <2>10, <2>11 DEF Going, Up
  <2>13. QED
    BY <1>2, <2>3, <2>12
<1>5. CASE EndWalk(s)
  <2>1. s \in ending /\ ending' = ending \ {s} /\ UNCHANGED <<phase, initial, toWalker>>
    BY <1>5 DEF EndWalk
  <2>2. ASSUME NEW t \in Session, t # s PROVE Going(t)'
    <3>1. /\ toServer'[t] = toServer[t] /\ awaiting'[t] = awaiting[t]
          /\ t \in done' <=> t \in done
          /\ t \in rewound' <=> t \in rewound
      BY <1>5, <2>2 DEF EndWalk, Send, Finish, Running, TypeOK
    <3>2. QED
      BY <1>3, <2>1, <2>2, <3>1
  <2>3. phase[s] # "idle"
    BY <2>1 DEF Running, Turn
  <2>4. ASSUME ~ Up(s) PROVE Going(s)'
    <3>1. toServer'[s] = toServer[s]
      BY <1>5, <2>4 DEF EndWalk, Send, Running, TypeOK
    <3>2. QED
      BY <2>1, <2>3, <2>4, <3>1 DEF Running, Going, Up
  <2>5. ASSUME Up(s) PROVE Going(s)'
    <3> DEFINE q == toServer[s]
               w == toWalker[s]
               k == answered[s]
    <3>1. /\ Fresh(q, k, Low(s)) /\ Answering(w, k)
          /\ s \in done \/ awaiting[s] = None
      BY <2>1, <2>5 DEF Running, Going, Waits
    <3>2. Answering(toWalker[s], answered[s])'
      BY <1>1, <2>1, <3>1 DEF Answering
    <3>3. k \in Cursor \cup {None} /\ initial[s] \in Cursor /\ q \in Seq(ToServer)
      BY DEF Running, TypeOK
    <3>4. CASE CursorStale(s)
      <4>1. rewound' = rewound \cup {s} /\ done' = done /\ s \notin rewound /\ initial[s] # 0
        BY <1>5, <3>4 DEF EndWalk, CursorStale
      <4>2. Low(s)' = 0 /\ Low(s) = initial[s] /\ initial[s] > 0
        BY <3>3, <4>1 DEF Low, Cursor
      <4>3. Fresh(q, k, 0)
        <5>1. k = None \/ k >= 0
          BY <3>3 DEF Cursor
        <5>2. ASSUME NEW i \in 1..Len(q) PROVE q[i].type = "want" \/ q[i].cursor >= 0
          <6>1. q[i] \in ToServer
            BY <3>3, ElementOfSeq
          <6>2. QED
            BY <6>1 DEF ToServer, Cursor
        <5>3. QED
          BY <5>1, <5>2 DEF Fresh
      <4>4. k # 0
        BY <3>1, <3>3, <4>2 DEF Fresh, None, Cursor
      <4>5. CASE s \in done
        <5>1. toServer' = toServer
          BY <1>5, <3>4, <4>5 DEF EndWalk
        <5>2. Fresh(toServer[s], answered[s], Low(s))'
          BY <1>1, <4>2, <4>3, <5>1 DEF Fresh
        <5>3. QED
          BY <2>1, <2>5, <3>2, <4>1, <4>5, <5>2 DEF Going, Up
      <4>6. CASE s \notin done
        <5> DEFINE r == Request("delta", 0)
        <5>1. awaiting[s] # 0
          BY <3>1, <4>6 DEF None
        <5>2. awaiting'[s] = 0 /\ toServer'[s] = q \o <<r>>
          BY <1>5, <2>5, <3>4, <4>6, <5>1 DEF EndWalk, Send, Running, TypeOK
        <5>3. r \in ToServer /\ r.type = "delta" /\ r.cursor = 0
          BY WalkAssumption DEF Request, ToServer, Cursor
        <5> HIDE DEF r
        <5>4. <<r>> \in Seq(ToServer) /\ \A i \in 1..Len(<<r>>) : <<r>>[i].cursor >= 0
          BY <5>3
        <5>5. Len(q) + 1 \in 1..Len(q \o <<r>>) /\ (q \o <<r>>)[Len(q) + 1] = r
          BY <3>3, <5>3
        <5>6. Asks(q \o <<r>>, "delta") # {}
          BY <5>3, <5>5 DEF Asks
        <5> DEFINE x == <<r>>
        <5>7. Fresh(q \o x, k, 0)
          <6> HIDE DEF x, q, k
          <6>1. x \in Seq(ToServer) /\ \A i \in 1..Len(x) : x[i].cursor >= 0
            BY <5>4 DEF x
          <6>2. QED
            BY <3>3, <4>3, <6>1, FreshBehind
        <5>8. Fresh(toServer[s], answered[s], Low(s))'
          BY <1>1, <4>2, <5>2, <5>7 DEF Fresh
        <5>9. Waits(toServer[s], toWalker[s], awaiting[s], answered[s], s \in ending)'
          BY <1>1, <2>1, <4>4, <5>2, <5>6 DEF Waits, None
        <5>10. QED
          BY <2>1, <2>5, <3>2, <5>8, <5>9 DEF Going, Up
      <4>7. QED
        BY <4>5, <4>6
    <3>5. CASE ~ CursorStale(s)
      <4>1. s \in done' /\ UNCHANGED <<rewound, toServer>>
        BY <1>5, <3>5 DEF EndWalk, Finish
      <4>2. Low(s)' = Low(s)
        BY <2>1, <4>1 DEF Low
      <4>3. Fresh(toServer[s], answered[s], Low(s))'
        BY <1>1, <3>1, <4>1, <4>2 DEF Fresh
      <4>4. QED
        BY <2>1, <2>5, <3>2, <4>1, <4>3 DEF Going, Up
    <3>6. QED
      BY <3>4, <3>5
  <2>6. QED
    BY <1>2, <2>2, <2>4, <2>5
<1>6. CASE FlushAfterRepair(s) \/ Wipe(s)
  <2>1. UNCHANGED <<phase, initial, awaiting, ending, done, rewound, toServer, toWalker>>
    BY <1>6 DEF FlushAfterRepair, Wipe
  <2>2. QED
    BY <1>2, <1>3, <2>1
<1>7. CASE Rotate(s) \/ WantTimeout(s) \/ Cut(s)
  <2>1. /\ phase' = [phase EXCEPT ![s] = "ended"]
        /\ UNCHANGED <<initial, awaiting, ending, done, rewound>>
        /\ toServer'[s] = <<>>
        /\ \A t \in Session : t # s => toServer'[t] = toServer[t] /\ toWalker'[t] = toWalker[t]
    BY <1>7 DEF Rotate, WantTimeout, Cut, Running, TypeOK
  <2>2. ASSUME NEW t \in Session, t # s PROVE Going(t)'
    BY <1>3, <2>1, <2>2 DEF Running, TypeOK
  <2>3. phase'[s] = "ended"
    BY <2>1 DEF Running, TypeOK
  <2>4. Going(s)'
    BY <2>1, <2>3 DEF Going, Up
  <2>5. QED
    BY <1>2, <2>2, <2>4
<1>8. CASE Crash(s)
  <2>1. /\ Up(s) /\ phase' = [phase EXCEPT ![s] = "ended"]
        /\ toServer' = [t \in Session |-> <<>>]
    BY <1>8 DEF Crash
  <2>2. ASSUME NEW t \in Session PROVE ~ Up(t)'
    <3>1. t # s => ~ Up(t)
      BY <2>1 DEF Running, OneByOne, Up, Session
    <3>2. QED
      BY <2>1, <3>1 DEF Running, TypeOK, Up
  <2>3. ASSUME NEW t \in Session PROVE Going(t)'
    <3>1. phase'[t] = "idle" => phase[t] = "idle"
      BY <2>1 DEF Running, TypeOK
    <3>2. QED
      BY <1>1, <2>1, <2>2, <3>1 DEF Going, Running
  <2>4. QED
    BY <1>2, <2>3
<1>9. QED
  BY <1>4, <1>5, <1>6, <1>7, <1>8 DEF Settle

\* Sessions begin one by one.
LEMMA SessionsFollow ==
    ASSUME TypeOK, OneByOne, [Next]_vars
    PROVE  OneByOne'
<1> USE DEF walkVars
<1>1. CASE phase' = phase
  BY <1>1 DEF OneByOne
<1>2. ASSUME NEW s \in Session, Up(s), phase' = [phase EXCEPT ![s] = "ended"]
      PROVE  OneByOne'
  BY <1>2 DEF OneByOne, TypeOK, Up
<1>3. ASSUME NEW s \in Session, Attach(s) PROVE OneByOne'
  <2>1. /\ phase[s] = "idle" /\ phase' = [phase EXCEPT ![s] = "up"]
        /\ \A t \in Session : t < s => phase[t] = "ended"
    BY <1>3 DEF Attach
  <2>2. SUFFICES ASSUME NEW t \in Session, NEW u \in Session, t < u, phase'[u] # "idle"
                 PROVE  phase'[t] = "ended"
    BY DEF OneByOne
  <2>3. t # s
    BY <2>1, <2>2 DEF OneByOne, TypeOK, Session
  <2>4. QED
    BY <2>1, <2>2, <2>3 DEF OneByOne, TypeOK
<1>4. CASE Journal \/ UNCHANGED vars
  <2>1. phase' = phase
    BY <1>4 DEF Journal, vars
  <2>2. QED
    BY <1>1, <2>1
<1>5. ASSUME NEW s \in Session,
             Announce(s) \/ Serve(s) \/ Handle(s) \/ Settle(s) \/ Wipe(s)
      PROVE  phase' = phase
  BY <1>5 DEF Announce, Serve, Respond, ServeWant, Handle, TakePush, TakeMore, TakeLast,
              TakeEmpty, AcceptData, Settle, EndWalk, FlushAfterRepair, Wipe
<1>6. ASSUME NEW s \in Session, Rotate(s) \/ WantTimeout(s) \/ Cut(s) \/ Crash(s)
      PROVE  Up(s) /\ phase' = [phase EXCEPT ![s] = "ended"]
  BY <1>6 DEF Rotate, WantTimeout, Cut, Crash
<1>7. QED
  BY <1>1, <1>2, <1>3, <1>4, <1>5, <1>6 DEF Next

\* For any journal, page size and number of sessions, cut, crashed, rewound or
\* wiped: a walk that is not over has its request or its answer on the way, or
\* waits for a last page of which no object is left.
THEOREM WalksGoOn == Spec => []WalkGoesOn
<1>1. Init => (\A s \in Session : Turn(s) /\ Going(s)) /\ paged \subseteq 1..written /\ OneByOne
  BY DEF Init, Turn, Going, OneByOne, Up
<1>2. Running /\ TypeOK' /\ [Next]_vars => Running'
  <2> SUFFICES ASSUME Running, TypeOK', [Next]_vars
               PROVE  Running'
    OBVIOUS
  <2>1. TypeOK /\ \A s \in Session : Turn(s)
    BY DEF Running
  <2>2. OneByOne'
    BY SessionsFollow DEF Running
  <2>3. CASE Journal
    BY <2>1, <2>2, <2>3, PushesKeepTurn, PushesGoOn DEF Running
  <2>4. ASSUME NEW s \in Session,
               \/ Attach(s) \/ Announce(s) \/ Serve(s) \/ Handle(s) \/ Settle(s)
               \/ Rotate(s) \/ WantTimeout(s) \/ Cut(s) \/ Crash(s) \/ Wipe(s)
        PROVE  Running'
    <3>1. \A t \in Session : Turn(t)'
      BY <2>1, <2>4, PushesKeepTurn, ServeKeepsTurn, HandleKeepsTurn, SessionKeepsTurn
    <3>2. (\A t \in Session : Going(t)') /\ paged' \subseteq 1..written'
      BY <2>4, PushesGoOn, ServeGoesOn, HandleGoesOn, SessionGoesOn
    <3>3. QED
      BY <2>2, <3>1, <3>2 DEF Running
  <2>5. CASE UNCHANGED vars
    <3>1. \A t \in Session : Turn(t)'
      BY <2>1, <2>5, TurnStays DEF vars
    <3>2. \A t \in Session : Going(t)'
      <4>1. written' \in Cursor /\ written <= written'
        BY <2>1, <2>5, WalkAssumption DEF vars, TypeOK, Cursor
      <4>2. QED
        BY <2>5, <4>1, GoingStays DEF vars, Running
    <3>3. QED
      BY <2>2, <2>5, <3>1, <3>2 DEF Running, vars
  <2>6. QED
    BY <2>3, <2>4, <2>5 DEF Next
<1>3. Running => WalkGoesOn
  <2> SUFFICES ASSUME Running, NEW s \in Session, Up(s), s \notin done \cup ending,
                      NEW c, c = awaiting[s]
               PROVE  /\ c # None
                      /\ \/ /\ \E i \in DOMAIN toServer[s] :
                                   toServer[s][i] = Request("delta", c)
                            /\ answered[s] # c
                         \/ \E i \in DOMAIN toWalker[s] :
                               toWalker[s][i].type = "have" /\ toWalker[s][i].from = c
                         \/ NothingToSend(c)
    BY DEF WalkGoesOn, NothingToSend, PageEnd
  <2>1. /\ Waits(toServer[s], toWalker[s], c, answered[s], s \in ending)
        /\ InTurn(toServer[s], toWalker[s], c, answered[s], s \in ending)
        /\ toServer[s] \in Seq(ToServer) /\ toWalker[s] \in Seq(ToWalker)
    BY DEF Running, Going, Turn, TypeOK
  <2>2. c # None
    BY <2>1 DEF Waits
  <2>3. ASSUME NEW i \in Asks(toServer[s], "delta")
        PROVE  i \in DOMAIN toServer[s] /\ toServer[s][i] = Request("delta", c)
    <3>1. i \in DOMAIN toServer[s] /\ toServer[s][i].type = "delta" /\ toServer[s][i].cursor = c
      BY <2>1 DEF Asks, InTurn
    <3>2. toServer[s][i] \in ToServer
      BY <2>1, <3>1
    <3>3. QED
      BY <3>1, <3>2 DEF ToServer, Request
  <2>4. ASSUME NEW i \in Pages(toWalker[s])
        PROVE  i \in DOMAIN toWalker[s] /\ toWalker[s][i].type = "have" /\ toWalker[s][i].from = c
    BY <2>1 DEF Pages, InTurn
  <2>5. QED
    BY <2>1, <2>2, <2>3, <2>4 DEF Waits
<1>4. TypeOK /\ (\A s \in Session : Turn(s) /\ Going(s)) /\ paged \subseteq 1..written /\ OneByOne
        => Running
  BY DEF Running
<1>5. QED
  BY <1>1, <1>2, <1>3, <1>4, WalkTypeCorrect, PTL DEF Spec
=============================================================================
