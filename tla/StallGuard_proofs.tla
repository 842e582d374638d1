-------------------------- MODULE StallGuard_proofs --------------------------
(***************************************************************************)
(* Type correctness of the guard, that what a session waits for is         *)
(* watched, that a guard which has stopped is silent, and that rotation    *)
(* interrupts nothing.                                                     *)
(***************************************************************************)
EXTENDS StallGuard, TLAPS

\* Steps that begin or end something this side waits for.
Inbound ==
    \/ \E h \in Wanted : Want(h) \/ Begin(h)
    \/ End \/ AskPage \/ PageCame

\* Steps of the outbound chain.
Outbound ==
    \/ \E b \in Served : Serve(b)
    \/ PumpMissing \/ PumpWrites \/ Drained \/ PumpEnd

\* The ways a timer fires are one step of the guard, with its reason.
Fired ==
    \/ wantTimers # {} \/ streamTimer \/ resumeTimer \/ outboundTimer
    \/ rotationTimer /\ Quiescent

\* A step is one of five.
LEMMA StepsOfGuard ==
    ASSUME [Next]_vars
    PROVE  \/ Inbound \/ Outbound
           \/ Fired /\ Stall
           \/ link # "closed" /\ Stopped /\ pumpAt' \in {pumpAt, "finally"}
                /\ (pumps = <<>> => pumpAt' = pumpAt)
           \/ UNCHANGED vars
<1>1. Work => Inbound
  BY DEF Work, Inbound
<1>2. Pump \/ (\E b \in Served : Serve(b)) \/ Drained => Outbound
  BY DEF Pump, Outbound
<1>3. Fires => Fired /\ Stall
  BY DEF Fires, Fired, WantFires, StreamFires, ResumeFires, OutboundFires, RotationFires
<1>4. LinkFails \/ Closes =>
        link # "closed" /\ Stopped /\ pumpAt' \in {pumpAt, "finally"}
          /\ (pumps = <<>> => pumpAt' = pumpAt)
  BY DEF LinkFails, Closes, PumpAt
<1>5. QED
  BY <1>1, <1>2, <1>3, <1>4 DEF Next

-----------------------------------------------------------------------------
(* Types *)

\* TypeOK in two parts: what is true or false, and the rest.
FlagsOK ==
    /\ stopped \in BOOLEAN
    /\ streamTimer \in BOOLEAN /\ resumeTimer \in BOOLEAN
    /\ outboundTimer \in BOOLEAN /\ rotationTimer \in BOOLEAN
    /\ outboundActive \in BOOLEAN
    /\ crowded \in BOOLEAN
    /\ live \in BOOLEAN /\ destroys \in BOOLEAN
WorkOK ==
    /\ wantTimers \subseteq Wanted
    /\ stalls \in Nat
    /\ lacking \subseteq Wanted /\ claimed \subseteq lacking /\ asked \subseteq lacking
    /\ incoming \in lacking \cup {None}
    /\ walk \in {"idle", "asked", "done"} /\ page \in 0..Pages
    /\ pumps \in Seq(Served)
    /\ pumpAt \in {"queued", "drain", "finally"}
    /\ pumps = <<>> => pumpAt = "queued"
    /\ outboundServed \subseteq Served
    /\ link \in {"up", "closing", "closed"}

\* Every step leaves a flag a flag.
LEMMA FlagsKept ==
    ASSUME FlagsOK, [Next]_vars
    PROVE  FlagsOK'
<1> USE DEF FlagsOK
<1>1. CASE Inbound
  BY <1>1, Zenon DEF Inbound, Want, Begin, End, AskPage, PageCame, Arms, StreamArmed,
              pumpVars, linkVars
<1>2. CASE Outbound
  <2>1. ASSUME NEW b \in Served, Serve(b) PROVE FlagsOK'
    BY <2>1, Zenon DEF Serve, Arms, inboundVars, linkVars
  <2>2. CASE PumpMissing \/ PumpWrites \/ Drained
    BY <2>2, Zenon DEF PumpMissing, PumpWrites, Drained, guardVars, timerVars, linkVars
  <2>3. CASE PumpEnd
    BY <2>3, Zenon DEF PumpEnd, OutboundCleared, linkVars
  <2>4. QED
    BY <1>2, <2>1, <2>2, <2>3 DEF Outbound
<1>3. CASE Stall
  BY <1>3, Zenon DEF Stall, TimersOff, pumpVars
<1>4. CASE Stopped
  BY <1>4, Zenon DEF Stopped, TimersOff
<1>5. CASE UNCHANGED vars
  BY <1>5, Zenon DEF vars, guardVars, timerVars, pumpVars, linkVars
<1>6. QED
  BY <1>1, <1>2, <1>3, <1>4, <1>5, StepsOfGuard

\* Wants are for blocks that are lacking, and a pump is at work only when one is
\* queued.
LEMMA WorkKept ==
    ASSUME WorkOK, [Next]_vars
    PROVE  WorkOK'
<1> USE GuardAssumption DEF WorkOK
<1>1. CASE Inbound
  <2>1. ASSUME NEW h \in Wanted, Want(h) PROVE WorkOK'
    BY <2>1 DEF Want, Askable, pumpVars, linkVars
  <2>2. ASSUME NEW h \in Wanted, Begin(h) PROVE WorkOK'
    BY <2>2 DEF Begin, pumpVars, linkVars
  <2>3. CASE End
    BY <2>3 DEF End, pumpVars, linkVars
  <2>4. CASE AskPage \/ PageCame
    BY <2>4 DEF AskPage, PageCame, pumpVars, linkVars
  <2>5. QED
    BY <1>1, <2>1, <2>2, <2>3, <2>4 DEF Inbound
<1>2. CASE Outbound
  <2>1. ASSUME NEW b \in Served, Serve(b) PROVE WorkOK'
    BY <2>1 DEF Serve, inboundVars, linkVars
  <2>2. CASE PumpMissing \/ PumpWrites \/ Drained
    BY <2>2 DEF PumpMissing, PumpWrites, Drained, PumpAt, guardVars, timerVars,
                inboundVars, linkVars
  <2>3. CASE PumpEnd
    BY <2>3 DEF PumpEnd, PumpAt, inboundVars, linkVars
  <2>4. QED
    BY <1>2, <2>1, <2>2, <2>3 DEF Outbound
<1>3. CASE Stall
  BY <1>3 DEF Stall, TimersOff, inboundVars, pumpVars
<1>4. CASE Stopped /\ pumpAt' \in {pumpAt, "finally"} /\ (pumps = <<>> => pumpAt' = pumpAt)
  BY <1>4 DEF Stopped, TimersOff
<1>5. CASE UNCHANGED vars
  BY <1>5 DEF vars, guardVars, timerVars, inboundVars, pumpVars, linkVars
<1>6. QED
  BY <1>1, <1>2, <1>3, <1>4, <1>5, StepsOfGuard

\* Type correctness.
THEOREM GuardTypeCorrect == Spec => []TypeOK
<1>1. Init => FlagsOK
  BY Zenon DEF Init, FlagsOK
<1>2. Init => WorkOK
  BY GuardAssumption DEF Init, WorkOK
<1>3. FlagsOK /\ WorkOK => TypeOK
  BY DEF FlagsOK, WorkOK, TypeOK
<1>4. QED
  BY <1>1, <1>2, <1>3, FlagsKept, WorkKept, PTL DEF Spec

-----------------------------------------------------------------------------
(* What is waited for is watched *)

\* The end of a pump clears the timer of all pumps, so Watched needs that there
\* is another pump only behind one.
Alone == ~ crowded => Len(pumps) <= 1

\* Watched, as the conjunction it is kept as.
Guarded == Alone /\ Watched

\* Watched is kept by every step.
LEMMA GuardedKept ==
    ASSUME TypeOK, Guarded, [Next]_vars
    PROVE  Guarded'
<1> USE GuardAssumption DEF TypeOK, Guarded, Alone, Watched
<1>1. CASE Inbound
  <2>1. ASSUME NEW h \in Wanted, Want(h) PROVE Guarded'
    BY <2>1 DEF Want, Arms, pumpVars, linkVars
  <2>2. ASSUME NEW h \in Wanted, Begin(h) PROVE Guarded'
    BY <2>2 DEF Begin, Arms, StreamArmed, pumpVars, linkVars
  <2>3. CASE End
    BY <2>3 DEF End, pumpVars, linkVars
  <2>4. CASE AskPage \/ PageCame
    BY <2>4 DEF AskPage, PageCame, Arms, pumpVars, linkVars
  <2>5. QED
    BY <1>1, <2>1, <2>2, <2>3, <2>4 DEF Inbound
<1>2. CASE Outbound
  <2>1. ASSUME NEW b \in Served, Serve(b) PROVE Guarded'
    <3>1. Len(pumps') = Len(pumps) + 1 /\ (pumps = <<>> <=> Len(pumps) = 0)
      BY <2>1 DEF Serve
    <3>2. QED
      BY <2>1, <3>1 DEF Serve, Arms, inboundVars, linkVars
  <2>2. CASE PumpMissing \/ PumpWrites \/ Drained
    BY <2>2 DEF PumpMissing, PumpWrites, Drained, guardVars, timerVars,
                inboundVars, linkVars
  <2>3. CASE PumpEnd
    <3>1. pumps # <<>> /\ pumps' = Tail(pumps) /\ UNCHANGED crowded
      BY <2>3 DEF PumpEnd, PumpAt
    <3>2. pumps \in Seq(Served) /\ Len(pumps') = Len(pumps) - 1
          /\ (Len(pumps') = 0 => pumps' = <<>>)
      BY <3>1
    <3>3. ~ crowded' => pumps' = <<>>
      BY <3>1, <3>2
    <3>4. QED
      BY <2>3, <3>2, <3>3 DEF PumpEnd, inboundVars, linkVars
  <2>4. QED
    BY <1>2, <2>1, <2>2, <2>3 DEF Outbound
<1>3. CASE Stall
  BY <1>3 DEF Stall, pumpVars
<1>4. CASE Stopped
  BY <1>4 DEF Stopped
<1>5. CASE UNCHANGED vars
  BY <1>5 DEF vars, guardVars, timerVars, inboundVars, pumpVars, linkVars
<1>6. QED
  BY <1>1, <1>2, <1>3, <1>4, <1>5, StepsOfGuard

\* For any blocks and pages: until the guard stops, every claim, stream, page
\* and lone pump has its timer.
THEOREM WaitsAreWatched == Spec => []Watched
<1>1. Init => Guarded
  BY DEF Init, Guarded, Alone, Watched
<1>2. Guarded => Watched
  BY DEF Guarded
<1>3. QED
  BY <1>1, <1>2, GuardedKept, GuardTypeCorrect, PTL DEF Spec

-----------------------------------------------------------------------------
(* Silence *)

\* SilentOnceStopped in two parts.
Silent ==
    stopped => /\ wantTimers = {}
               /\ ~ (streamTimer \/ resumeTimer \/ outboundTimer \/ rotationTimer)
Once == stalls <= IF stopped THEN 1 ELSE 0

\* No timer is started after the guard has stopped.
LEMMA SilentKept ==
    ASSUME Silent, [Next]_vars
    PROVE  Silent'
<1> USE DEF Silent
<1>1. CASE Inbound
  <2>1. ASSUME NEW h \in Wanted, Want(h) PROVE Silent'
    BY <2>1, Zenon DEF Want, Arms
  <2>2. ASSUME NEW h \in Wanted, Begin(h) PROVE Silent'
    <3>1. stopped' = stopped /\ wantTimers' = wantTimers \ {h}
          /\ (stopped => streamTimer' = streamTimer)
          /\ UNCHANGED <<resumeTimer, outboundTimer, rotationTimer>>
      BY <2>2, Zenon DEF Begin, Arms, StreamArmed
    <3>2. wantTimers = {} => wantTimers' = {}
      BY <3>1
    <3>3. QED
      BY <3>1, <3>2, Zenon
  <2>3. CASE End
    <3>1. wantTimers = {} => wantTimers' = {}
      BY <2>3 DEF End
    <3>2. QED
      BY <2>3, <3>1, Zenon DEF End
  <2>4. CASE AskPage
    BY <2>4, Zenon DEF AskPage, Arms
  <2>5. CASE PageCame
    BY <2>5, Zenon DEF PageCame
  <2>6. QED
    BY <1>1, <2>1, <2>2, <2>3, <2>4, <2>5 DEF Inbound
<1>2. CASE Outbound
  <2>1. ASSUME NEW b \in Served, Serve(b) PROVE Silent'
    BY <2>1, Zenon DEF Serve, Arms
  <2>2. CASE PumpMissing \/ PumpWrites \/ Drained
    BY <2>2, Zenon DEF PumpMissing, PumpWrites, Drained, guardVars, timerVars
  <2>3. CASE PumpEnd
    BY <2>3, Zenon DEF PumpEnd, OutboundCleared
  <2>4. QED
    BY <1>2, <2>1, <2>2, <2>3 DEF Outbound
<1>3. CASE Stall
  BY <1>3, Zenon DEF Stall, TimersOff
<1>4. CASE Stopped
  BY <1>4, Zenon DEF Stopped, TimersOff
<1>5. CASE UNCHANGED vars
  BY <1>5, Zenon DEF vars, guardVars, timerVars
<1>6. QED
  BY <1>1, <1>2, <1>3, <1>4, <1>5, StepsOfGuard

\* onStall is called by the step that stops the guard, and by no other.
LEMMA OnceKept ==
    ASSUME TypeOK, Once, [Next]_vars
    PROVE  Once'
<1> USE DEF Once
<1>1. stalls \in Nat /\ stopped \in BOOLEAN
  BY DEF TypeOK
<1>2. CASE Inbound \/ Outbound \/ UNCHANGED vars
  <2>1. stalls' = stalls /\ stopped' = stopped
    BY <1>2, Zenon DEF Inbound, Outbound, Want, Begin, End, AskPage, PageCame, Serve,
       PumpMissing, PumpWrites, Drained, PumpEnd, vars, guardVars, timerVars
  <2>2. QED
    BY <2>1
<1>3. CASE Stall
  BY <1>1, <1>3 DEF Stall
<1>4. CASE Stopped
  BY <1>1, <1>4 DEF Stopped
<1>5. QED
  BY <1>2, <1>3, <1>4, StepsOfGuard

\* For any blocks and pages: a guard calls onStall once at most, and has no
\* timer once it has stopped.
THEOREM StopsOnce == Spec => []SilentOnceStopped
<1>1. Init => Silent /\ Once
  BY DEF Init, Silent, Once
<1>2. Silent /\ Once => SilentOnceStopped
  BY DEF Silent, Once, SilentOnceStopped
<1>3. QED
  BY <1>1, <1>2, SilentKept, OnceKept, GuardTypeCorrect, PTL DEF Spec

-----------------------------------------------------------------------------
(* Rotation *)

\* For any blocks and pages: a session that is rotated has no claim, stream or
\* page, and no pump unless one was queued behind another.
THEOREM RotationInterruptsNothing == Spec => RotationSpares
<1> DEFINE Spares ==
      RotationFires =>
        /\ claimed = {} /\ incoming = None /\ walk # "asked"
        /\ pumps = <<>> \/ crowded
<1>1. Watched /\ [Next]_vars => [Spares]_vars
  BY DEF Watched, RotationFires, Quiescent, Stall
<1>2. QED
  BY <1>1, WaitsAreWatched, PTL DEF Spec, RotationSpares
=============================================================================
