------------------------ MODULE Associations_proofs ------------------------
(***************************************************************************)
(* Type correctness, and the agreement of the session registry with the    *)
(* sessions that run.                                                      *)
(***************************************************************************)
EXTENDS Associations, TLAPS

\* What an entry of the registry is: a session of its node with its remote.
Keyed ==
    \A n \in Node, p \in Peer : session[n][p] # None =>
        At[session[n][p]] = n /\ PeerOf(session[n][p]) = p

Registry == TypeOK /\ Keyed /\ SessionsRegistered

\* A step that touches neither the registry nor a live end keeps the registry.
LEMMA RegistryUntouched ==
    ASSUME Registry, TypeOK', UNCHANGED session,
           \A f \in End : Live(f)' <=> Live(f)
    PROVE  Registry'
BY DEF Registry, Keyed, SessionsRegistered, Existing, PeerOf, Remote

\* Types are kept by every step.
LEMMA TypesKept ==
    ASSUME TypeOK, [Next]_vars
    PROVE  TypeOK'
<1> USE AssociationAssumption DEF TypeOK, To, Register, Close, Closing, Remote, PeerOf, Peer
<1>1. ASSUME NEW e \in End, Connect(e) PROVE TypeOK'
  BY <1>1 DEF Connect
<1>2. ASSUME NEW e \in End, Establish(e) PROVE TypeOK'
  <2>1. CASE HelloDone(e) \/ HelloTimeout(e)
    BY <2>1 DEF HelloDone, HelloTimeout
  <2>2. CASE Duplicate(e) \/ TakeSlot(e)
    BY <2>2 DEF Duplicate, TakeSlot
  <2>3. CASE SlotTimeout(e) \/ LoadFails(e)
    BY <2>3 DEF SlotTimeout, LoadFails
  <2>4. CASE SecondHello(e)
    BY <2>4 DEF SecondHello
  <2>5. CASE AttachFirst(e)
    BY <2>5 DEF AttachFirst
  <2>6. CASE AttachRejected(e)
    BY <2>6 DEF AttachRejected
  <2>7. CASE AttachReplacing(e)
    <3>1. Existing(e) \in End
      BY <2>7 DEF AttachReplacing, Existing
    <3>2. QED
      BY <2>7, <3>1 DEF AttachReplacing
  <2>8. QED
    BY <1>2, <2>1, <2>2, <2>3, <2>4, <2>5, <2>6, <2>7 DEF Establish
<1>3. ASSUME NEW e \in End, Ending(e) PROVE TypeOK'
  <2>1. CASE CloseEvent(e)
    <3>1. session' \in [Node -> [Peer -> End \cup {None}]]
      <4>1. CASE stage[e] \in {"live", "ended"} /\ Existing(e) = e
        <5>1. session' = [session EXCEPT ![At[e]][PeerOf(e)] = None]
          BY <2>1, <4>1, Zenon DEF CloseEvent, Unregister
        <5>2. QED
          BY <5>1
      <4>2. CASE ~ (stage[e] \in {"live", "ended"} /\ Existing(e) = e)
        BY <2>1, <4>2 DEF CloseEvent, Unregister
      <4>3. QED
        BY <4>1, <4>2
    <3>2. stage' \in [End -> {"none", "hello", "waiting", "loading", "live",
                              "ended", "gone", "abandoned", "failed"}]
      BY <2>1 DEF CloseEvent
    <3>3. /\ sock' \in [End -> {"none", "open", "closing", "closed"}]
          /\ halted' \in [Node -> {"up", "closed", "down"}]
      BY <2>1 DEF CloseEvent
    <3>4. QED
      BY <3>1, <3>2, <3>3
  <2>2. CASE CloseArrives(e)
    BY <2>2 DEF CloseArrives
  <2>3. CASE Stall(e)
    BY <2>3 DEF Stall
  <2>4. QED
    BY <1>3, <2>1, <2>2, <2>3 DEF Ending
<1>4. ASSUME NEW e \in End, Lose(e) PROVE TypeOK'
  BY <1>4 DEF Lose
<1>5. ASSUME NEW n \in Node, CloseAll(n) PROVE TypeOK'
  BY <1>5 DEF CloseAll
<1>6. ASSUME NEW n \in Node, DiscoveryStopped(n) PROVE TypeOK'
  BY <1>6 DEF DiscoveryStopped
<1>7. CASE UNCHANGED vars
  BY <1>7 DEF vars
<1>8. QED
  BY <1>1, <1>2, <1>3, <1>4, <1>5, <1>6, <1>7 DEF Next

\* An end whose session starts or ends takes over or leaves its entry.
LEMMA RegistryChanged ==
    ASSUME Registry, TypeOK', NEW e \in End,
           \/ AttachFirst(e) \/ AttachReplacing(e) \/ CloseEvent(e)
    PROVE  Registry'
<1> USE AssociationAssumption DEF To, Register
<1>1. TypeOK /\ Keyed /\ SessionsRegistered
  BY DEF Registry
<1>2. At[e] \in Node /\ \A f \in End : PeerOf(f) \in Peer
  BY DEF Remote, PeerOf, Peer
<1>3. CASE AttachFirst(e)
  <2>1. /\ session' = [session EXCEPT ![At[e]][PeerOf(e)] = e]
        /\ stage' = [stage EXCEPT ![e] = "live"]
        /\ Existing(e) = None
    BY <1>3 DEF AttachFirst
  <2>2. Keyed'
    BY <1>1, <1>2, <2>1 DEF Keyed, TypeOK
  <2>3. SessionsRegistered'
    BY <1>1, <1>2, <2>1 DEF SessionsRegistered, TypeOK, Existing, Live
  <2>4. QED
    BY <2>2, <2>3 DEF Registry
<1>4. CASE AttachReplacing(e)
  <2> DEFINE x == Existing(e)
  <2>1. /\ session' = [session EXCEPT ![At[e]][PeerOf(e)] = e]
        /\ stage' = [stage EXCEPT ![x] = "ended", ![e] = "live"]
        /\ stage[e] = "loading"
        /\ x # None
    BY <1>4 DEF AttachReplacing
  <2>2. x \in End /\ At[x] = At[e] /\ PeerOf(x) = PeerOf(e)
    BY <1>1, <1>2, <2>1 DEF TypeOK, Existing, Keyed
  <2>3. x # e
    BY <1>1, <2>1 DEF SessionsRegistered, Live
  <2>4. Keyed'
    BY <1>1, <1>2, <2>1 DEF Keyed, TypeOK
  <2>5. SessionsRegistered'
    <3>1. ASSUME NEW f \in End PROVE Live(f)' <=> Existing(f)' = f
      <4>1. Live(f) <=> Existing(f) = f
        BY <1>1 DEF SessionsRegistered
      <4>2. CASE At[f] = At[e] /\ PeerOf(f) = PeerOf(e)
        <5>1. Existing(f)' = e /\ Existing(f) = x
          BY <1>1, <1>2, <2>1, <4>2 DEF TypeOK, Existing
        <5>2. Live(f)' <=> f = e
          BY <1>1, <2>1, <2>2, <2>3, <4>1, <5>1 DEF TypeOK, Live
        <5>3. QED
          BY <5>1, <5>2
      <4>3. CASE ~ (At[f] = At[e] /\ PeerOf(f) = PeerOf(e))
        <5>1. Existing(f)' = Existing(f)
          BY <1>1, <1>2, <2>1, <4>3 DEF TypeOK, Existing
        <5>2. f # e /\ f # x
          BY <2>2, <4>3
        <5>3. Live(f)' <=> Live(f)
          BY <1>1, <2>1, <2>2, <5>2 DEF TypeOK, Live
        <5>4. QED
          BY <4>1, <5>1, <5>3
      <4>4. QED
        BY <4>2, <4>3
    <3>2. QED
      BY <3>1 DEF SessionsRegistered
  <2>6. QED
    BY <2>4, <2>5 DEF Registry
<1>5. CASE CloseEvent(e)
  <2>1. CASE stage[e] \in {"live", "ended"} /\ Existing(e) = e
    <3>1. /\ session' = [session EXCEPT ![At[e]][PeerOf(e)] = None]
          /\ stage' = [stage EXCEPT ![e] = "ended"]
      BY <1>5, <2>1 DEF CloseEvent, Unregister
    <3>2. Keyed'
      BY <1>1, <1>2, <3>1 DEF Keyed, TypeOK
    <3>3. SessionsRegistered'
      BY <1>1, <1>2, <2>1, <3>1 DEF SessionsRegistered, TypeOK, Existing, Live
    <3>4. QED
      BY <3>2, <3>3 DEF Registry
  <2>2. CASE ~ (stage[e] \in {"live", "ended"} /\ Existing(e) = e)
    <3>1. UNCHANGED session
      BY <1>5, <2>2 DEF CloseEvent, Unregister
    <3>2. \A f \in End : Live(f)' <=> Live(f)
      BY <1>1, <1>5, <2>2 DEF CloseEvent, SessionsRegistered, TypeOK, Live
    <3>3. QED
      BY <3>1, <3>2, RegistryUntouched
  <2>3. QED
    BY <2>1, <2>2
<1>6. QED
  BY <1>3, <1>4, <1>5

\* Type correctness.
THEOREM SessionsTypeCorrect == Spec => []TypeOK
<1>1. Init => TypeOK
  BY DEF Init, TypeOK
<1>2. QED
  BY <1>1, TypesKept, PTL DEF Spec

\* For any number of nodes and of connections between them: the registry has
\* exactly the sessions that run, at most one for each peer.
THEOREM OneSessionPerRemote == Spec => []SessionsRegistered
<1>1. Init => Registry
  BY AssociationAssumption
  DEF Init, Registry, TypeOK, Keyed, SessionsRegistered, Existing, PeerOf, Peer, Remote, Live
<1>2. Registry /\ [Next]_vars => Registry'
  <2> SUFFICES ASSUME Registry, [Next]_vars PROVE Registry'
    OBVIOUS
  <2> USE AssociationAssumption DEF To
  <2>1. TypeOK /\ TypeOK'
    BY TypesKept DEF Registry
  <2> DEFINE Untouched == UNCHANGED session /\ \A f \in End : Live(f)' <=> Live(f)
  <2>2. Untouched => Registry'
    BY <2>1, RegistryUntouched
  <2>3. ASSUME NEW e \in End, Connect(e) \/ Lose(e) PROVE Untouched
    <3>1. CASE Connect(e)
      <4>1. /\ stage[e] = "none" /\ stage[Opp[e]] = "none"
            /\ stage' = [stage EXCEPT ![e] = "hello", ![Opp[e]] = "hello"]
            /\ UNCHANGED session
        BY <3>1 DEF Connect
      <4>2. QED
        BY <2>1, <4>1 DEF TypeOK, Live
    <3>2. CASE Lose(e)
      BY <3>2 DEF Lose, Live
    <3>3. QED
      BY <2>3, <3>1, <3>2
  <2>4. ASSUME NEW e \in End, Establish(e) PROVE Registry'
    <3>1. CASE AttachFirst(e) \/ AttachReplacing(e)
      BY <2>1, <3>1, RegistryChanged
    <3>2. CASE ~ (AttachFirst(e) \/ AttachReplacing(e))
      <4>1. Untouched
        BY <2>1, <2>4, <3>2 DEF Establish, HelloDone, HelloTimeout, Duplicate, TakeSlot,
           SlotTimeout, SecondHello, LoadFails, AttachRejected, TypeOK, Live
      <4>2. QED
        BY <2>2, <4>1
    <3>3. QED
      BY <3>1, <3>2
  <2>5. ASSUME NEW e \in End, Ending(e) PROVE Registry'
    <3>1. CASE CloseEvent(e)
      BY <2>1, <3>1, RegistryChanged
    <3>2. CASE CloseArrives(e) \/ Stall(e)
      BY <2>2, <3>2 DEF CloseArrives, Stall, Live
    <3>3. QED
      BY <2>5, <3>1, <3>2 DEF Ending
  <2>6. ASSUME NEW n \in Node, CloseAll(n) PROVE Registry'
    <3>1. /\ session' = [session EXCEPT ![n] = [p \in Peer |-> None]]
          /\ stage' = [f \in End |-> IF At[f] = n /\ Live(f) THEN "ended" ELSE stage[f]]
      BY <2>6 DEF CloseAll
    <3>2. Keyed'
      BY <2>1, <3>1 DEF Registry, Keyed, TypeOK
    <3>3. SessionsRegistered'
      <4>1. ASSUME NEW f \in End PROVE Live(f)' <=> Existing(f)' = f
        <5>1. Live(f) <=> Existing(f) = f
          BY DEF Registry, SessionsRegistered
        <5>2. PeerOf(f) \in Peer
          BY DEF PeerOf, Peer, Remote
        <5>3. CASE At[f] = n
          <6>1. Existing(f)' = None
            BY <2>1, <3>1, <5>2, <5>3 DEF TypeOK, Existing
          <6>2. ~ Live(f)'
            BY <3>1, <5>3 DEF Live
          <6>3. QED
            BY <6>1, <6>2
        <5>4. CASE At[f] # n
          <6>1. Existing(f)' = Existing(f)
            BY <2>1, <3>1, <5>2, <5>4 DEF TypeOK, Existing
          <6>2. Live(f)' <=> Live(f)
            BY <3>1, <5>4 DEF Live
          <6>3. QED
            BY <5>1, <6>1, <6>2
        <5>5. QED
          BY <5>3, <5>4
      <4>2. QED
        BY <4>1 DEF SessionsRegistered
    <3>4. QED
      BY <2>1, <3>2, <3>3 DEF Registry
  <2>7. ASSUME NEW n \in Node, DiscoveryStopped(n) PROVE Untouched
    BY <2>7 DEF DiscoveryStopped, Live
  <2>8. CASE UNCHANGED vars
    BY <2>2, <2>8 DEF vars, Live
  <2>9. QED
    BY <2>2, <2>3, <2>4, <2>5, <2>6, <2>7, <2>8 DEF Next
<1>3. Registry => SessionsRegistered
  BY DEF Registry
<1>4. QED
  BY <1>1, <1>2, <1>3, PTL DEF Spec
=============================================================================
