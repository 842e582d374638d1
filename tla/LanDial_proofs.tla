--------------------------- MODULE LanDial_proofs ---------------------------
(***************************************************************************)
(* Discovery leaves the associations what they are, and loses no remote it *)
(* has seen.                                                               *)
(***************************************************************************)
EXTENDS LanDial, Associations_proofs

\* A step of discovery is one of the associations, or none.
LEMMA DiscoverySteps ==
    ASSUME [LanNext]_lanVars
    PROVE  [Next]_vars
<1>1. ASSUME NEW n \in Node, NEW p \in Peer, Sight(n, p) PROVE UNCHANGED vars
  BY <1>1 DEF Sight
<1>2. ASSUME NEW e \in End, LanEstablish(e) PROVE Establish(e)
  BY <1>2 DEF LanEstablish, Establish
<1>3. ASSUME NEW e \in End, LanEnding(e) PROVE Ending(e)
  BY <1>3 DEF LanEnding, Ending
<1>4. ASSUME NEW e \in End, Refused(e) PROVE UNCHANGED vars
  BY <1>4 DEF Refused
<1>5. ASSUME NEW e \in End, Dial(e) \/ Swarm(e) PROVE Connect(e)
  BY <1>5 DEF Dial, Swarm
<1>6. QED
  BY <1>1, <1>2, <1>3, <1>4, <1>5 DEF LanNext, Going, Next, lanVars

\* Whatever discovery does, nodes, sessions and registries behave as
\* Associations says.
THEOREM DiscoveryKeepsAssociations == LanSpec => Spec
<1>1. LanInit => Init
  BY DEF LanInit
<1>2. QED
  BY <1>1, DiscoverySteps, PTL DEF LanSpec, Spec

\* For any discovery: one session for each peer.
THEOREM OneSessionPerPeerDialed == LanSpec => []SessionsRegistered
BY DiscoveryKeepsAssociations, OneSessionPerRemote, PTL

-----------------------------------------------------------------------------
(* Types *)

DialsOK ==
    /\ seen \subseteq Node \X Peer
    /\ dial \in [End -> 0..Attempts]
    /\ gaveUp \subseteq Node \X Peer

\* The keys of ends are keys.
LEMMA KeysAreKeys == \A e \in End : Key(e) \in Node \X Peer
BY AssociationAssumption DEF Key, PeerOf, Remote, Peer

\* Where there is a fresh end, the one that is taken is fresh.
LEMMA NextIsFresh ==
    ASSUME NEW n, NEW p, Fresh(n, p) # {}
    PROVE  NextEnd(n, p) \in Fresh(n, p)
BY DEF NextEnd

\* The number of an attempt stays within its bound.
LEMMA AttemptsKept ==
    ASSUME DialsOK, NEW e \in End, NEW f \in End, 
           Retry(e, f) \/ GiveUp(e) \/ AttemptEnded(e) \/ EndedReplacing(e)
    PROVE  DialsOK'
<1> USE LanDialAssumption, KeysAreKeys DEF DialsOK
<1>1. CASE Retry(e, f)
  <2>1. dial[e] + 1 \in 0..Attempts
    BY <1>1 DEF Retry
  <2>2. QED
    BY <1>1, <2>1 DEF Retry
<1>2. CASE GiveUp(e)
  BY <1>2 DEF GiveUp
<1>3. CASE AttemptEnded(e) \/ EndedReplacing(e)
  BY <1>3 DEF AttemptEnded, EndedReplacing, ForgetTcpPeer
<1>4. QED
  BY <1>1, <1>2, <1>3

\* Every step of discovery keeps its types.
LEMMA DialsKept ==
    ASSUME DialsOK, [LanNext]_lanVars
    PROVE  DialsOK'
<1> USE LanDialAssumption, KeysAreKeys DEF DialsOK
<1>1. ASSUME NEW n \in Node, NEW p \in Peer, Sight(n, p) PROVE DialsOK'
  <2>1. 1 \in 0..Attempts
    OBVIOUS
  <2>2. /\ seen' = seen \cup {<<n, p>>} /\ UNCHANGED gaveUp
        /\ dial' = [dial EXCEPT ![NextEnd(n, p)] = 1]
    BY <1>1 DEF Sight
  <2>3. <<n, p>> \in Node \X Peer
    OBVIOUS
  <2>4. QED
    BY <2>1, <2>2, <2>3
<1>2. ASSUME NEW e \in End, Refused(e) PROVE DialsOK'
  <2>1. Retry(e, e) \/ GiveUp(e)
    BY <1>2 DEF Refused
  <2>2. QED
    BY <2>1, AttemptsKept
<1>3. ASSUME NEW e \in End, LanEstablish(e) PROVE DialsOK'
  <2>1. CASE AttemptFailed(e)
    <3>1. CASE dial[e] = 0 /\ UNCHANGED dialVars
      BY <3>1 DEF dialVars
    <3>2. CASE Fresh(At[e], PeerOf(e)) # {} /\ Retry(e, NextEnd(At[e], PeerOf(e)))
      <4>1. NextEnd(At[e], PeerOf(e)) \in End
        BY <3>2, NextIsFresh DEF Fresh
      <4>2. QED
        BY <3>2, <4>1, AttemptsKept
    <3>3. CASE GiveUp(e)
      BY <3>3, AttemptsKept
    <3>4. QED
      BY <2>1, <3>1, <3>2, <3>3 DEF AttemptFailed
  <2>2. CASE AttemptEnded(e) \/ EndedReplacing(e) \/ GiveUp(e)
    BY <2>2, AttemptsKept
  <2>3. CASE UNCHANGED dialVars
    BY <2>3 DEF dialVars
  <2>4. QED
    BY <1>3, <2>1, <2>2, <2>3 DEF LanEstablish, AttemptLost
<1>4. ASSUME NEW e \in End, LanEnding(e) PROVE DialsOK'
  BY <1>4 DEF LanEnding, Forget, ForgetTcpPeer, dialVars
<1>5. ASSUME NEW e \in End, Dial(e) \/ Swarm(e) \/ UNCHANGED dialVars PROVE DialsOK'
  BY <1>5 DEF Dial, Swarm, dialVars
<1>6. CASE UNCHANGED lanVars
  BY <1>6 DEF lanVars, dialVars
<1>7. QED
  BY <1>1, <1>2, <1>3, <1>4, <1>5, <1>6 DEF LanNext, Going

\* Type correctness.
THEOREM DialTypeCorrect == LanSpec => []DialTypeOK
<1>1. LanInit => DialsOK
  BY LanDialAssumption DEF LanInit, DialsOK
<1>2. TypeOK /\ DialsOK => DialTypeOK
  BY DEF DialsOK, DialTypeOK
<1>3. QED
  BY <1>1, <1>2, DialsKept, DiscoveryKeepsAssociations, SessionsTypeCorrect, PTL DEF LanSpec

-----------------------------------------------------------------------------
(* A remote that was seen is not lost *)

\* What may stand for a remote that was seen.
Served(n, p) ==
    \/ <<n, p>> \in gaveUp
    \/ session[n][p] # None
    \/ \E e \in Dialed : Key(e) = <<n, p>> /\ dial[e] > 0

\* An attempt that fails is followed by another one for the same remote.
LEMMA RetryServes ==
    ASSUME DialsOK, SeenIsServed, NEW e \in End, NEW f \in Dialed, Key(f) = Key(e),
           Retry(e, f), UNCHANGED session
    PROVE  SeenIsServed'
<1> SUFFICES ASSUME NEW n \in Node, NEW p \in Peer, <<n, p>> \in seen PROVE Served(n, p)'
  BY DEF SeenIsServed, Served, Retry
<1>1. /\ dial' = [dial EXCEPT ![e] = 0, ![f] = dial[e] + 1]
      /\ UNCHANGED gaveUp
      /\ f \in End
      /\ dial \in [End -> Nat]
  BY LanDialAssumption DEF Retry, DialsOK
<1>2. ASSUME NEW g \in Dialed, Key(g) = <<n, p>>, dial[g] > 0
      PROVE  \E h \in Dialed : Key(h) = <<n, p>> /\ dial'[h] > 0
  <2>1. dial'[f] > 0
    BY <1>1
  <2>2. CASE g = e \/ g = f
    BY <1>2, <2>1, <2>2
  <2>3. CASE g # e /\ g # f
    BY <1>1, <1>2, <2>3, LanDialAssumption
  <2>4. QED
    BY <2>2, <2>3
<1>3. Served(n, p)
  BY DEF SeenIsServed, Served
<1>4. QED
  BY <1>1, <1>2, <1>3 DEF Served, Key

\* The last attempt that fails is put down as given up.
LEMMA GiveUpServes ==
    ASSUME DialsOK, SeenIsServed, NEW e \in End, GiveUp(e), UNCHANGED session
    PROVE  SeenIsServed'
<1> SUFFICES ASSUME NEW n \in Node, NEW p \in Peer, <<n, p>> \in seen PROVE Served(n, p)'
  BY DEF SeenIsServed, Served, GiveUp
<1>1. /\ dial' = [dial EXCEPT ![e] = 0]
      /\ gaveUp' = gaveUp \cup {Key(e)}
  BY DEF GiveUp
<1>2. Served(n, p)
  BY DEF SeenIsServed, Served
<1>3. QED
  BY <1>1, <1>2, LanDialAssumption DEF Served, Key, DialsOK

\* An association that ends with a session in the registry needs no dial.
LEMMA SessionServes ==
    ASSUME DialsOK, SeenIsServed, NEW e \in End, AttemptEnded(e),
           session'[At[e]][PeerOf(e)] # None,
           \A n \in Node, p \in Peer : session[n][p] # None => session'[n][p] # None
    PROVE  SeenIsServed'
<1> SUFFICES ASSUME NEW n \in Node, NEW p \in Peer, <<n, p>> \in seen PROVE Served(n, p)'
  BY DEF SeenIsServed, Served, AttemptEnded
<1>1. dial' = [dial EXCEPT ![e] = 0] /\ UNCHANGED gaveUp
  BY DEF AttemptEnded
<1>2. Served(n, p)
  BY DEF SeenIsServed, Served
<1>3. Key(e) = <<n, p>> => session'[n][p] # None
  BY DEF Key
<1>4. QED
  BY <1>1, <1>2, <1>3, LanDialAssumption DEF Served, Key, DialsOK

\* A session that replaces another one is there for what discovery forgets.
LEMMA ReplacingServes ==
    ASSUME DialsOK, SeenIsServed, NEW e \in End, EndedReplacing(e),
           \A n \in Node, p \in Peer : session[n][p] # None => session'[n][p] # None
    PROVE  SeenIsServed'
<1> SUFFICES ASSUME NEW n \in Node, NEW p \in Peer, <<n, p>> \in seen' PROVE Served(n, p)'
  BY DEF SeenIsServed, Served
<1>1. /\ dial' = [dial EXCEPT ![e] = 0] /\ gaveUp' = gaveUp \ {Key(e)}
      /\ <<n, p>> \in seen /\ <<n, p>> # Key(e)
  BY DEF EndedReplacing, ForgetTcpPeer
<1>2. Served(n, p)
  BY <1>1 DEF SeenIsServed, Served
<1>3. QED
  BY <1>1, <1>2, LanDialAssumption DEF Served, Key, DialsOK

\* A session that ends is forgotten with the entry it leaves.
LEMMA ForgetServes ==
    ASSUME TypeOK, SessionsRegistered, SeenIsServed, NEW e \in End, CloseEvent(e), Forget(e)
    PROVE  SeenIsServed'
<1>1. CASE Live(e)
  <2>1. seen' = seen \ {Key(e)} /\ gaveUp' = gaveUp \ {Key(e)} /\ UNCHANGED dial
    BY <1>1 DEF Forget, ForgetTcpPeer
  <2>2. ASSUME NEW n \in Node, NEW p \in Peer, <<n, p>> # Key(e)
        PROVE  session'[n][p] = session[n][p]
    BY <1>1, <2>2 DEF CloseEvent, Unregister, Register, Key, TypeOK
  <2>3. QED
    BY <2>1, <2>2 DEF SeenIsServed, Key
<1>2. CASE ~ Live(e)
  <2>1. UNCHANGED <<seen, gaveUp, dial>>
    BY <1>2 DEF Forget, dialVars
  <2>2. UNCHANGED session
    BY <1>2 DEF CloseEvent, Unregister, SessionsRegistered
  <2>3. QED
    BY <2>1, <2>2 DEF SeenIsServed, Key
<1>3. QED
  BY <1>1, <1>2

\* A step that leaves discovery and the registry alone.
LEMMA NothingServes ==
    ASSUME SeenIsServed, UNCHANGED <<seen, dial, gaveUp, session>>
    PROVE  SeenIsServed'
BY DEF SeenIsServed, Key

\* What openFriendAssociation does with its attempt keeps the remote served.
LEMMA EstablishServes ==
    ASSUME TypeOK, DialsOK, SeenIsServed, NEW e \in End, LanEstablish(e)
    PROVE  SeenIsServed'
<1>1. CASE (HelloDone(e) \/ TakeSlot(e) \/ SecondHello(e)) /\ UNCHANGED dialVars
  BY <1>1, NothingServes DEF HelloDone, TakeSlot, SecondHello, dialVars
<1>2. CASE (HelloTimeout(e) \/ SlotTimeout(e)) /\ AttemptFailed(e)
  <2>1. UNCHANGED session
    BY <1>2 DEF HelloTimeout, SlotTimeout
  <2> DEFINE f == NextEnd(At[e], PeerOf(e))
  <2>2. CASE UNCHANGED dialVars
    BY <2>1, <2>2, NothingServes DEF dialVars
  <2>3. CASE Fresh(At[e], PeerOf(e)) # {} /\ Retry(e, f)
    <3>1. f \in Dialed /\ Key(f) = Key(e)
      BY <2>3, NextIsFresh DEF Fresh, Key
    <3> HIDE DEF f
    <3>2. QED
      BY <2>1, <2>3, <3>1, RetryServes
  <2>4. CASE GiveUp(e)
    BY <2>1, <2>4, GiveUpServes
  <2>5. QED
    BY <1>2, <2>2, <2>3, <2>4 DEF AttemptFailed
<1>3. CASE (Duplicate(e) \/ AttachRejected(e)) /\ AttemptEnded(e)
  BY <1>3, SessionServes DEF Duplicate, AttachRejected, Existing
<1>4. CASE \/ AttachFirst(e) /\ AttemptEnded(e)
           \/ AttachReplacing(e) /\ EndedReplacing(e)
  <2>1. session' = [session EXCEPT ![At[e]][PeerOf(e)] = e]
    BY <1>4 DEF AttachFirst, AttachReplacing, Register
  <2>2. At[e] \in Node /\ PeerOf(e) \in Peer /\ e # None
    BY AssociationAssumption DEF PeerOf, Remote, Peer
  <2>3. /\ session'[At[e]][PeerOf(e)] # None
        /\ \A n \in Node, p \in Peer : session[n][p] # None => session'[n][p] # None
    BY <2>1, <2>2 DEF TypeOK
  <2>4. QED
    BY <1>4, <2>3, SessionServes, ReplacingServes
<1>5. CASE LoadFails(e) /\ AttemptLost(e)
  <2>1. UNCHANGED session
    BY <1>5 DEF LoadFails
  <2>2. QED
    BY <1>5, <2>1, NothingServes, GiveUpServes DEF AttemptLost, dialVars
<1>6. QED
  BY <1>1, <1>2, <1>3, <1>4, <1>5 DEF LanEstablish

\* For any nodes, profiles and number of attempts, whichever connections are
\* refused, lost or turned away: a remote that was seen has a dial, a session,
\* or the failure that keeps it there.
THEOREM SeenRemotesServed == LanSpec => []SeenIsServed
<1>1. LanInit => SeenIsServed
  BY DEF LanInit, SeenIsServed
<1>2. DialTypeOK /\ SessionsRegistered /\ SeenIsServed /\ [LanNext]_lanVars => SeenIsServed'
  <2> SUFFICES ASSUME DialTypeOK, SessionsRegistered, SeenIsServed, [LanNext]_lanVars PROVE SeenIsServed'
    OBVIOUS
  <2>1. TypeOK /\ DialsOK
    BY DEF DialTypeOK, DialsOK
  <2>2. ASSUME NEW n \in Node, NEW p \in Peer, Sight(n, p) PROVE SeenIsServed'
    <3>1. NextEnd(n, p) \in Dialed /\ Key(NextEnd(n, p)) = <<n, p>>
      BY <2>2, NextIsFresh DEF Sight, Fresh
    <3> DEFINE f == NextEnd(n, p)
    <3>2. /\ seen' = seen \cup {<<n, p>>} /\ UNCHANGED <<gaveUp, session>>
          /\ dial' = [dial EXCEPT ![f] = 1]
      BY <2>2 DEF Sight, vars
    <3> HIDE DEF f
    <3>3. f \in Dialed /\ Key(f) = <<n, p>>
      BY <3>1 DEF f
    <3>4. \A g \in Dialed : dial[g] > 0 => dial'[g] > 0
      BY <2>1, <3>2, <3>3, LanDialAssumption DEF DialsOK
    <3>5. dial'[f] > 0
      BY <2>1, <3>2, <3>3, LanDialAssumption DEF DialsOK
    <3>6. QED
      BY <3>2, <3>3, <3>4, <3>5 DEF SeenIsServed, Key
  <2>3. ASSUME NEW e \in End, Refused(e) PROVE SeenIsServed'
    <3>1. e \in Dialed /\ UNCHANGED session /\ (Retry(e, e) \/ GiveUp(e))
      BY <2>3, LanDialAssumption DEF Refused, vars
    <3>2. QED
      BY <2>1, <3>1, RetryServes, GiveUpServes
  <2>4. ASSUME NEW e \in End, LanEstablish(e) PROVE SeenIsServed'
    BY <2>1, <2>4, EstablishServes
  <2>5. ASSUME NEW e \in End, LanEnding(e) PROVE SeenIsServed'
    <3>1. CASE CloseEvent(e) /\ Forget(e)
      BY <2>1, <3>1, ForgetServes
    <3>2. CASE (CloseArrives(e) \/ Stall(e)) /\ UNCHANGED dialVars
      BY <3>2, NothingServes DEF CloseArrives, Stall, dialVars
    <3>3. QED
      BY <2>5, <3>1, <3>2 DEF LanEnding
  <2>6. ASSUME NEW e \in End,
               Dial(e) \/ Swarm(e) \/ (Lose(e) /\ UNCHANGED dialVars)
        PROVE  SeenIsServed'
    BY <2>6, NothingServes DEF Dial, Swarm, Connect, Lose, dialVars
  <2>7. CASE UNCHANGED lanVars
    BY <2>7, NothingServes DEF lanVars, vars, dialVars
  <2>8. QED
    BY <2>2, <2>3, <2>4, <2>5, <2>6, <2>7 DEF LanNext, Going
<1>3. QED
  BY <1>1, <1>2, DialTypeCorrect, OneSessionPerPeerDialed, PTL DEF LanSpec
=============================================================================
