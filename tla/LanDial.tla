------------------------------- MODULE LanDial -------------------------------
(***************************************************************************)
(* Who dials whom on the local network, and when again: the announcements, *)
(* the seen set and forgetTcpPeer of node/discovery/mdns.ts, the attempts  *)
(* of openFriendAssociation (node/start.ts), and the peer-disconnected     *)
(* event of a session that joins the two.  Everything from the connection  *)
(* on is Associations, whose Dialed ends are the sockets that are dialed   *)
(* here; Hyperswarm brings up the other connections at will.               *)
(*                                                                         *)
(* A node announces a listener per profile it serves.  One that comes back *)
(* listens on other ports and has other keys, as another node.  Hosts, and *)
(* announcements that are not authorized, are left out, and stop() is left *)
(* to Associations.                                                        *)
(***************************************************************************)
EXTENDS Associations

CONSTANTS
    Serves,     \* localProfilePublicKeys of a node
    Active,     \* its activeProfilePublicKey
    Rank,       \* order of the keys of profiles and of instances
    Attempts,   \* FRIEND_CONNECT_MAX_ATTEMPTS
    Refusable   \* dialed ends whose connect may fail

ASSUME LanDialAssumption ==
    /\ Serves \in [Node -> SUBSET Profiles]
    /\ Active \in [Node -> Profiles]
    /\ \A n \in Node : Active[n] \in Serves[n]
    /\ Rank \in [Node \cup Profiles -> Nat]
    /\ Attempts \in Nat \ {0}
    /\ Dialed \subseteq End /\ Refusable \subseteq Dialed

VARIABLES
    seen,   \* seenTcp: <<n, p>> when n has handed peer p to peerHandler
    dial,   \* the attempt an association dials with an end, or 0
    gaveUp  \* history: of the keys seen, those whose last attempt has failed

dialVars == <<seen, dial, gaveUp>>
lanVars == <<vars, dialVars>>

DialTypeOK ==
    /\ TypeOK
    /\ seen \subseteq Node \X Peer
    /\ dial \in [End -> 0..Attempts]
    /\ gaveUp \subseteq Node \X Peer

LanInit ==
    /\ Init
    /\ seen = {}
    /\ dial = [e \in End |-> 0]
    /\ gaveUp = {}

Key(e) == <<At[e], PeerOf(e)>>

\* shouldInitiateSyncTcp: the lower profile dials, of siblings the lower
\* instance.
ShouldInitiate(own, n, p) ==
    IF own # p[1] THEN Rank[own] < Rank[p[1]] ELSE Rank[n] < Rank[p[2]]

\* A sibling is dialed as the profile both have, a friend as the active one.
DialAs(n, p) == IF p[1] \in Serves[n] THEN p[1] ELSE Active[n]
Dials(n, p) ==
    n # p[2] /\ p[1] \in Serves[p[2]] /\ ShouldInitiate(DialAs(n, p), n, p)

\* Ends for another dial of n to p; the model has a number of them.
Fresh(n, p) ==
    {e \in Dialed : /\ Key(e) = <<n, p>> /\ Profile[e] = DialAs(n, p)
                    /\ stage[e] = "none" /\ dial[e] = 0}
NextEnd(n, p) == CHOOSE e \in Fresh(n, p) : TRUE

-----------------------------------------------------------------------------
\* maybeEmitDiscoveredTcpPeer, on an announcement of p that reaches n.
Sight(n, p) ==
    /\ Dials(n, p)
    /\ <<n, p>> \notin seen
    /\ seen' = seen \cup {<<n, p>>}
    /\ Fresh(n, p) # {}
    /\ dial' = [dial EXCEPT ![NextEnd(n, p)] = 1]
    /\ UNCHANGED <<vars, gaveUp>>

\* An attempt with end e has failed: up to Attempts of them, with a new socket
\* each, and then peer-connect-failed, of which discovery hears nothing.
Retry(e, f) ==
    /\ dial[e] < Attempts
    /\ dial' = [dial EXCEPT ![e] = 0, ![f] = dial[e] + 1]
    /\ UNCHANGED <<seen, gaveUp>>
GiveUp(e) ==
    /\ dial' = [dial EXCEPT ![e] = 0]
    /\ gaveUp' = gaveUp \cup {Key(e)}
    /\ UNCHANGED seen

\* Mutant of Refused: a connect that fails ends the association.
RefusedOnce(e) ==
    /\ dial[e] > 0 /\ stage[e] = "none"
    /\ e \in Refusable
    /\ dial' = [dial EXCEPT ![e] = 0]
    /\ UNCHANGED <<vars, seen, gaveUp>>

\* connectDiscoveredPeer fails, and the end is as good as new.
Refused(e) ==
    /\ dial[e] > 0 /\ stage[e] = "none"
    /\ e \in Refusable
    /\ \/ Retry(e, e)
       \/ dial[e] = Attempts /\ GiveUp(e)
    /\ UNCHANGED vars

\* ... and succeeds.
Dial(e) == dial[e] > 0 /\ Connect(e) /\ UNCHANGED dialVars

\* Hyperswarm has a connection.
Swarm(e) == e \notin Dialed /\ Opp[e] \notin Dialed /\ Connect(e) /\ UNCHANGED dialVars

\* The catch block of openFriendAssociation, after handshake or slot timed out.
\* (Without a fresh end, a bound of the model, there is no other attempt.)
AttemptFailed(e) ==
    LET spent == Fresh(At[e], PeerOf(e)) = {} IN
    \/ dial[e] = 0 /\ UNCHANGED dialVars
    \/ dial[e] > 0 /\ ~ spent /\ Retry(e, NextEnd(At[e], PeerOf(e)))
    \/ dial[e] > 0 /\ (spent \/ dial[e] = Attempts) /\ GiveUp(e)

\* ... and after an error that is not retried.
AttemptLost(e) ==
    \/ dial[e] = 0 /\ UNCHANGED dialVars
    \/ dial[e] > 0 /\ GiveUp(e)

\* The association has got a session, or has found that there is one.
AttemptEnded(e) ==
    /\ dial' = [dial EXCEPT ![e] = 0]
    /\ UNCHANGED <<seen, gaveUp>>

\* forgetTcpPeer: the remote may be seen again.
ForgetTcpPeer(e) ==
    /\ seen' = seen \ {Key(e)}
    /\ gaveUp' = gaveUp \ {Key(e)}

\* A session that is replaced is stopped at once, which is its peer-disconnected.
\* It is one with the same remote.
EndedReplacing(e) ==
    /\ dial' = [dial EXCEPT ![e] = 0]
    /\ ForgetTcpPeer(e)

\* Mutant of Forget: discovery is not told.
NeverForget(e) == UNCHANGED dialVars

\* peer-disconnected at the close event, unless the session was replaced before.
Forget(e) ==
    \/ Live(e) /\ ForgetTcpPeer(e) /\ UNCHANGED dial
    \/ ~ Live(e) /\ UNCHANGED dialVars

-----------------------------------------------------------------------------
LanEstablish(e) ==
    \/ HelloDone(e) /\ UNCHANGED dialVars
    \/ TakeSlot(e) /\ UNCHANGED dialVars
    \/ SecondHello(e) /\ UNCHANGED dialVars
    \/ HelloTimeout(e) /\ AttemptFailed(e)
    \/ SlotTimeout(e) /\ AttemptFailed(e)
    \/ Duplicate(e) /\ AttemptEnded(e)
    \/ AttachFirst(e) /\ AttemptEnded(e)
    \/ AttachRejected(e) /\ AttemptEnded(e)
    \/ AttachReplacing(e) /\ EndedReplacing(e)
    \/ LoadFails(e) /\ AttemptLost(e)

LanEnding(e) ==
    \/ CloseEvent(e) /\ Forget(e)
    \/ CloseArrives(e) /\ UNCHANGED dialVars
    \/ Stall(e) /\ UNCHANGED dialVars

\* What comes by itself: announcements are repeated every few seconds.
Going ==
    \/ \E n \in Node, p \in Peer : Sight(n, p)
    \/ \E e \in End : Refused(e) \/ Dial(e) \/ LanEstablish(e) \/ LanEnding(e)

LanNext ==
    \/ Going
    \/ \E e \in End : Swarm(e) \/ (Lose(e) /\ UNCHANGED dialVars)

LanSpec == LanInit /\ [][LanNext]_lanVars

\* Announcements come again, handshakes and associations go on, a close is
\* noticed and passed on, and a session without an answer stalls.  An end is used
\* once, so nothing can go on for ever, and fairness of the whole is fairness of
\* each part.  Nothing is assumed of Hyperswarm or of lost connections.
LanFairSpec == LanSpec /\ WF_lanVars(Going)

-----------------------------------------------------------------------------
(* Properties *)

\* A remote in seenTcp is not looked at again, so something must stand for it:
\* a dial, a session (whose end will be heard of), or the failure that leaves
\* it there for good.  No way out of openFriendAssociation loses the remote,
\* not the connection closed as a duplicate of a session that ends next.
SeenIsServed ==
    \A n \in Node, p \in Peer : <<n, p>> \in seen =>
        \/ <<n, p>> \in gaveUp
        \/ session[n][p] # None
        \/ \E e \in Dialed : Key(e) = <<n, p>> /\ dial[e] > 0

Between(e, n, m) == {At[e], Remote(e)} = {n, m}

\* A session that was attached after the close event of its connection, which
\* is the only one: possible where the socket is not paused meanwhile.
Dead(e) == Live(e) /\ sock[e] = "closed"

\* Two nodes on one network keep finding each other, whatever connections are
\* lost, refused, or closed as duplicates in between, until a dial is given up
\* or a dead session bars the way.  (Or the model has no ends left.)
Reunited ==
    \A n \in Node, p \in Peer : Dials(n, p) =>
        []<>(\/ \E e \in End : Between(e, n, p[2]) /\ Live(e) /\ Live(Opp[e])
             \/ <<n, p>> \in gaveUp
             \/ \E e \in End : Between(e, n, p[2]) /\ Dead(e)
             \/ Fresh(n, p) = {} /\ \A e \in End : dial[e] = 0)
=============================================================================
