---------------------------- MODULE Associations ----------------------------
(***************************************************************************)
(* From a connection to a session: the hello exchange (core/handshake.ts), *)
(* openFriendAssociation and stop (node/start.ts), and the registry that   *)
(* keeps one session per remote profile and instance                       *)
(* (core/friendSessions.ts).                                               *)
(*                                                                         *)
(* A connection has two ends and is used once; discovery may bring up      *)
(* several connections between the same nodes, over the LAN and over       *)
(* Hyperswarm, and both nodes handle each on their own.  Between its       *)
(* handshake and its session an end waits for a slot and for the disk; a   *)
(* LAN socket is paused meanwhile (pauseInbound), a Hyperswarm one is not. *)
(*                                                                         *)
(* Left out: profiles that are not authorized, loopback, and the retries   *)
(* of a dial, which are further connections here.                          *)
(***************************************************************************)
EXTENDS Naturals

CONSTANTS
    Node,       \* instances
    Profiles,   \* profiles the nodes serve
    End,        \* ends of connections
    At,         \* the node of an end
    Opp,        \* the other end
    Profile,    \* profile an end's node says hello with
    Tier,       \* transportPreference of an end's label, 0 is best
    Pausable,   \* ends over a socket with pauseInbound
    Dialed,     \* ends whose socket connectDiscoveredPeer has opened
    Initiated,  \* ends with locallyInitiated (Hyperswarm client)
    Fallible,   \* ends whose connection may be lost
    Unloadable, \* ends whose marker or cursor the disk may fail
    Stopping,   \* nodes whose engine may be stopped
    None

ASSUME AssociationAssumption ==
    /\ At \in [End -> Node]
    /\ Opp \in [End -> End]
    /\ \A e \in End : Opp[e] # e /\ Opp[Opp[e]] = e
    /\ Profile \in [End -> Profiles]
    /\ Tier \in [End -> Nat]
    /\ None \notin End

VARIABLES
    stage,    \* of an end in openFriendAssociation
    sock,     \* its socket; closing: the close event is still to come
    session,  \* FriendSessionRegistry of a node: the end that serves a peer
    halted    \* nodes in stop(): "up", "closed" (closeAll), "down"

vars == <<stage, sock, session, halted>>

\* sessionKey: a peer is a profile at an instance.
Peer == Profiles \X Node

TypeOK ==
    /\ stage \in [End -> {"none", "hello", "waiting", "loading", "live", "ended",
                          "gone", "abandoned", "failed"}]
    /\ sock \in [End -> {"none", "open", "closing", "closed"}]
    /\ session \in [Node -> [Peer -> End \cup {None}]]
    /\ halted \in [Node -> {"up", "closed", "down"}]

Init ==
    /\ stage = [e \in End |-> "none"]
    /\ sock = [e \in End |-> "none"]
    /\ session = [n \in Node |-> [p \in Peer |-> None]]
    /\ halted = [n \in Node |-> "up"]

Remote(e) == At[Opp[e]]
PeerOf(e) == <<Profile[Opp[e]], Remote(e)>>
Live(e) == stage[e] = "live"

\* The session the registry has for the key of e; hasAliveSession.
Existing(e) == session[At[e]][PeerOf(e)]

To(e, s) == stage' = [stage EXCEPT ![e] = s]
Register(e, entry) == session' = [session EXCEPT ![At[e]][PeerOf(e)] = entry]

\* peer.close(); the close event comes later, and only once.
Closing(e) == IF sock[e] = "open" THEN [sock EXCEPT ![e] = "closing"] ELSE sock
Close(e) == sock' = Closing(e)

-----------------------------------------------------------------------------
(* Connection and handshake *)

\* Discovery brings up a connection; both sides say hello at once.
Connect(e) ==
    /\ stage[e] = "none" /\ stage[Opp[e]] = "none"
    /\ halted[At[e]] # "down" /\ halted[Remote(e)] # "down"
    /\ stage' = [stage EXCEPT ![e] = "hello", ![Opp[e]] = "hello"]
    /\ sock' = [sock EXCEPT ![e] = "open", ![Opp[e]] = "open"]
    /\ UNCHANGED <<session, halted>>

HelloDone(e) ==
    /\ stage[e] = "hello" /\ sock[e] # "closed"
    /\ To(e, "waiting")
    /\ UNCHANGED <<sock, session, halted>>

\* The other side's hello stays away: the handshake closes the connection.
HelloTimeout(e) ==
    /\ stage[e] = "hello" /\ sock[e] # "open"
    /\ To(e, "gone")
    /\ Close(e)
    /\ UNCHANGED <<session, halted>>

-----------------------------------------------------------------------------
(* openFriendAssociation after the handshake *)

\* acquirePairSlot: one association in the making per local profile and peer.
SlotBusy(e) ==
    \E f \in End : /\ stage[f] = "loading"
                   /\ At[f] = At[e] /\ PeerOf(f) = PeerOf(e)
                   /\ Profile[f] = Profile[e]

\* The slot is free: a second connection to a peer that has a session is
\* closed, whatever its transport.
Duplicate(e) ==
    /\ stage[e] = "waiting" /\ ~ SlotBusy(e)
    /\ Existing(e) # None
    /\ To(e, "gone")
    /\ Close(e)
    /\ UNCHANGED <<session, halted>>

TakeSlot(e) ==
    /\ stage[e] = "waiting" /\ ~ SlotBusy(e)
    /\ Existing(e) = None
    /\ To(e, "loading")
    /\ UNCHANGED <<sock, session, halted>>

\* The slot stays busy for too long: the attempt fails, and its connection is
\* left open.  The next attempt dials anew, or has the same connection if it
\* was accepted or came from Hyperswarm; the second handshake on it times out
\* and closes it.
SlotTimeout(e) ==
    /\ stage[e] = "waiting" /\ SlotBusy(e)
    /\ To(e, "abandoned")
    /\ UNCHANGED <<sock, session, halted>>

SecondHello(e) ==
    /\ stage[e] = "abandoned" /\ e \notin Dialed
    /\ To(e, "gone")
    /\ Close(e)
    /\ UNCHANGED <<session, halted>>

\* The marker cannot be appended, or the cursor not be read: the slot is free
\* again, but such an error is not retried, and the connection is left open.
LoadFails(e) ==
    /\ stage[e] = "loading" /\ e \in Unloadable
    /\ To(e, "failed")
    /\ UNCHANGED <<sock, session, halted>>

\* preferKeepExistingSession: only a session dialed here, over Hyperswarm,
\* gives way, and only to a connection that was not.
PreferKeep(x, e) == x \in Initiated => e \in Initiated

\* attach keeps the session x unless e has the better tier and is preferred.
Keeps(x, e) == Tier[e] >= Tier[x] \/ PreferKeep(x, e)

\* attach, once marker and fetch cursor are read: no session ...
AttachFirst(e) ==
    /\ stage[e] = "loading" /\ Existing(e) = None
    /\ To(e, "live")
    /\ Register(e, e)
    /\ UNCHANGED <<sock, halted>>

\* ... a session that is kept, by tier or by the side that dialed ...
AttachRejected(e) ==
    /\ stage[e] = "loading" /\ Existing(e) # None
    /\ Keeps(Existing(e), e)
    /\ To(e, "gone")
    /\ Close(e)
    /\ UNCHANGED <<session, halted>>

\* ... or one that is replaced.
AttachReplacing(e) ==
    LET x == Existing(e) IN
    /\ stage[e] = "loading" /\ x # None
    /\ ~ Keeps(x, e)
    /\ stage' = [stage EXCEPT ![x] = "ended", ![e] = "live"]
    /\ Close(x)
    /\ Register(e, e)
    /\ UNCHANGED halted

-----------------------------------------------------------------------------
(* Ends of connections *)

\* Mutant of Unregister: the entry of the key goes, whoever it belongs to.
UnregisterKey(e) == Register(e, None)

\* Mutant of Unregister: a dead entry stays in the map.
KeepDeadEntry(e) == IF Existing(e) = e THEN Register(e, <<>>) ELSE UNCHANGED session

\* The close callback: only the session's own entry goes.
Unregister(e) == IF Existing(e) = e THEN Register(e, None) ELSE UNCHANGED session

\* A paused socket is not read: nobody learns that the other side has closed.
Deaf(e) ==
    e \in Pausable /\ stage[e] \in {"waiting", "loading", "abandoned", "failed"}

\* The close event.  A session hears of it, also one that was replaced; before
\* attach nobody listens, and the event does not come again.
CloseEvent(e) ==
    /\ sock[e] = "closing" /\ ~ Deaf(e)
    /\ sock' = [sock EXCEPT ![e] = "closed"]
    /\ \/ /\ stage[e] \in {"live", "ended"}
          /\ Unregister(e)
          /\ To(e, "ended")
       \/ /\ stage[e] \notin {"live", "ended"}
          /\ UNCHANGED <<stage, session>>
    /\ UNCHANGED halted

\* The close travels to the other side.
CloseArrives(e) ==
    /\ sock[e] = "open" /\ sock[Opp[e]] \in {"closing", "closed"}
    /\ Close(e)
    /\ UNCHANGED <<stage, session, halted>>

\* The network drops the connection.
Lose(e) ==
    /\ e \in Fallible /\ sock[e] = "open"
    /\ sock' = [Closing(e) EXCEPT ![Opp[e]] = IF @ = "open" THEN "closing" ELSE @]
    /\ UNCHANGED <<stage, session, halted>>

\* Mutant of Stall: the guard is never armed.
NeverStalls(e) == FALSE /\ UNCHANGED vars

\* SessionStallGuard: the other side has no session that would answer.
Stall(e) ==
    /\ Live(e) /\ ~ Live(Opp[e]) /\ sock[e] = "open"
    /\ Close(e)
    /\ UNCHANGED <<stage, session, halted>>

-----------------------------------------------------------------------------
(* stop() of a node's engine *)

CloseAll(n) ==
    LET mine == {e \in End : At[e] = n /\ Live(e)} IN
    /\ n \in Stopping /\ halted[n] = "up"
    /\ halted' = [halted EXCEPT ![n] = "closed"]
    /\ stage' = [e \in End |-> IF e \in mine THEN "ended" ELSE stage[e]]
    /\ sock' = [e \in End |-> IF e \in mine /\ sock[e] = "open" THEN "closing" ELSE sock[e]]
    /\ session' = [session EXCEPT ![n] = [p \in Peer |-> None]]

\* discovery.stop() destroys the sockets discovery has accepted or opened
\* itself; then the lock of the data directory is released.
DiscoveryStopped(n) ==
    LET known == {e \in End \ Dialed : At[e] = n} IN
    /\ halted[n] = "closed"
    /\ halted' = [halted EXCEPT ![n] = "down"]
    /\ sock' = [e \in End |-> IF e \in known /\ sock[e] = "open" THEN "closing" ELSE sock[e]]
    /\ UNCHANGED <<stage, session>>

-----------------------------------------------------------------------------
Establish(e) ==
    \/ HelloDone(e) \/ HelloTimeout(e) \/ Duplicate(e) \/ TakeSlot(e)
    \/ SlotTimeout(e) \/ SecondHello(e) \/ LoadFails(e)
    \/ AttachFirst(e) \/ AttachRejected(e) \/ AttachReplacing(e)
Ending(e) == CloseEvent(e) \/ CloseArrives(e) \/ Stall(e)

Next ==
    \/ \E e \in End : Connect(e) \/ Establish(e) \/ Ending(e) \/ Lose(e)
    \/ \E n \in Node : CloseAll(n) \/ DiscoveryStopped(n)

Spec == Init /\ [][Next]_vars

-----------------------------------------------------------------------------
(* Properties *)

\* The registry has exactly the sessions that run, so there is one per peer,
\* although two connections to it may be past the duplicate check at
\* the same time, a session may be replaced, and the close event of a session
\* that was replaced comes after its successor has been registered.
SessionsRegistered == \A e \in End : Live(e) <=> Existing(e) = e

\* No session over the LAN whose other side has none lasts: a node that turned
\* the connection away, or gave it up, is not taken for connected.
HalfOpenEnds == []<>(\A e \in Pausable : Live(e) => Live(Opp[e]))
=============================================================================
