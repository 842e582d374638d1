------------------------------ MODULE Replicas ------------------------------
(***************************************************************************)
(* What processes that exchange objects promise, whatever fails: what is   *)
(* new to a process was written by its own application, or is copied from  *)
(* one it is associated with and that has had it.  What a process has had  *)
(* it does not forget, and it can read it, unless the file was removed.    *)
(***************************************************************************)
CONSTANTS
    Node,
    Object,
    Peers,       \* pairs of nodes that an association joins
    First,       \* what the nodes may hold to begin with
    Author,      \* what the application of a node may write
    Evictable    \* pairs of a node and an object whose file may be removed

VARIABLES
    had,         \* the objects a node has had
    readable     \* those it can read

Init == readable \in First /\ had = readable

Add(n, S) ==
    /\ had' = [had EXCEPT ![n] = @ \cup S]
    /\ readable' = [readable EXCEPT ![n] = @ \cup S]

Write(n, o) == o \in Author[n] /\ Add(n, {o})

Copy(m, n, S) == S \subseteq had[m] /\ Add(n, S)

Evict(n, o) ==
    /\ <<n, o>> \in Evictable
    /\ readable' = [readable EXCEPT ![n] = @ \ {o}]
    /\ UNCHANGED had

Next ==
    \/ \E n \in Node, o \in Object : Write(n, o) \/ Evict(n, o)
    \/ \E p \in Peers, S \in SUBSET Object : Copy(p[1], p[2], S)

Spec == Init /\ [][Next]_<<had, readable>>
=============================================================================
