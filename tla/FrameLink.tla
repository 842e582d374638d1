----------------------------- MODULE FrameLink -----------------------------
(***************************************************************************)
(* What a session expects of its connection: the frames and block streams  *)
(* the other side has written, each once and in the order of writing.      *)
(* BlockExchange (link) and ResumeWalk (toServer, toWalker) take it for    *)
(* granted; StreamReceive, which cuts them out of chunks of bytes, is      *)
(* shown to implement it.  A link that has lost some of them is broken:    *)
(* those it delivers are still in order.                                   *)
(***************************************************************************)
EXTENDS Naturals, Sequences

CONSTANT Count        \* frames and block streams written, 1..Count

VARIABLES
    delivered,        \* those a session has taken, in its order
    broken            \* some of them may be missing

Init == delivered = <<>> /\ broken = FALSE

\* One more, or several in one step.
Deliver ==
    /\ ~ broken
    /\ \E n \in Len(delivered)..Count : delivered' = [i \in 1..n |-> i]
    /\ UNCHANGED broken

Break == broken' = TRUE /\ UNCHANGED delivered

\* Later ones than those before, none of them twice.
DeliverLate ==
    /\ broken
    /\ \E n \in Len(delivered)..Count :
          /\ delivered' \in [1..n -> 1..Count]
          /\ \A i \in 1..Len(delivered) : delivered'[i] = delivered[i]
          /\ \A i, j \in 1..n : i < j => delivered'[i] < delivered'[j]
    /\ UNCHANGED broken

Next == Deliver \/ Break \/ DeliverLate

Spec == Init /\ [][Next]_<<delivered, broken>>
=============================================================================
