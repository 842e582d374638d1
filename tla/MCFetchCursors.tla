--------------------------- MODULE MCFetchCursors ---------------------------
(* Two profiles at one instance, one at another.                           *)
EXTENDS FetchCursors, TLC

CONSTANTS a1, b1, a2, i1, i2, old, new

TwoInstances == a1 :> i1 @@ b1 :> i1 @@ a2 :> i2
SomeLegacy == a1 :> old @@ b1 :> NoCursor @@ a2 :> old
AnyOrder == Permutations(Getter)
=============================================================================
