--------------------------- MODULE MCAssociations ---------------------------
(***************************************************************************)
(* Instances of Associations for TLC: two nodes and the connections that   *)
(* discovery may bring up between them.  An end is <<connection, node>>.   *)
(***************************************************************************)
EXTENDS Associations

CONSTANTS X, Y

Pair == {X, Y}
Ends == (1..3) \X Pair
AtNode == [e \in Ends |-> e[2]]
Other == [e \in Ends |-> <<e[1], IF e[2] = X THEN Y ELSE X>>]

\* Connections 1 and 3 are on the LAN, 2 goes over Hyperswarm; all of them are
\* dialed by X, the second one for another of its profiles.
LanButSecond == [e \in Ends |-> IF e[1] = 2 THEN 10 ELSE 0]
SecondApart == [e \in Ends |-> IF e = <<2, X>> THEN "second" ELSE "first"]
LanEnds == {e \in Ends : e[1] # 2}
LanDialed == {<<1, X>>, <<3, X>>}
SwarmDialed == {<<2, X>>}
FirstEnds == {e \in Ends : e[1] = 1}
=============================================================================
