----------------------------- MODULE MCLanDial -----------------------------
(***************************************************************************)
(* Instances of LanDial for TLC: X dials Y, whose key is higher; some of   *)
(* the connections are its dials, the others come from Hyperswarm.  An end *)
(* is <<connection, node>>.                                                *)
(***************************************************************************)
EXTENDS LanDial

CONSTANTS X, Y

Pair == {X, Y}
Ends == (1..3) \X Pair
AtNode == [e \in Ends |-> e[2]]
Other == [e \in Ends |-> <<e[1], IF e[2] = X THEN Y ELSE X>>]

\* Connection 1 goes over Hyperswarm, dialed by X for its second profile; the
\* others are dials over the LAN.
SwarmThenLan == [e \in Ends |-> IF e[1] = 1 THEN 10 ELSE 0]
FirstApart == [e \in Ends |-> CASE e[2] = Y -> "friend" [] e = <<1, X>> -> "second"
                                [] OTHER -> "active"]
LanEnds == {e \in Ends : e[1] > 1}
LanDialed == {<<2, X>>, <<3, X>>}
SwarmDialed == {<<1, X>>}

TwoAndOne == [n \in Pair |-> IF n = X THEN {"active", "second"} ELSE {"friend"}]
ActiveOf == [n \in Pair |-> IF n = X THEN "active" ELSE "friend"]
XLower == [k \in Pair \cup {"active", "second", "friend"} |->
              IF k \in {Y, "friend"} THEN 2 ELSE 1]

\* The Hyperswarm connection and the first dial may be lost, and the connect
\* of that dial may fail.
FirstTwo == {e \in Ends : e[1] < 3}
FirstDial == {<<2, X>>}

\* The disk may fail both nodes on the first dial.
FirstLoads == {<<2, X>>, <<2, Y>>}
=============================================================================
