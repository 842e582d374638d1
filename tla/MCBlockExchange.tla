-------------------------- MODULE MCBlockExchange --------------------------
(***************************************************************************)
(* Instances of BlockExchange for TLC.  An end is <<association, node>>;   *)
(* an association is given by the pair of nodes it joins.                  *)
(***************************************************************************)
EXTENDS BlockExchange, TLC

CONSTANTS A, B, C, b1, v1

EndsOf(links) == {<<a, n>> : a \in DOMAIN links, n \in {A, B, C}}
                    \cap UNION {{<<a, n>> : n \in links[a]} : a \in DOMAIN links}
AtOf(links) == [e \in EndsOf(links) |-> e[2]]
OppOf(links) == [e \in EndsOf(links) |->
                    <<e[1], CHOOSE n \in links[e[1]] : n # e[2]>>]

\* Two processes that meet once.
Pair == <<{A, B}>>
\* A node between two others: a chain when the block starts at one end, a hub
\* with two servers when it starts at both.
Line == <<{A, B}, {B, C}>>

PairEnd == EndsOf(Pair)
PairAt == AtOf(Pair)
PairOpp == OppOf(Pair)
LineEnd == EndsOf(Line)
LineAt == AtOf(Line)
LineOpp == OppOf(Line)

Held(atA, atB, atC) ==
    [n \in Node |-> IF n = A THEN atA ELSE IF n = B THEN atB ELSE atC]

Nothing == Held({}, {}, {})
BlockAtA == Held({b1}, {}, {})
BlockAtB == Held({}, {b1}, {})
BlockAtAC == Held({b1}, {}, {b1})
EventAtA == Held({b1, v1}, {}, {})

\* The block is at one end of a line, at both ends, or in the middle.
OneEnd == {BlockAtA}
Anywhere == {BlockAtA, BlockAtAC, BlockAtB}

\* The node in the middle may lose its file.
MiddleLoses == {<<B, b1>>}

NoEvent == <<>>
OneEvent == v1 :> {b1}
FirstLine == {e \in LineEnd : e[1] = 1}
=============================================================================
