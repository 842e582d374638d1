----------------------------- MODULE CursorMap -----------------------------
(***************************************************************************)
(* What a session may expect of the store of fetch cursors: for a remote   *)
(* it has a cursor that was put for this remote, or the one it began with. *)
(* The store may forget and fall back to that one, which costs a longer    *)
(* resume walk; it never has the cursor of another remote, nor one nobody  *)
(* has put, which would make a walk skip entries.                          *)
(***************************************************************************)
CONSTANTS
    Remote,      \* whose cursors they are
    Cursor,
    First        \* of each remote, the cursor to begin with

VARIABLES
    given,       \* pairs of a remote and a cursor that were put
    cursor       \* what the store has for each remote

Init == given = {} /\ cursor = First

Give(r, c) == given' = given \cup {<<r, c>>} /\ UNCHANGED cursor

\* A cursor that was given is stored, if there is one, and some are forgotten.
Store(New, R) ==
    /\ New \subseteq given
    /\ cursor' \in [Remote -> {cursor[r] : r \in Remote} \cup {First[r] : r \in Remote}
                              \cup {p[2] : p \in New}]
    /\ \A r \in Remote :
          \/ <<r, cursor'[r]>> \in New
          \/ cursor'[r] = IF r \in R THEN First[r] ELSE cursor[r]
    /\ UNCHANGED given

Next ==
    \/ \E r \in Remote, c \in Cursor : Give(r, c)
    \/ \E New \in {{}} \cup {{p} : p \in given}, R \in SUBSET Remote : Store(New, R)

Spec == Init /\ [][Next]_<<given, cursor>>
=============================================================================
