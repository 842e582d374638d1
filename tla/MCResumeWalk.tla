---------------------------- MODULE MCResumeWalk ----------------------------
(* Instances of ResumeWalk for TLC: which entries are readable, and which  *)
(* sessions may be lost.                                                   *)
EXTENDS ResumeWalk

All == 1..Last
\* The object of the first entry is gone.
AllButFirst == (1..Last) \ {1}
First == {1}
Second == {2}
Third == {3}
=============================================================================
