-------------------------- MODULE MCStreamReceive --------------------------
(* Instances of StreamReceive for TLC: what the other side writes.         *)
EXTENDS StreamReceive

\* A hello, a frame, a block of three batches, a frame, a block of one.
Five == <<"hello", "frame", "block", "frame", "block">>
FiveSizes == <<1, 1, 1, 2, 1>>
FiveBodies == <<0, 0, 5, 0, 1>>
\* A hello and the two requests of an attach.
Three == <<"hello", "frame", "frame">>
ThreeSizes == <<1, 1, 1>>
ThreeBodies == <<0, 0, 0>>

Starts[i \in 1..(Count + 1)] ==
    IF i = 1 THEN 0
    ELSE Starts[i - 1] + LengthLen + Size[i - 1] + Body[i - 1]

\* Everything is written, or the other side falls silent in the first block, or
\* behind the frame after it.
AllOrCut == {Starts[Count + 1], Starts[4] - 1, Starts[5]}
All == {Starts[Count + 1]}
=============================================================================
