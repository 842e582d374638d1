--------------------------- MODULE MCDataDirLock ---------------------------
(* Instances of DataDirLock for TLC.                                       *)
EXTENDS DataDirLock

CONSTANTS p1, p2, p3
=============================================================================
