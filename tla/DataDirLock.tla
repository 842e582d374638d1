---------------------------- MODULE DataDirLock ----------------------------
(***************************************************************************)
(* The sync-singleton lock of a data directory (node/dataDirLock.ts): a    *)
(* file that names the pid of its holder.  The functions are synchronous,  *)
(* but every call on the file is a system call of its own, and processes   *)
(* interleave between them.                                                *)
(*                                                                         *)
(* The lock file is the pair of the process that created it and the pid    *)
(* written into it so far.  A member of Process is a pid; pids are not     *)
(* used again.  Timestamps, and a data directory that is undefined (no     *)
(* lock then), are left out.                                               *)
(***************************************************************************)
CONSTANTS
    Process,
    None       \* no file, or no pid

ASSUME LockAssumption == None \notin Process

VARIABLES
    maker,  \* who created the lock file, None without a file
    pid,    \* the pid it names, None while it is empty
    step,   \* where a process is in acquireSyncLock or release
    seen,   \* the pid probeSyncLock has read
    overlapped \* history: a start has begun while another was under way

vars == <<maker, pid, step, seen, overlapped>>

Starting == {"opened", "blocked", "read", "stale", "unlinked"}
Resting == {"idle", "refused", "failed"}

TypeOK ==
    /\ maker \in Process \cup {None}
    /\ pid \in Process \cup {None}
    /\ step \in [Process -> Starting \cup Resting \cup {"held", "leaving", "dead"}]
    /\ seen \in [Process -> Process \cup {None}]
    /\ overlapped \in BOOLEAN

Init ==
    /\ maker = None
    /\ pid = None
    /\ step = [p \in Process |-> "idle"]
    /\ seen = [p \in Process |-> None]
    /\ overlapped = FALSE

To(p, s) == step' = [step EXCEPT ![p] = s]

-----------------------------------------------------------------------------
\* takeLock: open with `wx' creates the file or fails with EEXIST.
Create(p) ==
    /\ maker = None
    /\ maker' = p
    /\ pid' = None
    /\ To(p, "opened")

Acquire(p) ==
    /\ step[p] \in Resting
    /\ overlapped' = (overlapped \/ \E q \in Process : step[q] \in Starting)
    /\ \/ Create(p)
       \/ maker # None /\ To(p, "blocked") /\ UNCHANGED <<maker, pid>>
    /\ UNCHANGED seen

\* takeLock: the pid goes into the file that was opened; if that file has been
\* unlinked since, the one at the path stays as it is.
WritePid(p) ==
    /\ step[p] = "opened"
    /\ pid' = IF maker = p THEN p ELSE pid
    /\ To(p, "held")
    /\ UNCHANGED <<maker, seen, overlapped>>

\* parseLockContents: an empty file names nobody, like a missing one.
PidRead == pid

\* probeSyncLock: the file is read.
ReadLock(p) ==
    /\ step[p] = "blocked"
    /\ seen' = [seen EXCEPT ![p] = PidRead]
    /\ To(p, "read")
    /\ UNCHANGED <<maker, pid, overlapped>>

\* Mutant of HolderAlive: EPERM is taken for a dead process.
SignallableAlive(p) == seen[p] = p

\* Mutant of HolderAlive: the file alone counts.
FileNamesHolder(p) == seen[p] # None

\* isPidAlive.
HolderAlive(p) == seen[p] # None /\ step[seen[p]] # "dead"

\* SyncAlreadyRunningError, or a stale lock.
Judge(p) ==
    /\ step[p] = "read"
    /\ To(p, IF HolderAlive(p) THEN "refused" ELSE "stale")
    /\ UNCHANGED <<maker, pid, seen, overlapped>>

\* A stale lock is unlinked; ENOENT is not caught.
Unlink(p) ==
    /\ step[p] = "stale"
    /\ \/ maker # None /\ To(p, "unlinked")
       \/ maker = None /\ To(p, "failed")
    /\ maker' = None
    /\ pid' = None
    /\ UNCHANGED <<seen, overlapped>>

\* takeLock again; its second EEXIST is not caught.
Retake(p) ==
    /\ step[p] = "unlinked"
    /\ \/ Create(p)
       \/ maker # None /\ To(p, "failed") /\ UNCHANGED <<maker, pid>>
    /\ UNCHANGED <<seen, overlapped>>

\* Mutant of Release: the file is left behind.
ReleaseForgets(p) ==
    /\ step[p] = "held"
    /\ To(p, "idle")
    /\ UNCHANGED <<maker, pid, seen, overlapped>>

\* release, called by stop(), by a start that failed in discovery, or by the
\* exit hook: only a file with the own pid is removed ...
Release(p) ==
    /\ step[p] = "held"
    /\ To(p, IF maker # None /\ pid = p THEN "leaving" ELSE "idle")
    /\ UNCHANGED <<maker, pid, seen, overlapped>>

\* ... but whatever is at the path by then.
UnlinkOwn(p) ==
    /\ step[p] = "leaving"
    /\ maker' = None
    /\ pid' = None
    /\ To(p, "idle")
    /\ UNCHANGED <<seen, overlapped>>

\* A process is killed, between any two system calls.
Die(p) ==
    /\ step[p] # "dead"
    /\ To(p, "dead")
    /\ UNCHANGED <<maker, pid, seen, overlapped>>

Proceed(p) ==
    \/ WritePid(p) \/ ReadLock(p) \/ Judge(p) \/ Unlink(p) \/ Retake(p) \/ UnlinkOwn(p)

Next == \E p \in Process : Acquire(p) \/ Proceed(p) \/ Release(p) \/ Die(p)

Spec == Init /\ [][Next]_vars

\* A process that has begun to start or to release goes on.
FairSpec == Spec /\ \A p \in Process : WF_vars(Proceed(p))

-----------------------------------------------------------------------------
(* Properties *)

\* dataDirLock.ts:8 "At most one process may run the Nearbytes sync engine
\* against a given `dataDir` at any time."  The engine runs from the return of
\* acquireSyncLock until release.
Exclusion ==
    \A p, q \in Process : (step[p] = "held" /\ step[q] = "held") => p = q

\* The same, as long as no start has begun while another one was under way:
\* then whatever is killed, stopped or left behind in between, the lock does
\* what its header promises.
SerialExclusion == overlapped \/ Exclusion

\* A lock that names a live process is held by it: an engine that is stopped, or
\* whose lock was replaced, leaves nothing behind that refuses later starts.
LockNamesHolder ==
    (pid # None /\ step[pid] # "dead") => step[pid] \in {"held", "leaving"}

\* Crashed processes do not keep a start away: a start that meets a lock file,
\* written or empty, while every other process is dead ends with the lock.  (A
\* file that its holder removes during the probe is another matter: unlinkSync
\* throws ENOENT then.)
CrashesForgotten ==
    \A p \in Process :
        (/\ step[p] \in {"blocked", "read", "stale"} /\ maker # None
         /\ \A q \in Process \ {p} : step[q] = "dead")
            ~> step[p] \in {"held", "dead"}
=============================================================================
