--------------------------- MODULE Daemon_proofs ---------------------------
(***************************************************************************)
(* Proofs about the lock of the data directory, and about the daemon that  *)
(* is one of its processes.  First the lock, for any number of processes:  *)
(* types; no lock outlives its engine in a live process; nobody meets his  *)
(* own lock; and, as long as starts do not overlap, exclusion.  Then the   *)
(* daemon: its steps are steps of the lock, so all of that holds there;    *)
(* what it reloads is queued; the engine it runs has the lock; its exit    *)
(* leaves none.                                                            *)
(***************************************************************************)
EXTENDS Daemon, TLAPS

\* Type correctness.
THEOREM LockTypeCorrect == Spec => []TypeOK
<1>1. Init => TypeOK
  BY DEF Init, TypeOK, Resting
<1>2. TypeOK /\ [Next]_vars => TypeOK'
  <2> SUFFICES ASSUME TypeOK, [Next]_vars PROVE TypeOK'
    OBVIOUS
  <2> USE DEF TypeOK, To, Starting, Resting
  <2>1. ASSUME NEW p \in Process, Acquire(p) PROVE TypeOK'
    BY <2>1 DEF Acquire, Create
  <2>2. ASSUME NEW p \in Process, Proceed(p) PROVE TypeOK'
    <3>1. CASE WritePid(p)
      BY <3>1 DEF WritePid
    <3>2. CASE ReadLock(p)
      BY <3>2 DEF ReadLock, PidRead
    <3>3. CASE Judge(p)
      BY <3>3 DEF Judge
    <3>4. CASE Unlink(p)
      BY <3>4 DEF Unlink
    <3>5. CASE Retake(p)
      BY <3>5 DEF Retake, Create
    <3>6. CASE UnlinkOwn(p)
      BY <3>6 DEF UnlinkOwn
    <3>7. QED
      BY <2>2, <3>1, <3>2, <3>3, <3>4, <3>5, <3>6 DEF Proceed
  <2>3. ASSUME NEW p \in Process, Release(p) \/ Die(p) PROVE TypeOK'
    BY <2>3 DEF Release, Die
  <2>4. CASE UNCHANGED vars
    BY <2>4 DEF vars
  <2>5. QED
    BY <2>1, <2>2, <2>3, <2>4 DEF Next
<1>3. QED
  BY <1>1, <1>2, PTL DEF Spec

\* LockNamesHolder is kept together with this: no pid is read from no file.
NoFileNoPid == maker = None => pid = None
Named == NoFileNoPid /\ LockNamesHolder

\* For any number of processes, however their starts overlap and whoever dies:
\* a lock that names a live process is held by that process.
THEOREM NothingLeftBehind == Spec => []LockNamesHolder
<1>1. Init => Named
  BY DEF Init, Named, NoFileNoPid, LockNamesHolder
<1>2. TypeOK /\ Named /\ [Next]_vars => Named'
  <2> SUFFICES ASSUME TypeOK, Named, [Next]_vars PROVE Named'
    OBVIOUS
  <2> USE LockAssumption DEF TypeOK, Named, NoFileNoPid, LockNamesHolder, To, Starting, Resting
  <2>1. ASSUME NEW p \in Process, Acquire(p) PROVE Named'
    BY <2>1 DEF Acquire, Create
  <2>2. ASSUME NEW p \in Process, Proceed(p) PROVE Named'
    <3>1. CASE WritePid(p)
      BY <3>1 DEF WritePid
    <3>2. CASE ReadLock(p)
      BY <3>2 DEF ReadLock
    <3>3. CASE Judge(p)
      BY <3>3 DEF Judge
    <3>4. CASE Unlink(p)
      BY <3>4 DEF Unlink
    <3>5. CASE Retake(p)
      BY <3>5 DEF Retake, Create
    <3>6. CASE UnlinkOwn(p)
      BY <3>6 DEF UnlinkOwn
    <3>7. QED
      BY <2>2, <3>1, <3>2, <3>3, <3>4, <3>5, <3>6 DEF Proceed
  <2>3. ASSUME NEW p \in Process, Release(p) \/ Die(p) PROVE Named'
    BY <2>3 DEF Release, Die
  <2>4. CASE UNCHANGED vars
    BY <2>4 DEF vars
  <2>5. QED
    BY <2>1, <2>2, <2>3, <2>4 DEF Next
<1>3. Named => LockNamesHolder
  BY DEF Named
<1>4. QED
  BY <1>1, <1>2, <1>3, LockTypeCorrect, PTL DEF Spec

-----------------------------------------------------------------------------
(* Exclusion of starts that do not overlap *)

\* One process starts at a time.
OneStarter ==
    \A p, q \in Process : (step[p] \in Starting /\ step[q] \in Starting) => p = q

\* The file is the one its holder, or the process that has just created it,
\* takes it for.
FileIntact ==
    /\ NoFileNoPid
    /\ \A p \in Process :
          /\ step[p] \in {"held", "leaving"} => maker = p /\ pid = p
          /\ step[p] = "opened" => maker = p /\ pid = None

\* What a starting process has concluded from the file is still true of it.
JudgementHolds ==
    \A p \in Process :
        /\ step[p] = "read" => maker = None \/ seen[p] = pid
        /\ step[p] = "stale" => pid = None \/ step[pid] = "dead"

Serial == OneStarter /\ FileIntact /\ JudgementHolds

\* Serial is kept by every step that does not make starts overlap.
LEMMA SerialKept ==
    ASSUME ~ overlapped', TypeOK, Serial, [Next]_vars
    PROVE  Serial'
<1> USE LockAssumption DEF TypeOK, Serial, OneStarter, FileIntact,
        NoFileNoPid, JudgementHolds, To, Starting, Resting
<1>1. ASSUME NEW p \in Process, Acquire(p) PROVE Serial'
  BY <1>1 DEF Acquire, Create
<1>2. ASSUME NEW p \in Process, Proceed(p) PROVE Serial'
  <2>1. CASE WritePid(p)
    BY <2>1 DEF WritePid
  <2>2. CASE ReadLock(p)
    BY <2>2 DEF ReadLock, PidRead
  <2>3. CASE Judge(p)
    BY <2>3 DEF Judge, HolderAlive
  <2>4. CASE Unlink(p)
    BY <2>4 DEF Unlink
  <2>5. CASE Retake(p)
    BY <2>5 DEF Retake, Create
  <2>6. CASE UnlinkOwn(p)
    BY <2>6 DEF UnlinkOwn
  <2>7. QED
    BY <1>2, <2>1, <2>2, <2>3, <2>4, <2>5, <2>6 DEF Proceed
<1>3. ASSUME NEW p \in Process, Release(p) \/ Die(p) PROVE Serial'
  BY <1>3 DEF Release, Die
<1>4. CASE UNCHANGED vars
  BY <1>4 DEF vars
<1>5. QED
  BY <1>1, <1>2, <1>3, <1>4 DEF Next

\* As long as no two starts have overlapped, the file is what its holder and
\* its judges take it for.
LEMMA SerialWhileApart == Spec => [](overlapped \/ Serial)
<1>1. Init => overlapped \/ Serial
  BY DEF Init, Serial, OneStarter, FileIntact, NoFileNoPid, JudgementHolds, Starting
<1>2. TypeOK /\ (overlapped \/ Serial) /\ [Next]_vars => (overlapped \/ Serial)'
  <2> SUFFICES ASSUME TypeOK, overlapped \/ Serial, [Next]_vars, ~ overlapped' PROVE Serial'
    OBVIOUS
  <2>1. ~ overlapped
    BY DEF Next, Acquire, Proceed, WritePid, ReadLock, Judge, Unlink, Retake,
           UnlinkOwn, Release, Die, vars, TypeOK
  <2>2. QED
    BY <2>1, SerialKept
<1>3. QED
  BY <1>1, <1>2, LockTypeCorrect, PTL DEF Spec

\* For any number of processes that crash, stop and start again: when no start
\* begins while another one is under way, at most one process runs the engine.
THEOREM SerialStartsExclude == Spec => []SerialExclusion
<1>1. overlapped \/ Serial => SerialExclusion
  BY DEF Serial, FileIntact, Exclusion, SerialExclusion
<1>2. QED
  BY <1>1, SerialWhileApart, PTL

-----------------------------------------------------------------------------
(* What a start reads at the path *)

\* Nobody is turned away by, or takes for stale, a lock of his own.
Unrivalled ==
    \A p \in Process : step[p] \in {"read", "refused", "stale"} => seen[p] # p

\* What is at the path while a live process probes it names another one, or
\* nobody: its own lock would be held (NothingLeftBehind).
LEMMA NobodyMeetsHimself == Spec => []Unrivalled
<1>1. Init => Unrivalled
  BY DEF Init, Unrivalled
<1>2. TypeOK /\ LockNamesHolder /\ Unrivalled /\ [Next]_vars => Unrivalled'
  <2> SUFFICES ASSUME TypeOK, LockNamesHolder, Unrivalled, [Next]_vars PROVE Unrivalled'
    OBVIOUS
  <2> USE LockAssumption DEF TypeOK, Unrivalled, To, Resting
  <2>1. ASSUME NEW p \in Process, Acquire(p) PROVE Unrivalled'
    BY <2>1 DEF Acquire, Create
  <2>2. ASSUME NEW p \in Process, Proceed(p) PROVE Unrivalled'
    <3>1. CASE ReadLock(p)
      BY <3>1 DEF ReadLock, PidRead, LockNamesHolder
    <3>2. CASE Judge(p)
      BY <3>2 DEF Judge
    <3>3. CASE WritePid(p) \/ Unlink(p) \/ Retake(p) \/ UnlinkOwn(p)
      BY <3>3 DEF WritePid, Unlink, Retake, Create, UnlinkOwn
    <3>4. QED
      BY <2>2, <3>1, <3>2, <3>3 DEF Proceed
  <2>3. ASSUME NEW p \in Process, Release(p) \/ Die(p) PROVE Unrivalled'
    BY <2>3 DEF Release, Die
  <2>4. CASE UNCHANGED vars
    BY <2>4 DEF vars
  <2>5. QED
    BY <2>1, <2>2, <2>3, <2>4 DEF Next
<1>3. QED
  BY <1>1, <1>2, LockTypeCorrect, NothingLeftBehind, PTL DEF Spec

-----------------------------------------------------------------------------
(* The daemon as a process of the lock *)

\* Every step of the daemon is a step of one process on the lock, or none.
LEMMA DaemonSteps ==
    ASSUME [DaemonNext]_allVars
    PROVE  [Next]_vars
<1> USE DaemonAssumption
<1>1. CASE SelfLocks
  BY <1>1 DEF SelfLocks, Next
<1>2. CASE Boot
  BY <1>2 DEF Boot, BootRead, BootProbe
<1>3. CASE Starts
  BY <1>3 DEF Starts, StartInert, StartFails, StartEngine, AcquireFails, Acquired,
              DiscoveryStarts, DiscoveryFails, Undone, Next
<1>4. CASE Watcher
  BY <1>4 DEF Watcher, WatchTimer, WatchStat, WatchRead
<1>5. CASE Reloads
  BY <1>5 DEF Reloads, Reload, ReloadStop, StopHandle, Next
<1>6. CASE Shutdown
  BY <1>6 DEF Shutdown, AwaitReloads, ShutdownStop, ShutdownRelease, StopHandle,
              ReleaseAgain, Next
<1>7. CASE Ends
  BY <1>7 DEF Ends, ExitHook, Exit, Next
<1>8. CASE Hangup \/ Signal \/ Kill
  BY <1>8 DEF Hangup, Signal, Kill, Next
<1>9. ASSUME NEW s \in Source, ChainReload(s) PROVE [Next]_vars
  BY <1>9 DEF ChainReload
<1>10. ASSUME NEW content \in Config \cup {Broken}, Save(content) PROVE [Next]_vars
  BY <1>10 DEF Save
<1>11. ASSUME NEW p \in Process \ {Self}, Other(p) PROVE [Next]_vars
  BY <1>11 DEF Other, Next
<1>12. CASE UNCHANGED allVars
  BY <1>12 DEF allVars
<1>13. QED
  BY <1>1, <1>2, <1>3, <1>4, <1>5, <1>6, <1>7, <1>8, <1>9, <1>10, <1>11, <1>12 DEF DaemonNext

\* However a daemon boots, reloads, fails and ends, what it does to the lock is
\* what a process of DataDirLock does: the theorems above hold of it and of
\* those it competes with.
THEOREM DaemonKeepsLock == DaemonSpec => Spec
<1>1. DaemonInit => Init
  BY DEF DaemonInit
<1>2. QED
  BY <1>1, DaemonSteps, PTL DEF DaemonSpec, Spec

\* What a start of the daemon meets is not the lock of its own engine.
THEOREM ReloadMeetsNoOwnLock == DaemonSpec => []NeverOwnRival
<1>1. Unrivalled => NeverOwnRival
  BY DaemonAssumption DEF Unrivalled, NeverOwnRival
<1>2. QED
  BY <1>1, DaemonKeepsLock, NobodyMeetsHimself, PTL

-----------------------------------------------------------------------------
(* What the daemon does between its calls on the lock *)

Entry == Source \X Config

\* Where a reload may be between the stop of the old engine and the end of the
\* start of the new one.
Reloading == {"stop", "start", "acquire", "discover", "undo"}

\* Once booted, an engine is stopped or started by the reload at the head of the
\* queue, which stays there until it is over; nothing is read before.
ReloadsQueued ==
    /\ task \in {"idle", "stop"} => Booted
    /\ task \in {"boot", "probe"} => ~ Booted
    /\ (Booted /\ task \in Reloading) => queue # <<>>
    /\ \A s \in Source : fetched[s] # None => Booted

\* What the head of a queue of reloads is, and what is left behind it.
LEMMA QueueFacts ==
    ASSUME DaemonTypeOK, queue # <<>>
    PROVE  /\ Head(queue) \in Entry
           /\ Tail(queue) \in Seq(Entry)
           /\ Len(queue) \in Nat /\ Len(queue) > 0
           /\ Len(Tail(queue)) = Len(queue) - 1
BY DEF DaemonTypeOK, Entry

\* The end of a reload keeps the chain and the watcher typed.
LEMMA OverTyped ==
    ASSUME DaemonTypeOK, queue # <<>>, ReloadOver
    PROVE  /\ queue' \in Seq(Entry)
           /\ awaited' \in 0..Len(queue')
           /\ watch' \in {"off", "idle", "reading", "reloading"}
           /\ Booted => Booted'
           /\ UNCHANGED <<rejected, lastMtime>>
<1>1. /\ Tail(queue) \in Seq(Entry)
      /\ Len(queue) \in Nat /\ Len(queue) > 0
      /\ Len(Tail(queue)) = Len(queue) - 1
  BY QueueFacts
<1>2. awaited \in 0..Len(queue)
  BY DEF DaemonTypeOK
<1>3. /\ queue' = Tail(queue)
      /\ awaited' = IF awaited = 0 THEN 0 ELSE awaited - 1
      /\ watch' \in {"idle", watch}
      /\ UNCHANGED <<rejected, lastMtime>>
  BY DEF ReloadOver
<1>4. awaited' \in 0..Len(queue')
  BY <1>1, <1>2, <1>3
<1>5. QED
  BY <1>1, <1>3, <1>4 DEF DaemonTypeOK, Booted

\* What a start that returns, or throws, leaves.
LEMMA StartEndsTyped ==
    ASSUME DaemonTypeOK, ReloadsQueued, task \in Reloading,
           Thrown \/ Started("inert") \/ Started("running")
    PROVE  /\ queue' \in Seq(Entry)
           /\ awaited' \in 0..Len(queue')
           /\ rejected' \in BOOLEAN
           /\ watch' \in {"off", "idle", "reading", "reloading"}
           /\ lastMtime' \in 0..MaxTouches
           /\ engine' \in {"none", "inert", "running", "released"}
           /\ task' \in {"idle", "failed"}
           /\ shutdown' \in {"no", "closing", "waiting", "stopping", "superseded",
                              "exiting", "exited"}
           /\ Booted => Booted'
           /\ task' = "idle" => Booted'
           /\ UNCHANGED <<fileVars, config, noticed, chained, fetched, untimely>>
<1>1. CASE Thrown
  <2>1. UNCHANGED <<fileVars, config, engine, noticed, chained, lastMtime, fetched, shutdown, untimely>>
    BY <1>1 DEF Thrown
  <2>2. CASE ~ Booted /\ task' = "failed" /\ UNCHANGED <<chainVars, watch>>
    BY <2>1, <2>2 DEF DaemonTypeOK, Entry, chainVars
  <2>3. CASE /\ Booted /\ task' = "idle"
             /\ rejected' = TRUE /\ queue' = <<>> /\ awaited' = 0
             /\ watch' = IF watch = "reloading" THEN "idle" ELSE watch
    <3>1. queue' \in Seq(Entry) /\ awaited' \in 0..Len(queue')
      BY <2>3
    <3>2. Booted' /\ watch' \in {"off", "idle", "reading", "reloading"}
      BY <2>3 DEF Booted, DaemonTypeOK
    <3>3. QED
      BY <2>1, <2>3, <3>1, <3>2 DEF DaemonTypeOK
  <2>4. QED
    BY <1>1, <2>2, <2>3 DEF Thrown
<1>2. ASSUME NEW handle \in {"inert", "running"}, Started(handle)
      PROVE  /\ queue' \in Seq(Entry)
             /\ awaited' \in 0..Len(queue')
             /\ rejected' \in BOOLEAN
             /\ watch' \in {"off", "idle", "reading", "reloading"}
             /\ lastMtime' \in 0..MaxTouches
             /\ Booted'
  <2>1. CASE Booted /\ ReloadOver
    <3>1. queue # <<>>
      BY <2>1 DEF ReloadsQueued
    <3>2. QED
      BY <2>1, <3>1, OverTyped DEF DaemonTypeOK
  <2>2. CASE ~ Booted /\ UNCHANGED chainVars /\ watch' = "idle" /\ lastMtime' = mtime
    BY <2>2 DEF DaemonTypeOK, Entry, chainVars, Booted
  <2>3. QED
    BY <1>2, <2>1, <2>2 DEF Started
<1>3. ASSUME NEW handle \in {"inert", "running"}, Started(handle)
      PROVE  /\ engine' = handle /\ task' = "idle"
             /\ shutdown' \in {shutdown, "superseded"}
             /\ UNCHANGED <<fileVars, config, noticed, chained, fetched, untimely>>
  BY <1>3 DEF Started
<1>4. QED
  <2>1. Thrown \/ \E handle \in {"inert", "running"} : Started(handle)
    OBVIOUS
  <2>2. shutdown \in {"no", "closing", "waiting", "stopping", "superseded",
                      "exiting", "exited"}
    BY DEF DaemonTypeOK
  <2>3. ASSUME NEW handle \in {"inert", "running"}, Started(handle)
        PROVE  /\ engine' \in {"none", "inert", "running", "released"}
               /\ task' \in {"idle", "failed"}
               /\ shutdown' \in {"no", "closing", "waiting", "stopping", "superseded",
                                  "exiting", "exited"}
    BY <1>3, <2>2, <2>3
  <2>4. QED
    BY <1>1, <1>2, <1>3, <2>1, <2>3

\* Boot, and the start of an engine, keep the types.
LEMMA StartsTyped ==
    ASSUME DaemonTypeOK, TypeOK', ReloadsQueued, Boot \/ Starts
    PROVE  DaemonTypeOK' /\ ReloadsQueued'
<1> USE DEF fileVars, watchVars, chainVars
<1>1. CASE BootRead \/ BootProbe
  <2>1. /\ task' \in {"probe", "start", "failed"} /\ config' \in Config \cup {config}
        /\ task \in {"boot", "probe"}
        /\ UNCHANGED <<fileVars, engine, watchVars, fetched, chainVars, shutdown, untimely>>
    BY <1>1 DEF BootRead, BootProbe
  <2>2. DaemonTypeOK'
    BY <2>1 DEF DaemonTypeOK
  <2>3. ReloadsQueued'
    BY <2>1 DEF ReloadsQueued, Reloading, Booted
  <2>4. QED
    BY <2>2, <2>3
<1>2. CASE StartEngine \/ Acquired \/ DiscoveryFails
  <2>1. /\ task \in Reloading
        /\ task' \in {"acquire", "discover", "undo"}
        /\ UNCHANGED <<fileVars, config, engine, watchVars, fetched, chainVars, shutdown, untimely>>
    BY <1>2 DEF StartEngine, Acquired, DiscoveryFails, Reloading
  <2>2. DaemonTypeOK'
    BY <2>1 DEF DaemonTypeOK
  <2>3. ReloadsQueued'
    BY <2>1 DEF ReloadsQueued, Reloading, Booted
  <2>4. QED
    BY <2>2, <2>3
<1>3. CASE StartInert \/ StartFails \/ AcquireFails \/ DiscoveryStarts \/ Undone
  <2>1. /\ task \in Reloading
        /\ Thrown \/ Started("inert") \/ Started("running")
    BY <1>3 DEF StartInert, StartFails, AcquireFails, DiscoveryStarts, Undone, Reloading
  <2> DEFINE Kept == /\ UNCHANGED <<fileVars, config, noticed, chained, fetched, untimely>>
                     /\ Booted => Booted'
                     /\ task' \in {"idle", "failed"}
                     /\ task' = "idle" => Booted'
  <2>2. Kept
    BY <2>1, StartEndsTyped
  <2>3. ReloadsQueued'
    BY <2>2 DEF ReloadsQueued, Reloading
  <2>4. DaemonTypeOK'
    <3>1. /\ queue' \in Seq(Entry)
          /\ awaited' \in 0..Len(queue')
          /\ rejected' \in BOOLEAN
          /\ watch' \in {"off", "idle", "reading", "reloading"}
          /\ lastMtime' \in 0..MaxTouches
          /\ engine' \in {"none", "inert", "running", "released"}
          /\ shutdown' \in {"no", "closing", "waiting", "stopping", "superseded",
                             "exiting", "exited"}
      BY <2>1, StartEndsTyped
    <3>2. QED
      BY <2>2, <3>1 DEF DaemonTypeOK, Entry
  <2>5. QED
    BY <2>3, <2>4
<1>4. QED
  BY <1>1, <1>2, <1>3 DEF Boot, Starts

\* What the watcher, SIGHUP and the chain of reloads do keeps the types.
LEMMA ReloadsTyped ==
    ASSUME DaemonTypeOK, TypeOK', ReloadsQueued,
           \/ Watcher \/ Reloads \/ Hangup
           \/ \E s \in Source : ChainReload(s)
           \/ \E content \in Config \cup {Broken} : Save(content)
    PROVE  DaemonTypeOK' /\ ReloadsQueued'
<1> USE DEF fileVars, watchVars, chainVars
<1>1. Parsed \in Config \cup {None} /\ Source = {"watcher", "hangup"}
  BY DEF Parsed, Source
<1> DEFINE Others == <<fileVars, config, task, engine, fetched, chainVars, shutdown, untimely>>
<1>9. CASE WatchTimer
  <2>1. /\ noticed' = FALSE /\ chained' = chained + 1
        /\ UNCHANGED <<watch, lastMtime>> /\ UNCHANGED Others
    BY <1>9 DEF WatchTimer
  <2>2. noticed' \in BOOLEAN /\ chained' \in Nat
    <3>1. noticed' \in BOOLEAN
      BY <2>1, Zenon
    <3>2. chained \in Nat
      BY DEF DaemonTypeOK
    <3>3. chained' \in Nat
      BY <2>1, <3>2
    <3>4. QED
      BY <3>1, <3>3
  <2>3. DaemonTypeOK'
    BY <2>1, <2>2 DEF DaemonTypeOK
  <2>4. ReloadsQueued'
    BY <2>1 DEF ReloadsQueued, Booted
  <2>5. QED
    BY <2>3, <2>4
<1>2. CASE WatchStat
  <2>1. /\ UNCHANGED noticed /\ chained > 0 /\ chained' = chained - 1
        /\ watch = "idle" /\ watch' \in {"idle", "reading"}
        /\ lastMtime' = mtime
        /\ UNCHANGED Others
    BY <1>2 DEF WatchStat
  <2>2. DaemonTypeOK'
    BY <2>1 DEF DaemonTypeOK
  <2>3. ReloadsQueued'
    BY <2>1 DEF ReloadsQueued, Booted
  <2>4. QED
    BY <2>2, <2>3
<1>3. CASE WatchRead
  <2>1. fetched' = [fetched EXCEPT !["watcher"] = Parsed] /\ Booted
    BY <1>3 DEF WatchRead, Booted
  <2>2. fetched' \in [Source -> Config \cup {None}]
    BY <1>1, <2>1 DEF DaemonTypeOK
  <2>3. QED
    BY <1>3, <2>1, <2>2 DEF WatchRead, DaemonTypeOK, ReloadsQueued, Booted
<1>4. CASE Hangup
  <2>1. fetched' = [fetched EXCEPT !["hangup"] = Parsed] /\ Booted
    BY <1>4 DEF Hangup
  <2>2. fetched' \in [Source -> Config \cup {None}]
    BY <1>1, <2>1 DEF DaemonTypeOK
  <2>3. hangups' \in 0..MaxTouches
    BY <1>4, DaemonAssumption DEF Hangup, DaemonTypeOK
  <2>4. QED
    BY <1>4, <2>1, <2>2, <2>3 DEF Hangup, DaemonTypeOK, ReloadsQueued, Booted
<1>5. ASSUME NEW s \in Source, ChainReload(s)
      PROVE  DaemonTypeOK' /\ ReloadsQueued'
  <2>1. fetched[s] \in Config /\ Booted
    BY <1>5 DEF ChainReload, DaemonTypeOK, ReloadsQueued
  <2>2. /\ fetched' \in [Source -> Config \cup {None}]
        /\ Booted'
    BY <1>5, <2>1 DEF ChainReload, DaemonTypeOK, Booted
  <2>3. /\ queue' \in Seq(Entry)
        /\ Len(queue) \in Nat
        /\ Len(queue') \in {Len(queue), Len(queue) + 1}
        /\ queue # <<>> => queue' # <<>>
    <3>1. queue \in Seq(Entry) /\ <<s, fetched[s]>> \in Entry
      BY <2>1 DEF DaemonTypeOK, Entry
    <3>2. queue' = queue \/ queue' = Append(queue, <<s, fetched[s]>>)
      BY <1>5 DEF ChainReload
    <3>3. ASSUME NEW q \in Seq(Entry), NEW e \in Entry
          PROVE  /\ Append(q, e) \in Seq(Entry) /\ Append(q, e) # <<>>
                 /\ Len(q) \in Nat /\ Len(Append(q, e)) = Len(q) + 1
      OBVIOUS
    <3>4. CASE queue' = queue
      BY <3>1, <3>4
    <3>5. QED
      BY <3>1, <3>2, <3>3, <3>4
  <2>4. awaited' \in 0..Len(queue')
    BY <1>5, <2>3 DEF ChainReload, DaemonTypeOK
  <2>5. watch' \in {watch, "idle", "reloading"}
    BY <1>5 DEF ChainReload
  <2>6. UNCHANGED <<fileVars, config, task, engine, noticed, chained, lastMtime, rejected,
                    shutdown, untimely>>
    BY <1>5 DEF ChainReload
  <2>7. DaemonTypeOK'
    BY <2>2, <2>3, <2>4, <2>5, <2>6 DEF DaemonTypeOK, Entry
  <2>8. ReloadsQueued'
    BY <2>1, <2>2, <2>3, <2>6 DEF ReloadsQueued
  <2>9. QED
    BY <2>7, <2>8
<1>6. ASSUME NEW content \in Config \cup {Broken}, Save(content)
      PROVE  DaemonTypeOK' /\ ReloadsQueued'
  <2>1. mtime' \in 0..MaxTouches /\ file' \in Config \cup {Broken}
    BY <1>6, DaemonAssumption DEF Save, DaemonTypeOK
  <2>2. noticed' \in BOOLEAN
    BY <1>6 DEF Save, Notices, DaemonTypeOK
  <2>3. untimely' \in BOOLEAN
    BY <1>6 DEF Save, Untimely, DaemonTypeOK
  <2>4. UNCHANGED <<hangups, config, task, engine, chained, watch, lastMtime, fetched,
                    chainVars, shutdown>>
    BY <1>6 DEF Save
  <2>5. QED
    BY <2>1, <2>2, <2>3, <2>4 DEF DaemonTypeOK, ReloadsQueued, Booted
<1>7. CASE Reload
  <2>1. queue # <<>> /\ task = "idle" /\ Booted
    BY <1>7 DEF Reload, ReloadsQueued
  <2>2. UNCHANGED <<fileVars, config, engine, noticed, chained, fetched, shutdown, untimely>>
    BY <1>7 DEF Reload
  <2>3. CASE ReloadOver /\ UNCHANGED task
    <3>1. Booted'
      BY <2>1, <2>3, OverTyped
    <3>2. DaemonTypeOK'
      BY <2>1, <2>2, <2>3, OverTyped DEF DaemonTypeOK, Entry
    <3>3. ReloadsQueued'
      BY <2>1, <2>3, <3>1 DEF ReloadsQueued, Reloading
    <3>4. QED
      BY <3>2, <3>3
  <2>4. CASE task' = "stop" /\ UNCHANGED <<chainVars, watch, lastMtime>>
    BY <2>1, <2>2, <2>4 DEF DaemonTypeOK, ReloadsQueued, Booted
  <2>5. QED
    BY <1>7, <2>3, <2>4 DEF Reload
<1>8. CASE ReloadStop
  <2>1. Booted /\ queue # <<>> /\ task = "stop"
    BY <1>8 DEF ReloadStop, ReloadsQueued, Reloading
  <2>2. config' \in Config
    BY <1>8, <2>1, QueueFacts DEF ReloadStop, Entry
  <2>3. engine' \in {engine, "released"} /\ task' = "start"
    BY <1>8 DEF ReloadStop, StopHandle
  <2>4. UNCHANGED <<fileVars, watchVars, fetched, chainVars, shutdown, untimely>>
    BY <1>8 DEF ReloadStop
  <2>5. QED
    BY <2>1, <2>2, <2>3, <2>4 DEF DaemonTypeOK, ReloadsQueued, Booted
<1>10. QED
  BY <1>2, <1>3, <1>4, <1>5, <1>6, <1>7, <1>8, <1>9 DEF Watcher, Reloads

\* A signal, shutdown, exit, and what happens on the lock alone keep the types.
LEMMA EndsTyped ==
    ASSUME DaemonTypeOK, TypeOK', ReloadsQueued,
           \/ Shutdown \/ Ends \/ Signal
           \/ UNCHANGED daemonVars
    PROVE  DaemonTypeOK' /\ ReloadsQueued'
<1> USE DEF fileVars, watchVars, chainVars
<1>1. CASE Signal
  BY <1>1 DEF Signal, DaemonTypeOK, ReloadsQueued, Booted
<1>2. CASE AwaitReloads
  BY <1>2 DEF AwaitReloads, DaemonTypeOK, ReloadsQueued, Booted
<1>3. CASE ShutdownStop
  BY <1>3 DEF ShutdownStop, DaemonTypeOK, ReloadsQueued, Booted
<1>4. CASE ShutdownRelease \/ ExitHook \/ Exit
  <2>1. /\ engine' \in {engine, "released"}
        /\ shutdown' \in {shutdown, "exiting", "exited"}
        /\ UNCHANGED <<fileVars, config, task, watchVars, fetched, chainVars, untimely>>
    BY <1>4 DEF ShutdownRelease, StopHandle, ExitHook, Exit
  <2>2. QED
    BY <2>1 DEF DaemonTypeOK, ReloadsQueued, Booted
<1>5. CASE UNCHANGED daemonVars
  BY <1>5 DEF daemonVars, DaemonTypeOK, ReloadsQueued, Booted
<1>6. QED
  BY <1>1, <1>2, <1>3, <1>4, <1>5 DEF Shutdown, Ends

\* Type correctness of the daemon, and with it: whenever an engine is stopped or
\* started after the boot, the reload that does so is still the head of the
\* queue, which is what shutdown waits for.
THEOREM DaemonTypeCorrect == DaemonSpec => [](DaemonTypeOK /\ ReloadsQueued)
<1>1. DaemonInit /\ TypeOK => DaemonTypeOK /\ ReloadsQueued
  <2>1. <<>> \in Seq(Entry) /\ Len(<<>>) = 0
    OBVIOUS
  <2> SUFFICES ASSUME DaemonInit, TypeOK PROVE DaemonTypeOK /\ ReloadsQueued
    OBVIOUS
  <2>2. queue \in Seq(Entry) /\ awaited \in 0..Len(queue)
    BY <2>1 DEF DaemonInit
  <2>3. fetched \in [Source -> Config \cup {None}] /\ \A s \in Source : fetched[s] = None
    BY DEF DaemonInit
  <2>4. DaemonTypeOK
    <3>1. /\ mtime \in 0..MaxTouches /\ hangups \in 0..MaxTouches
          /\ lastMtime \in 0..MaxTouches
      BY DaemonAssumption DEF DaemonInit
    <3>2. noticed \in BOOLEAN /\ rejected \in BOOLEAN /\ untimely \in BOOLEAN
      BY DEF DaemonInit
    <3>3. QED
      BY <2>2, <2>3, <3>1, <3>2 DEF DaemonInit, DaemonTypeOK, Entry
  <2>5. ReloadsQueued
    BY <2>3 DEF DaemonInit, ReloadsQueued, Booted, Reloading
  <2>6. QED
    BY <2>4, <2>5
<1>2. /\ DaemonTypeOK /\ ReloadsQueued /\ TypeOK'
      /\ [DaemonNext]_allVars
      => (DaemonTypeOK /\ ReloadsQueued)'
  <2> SUFFICES ASSUME DaemonTypeOK, ReloadsQueued, TypeOK', [DaemonNext]_allVars
               PROVE  (DaemonTypeOK /\ ReloadsQueued)'
    OBVIOUS
  <2>1. \/ Boot \/ Starts
        \/ Watcher \/ Reloads \/ Hangup
        \/ \E s \in Source : ChainReload(s)
        \/ \E content \in Config \cup {Broken} : Save(content)
        \/ Shutdown \/ Ends \/ Signal \/ UNCHANGED daemonVars
    BY DEF DaemonNext, SelfLocks, Kill, Other, allVars
  <2>2. QED
    BY <2>1, StartsTyped, ReloadsTyped, EndsTyped
<1>3. QED
  BY <1>1, <1>2, DaemonKeepsLock, LockTypeCorrect, PTL DEF DaemonSpec

-----------------------------------------------------------------------------
(* The engine and its lock *)

\* A running engine is between reloads and its process has the lock; one whose
\* discovery is starting has it too, unless the process is ending.
EngineLocked ==
    /\ engine = "running" => task \in {"idle", "stop"} /\ step[Self] \in {"held", "dead"}
    /\ task = "discover" =>
          step[Self] \in {"held", "dead"} \/ shutdown \in {"exiting", "exited"}

\* A process that has exited is dead, and the file does not name it.
ExitedClean == shutdown = "exited" => step[Self] = "dead" /\ pid # Self

\* A dead process stays dead, and no other one writes its pid.
LEMMA DeadStayUnnamed ==
    ASSUME TypeOK, [Next]_vars, NEW p \in Process, step[p] = "dead", pid # p
    PROVE  step'[p] = "dead" /\ pid' # p
<1> USE LockAssumption DEF TypeOK, To, Resting
<1>1. ASSUME NEW q \in Process, Acquire(q) \/ Release(q) \/ Die(q)
      PROVE  step'[p] = "dead" /\ pid' # p
  BY <1>1 DEF Acquire, Create, Release, Die
<1>2. ASSUME NEW q \in Process, Proceed(q)
      PROVE  step'[p] = "dead" /\ pid' # p
  BY <1>2 DEF Proceed, WritePid, ReadLock, Judge, Unlink, Retake, Create, UnlinkOwn
<1>3. CASE UNCHANGED vars
  BY <1>3 DEF vars
<1>4. QED
  BY <1>1, <1>2, <1>3 DEF Next

\* Only Exit ends the shutdown.
LEMMA OnlyExitExits ==
    ASSUME [DaemonNext]_allVars, shutdown' = "exited"
    PROVE  shutdown = "exited" \/ Exit
<1>1. CASE Boot \/ Starts
  BY <1>1 DEF Boot, BootRead, BootProbe, Starts, StartInert, StartFails, StartEngine,
              AcquireFails, Acquired, DiscoveryStarts, DiscoveryFails, Undone, Thrown, Started
<1>2. CASE Watcher \/ Reloads \/ Hangup
  BY <1>2 DEF Watcher, WatchTimer, WatchStat, WatchRead, Reloads, Reload, ReloadStop, Hangup
<1>3. CASE Shutdown \/ Signal \/ Ends
  BY <1>3 DEF Shutdown, AwaitReloads, ShutdownStop, ShutdownRelease, Signal, Ends, ExitHook
<1>4. CASE \/ \E s \in Source : ChainReload(s)
           \/ \E content \in Config \cup {Broken} : Save(content)
  BY <1>4 DEF ChainReload, Save
<1>5. CASE UNCHANGED daemonVars
  BY <1>5 DEF daemonVars
<1>6. QED
  BY <1>1, <1>2, <1>3, <1>4, <1>5 DEF DaemonNext, SelfLocks, Kill, Other, allVars

\* A process that exits has run its exit hook, so the file that would name it is
\* gone, and stays gone.
LEMMA ExitedCleanKept ==
    ASSUME TypeOK, LockNamesHolder, ExitedClean, [DaemonNext]_allVars
    PROVE  ExitedClean'
<1> SUFFICES ASSUME shutdown' = "exited" PROVE step'[Self] = "dead" /\ pid' # Self
  BY DEF ExitedClean
<1>1. Self \in Process
  BY DaemonAssumption
<1>2. CASE shutdown = "exited"
  BY <1>1, <1>2, DaemonSteps, DeadStayUnnamed DEF ExitedClean
<1>3. CASE Exit
  <2>1. pid # Self
    BY <1>1, <1>3, LockAssumption DEF Exit, HooksRun, Resting, LockNamesHolder
  <2>2. QED
    BY <1>1, <1>3, <2>1 DEF Exit, Die, To, TypeOK
<1>4. QED
  BY <1>2, <1>3, OnlyExitExits

\* Steps of the lock that are not the daemon's own calls of release leave its
\* lock alone.
LEMMA OthersLeaveLock ==
    ASSUME TypeOK, step[Self] \in {"held", "dead"},
           SelfLocks \/ Kill \/ \E p \in Process \ {Self} : Other(p)
    PROVE  step'[Self] \in {"held", "dead"}
<1> USE DaemonAssumption DEF TypeOK, To
<1>1. CASE SelfLocks
  BY <1>1 DEF SelfLocks, Proceed, WritePid, ReadLock, Judge, Unlink, Retake, UnlinkOwn
<1>2. CASE Kill
  BY <1>2 DEF Kill, Die
<1>3. ASSUME NEW p \in Process \ {Self}, Other(p) PROVE step'[Self] \in {"held", "dead"}
  BY <1>3 DEF Other, Acquire, Create, Proceed, WritePid, ReadLock, Judge, Unlink, Retake,
              UnlinkOwn, Release, Die
<1>4. QED
  BY <1>1, <1>2, <1>3

\* No step of the daemon leaves an engine running without the lock.
LEMMA EngineLockedKept ==
    ASSUME TypeOK, ReloadsQueued, EngineLocked, ExitedClean, [DaemonNext]_allVars
    PROVE  EngineLocked'
<1> USE DaemonAssumption DEF EngineLocked
<1>1. CASE Boot
  BY <1>1 DEF Boot, BootRead, BootProbe, vars
<1>2. CASE Starts
  <2>1. CASE StartInert \/ StartFails \/ AcquireFails \/ Undone
    BY <2>1 DEF StartInert, StartFails, AcquireFails, Undone, Thrown, Started, vars
  <2>2. CASE StartEngine
    BY <2>2 DEF StartEngine
  <2>3. CASE Acquired
    BY <2>3 DEF Acquired, vars
  <2>4. CASE DiscoveryStarts
    <3>1. step[Self] = "held"
      BY <2>4 DEF DiscoveryStarts, Free, Ending, ExitedClean, Resting
    <3>2. QED
      BY <2>4, <3>1 DEF DiscoveryStarts, Started, vars
  <2>5. CASE DiscoveryFails
    BY <2>5 DEF DiscoveryFails
  <2>6. QED
    BY <1>2, <2>1, <2>2, <2>3, <2>4, <2>5 DEF Starts
<1>3. CASE Watcher \/ Hangup \/ Signal
  BY <1>3 DEF Watcher, WatchTimer, WatchStat, WatchRead, Hangup, Signal, vars
<1>4. CASE Reloads
  BY <1>4 DEF Reloads, Reload, ReloadStop, StopHandle, vars
<1>5. CASE Shutdown
  BY <1>5 DEF Shutdown, AwaitReloads, ShutdownStop, ShutdownRelease, StopHandle,
              ReleaseAgain, vars
<1>6. CASE Ends
  <2>1. CASE ExitHook
    BY <2>1 DEF ExitHook, Ending
  <2>2. CASE Exit
    BY <2>2 DEF Exit, Die, To, TypeOK
  <2>3. QED
    BY <1>6, <2>1, <2>2 DEF Ends
<1>7. CASE \/ \E s \in Source : ChainReload(s)
           \/ \E content \in Config \cup {Broken} : Save(content)
  BY <1>7 DEF ChainReload, Save, vars
<1>8. CASE SelfLocks \/ Kill \/ \E p \in Process \ {Self} : Other(p)
  <2>1. UNCHANGED <<engine, task, shutdown>>
    BY <1>8 DEF SelfLocks, Kill, Other, daemonVars
  <2>2. QED
    BY <1>8, <2>1, OthersLeaveLock
<1>9. CASE UNCHANGED allVars
  BY <1>9 DEF allVars, vars, daemonVars
<1>10. QED
  BY <1>1, <1>2, <1>3, <1>4, <1>5, <1>6, <1>7, <1>8, <1>9 DEF DaemonNext

\* Both hold always.
LEMMA EngineAndExit == DaemonSpec => [](EngineLocked /\ ExitedClean)
<1>1. DaemonInit => EngineLocked /\ ExitedClean
  BY DEF DaemonInit, EngineLocked, ExitedClean
<1>2. /\ TypeOK /\ LockNamesHolder /\ ReloadsQueued
      /\ EngineLocked /\ ExitedClean /\ [DaemonNext]_allVars
      => (EngineLocked /\ ExitedClean)'
  BY EngineLockedKept, ExitedCleanKept
<1>3. QED
  BY <1>1, <1>2, DaemonKeepsLock, LockTypeCorrect, NothingLeftBehind, DaemonTypeCorrect,
     PTL DEF DaemonSpec

\* Whatever is reloaded, fails to start or is stopped twice: an engine that runs
\* in a live process has the lock, and if no two starts have overlapped, the
\* file says so.
THEOREM EngineHasLock == DaemonSpec => []EngineHoldsLock
<1>1. EngineLocked /\ (overlapped \/ Serial) => EngineHoldsLock
  BY DaemonAssumption DEF EngineLocked, EngineHoldsLock, Alive, Serial, FileIntact
<1>2. QED
  BY <1>1, EngineAndExit, DaemonKeepsLock, SerialWhileApart, PTL

\* A daemon that has exited, after a signal or a boot that failed, has left no
\* lock that names it, and none comes back.
THEOREM ExitLeavesNoLock == DaemonSpec => []CleanExit
<1>1. ExitedClean => CleanExit
  BY DEF ExitedClean, CleanExit
<1>2. QED
  BY <1>1, EngineAndExit, PTL
=============================================================================
