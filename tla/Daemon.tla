------------------------------- MODULE Daemon -------------------------------
(***************************************************************************)
(* The sync daemon (node/daemon.ts): one process that boots an engine from *)
(* a configuration file, replaces it when the file changes or on SIGHUP,   *)
(* and stops it on SIGTERM.  The engine holds the lock of the data         *)
(* directory: the daemon is the process Self of DataDirLock, whose lock    *)
(* calls are made from here, and the other processes compete with it.      *)
(*                                                                         *)
(* acquireSyncLock and release are synchronous: the process does nothing   *)
(* else while it is in one of them.  A save gives the file a new mtime and *)
(* is noticed by fs.watch.  Left out: the state beacon, the watcher of the *)
(* data directory, and a change of the data directory (it is ignored).     *)
(***************************************************************************)
EXTENDS DataDirLock, Naturals, Sequences

CONSTANTS
    Self,      \* the daemon
    Config,    \* configurations, as configsEquivalent tells them apart
    Inert,     \* those without a profile: no engine, no lock
    Broken,    \* a file that readDaemonConfig refuses
    MaxTouches \* bound: saves of the file and SIGHUPs together, one SIGHUP at a time

ASSUME DaemonAssumption ==
    /\ Self \in Process
    /\ Inert \subseteq Config
    /\ Broken \notin Config /\ None \notin Config
    /\ MaxTouches \in Nat

Source == {"watcher", "hangup"}

VARIABLES
    file,      \* content of the configuration file
    mtime,     \* its mtime: the number of saves
    hangups,   \* SIGHUPs so far
    config,    \* the configuration the daemon goes by
    task,      \* where runDaemon or applyReload is
    engine,    \* of the handle `sync': none, inert, running, or released
    noticed,   \* the debounce timer of the watcher runs
    chained,   \* the watcher's tasks that wait for their turn (chain)
    watch,     \* the watcher's task: off, idle, reading, reloading
    lastMtime, \* lastMtimeMs
    fetched,   \* what the watcher's task and the SIGHUP handler have read
    queue,     \* reloadInFlight: reloads chained, the one in progress first
    rejected,  \* reloadInFlight is a rejected promise
    awaited,   \* reloads shutdown still waits for
    shutdown,  \* where shutdown is
    untimely   \* history: a save that nothing looks at again, see Untimely

fileVars == <<file, mtime, hangups>>
watchVars == <<noticed, chained, watch, lastMtime>>
chainVars == <<queue, rejected, awaited>>
daemonVars == <<fileVars, config, task, engine, watchVars, fetched, chainVars,
                shutdown, untimely>>
allVars == <<vars, daemonVars>>

DaemonTypeOK ==
    /\ TypeOK
    /\ file \in Config \cup {Broken}
    /\ mtime \in 0..MaxTouches
    /\ hangups \in 0..MaxTouches
    /\ config \in Config \cup {None}
    /\ task \in {"boot", "probe", "start", "acquire", "discover", "undo", "idle",
                 "stop", "failed"}
    /\ engine \in {"none", "inert", "running", "released"}
    /\ noticed \in BOOLEAN
    /\ chained \in Nat
    /\ watch \in {"off", "idle", "reading", "reloading"}
    /\ lastMtime \in 0..MaxTouches
    /\ fetched \in [Source -> Config \cup {None}]
    /\ queue \in Seq(Source \X Config)
    /\ rejected \in BOOLEAN
    /\ awaited \in 0..Len(queue)
    /\ shutdown \in {"no", "closing", "waiting", "stopping", "superseded",
                     "exiting", "exited"}
    /\ untimely \in BOOLEAN

DaemonInit ==
    /\ Init
    /\ file \in Config
    /\ mtime = 0 /\ hangups = 0
    /\ config = None
    /\ task = "boot"
    /\ engine = "none"
    /\ noticed = FALSE /\ chained = 0 /\ watch = "off" /\ lastMtime = 0
    /\ fetched = [s \in Source |-> None]
    /\ queue = <<>> /\ rejected = FALSE /\ awaited = 0
    /\ shutdown = "no"
    /\ untimely = FALSE

Booted == watch # "off"
\* process.exit: from the CLI after a boot that failed, or from shutdown.
Ending == task = "failed" \/ shutdown = "exiting"
\* A callback can run: the process lives and is not in the synchronous part of start().
Free == ~ Ending /\ task # "acquire" /\ step[Self] \in Resting \cup {"held"}

-----------------------------------------------------------------------------
(* Boot, and the start of an engine by the boot or by a reload *)

BootRead ==
    /\ task = "boot" /\ Free
    /\ \/ file \in Config /\ config' = file /\ task' = "probe"
       \/ file = Broken /\ task' = "failed" /\ UNCHANGED config
    /\ UNCHANGED <<vars, fileVars, engine, watchVars, fetched, chainVars, shutdown, untimely>>

\* The daemon refuses to boot beside a live holder of the lock.
BootProbe ==
    /\ task = "probe" /\ Free
    /\ task' = IF PidRead # None /\ step[PidRead] # "dead" THEN "failed" ELSE "start"
    /\ UNCHANGED <<vars, fileVars, config, engine, watchVars, fetched, chainVars,
                   shutdown, untimely>>

\* A reload is over: shutdown has one less to wait for, and the watcher's task,
\* if the reload is its own, ends.
ReloadOver ==
    /\ queue' = Tail(queue)
    /\ awaited' = IF awaited = 0 THEN 0 ELSE awaited - 1
    /\ watch' = IF Head(queue)[1] = "watcher" THEN "idle" ELSE watch
    /\ UNCHANGED <<rejected, lastMtime>>

\* start() returns a handle.  After the first one the daemon watches its file,
\* from the mtime it has by now.  A handle that shutdown is stopping is the
\* previous one from here on.
Started(handle) ==
    /\ engine' = handle
    /\ task' = "idle"
    /\ \/ Booted /\ ReloadOver
       \/ /\ ~ Booted /\ UNCHANGED chainVars
          /\ watch' = "idle" /\ lastMtime' = mtime
    /\ shutdown' = IF shutdown = "stopping" THEN "superseded" ELSE shutdown
    /\ UNCHANGED <<fileVars, config, noticed, chained, fetched, untimely>>

\* start() throws: the boot ends the process; a reload leaves reloadInFlight
\* rejected, and with it everything chained to it.
Thrown ==
    /\ \/ ~ Booted /\ task' = "failed" /\ UNCHANGED <<chainVars, watch>>
       \/ /\ Booted /\ task' = "idle"
          /\ rejected' = TRUE /\ queue' = <<>> /\ awaited' = 0
          /\ watch' = IF watch = "reloading" THEN "idle" ELSE watch
    /\ UNCHANGED <<fileVars, config, engine, noticed, chained, lastMtime, fetched,
                   shutdown, untimely>>

StartInert ==
    /\ task = "start" /\ Free /\ config \in Inert
    /\ Started("inert")
    /\ UNCHANGED vars

\* A secret that is refused, or a marker that cannot be appended.
StartFails ==
    /\ task = "start" /\ Free /\ config \notin Inert
    /\ Thrown
    /\ UNCHANGED vars

StartEngine ==
    /\ task = "start" /\ Free /\ config \notin Inert
    /\ Acquire(Self)
    /\ task' = "acquire"
    /\ UNCHANGED <<fileVars, config, engine, watchVars, fetched, chainVars, shutdown, untimely>>

\* acquireSyncLock throws, or the node id or the instance identity cannot be
\* loaded: then the lock stays taken.
AcquireFails ==
    /\ task = "acquire" /\ step[Self] \in {"refused", "failed", "held"}
    /\ Thrown
    /\ UNCHANGED vars

Acquired ==
    /\ task = "acquire" /\ step[Self] = "held"
    /\ task' = "discover"
    /\ UNCHANGED <<vars, fileVars, config, engine, watchVars, fetched, chainVars,
                   shutdown, untimely>>

DiscoveryStarts ==
    /\ task = "discover" /\ Free
    /\ Started("running")
    /\ UNCHANGED vars

\* Discovery does not start: the lock is released and the error thrown again.
DiscoveryFails ==
    /\ task = "discover" /\ Free
    /\ Release(Self)
    /\ task' = "undo"
    /\ UNCHANGED <<fileVars, config, engine, watchVars, fetched, chainVars, shutdown, untimely>>

Undone ==
    /\ task = "undo" /\ Free
    /\ Thrown
    /\ UNCHANGED vars

-----------------------------------------------------------------------------
(* Reloads *)

\* Mutant of Parsed: any JSON value is taken for a configuration.
ParsedLoosely == file

\* readDaemonConfig, None where it throws.
Parsed == IF file \in Config THEN file ELSE None

\* Mutant of Notices: a change during the watcher's task is dropped.
NoticesWhenIdle == noticed \/ (watch = "idle" /\ shutdown = "no")

\* The `change' event (re)starts the debounce timer.
Notices == noticed \/ (Booted /\ shutdown = "no")

\* Nothing looks again at a file that is saved after the boot has read it and
\* before it is watched; and what SIGHUP read before a save may be applied after
\* what the watcher reads.
Untimely == (task \notin {"boot", "failed"} /\ ~ Booted) \/ fetched["hangup"] # None

Save(content) ==
    /\ step[Self] # "dead" /\ task # "boot"
    /\ mtime + hangups < MaxTouches
    /\ content # file
    /\ file' = content
    /\ mtime' = mtime + 1
    /\ noticed' = Notices
    /\ untimely' = (untimely \/ Untimely)
    /\ UNCHANGED <<vars, hangups, config, task, engine, chained, watch, lastMtime,
                   fetched, chainVars, shutdown>>

\* The timer fires: a task is chained to those before it.
WatchTimer ==
    /\ Free /\ noticed
    /\ noticed' = FALSE
    /\ chained' = chained + 1
    /\ UNCHANGED <<vars, fileVars, config, task, engine, watch, lastMtime, fetched,
                   chainVars, shutdown, untimely>>

\* The previous task is over: an mtime that is not new ends the next one.
WatchStat ==
    /\ Free /\ chained > 0 /\ watch = "idle"
    /\ chained' = chained - 1
    /\ watch' = IF mtime = lastMtime THEN "idle" ELSE "reading"
    /\ lastMtime' = mtime
    /\ UNCHANGED <<vars, fileVars, config, task, engine, noticed, fetched, chainVars,
                   shutdown, untimely>>

WatchRead ==
    /\ Free /\ watch = "reading" /\ fetched["watcher"] = None
    /\ fetched' = [fetched EXCEPT !["watcher"] = Parsed]
    /\ watch' = IF Parsed = None THEN "idle" ELSE watch
    /\ UNCHANGED <<vars, fileVars, config, task, engine, noticed, chained, lastMtime,
                   chainVars, shutdown, untimely>>

\* SIGHUP: the file is read, whatever the watcher does.
Hangup ==
    /\ Free /\ Booted
    /\ mtime + hangups < MaxTouches /\ fetched["hangup"] = None
    /\ hangups' = hangups + 1
    /\ fetched' = [fetched EXCEPT !["hangup"] = Parsed]
    /\ UNCHANGED <<vars, file, mtime, config, task, engine, watchVars, chainVars,
                   shutdown, untimely>>

\* What was read is chained to reloadInFlight; a rejected one rejects at once.
ChainReload(s) ==
    /\ Free /\ fetched[s] # None
    /\ fetched' = [fetched EXCEPT ![s] = None]
    /\ queue' = IF rejected THEN queue ELSE Append(queue, <<s, fetched[s]>>)
    /\ watch' = IF s = "hangup" THEN watch ELSE IF rejected THEN "idle" ELSE "reloading"
    /\ UNCHANGED <<vars, fileVars, config, task, engine, noticed, chained, lastMtime,
                   rejected, awaited, shutdown, untimely>>

\* applyReload: nothing to do for an equivalent configuration.
Reload ==
    /\ Free /\ task = "idle" /\ queue # <<>>
    /\ \/ Head(queue)[2] = config /\ ReloadOver /\ UNCHANGED task
       \/ /\ Head(queue)[2] # config
          /\ task' = "stop"
          /\ UNCHANGED <<chainVars, watch, lastMtime>>
    /\ UNCHANGED <<vars, fileVars, config, engine, noticed, chained, fetched, shutdown,
                   untimely>>

\* stop() of the handle, whose last step gives the lock back, once.
StopHandle ==
    \/ engine = "running" /\ Release(Self) /\ engine' = "released"
    \/ engine # "running" /\ UNCHANGED <<vars, engine>>

ReloadStop ==
    /\ Free /\ task = "stop"
    /\ StopHandle
    /\ config' = Head(queue)[2]
    /\ task' = "start"
    /\ UNCHANGED <<fileVars, watchVars, fetched, chainVars, shutdown, untimely>>

-----------------------------------------------------------------------------
(* Shutdown *)

\* SIGTERM or SIGINT: the configuration is watched no more and the timer cleared,
\* which stops neither a watcher's task that runs nor those chained to it.  The
\* data watcher closes next.
Signal ==
    /\ Free /\ Booted /\ shutdown = "no"
    /\ shutdown' = "closing"
    /\ noticed' = FALSE
    /\ UNCHANGED <<vars, fileVars, config, task, engine, chained, watch, lastMtime,
                   fetched, chainVars, untimely>>

\* The reloads chained so far are awaited; later ones are not.
AwaitReloads ==
    /\ Free /\ shutdown = "closing"
    /\ shutdown' = "waiting"
    /\ awaited' = Len(queue)
    /\ UNCHANGED <<vars, fileVars, config, task, engine, watchVars, fetched, queue,
                   rejected, untimely>>

\* Mutant of Settled: the rejection is not caught.
SettledWell == awaited = 0 /\ ~ rejected

\* reloadInFlight.catch: fulfilled or rejected.
Settled == awaited = 0

ShutdownStop ==
    /\ Free /\ shutdown = "waiting" /\ Settled
    /\ shutdown' = "stopping"
    /\ UNCHANGED <<vars, fileVars, config, task, engine, watchVars, fetched, chainVars,
                   untimely>>

\* Mutant of ReleaseAgain: without the flag the file names this process, and goes.
ReleaseTwice == Release(Self)

\* release of a handle that a reload has stopped already: `released' is set.
ReleaseAgain == UNCHANGED vars

ShutdownRelease ==
    /\ Free
    /\ \/ shutdown = "stopping" /\ StopHandle
       \/ shutdown = "superseded" /\ ReleaseAgain /\ UNCHANGED engine
    /\ shutdown' = "exiting"
    /\ UNCHANGED <<fileVars, config, task, watchVars, fetched, chainVars, untimely>>

\* process.on('exit').
ExitHook ==
    /\ Ending
    /\ Release(Self)
    /\ engine' = IF engine = "running" THEN "released" ELSE engine
    /\ UNCHANGED <<fileVars, config, task, watchVars, fetched, chainVars, shutdown, untimely>>

\* Mutant of HooksRun: no exit hook.
HooksRunAlways == TRUE

HooksRun == step[Self] \in Resting

Exit ==
    /\ Ending /\ HooksRun
    /\ Die(Self)
    /\ shutdown' = "exited"
    /\ UNCHANGED <<fileVars, config, task, engine, watchVars, fetched, chainVars, untimely>>

-----------------------------------------------------------------------------
SelfLocks == Proceed(Self) /\ UNCHANGED daemonVars
Boot == BootRead \/ BootProbe
Starts ==
    \/ StartInert \/ StartFails \/ StartEngine \/ AcquireFails \/ Acquired
    \/ DiscoveryStarts \/ DiscoveryFails \/ Undone
Watcher == WatchTimer \/ WatchStat \/ WatchRead
Reloads == Reload \/ ReloadStop
Shutdown == AwaitReloads \/ ShutdownStop \/ ShutdownRelease
Ends == ExitHook \/ Exit

\* The daemon is killed.
Kill == Die(Self) /\ UNCHANGED daemonVars

\* Another process: an application, or another daemon.
Other(p) == (Acquire(p) \/ Proceed(p) \/ Release(p) \/ Die(p)) /\ UNCHANGED daemonVars

DaemonNext ==
    \/ SelfLocks \/ Boot \/ Starts \/ Watcher \/ Reloads \/ Shutdown \/ Ends
    \/ Hangup \/ Signal \/ Kill
    \/ \E s \in Source : ChainReload(s)
    \/ \E content \in Config \cup {Broken} : Save(content)
    \/ \E p \in Process \ {Self} : Other(p)

DaemonSpec == DaemonInit /\ [][DaemonNext]_allVars

\* A timer that runs fires, and an await that can return does: each of the
\* daemon's tasks goes on.  Nobody is bound to save, to signal or to fail.
FairDaemonSpec ==
    /\ DaemonSpec
    /\ WF_allVars(SelfLocks) /\ WF_allVars(Boot) /\ WF_allVars(Starts)
    /\ WF_allVars(Watcher) /\ WF_allVars(Reloads)
    /\ WF_allVars(Shutdown) /\ WF_allVars(Ends)
    /\ \A s \in Source : WF_allVars(ChainReload(s))

-----------------------------------------------------------------------------
(* Properties *)

Alive == step[Self] # "dead"

\* An engine that runs has the lock: no reload, failed start or second stop()
\* gives the lock of the running engine away (the `released' flag of
\* dataDirLock.ts:232).  If no two starts have overlapped, the file says so.
EngineHoldsLock ==
    (engine = "running" /\ Alive) =>
        /\ step[Self] = "held"
        /\ overlapped \/ (maker = Self /\ pid = Self)

\* A reload does not meet its own lock: what the start of an engine finds at the
\* path was left by another process (daemon.ts:282 awaits stop()).
NeverOwnRival == step[Self] \in {"read", "refused", "stale"} => seen[Self] # Self

\* dataDirLock.ts:41: a daemon that exits, after a signal or a boot that failed,
\* leaves no lock behind, whatever reload was under way.
CleanExit == shutdown = "exited" => pid # Self

\* A daemon that is signalled ends, also when a reload has failed or is running.
ShutdownEnds == shutdown # "no" ~> ~ Alive

\* The file counts: if nobody touches it any more and no reload has failed, the
\* daemon ends up with what was saved last, however saves, SIGHUPs and reloads
\* overlapped, and runs an engine exactly if it says so.
LastSaveWins ==
    \A c \in Config :
        <>[](Booted /\ Alive /\ shutdown = "no" /\ file = c /\ ~ rejected /\ ~ untimely)
            => <>[](config = c /\ engine = IF c \in Inert THEN "inert" ELSE "running")
=============================================================================
