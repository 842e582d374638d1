# A verification development for nearbytes-sync

nearbytes-sync replicates an append-only log of events and content-addressed
blocks between the devices of a profile and its friends. One process serves
one data directory. It finds peers on the LAN and over Hyperswarm, shakes
hands, keeps one session per remote instance, and exchanges `have`, `want`,
`data` and block streams over it, while a resume walk pages through what the
remote has journalled since the last visit.

This directory holds TLA+ modules of the parts that carry that logic, TLC
configurations for small instances, and TLAPS proofs for all instances. Source
lines below are of `src/src/`; the rows of `PROJECT.json` under `map` name the
lines of every definition.

## 1. The system

| Part | Code | State it keeps | Operations | Talks to |
|---|---|---|---|---|
| Block and event exchange | `core/peerLoop.ts`, `inflightBlocks.ts`, `eventDependencies.ts`, `acceptData.ts`, `node/blockPump.ts` | per root: store, reception journal, in-flight wants, served blocks; per session: claims, timers, the stream it receives, two promise chains | attach announce, have, want, data, stream begin/body/end, orphan repair, stop | its sibling sessions (shared registries), the other end (wire) |
| Resume walk | `peerLoop.ts`, `receptionSync.ts`, `sessionAttach.ts` | outstanding request, pending page cursor, done, rewound; the cursor on disk | delta/subscribe, page, next page, rewind, finish, flush | fetch cursor store, the exchange |
| Have broadcast | `core/sessionRegistry.ts` | announcers of the process, refs nobody could hear yet | register, broadcast, patched journal append | every session of the root |
| Associations | `core/handshake.ts`, `node/start.ts`, `core/friendSessions.ts` | pair slots; one session per remote | handshake, duplicate check, attach, replace, close, stop | discovery, the exchange |
| Connection health | `core/connectionHealth.ts` | want, stream, resume, outbound and rotation timers | arm, clear, stall, rotate | closes its session |
| Data directory lock | `node/dataDirLock.ts` | the lock file | acquire, probe, release | other processes |
| Daemon | `node/daemon.ts`, `daemonConfig.ts` | config in effect, reload chain, engine handle | reload, SIGHUP, shutdown | lock, engine |
| Wire codec | `core/codec.ts`, `core/handshake.ts` | bytes buffered, stream total and received | feed a chunk, end a stream | the handshake, then the session |
| Disk sink | `node/blockReceive.ts` | scratch file, batches on their way to file and hasher | ingest, flush a batch, finalize the digest, finish | the exchange |
| Fetch cursors | `node/fetchCursors.ts` | a file per remote instance, its scratch file, the legacy file | get, put, migrate | the walk |
| Discovery | `node/discovery/*`, `connect.ts`, `tcpBulk.ts` | the seen set, sockets, transport labels | announce, sight, dial, retry, forget, stop | associations |
| State beacon | `node/stateBeacon.ts` | status file | write, stop | observers |
| Identity, counters, CLI, tracing | `nodeId.ts`, `instanceIdentity.ts`, `syncEvents.ts`, `cli.ts`, ... | files written once, counters | - | - |

How they interact: discovery hands a connection to `openFriendAssociation`,
which shakes hands, takes the pair slot and calls `attach`; `attach` decides
between sessions and starts `attachPeerSession`, one per association end. All
sessions of a process share one storage root, and with it three registries and
the journal. A session lives until its connection closes, its guard stalls, or
the engine stops; the daemon stops and starts engines in one process.

### What is hard

* *Interleaving at every await.* A handler that awaits the disk resumes in a
  world where sibling sessions have claimed, stored or evicted what it has
  looked at, and where its own session may have stopped.
* *Chains.* Each session runs inbound handlers and outbound writes on two serial
  promise chains; a block pump occupies the second one. The closures that end
  a walk are on neither.
* *Loss.* A connection may go with anything on it; a process may die between
  any two system calls; a storage root may be replaced under its cursors.
* *Two opinions about one connection.* Both nodes judge a connection on their
  own, sockets emit `close` once, and a LAN socket is paused while it waits.
* *Starts that overlap* on one lock file, and readers that migrate cursor files
  under a writer.
* *Bytes.* Frames and block bodies are cut out of chunks by two decoders, one
  after the other; hashing, writing and the wire run beside each other.

### What correctness means, part by part

* Exchange: a want claim is held by one session, is always watched by a timer or
  a stream, and is never freed by another session. Nothing journalled and
  readable stays unannounced. Streams do not run into each other or into frames,
  a node pumps a block once, and what one node has all nodes get.
* Walk: no page is skipped, whatever is lost; each request gets at most one
  page; walks end; the walker gets what the server can read. The cursor on disk
  stands for objects stored (the code does otherwise).
* Associations: the registry holds exactly the running sessions, one per remote;
  a session that is answered by nobody does not last.
* Lock: one holder; a lock that names a live process is held by it; a crash never
  keeps a later start away.
* Daemon: the running engine has the lock, and the second release of a handle does
  not give away the lock of the next one; what was saved last is what runs; a
  signal ends the process, whatever a reload does, and leaves no lock. After a
  failed reload the previous configuration stays in effect (the code does
  otherwise).
* Codec: any cutting of a frame sequence into chunks decodes to that sequence.
  Sink: a file is in place only with its bytes and digest, and every stream
  ends. Cursors: a map from remotes to cursors that may forget. Health: what a
  session waits for has a timer, and rotation interrupts nothing. Discovery: a
  peer that is lost is dialed again.

## 2. The modules

| Module | Stands for | State | Instances | Proofs |
|---|---|---|---|---|
| `BlockExchange` | sessions, their shared registries, broadcast | one record of queues and sets per association end; stores per node | `MCBlockExchange` | `BlockExchange_proofs` |
| `Replicas` | (abstract) processes that copy objects from one another | per node: what it has had, what it can read | refined by `BlockExchange` | - |
| `StreamReceive` | decoders, hello, the stream being received, its sink | offsets on the wire, the item list handled, a sink per block | `MCStreamReceive` | `StreamReceive_proofs` |
| `FrameLink` | (abstract) what a session expects of its connection | the frames delivered | refined by `StreamReceive` | - |
| `ResumeWalk` | both roles of the walk | a queue each way, walker state per session, cursor | `MCResumeWalk` | `ResumeWalk_proofs` |
| `FetchCursors` | the cursor files and their migration | two paths per instance, a program counter per writer and reader | `MCFetchCursors` | `FetchCursors_proofs` |
| `CursorMap` | (abstract) what a session expects of the store | a cursor per remote | refined by `FetchCursors` | - |
| `StallGuard` | one guard and the work it watches | timers, claims, walk, queued pumps, socket | `MCStallGuard` | `StallGuard_proofs` |
| `Associations` | connection to session, and `stop()` | stage and socket per connection end, registry per node | `MCAssociations` | `Associations_proofs` |
| `LanDial` (EXTENDS `Associations`) | sightings, dials, forgetting | seen set, attempt per end | `MCLanDial` | `LanDial_proofs` |
| `DataDirLock` | the lock | the file (creator, pid written), a program counter per process | `MCDataDirLock` | `Daemon_proofs` |
| `Daemon` (EXTENDS `DataDirLock`) | the daemon and the engines it starts | configuration file, watcher, reload chain, engine handle, shutdown | `MCDaemon` | `Daemon_proofs` |

An `MC` module only names topologies and data; a `_proofs` module EXTENDS the
module it is about (`Daemon_proofs` has the proofs of the lock as well, which those
of the daemon go on from). Two compositions are modules of their own: `LanDial` drives
the connections of `Associations`, `Daemon` is a process of `DataDirLock`. The
others meet at stated boundaries. `StreamReceive` implements `FrameLink`, the
ordered link that `BlockExchange` (`link`) and `ResumeWalk` (`toServer`,
`toWalker`) take for granted. `FetchCursors` implements `CursorMap`, and what
that map may do (forget) is what `ResumeWalk` lets happen to its `cursor`
(`Forgetful`). A live end of `Associations` is what `Attach` of `BlockExchange`
and of `ResumeWalk` starts from; the `Stall` of `Associations` and the
`WantTimeout` of `BlockExchange` are the guard of `StallGuard`; an engine of
`Associations` runs inside a `held` of `DataDirLock`.

### BlockExchange

A node is a process with one storage root: `stored` (readable objects),
`journal`, `pendingHave` (refs waiting for a first session), `inflight`
(`InflightBlockRegistry`) and `served` (`outboundServed`). An end is one
`attachPeerSession`: `inbound` and `outbound` are the promise chains
`inboundWire` and `outboundWire`, `link` the wire, `claimed` is
`claimedHashes`, `armed` the want timers, and `receiving`, `discarding`,
`finishing`, `renamed` follow an incoming stream from its first byte to
`markBlockStored`. An end is used once; a reconnect is another end.

A handler is one action, split where it awaits: `HaveMissing` / `HaveWants` are
`processHaveWants` before and after `collectMissing`; `AcceptData` /
`DependencyWants` the `data` handler; `ServeBlock`, `ServeEvent` the loop of the
`want` handler; `AttachList` / `AttachAnnounce` the two halves of
`runAttachSync`; `DecodeBody`, `FinishStream` / `FinishInvalid`,
`MarkBlockStored` the end of a stream, whose claim goes at the first of them;
`PumpBegin` / `PumpOpen` / `PumpBody` the pump. `Stop` is `stop()`: the chains of a
stopped end keep running, as they do in the code.

There are two pumps. An end in `Bulk` writes to a TCP socket, and its pump opens
the file before it writes stream-begin; any other opens it afterwards, which is a
step of its own (`PumpOpen`), so the file may be gone by then. Such an end is
`torn` (a history variable): it has a stream-begin on the wire and no body. What
its peer receives next does not fit (`Fits`) and is misread (`DecodeMisread`): as
bytes of the open stream, which may end with a digest that fails, in or out of
step with what the sender writes (`adrift`); a decoder that is adrift outside of
a stream may throw, which closes the connection (`DecodeThrows`).

Abstractions: the tail announce covers the whole journal (a journal no longer
than `RECEPTION_ATTACH_TAIL`); bytes on the way are lost when a connection
closes (a socket that is ended may still deliver some of them); the orphan repair
may run at any time in a session, once, a superset of "after the walk";
`stop()` comes only from a closed connection. The in-memory stream mode, byte
counts, the settling set and the counters are left out: no decision modelled
here reads them.

### ResumeWalk

Journal entries are numbers. `toServer` / `toWalker` hold what is on the wire or
queued at its reader. `awaiting` is `resumeWalkInFlight`, `pending` is
`pendingPageCursor`, `repairIn` counts the handlers `scheduleOrphanRepair`
still waits for, `ending` is the closure that handles an empty page and that no
chain waits for. `TakePush`, `TakeMore`, `TakeLast`, `TakeEmpty` are the four
ways through `onResumeWalkHave` and `processHaveWants`; `Respond` is
`respondToGlobalResume`. `Cut` loses a connection and keeps any decoded prefix,
`Crash` keeps the disk only, `Wipe` loses the storage root between sessions.

A block takes the two registries with it, which outlive sessions. `served` is
`outboundServed` of the server: `ServeWant` answers an event whenever it is
asked for one, a block only once, and at the beginning any of the server's blocks
may have been served to somebody else. `claimed` is `claimedHashes` of each
session, their union the registry of the walker: `Wanted` leaves out what any
session has claimed. A claim whose block does not come ends its session
(`WantTimeout`) and goes with it (`StopClaims`); the handlers of a session that
has ended go on, and what they claim then stays (`Stuck`, 3.1). `refused` is a
history variable: blocks the server was asked for and did not send.

Abstractions: one direction (the other uses the same code and no shared state
but the journal and the registries of its node); sessions follow one another, a
bounded number; `Rotate` and `WantTimeout` wait until nothing is on its way, and
the last session stays; a server that loses its own journal or restarts is not
modelled; a want is answered by one message, with which the claims of its blocks
end; the wants of dependencies and of the orphan repair, which no registry
stands behind, are left to `BlockExchange`. A session in
`Forgetful` may be given no cursor, as `CursorMap` allows. `risked` is a history
variable: entries listed and not stored when a session was lost.

### StreamReceive

The other side writes items `1..Count` (a hello, frames, blocks); a byte is its
offset on the wire. A chunk is a step of `flown`; then `at` leads through
`decode()`: `ParseHello`, `ParseFrame`, `ParseBegin` take a whole frame from
`from`, `Feed` gives the stream what belongs to it, `ChunkDone` is the end of the
callback. `reader` says whose decoder it is: that of the hello, nobody's (between
`detachHandshake` and `attachPeerSession`), or the session's. `total`, `received`
are `streamTotal`, `streamReceived`; `incoming`, `counted`, `timer` the session's
side of the stream; `sink[i]` the closure of `createAsyncSink`: batches being
written, written, handed to the hasher or queued for it. `file` is what is at the
path of a block, which other streams of it (`Shared`) may fill.

Abstractions: the in-memory mode is left out; a block is not empty (see 3.1);
bytes that begin no item are refused or awaited for ever, whatever a decoder
would make of them; a stream that is complete settles once.

### StallGuard

One guard with its five kinds of timers, and the work that arms them. `walk` is
`resumeWalkInFlight`, `pumps` the closures of `sendBlockStream` on
`outboundWire`, the first one at `pumpAt` (`drain` is `await drainSocket`).
`destroys` tells the two `close()` apart: `socket.destroy()` of the LAN,
`socket.end()` of Hyperswarm. `LinkFails` ends with an error event, `Closes`
without. `crowded` is a history variable: a pump was queued behind another one.

Abstractions: durations. A timer that runs may fire at any time, so a property
holds for any lengths of the timers; what comes from the other side may come or
not.

### FetchCursors

A `Writer` is the chain of puts or a reader that migrates; `Open`, `Write`,
`Renamed` / `RenameFails` are the calls of `writePerPeer`. All writers of an
instance share one scratch path, so `fd` follows the file a writer has open:
still at that path, renamed into place by another writer, or gone (`Follow`).
`Get` to `ReadLegacyLast` are the calls of `get`, `pc` the place between them.
`Crash` loses all but the disk. A record over which another writer's shorter one
was written may not parse (`Torn`).

Abstractions: the legacy file does not change (no code writes it); `mkdir` and
the errors of a full disk are left out; an association that ends is used again
for another remote.

### Associations

An end goes through `hello`, `waiting` (for the pair slot), `loading` (slot
held, marker and cursor being read) to `live`, and to `ended` or `gone`;
`abandoned` is an attempt that gave up waiting for the slot and left its
connection open, `failed` one whose marker or cursor the disk has failed
(`LoadFails`, ends in `Unloadable`): the slot is freed, the connection stays open
as well. `sock` is the socket; `closing` means its `close` event is still
to come, and it comes once. The registry is keyed as `sessionKey` does, by a
profile at an instance (`Peer`), the slot by the local profile as well.
`AttachFirst`, `AttachRejected`, `AttachReplacing` are the outcomes of `attach`;
`CloseAll` and `DiscoveryStopped` the steps of `stop()`. A socket in `Pausable`
is not read before attach, so its close is not noticed until then.

Abstractions: the slot is freed with the attach (the code frees it a marker
later); a further attempt is a further connection; profiles without
authorization and loopback connections are left out.

### LanDial

`seen` is `seenTcp`, `dial[e]` the attempt of `openFriendAssociation` that has
the end `e`. `Sight` is `maybeEmitDiscoveredTcpPeer`; `Refused` a connect that
fails; `AttemptFailed` and `AttemptEnded` go along with the steps of
`Associations` that throw and that return, `AttemptLost` with an error that is not
retried; `ForgetTcpPeer` follows the `peer-disconnected` event of a session, at
its close event (`Forget`) or at once when `attach` replaces it
(`EndedReplacing`). `gaveUp` is a history variable: keys whose last attempt has
failed. Every step is a step of
`Associations` or leaves it alone (proved).

Abstractions: hosts and ports (a node that comes back has other keys), `stop()`,
profiles that are not authorized. A dial without a fresh end, a bound of the
model, counts as given up.

### DataDirLock

Each action is one system call on the lock file, so any two processes interleave
there. `maker` tells two files at the same path apart: `WritePid` writes into the
file it has opened, also when that is no longer the one at the path. `Die` kills
a process between any two calls. `overlapped` is a history variable: some start
has begun while another one was under way. Left out: pids that are used again,
timestamps, an undefined data directory (no lock then).

### Daemon

The daemon is one of the processes of `DataDirLock`: `StartEngine`, `StopHandle`,
`DiscoveryFails` and `ExitHook` are its calls on the lock, `SelfLocks` the system
calls inside them, during which nothing else of the process runs (`Free`); the
other processes do what `DataDirLock` lets them. `task` is where `runDaemon` or
the `applyReload` at the head of `reloadInFlight` is, `queue` the reloads chained
to it, each with who asked for it, `rejected` that the promise is rejected for
good. `noticed` (the debounce timer runs), `chained` (tasks waiting on the watcher's
own chain), `watch` (where the one that runs is) and `lastMtime` are the closure
of `watchConfigFile`; closing the watcher clears the timer, and a task that is
chained by then still runs.
`shutdown` follows `shutdown()`: `closing` while the data watcher closes,
`waiting` for the `awaited` reloads that were chained by then, `stopping` in
`sync.stop()`, `superseded` when a later reload has put another engine in place
meanwhile, so that the handle being stopped has released its lock before.
`untimely` is a history variable: a save the code does not look at again (3.1).

Abstractions: a configuration is what `configsEquivalent` tells apart; `stop()`
up to its release is one step; a file that is removed reads as the empty
configuration, one of `Inert`; every save is noticed by `fs.watch` (on Linux a
watch on a path stops reporting once the file has been replaced by a rename, so
this holds for editors that write in place). Left out: the beacon, the watcher
of the data directory, a configuration with another data directory.

## 3. What is checked

All runs switch deadlock checking off: every system here may come to rest
(nothing left to exchange, all processes dead).

| Run | Instance | Checks | Shows |
|---|---|---|---|
| `exchange_hub` | A - B - C, one block at A, at A and C, or at B; A - B is TCP and may fail, B - C another transport; digests may fail, B's file may vanish | `ClaimLedger`, `ClaimsWatched`, `OnePumpPerBlock`, `StreamsNeverOverlap`, `JournalOffered` | two sessions that want one block never share, lose or strand a claim; one pump per block through two requesters and a pump that fails; streams and frames keep apart unless a sender has found no file for a stream it began, which happens on B - C only; every peer is told everything, also what has just come from another |
| `exchange_write` | A - B, A has a block and writes an event that names it | `CopiesOnly`, `TypeOK`, `Convergence` | the exchange implements `Replicas`; both objects arrive by whatever path |
| `stream_receive` | hello, frame, block of three batches, frame, block of one; chunks of up to 22 bytes, silence at one of two places; a transport that cannot pause; one block's disk may fail and another stream may store it, the other's bytes are wrong | `TypeOK`, `InStep`, `WholeInPlace`, `DeliversInOrder`, `StreamSettles` | any cutting into chunks decodes alike, a block is whole or absent, a stream ends |
| `walk` | 3 entries, one unreadable, one a block that somebody else may have been served, one late, one of the walker's own; three sessions: the first cut or crashed, the root lost before the second, the cursor forgotten before the third | `WalkGoesOn`, `CursorCovered`, `PagesExpected`, `WalkFinishes`, `CaughtUp` | no page is skipped or taken for another; no walk idles; walks end; a stale cursor is rewound; the walker gets what no loss took, apart from a block it was refused or has claimed for good |
| `fetch_cursors` | two profiles at one instance, one at another, two of them in the legacy file; two associations, two puts, one crash | `TypeOK`, `GotOwn`, `KeepsMap`, `PutsDecide` | nobody walks from the cursor of another remote, whoever migrates or dies |
| `stall_guard` | two wants, two pumps, a walk of a page and its end; both kinds of socket | `Watched`, `SilentOnceStopped`, `RotationSpares`, `NothingWaitsForEver` | timers cover what is waited for |
| `sessions_mixed` | 2 nodes, three connections, LAN and Hyperswarm, two local profiles; one engine may stop, the disk may fail either end of the first connection | `TypeOK`, `SessionsRegistered` | registry and sessions agree through duplicates, replacement and late close events |
| `lan_dial` | a node with two profiles dials a friend: two LAN dials of two attempts, one refused, one lost, one whose marker or cursor the disk of either node fails, a Hyperswarm connection beside | `SeenIsServed`, `HalfOpenEnds`, `Reunited` | nobody seen is forgotten; the nodes find each other again |
| `lock_starts` | 3 processes that start, stop and die at will | `SerialExclusion`, `LockNamesHolder`, `CrashesForgotten` | one holder while starts do not overlap; no lock left behind; stale locks are taken over |
| `daemon` | a daemon and another process; three configurations, one inert, and an unreadable one; two saves or SIGHUPs, one signal | `DaemonTypeOK`, `EngineHoldsLock`, `NeverOwnRival`, `CleanExit`, `ShutdownEnds`, `LastSaveWins` | reloads, failures and shutdown in any order keep engine, lock and file together |
| `early_checkpoint` | 2 entries, one session | `CheckpointAfterData` (violated) | see 3.1 |
| `two_holders` | 2 processes | `Exclusion` (violated) | see 3.1 |

`CopiesOnly`, `DeliversInOrder` and `KeepsMap` are refinements: the specification
of `Replicas`, of `FrameLink` and of `CursorMap`, under the mapping given beside
them. The type invariants of `DataDirLock`, `ResumeWalk` and `StallGuard` are
theorems and not checked by a run.

*Bounds.* Claims are contended by two sessions of one node, so three nodes in a
line are the smallest instance with every kind of sibling: two servers, two
requesters, or one of each. One block is enough for claims, since every
operation on the registry is per hash; two objects (event and block) are there
where order on one wire matters. Pages of one entry and three entries give a
walk with a first, a middle and a last page and one that is empty because its
object is gone. A block of three batches has batches before, across and at the
end of chunks, a second block the stream-begin that follows a body in one
chunk; a chunk may have everything, or a byte. Two readers are the smallest
number that migrate at once, the chain of puts is the third writer. Two pumps
are one that runs and one that waits behind it. Three processes are a holder, a
starter that judges it and one that gets in between. Two saves, or a save and a
SIGHUP, are a reload and another one that is read, chained or missed while the
first is in progress; two running configurations and an inert one are every kind
of replacement. Two connections give the races of attach, the third one a
replacement whose loser still has a close event to come, or the dial after a
loss.

*Fairness.* Node runs every queued callback, so handlers, writes and closures
are weakly fair; a connection that stays up delivers; a close is passed on;
peers dial again (walk; one session is up at a time, so one condition speaks of
all of them); disk and hasher answer; a timer that stays armed fires (`Rotate`
and `WantTimeout` of the walk once nothing is on its way). On the LAN,
announcements are repeated every few seconds (`mdns.ts:237`); since an end is
used once, nothing can go on for ever there, and `LanDial` asks fairness of all
that comes by itself as one action. Nothing is assumed of the application, of
evictions, of lost connections, of digests that fail, of new Hyperswarm
connections or of `stop()`, nor, in `StallGuard` and for a stream, of the other
side. Each property holds without those ever happening and with them happening
at any point the configuration allows. In the lock, a start that has begun goes
on unless its process dies. In the daemon, timers that run fire and awaits
return; nobody is bound to save or to signal.

*Limits of the liveness results.* `Convergence` is checked where no node is
asked for the same block by two peers, since the code refuses the second one
(3.1), and between two nodes; that what arrives at a node is offered onwards is
`JournalOffered` in `exchange_hub`. `CaughtUp` and `WalkFinishes` say that what
they speak of is true time and again, since the next write or session undoes it.
`CaughtUp` excepts three things, all of them 3.1: what was listed and not stored
when a session was lost, which an early checkpoint can lose (`risked`); blocks
that the server was asked for and refused, having served them before, to another
peer or to this one before it lost its root (`refused`); blocks claimed for a
session that had ended (`Stuck`). Events come back whole after the loss of a
root, blocks only where the server has restarted or not served them yet. The
root is lost whole: the rewind recognises a stale cursor by
comparing it with the length of the walker's own journal, so a walker that
journals enough of its own before it meets the server again would not notice.
`NothingWaitsForEver` speaks of sockets that `close()` destroys. `HalfOpenEnds`
is about LAN connections only. `Reunited` holds until a dial is given up, or
where a dead Hyperswarm session bars the way (both in 3.1).

### 3.1 Where the code does otherwise

Runs with `expect: violation`, each a counterexample TLC prints:

* **`early_checkpoint`** - the orphan repair waits for queued handlers, not for
  what they have wanted, and then stores the cursor. A connection lost now
  leaves entries no later page lists. (`peerLoop.ts:695`; comment at 671.)
* **`two_holders`** - two overlapping starts: one unlinks, as stale or as empty,
  the file the other has just created, and both return with the lock.
  (`dataDirLock.ts:228`; header, line 8.)

Seen while modelling, and stated here rather than as runs:

*In the exchange*

* `stop()` frees what the session holds, but its inbound chain runs on: a `have`
  handler that was waiting claims slots afterwards (`peerLoop.ts:814`; the
  comment at 461-463 says slots are released on session stop). Nobody frees
  them, and no session of the root wants that block from a `have` until the
  process restarts. In `BlockExchange`: `HaveMissing`, `Stop`, `HaveWants`.
* A block that has arrived but is not renamed yet is neither claimed nor stored
  (`peerLoop.ts:1109`, `1190`); a sibling session wants and transfers it again,
  which `inflightBlocks.ts:40-42` sets out to avoid. In `BlockExchange`:
  `DecodeBody` of one end, `HaveWants` of its sibling, `FinishStream`.
* Dependency wants and orphan repairs claim nothing (`peerLoop.ts:1019`), so
  two sessions may have a want for one block outstanding, against
  `peerLoop.ts:458`.
* `claimOutboundServe` (`inflightBlocks.ts:138`) serves a block once in the life
  of the process: a second peer that asks gets no answer, and its timer closes
  the session. Nor does a peer that has lost its storage root: the rewind lists
  everything again, and the server refuses the blocks it sent before, in every
  session until it restarts. In `ResumeWalk`: `Wipe`, `EndWalk`, `ServedBefore`.
  A stream that was cut is not served again either, although
  `pendingBlocks.ts:5` speaks of partial blocks that survive a reconnect.
* Over a transport that is no TCP socket the pump writes stream-begin before it
  opens the file (`blockPump.ts:41`, `43`): a file that vanishes in between
  leaves a begin without a body, and what follows is read as block bytes until
  the digest fails. Over TCP the file is opened first (`tcpBulk.ts:52`). In
  `BlockExchange`: `PumpOpen`, `DecodeMisread`; `StreamsNeverOverlap` has this as
  its one exception.

*In the stream*

* The decoder of the hello is let go with what it has not parsed. A frame that
  was cut by the end of the chunk is lost, and over a transport without
  `pauseInbound` whatever comes before `attachPeerSession` (`handshake.ts:109`),
  where the comment at 58-63 says that the frames must not be dropped. What
  follows is out of step, and the connection is closed or stalls.
* An announced length of 0 leaves `incoming` in place for good
  (`peerLoop.ts:1236`): no byte comes that would end it. (A block of the log is
  never empty.)
* A sink whose write has failed counts no more, so its stream ends by the timer
  and with it the session (`blockReceive.ts:167`); `stop()` and the error path
  leave the scratch file, and the descriptor open.

*In the walk and the cursors*

* When no object of a walk's *last* page is readable, `sendHave` sends nothing
  (`peerLoop.ts:590`) and the walk waits until its timer closes the session;
  the next one asks for the same page. `WalkGoesOn` has this as its one exception
  (`NothingToSend`).
* Two profiles at one instance share a cursor file (`fetchCursors.ts:125`): each
  put forgets the cursor of the other, which costs it a whole walk.
* A migration beside a put writes the old cursor over the new one, and two
  migrations at once make one `rename` fail, and with it the attempt to connect
  (`fetchCursors.ts:157`, called outside the chain of 115). The walk is longer,
  or the next attempt has it; `PutsDecide` says so.

*In connection health*

* The first pump that ends clears the timer and the activity flag for all
  (`connectionHealth.ts:174`): rotation may cut the second one, and until then
  nothing watches it.
* Dependency wants are not counted as pending (`peerLoop.ts:1339` counts claims),
  so rotation does not wait for them; and one for a block the other side lacks
  closes the session every time its timer fires. A want whose block is queued
  behind a long transfer times out as well.
* A stall closes a Hyperswarm connection with `socket.end()`, which waits for
  what is still to be written, and the guard is spent; `drainSocket` on a socket
  that was destroyed never returns, so the chain, the counter and the serve mark
  stay (`netDuplex.ts:33`).

*In associations and discovery*

* A Hyperswarm connection that closes between handshake and attach becomes a
  session whose close event has already passed (`friendSessions.ts:259`): it is
  never ended, and later connections of that instance are turned away.
* `openFriendAssociation` turns a second connection away before `attach` could
  prefer its transport (`start.ts:641`, against `friendSessions.ts:57`).
* An error of the marker or of the cursor while the slot is held
  (`start.ts:657-666`) is not retried, and the connection is left open, paused on
  the LAN (`start.ts:730-783`): the other side keeps its session until its walk
  times out, and a LAN peer stays in `seenTcp`. In `Associations`: `LoadFails`.
* An association that is in the making when `stop()` runs `closeAll()` attaches
  afterwards (`start.ts:944`) over a socket discovery does not know.
* A LAN peer whose dial has failed for good stays in `seenTcp`
  (`mdns.ts:101`): it is not dialed again until it comes back on another port,
  or a connection of its own begins and ends.
* A friend of an inactive profile is judged by the active one (`mdns.ts:86`),
  while the friend, which knows the inactive profile from its announcement,
  compares with that: neither may find itself the one to dial, against the rule
  of `tcpBulk.ts:23` that the lower key dials. A node that serves two
  profiles, both friends of the one that dials, turns the second dial away as a
  duplicate, since its own key is the dialer's profile and instance; the dialer's
  session ends, is forgotten, and is dialed again with every announcement.

*In the daemon*

* A reload stops the running engine before it starts the next one, and a start
  that throws leaves `reloadInFlight` rejected (`daemon.ts:282-291`): no engine
  runs, and every later save and SIGHUP is refused until the process restarts,
  although `daemon.ts:164-166` and the message logged say that the previous
  configuration stays and that the operator can save again. In `Daemon`:
  `ReloadStop`, `StartFails`, `Thrown`. One such start is that of a daemon whose
  lock another process has taken between `stop()` and `start()`.
* A save between the boot's read and the watcher, which starts from the mtime of
  that save (`daemon.ts:172`), is not seen; and what SIGHUP has read before a
  save may be chained after what the watcher reads (`daemon.ts:315`).
  `LastSaveWins` holds apart from these two.
* A daemon without a profile takes no lock (`daemon.ts:111-113`), so another one
  boots beside it. Both write the scratch file of the one state beacon, which may
  then be published half written, against `stateBeacon.ts:20` ("Readers see a
  fully-formed JSON document or nothing"); the beacon is not modelled.

## 4. What is proved

For every value of the constants that satisfies the ASSUMEs of the module, and
from nothing else:

| Theorem | States | Argument |
|---|---|---|
| `TypeCorrect` | `BlockExchange!TypeOK` | inductive; lemmas say once what sending, arming and broadcasting do to the queues |
| `RegistryIsLedger` | `ClaimLedger` | inductive with `TypeOK`: a step either touches neither registry nor claims (`RegistrySteps`), takes slots that are free (`LedgerTake`), or gives back what its end holds (`LedgerGiveBack`) |
| `ClaimsAreWatched` | `ClaimsWatched` | inductive with `TypeOK`: `WatchSteps` splits on what a step does to claims and timers |
| `NothingUnannounced` | `JournalOffered` | `ListedOrOffered` adds the state in between: once the journal is listed, everything settled was offered or is on the list, since the end was registered before and pushes reach it |
| `PumpsAreSingle` | `OnePumpPerBlock` | `PumpAlone`: whoever queues a pump has just taken the mark, and the mark goes only when its pump does |
| `StreamsApart` | `StreamsNeverOverlap`, for both pumps, with evictions anywhere | `StreamOrder`: unless the sender is `torn`, the receiver is not adrift, and in its open stream, then `link`, then what the pump at the head of `outbound` has still to send, every begin is followed by its own body; an end in `Bulk` never opens its file late (`PumpFirst`), so it is not torn |
| `ObjectsOnlyCopied` | `Spec => CopiesOnly` (`Replicas`) | `Sourced`: what a node can read it has had, and an object anywhere on its way to a session (queued, on the link, waiting for its handler, in a stream, being finished) the process at the other end has had. With that a handled `data` and a finished stream are `Copy`, a local write is `Write`, a file that goes is `Evict` (`HadSteps`), everything else stutters. A block between its rename and its journal append counts as had, so that a node forgets nothing |
| `WalkTypeCorrect`, `NoHoles` | `ResumeWalk!TypeOK`, `CursorCovered` | `CursorCovered` is not inductive: a cursor reaches the disk from `pending`, gets there from a page, and a page answers the cursor of a request. `Safe` says of every cursor, wherever it is on that way, that all entries up to it were listed |
| `OnePageAtATime` | `PagesExpected` | `InTurn`, per session: of delta requests and pages there is one at most in both queues, it is of the cursor awaited, and none while an empty page is being handled; a subscribe not yet read will be found answered |
| `WalksGoOn` | `WalkGoesOn`, the safety part of `WalkFinishes` | `Running`, with `InTurn`: no request of a session goes below the cursor it began with, or 0 after a rewind (`Low`, `Fresh`), and a page with a successor goes beyond the cursor it answers (`Answering`), so that a request which is really awaited is never dropped as a duplicate; sessions begin one by one (`OneByOne`), so that what others list does not change the last page of this one |
| `LockTypeCorrect`, `NothingLeftBehind` | `DataDirLock!TypeOK`, `LockNamesHolder` | with `NoFileNoPid` |
| `SerialStartsExclude` | `SerialExclusion` | `overlapped \/ Serial`: one starter, the file is what its holder takes it for, and what a starter has concluded from it is still true |
| `DaemonKeepsLock` | `DaemonSpec => Spec` of `DataDirLock` | every step of the daemon is a step of one process of the lock, or leaves the lock alone, so its theorems hold there |
| `DaemonTypeCorrect` | `DaemonTypeOK` | with `ReloadsQueued`: a reload that stops or starts an engine is the head of the queue |
| `ReloadMeetsNoOwnLock` | `NeverOwnRival` | no process meets its own lock (`Unrivalled`, proved of any process), and the daemon is one |
| `EngineHasLock` | `EngineHoldsLock` | `EngineLocked`, with `Serial` of the lock: an engine runs only between reloads and with the lock held, and one whose discovery is starting has it unless the process is ending |
| `ExitLeavesNoLock` | `CleanExit` | `ExitedClean`: a daemon that has exited is dead in the lock, a dead process stays dead, and no other one writes its pid |
| `SessionsTypeCorrect`, `OneSessionPerRemote` | `Associations!TypeOK`, `SessionsRegistered` | `Registry`: an entry belongs to its own key, so that a close callback that finds its own entry cannot hit another |
| `DiscoveryKeepsAssociations` | `LanSpec => Spec` | every step of `LanDial` is a step of `Associations` or leaves its variables alone, so its theorems hold there |
| `SeenRemotesServed` | `SeenIsServed` | with `DialTypeOK` and the registry: each way out of `openFriendAssociation` passes the key on to an attempt, a session or `gaveUp` |
| `GuardTypeCorrect`, `WaitsAreWatched`, `StopsOnce`, `RotationInterruptsNothing` | `StallGuard!TypeOK`, `Watched`, `SilentOnceStopped`, `RotationSpares` | `Watched` is inductive; rotation follows from its last conjuncts: a pump that was never crowded has the flag `Quiescent` asks |
| `DecoderInStep` | `StreamReceive!InStep` | not inductive: where the decoder is depends on who reads, on the chunk's rest and on what was taken. `Position` says so in parts: `Reading` (in a body: its offset and what is counted of it), `Handover` (which decoder has read how far), `Ordered` and `Unbroken` (what was taken lies behind, in order, without a hole) |
| `LinkDelivers` | `Spec => Link!Spec` (`DeliversInOrder`) | over `Position`: a step that takes an item appends the next one (`Deliver`, or `DeliverLate` once bytes are lost), attach appends the early ones, everything else breaks the link or stutters |
| `ReceiverTypeCorrect`, `BlocksWholeInPlace` | `StreamReceive!TypeOK`, `WholeInPlace` | `Storage`: of a sink without error, the batches on disk and being written are those of the bytes counted, so when the writes are done and the count is full the file has all of them; the rename needs a digest that no corrupt block has |
| `StoreTypeCorrect`, `CursorsAreOwn` | `FetchCursors!TypeOK`, `GotOwn` | `Sound`: a record in a file, in a scratch file or on its way there was put, or is legacy |
| `FilesImplementMap` | `Spec => KeepsMap` | initial states map to initial states; a put is `Give`, a rename or a write into a renamed file is `Store` of a record that `Sound` says was given or falls back, everything else stutters |
| `PutsAreKept` | `PutsDecide` (an action property) | not inductive: `PutFile` follows the scratch file of a put. It is as the put has left it unless a migration has it open (`Busy`) or has renamed it away, which `beside` has noted; and what lies where the put has still to write is torn or legacy, so that a torn write there changes nothing |

What they add to TLC: any number of nodes, sessions, blocks and processes, any
topology, any journal and page size, any number of puts, migrations and crashes,
items and blocks of any length cut into chunks and batches of any length. The
assumptions on the wire (`WireAssumption`) say how items follow one another; that
`Start` is increasing follows from the rest by induction, which is beyond the
prover, so it is a conjunct of its own, which TLC evaluates.
`RegistryIsLedger`, `StreamsApart` and `ObjectsOnlyCopied` hold with lost
connections, corrupt bytes and evictions everywhere, over any mix of transports
(`exchange_write`, which checks `CopiesOnly`, has none of them);
`SerialStartsExclude` says that the overlap of starts is the only way to two holders.

With these, every safety invariant and every safety property of an action that a
passing run checks is a theorem. Only model-checked: liveness (`Convergence`,
`StreamSettles`, `WalkFinishes`, `CaughtUp`, `NothingWaitsForEver`,
`HalfOpenEnds`, `Reunited`, `CrashesForgotten`, `ShutdownEnds`, `LastSaveWins`),
which rests on fairness and ENABLED and is beyond the prover.

## 5. The plan

In this order; what carries the most weight comes first.

1. Abstract specifications as refinements, proved: a catch-up that only advances a
   covered cursor under `ResumeWalk`, a mutual exclusion under serial
   `DataDirLock`.
2. More of the safety that liveness rests on, as `WalkGoesOn` is for the walk: that
   a want which is outstanding has its answer on the way, or its timer.
3. A server that loses its journal in `ResumeWalk`; `stop()` in several steps in
   `Daemon`.

### Not modelled

The state beacon (a status file, written beside and renamed, that nothing of the
engine reads), node id and instance identity (files written once, under the
lock), counters and events (nothing decides by them, apart from
`peer-disconnected`, which `LanDial` has), `pendingBlocks.ts` (nothing calls it),
command line, logging, tracing and deploy scripts. Of modelled parts: the
in-memory block stream, loopback and unauthorized connections, hosts and TXT
records, a daemon whose data directory changes.

## 6. Running it

    tlc -workers 2 -config exchange_hub.cfg MCBlockExchange.tla
    tlapm BlockExchange_proofs.tla

The `runs` of `PROJECT.json` name the module of each configuration. The largest
runs have 5.2 million states (`sessions_mixed`), 2.6 million (`fetch_cursors`),
1.2 million (`walk`), 1.1 million (`exchange_hub`) and 1.0 million (`daemon`); the
longest, `lan_dial`, takes about three minutes for its 0.8 million, because of its
temporal properties.
