---------------------------- MODULE FetchCursors ----------------------------
(***************************************************************************)
(* The store of fetch cursors (node/fetchCursors.ts) under the sessions of *)
(* one process (node/start.ts): a file per remote instance, written beside *)
(* under a fixed name and renamed, the file of an earlier version, and its *)
(* migration by whichever session asks first.  Puts wait for each other;   *)
(* gets, and the migration they do, wait for nobody.  An action is one     *)
(* call on the file system.  The process may die between any two.          *)
(***************************************************************************)
EXTENDS Integers, Sequences, FiniteSets

CONSTANTS
    Instance,    \* remote instances
    Remote,      \* remotes: a profile at an instance
    InstanceOf,  \* the instance of a remote
    Getter,      \* associations of the process that may overlap
    Cursor,      \* cursors
    NoCursor,    \* no cursor: undefined
    Legacy,      \* cursors of the legacy file
    MaxPuts,     \* bound: different puts
    MaxCrashes   \* bound: deaths of the process

ASSUME StoreAssumption ==
    /\ Remote # {} /\ InstanceOf \in [Remote -> Instance]
    /\ NoCursor \notin Cursor
    /\ Legacy \in [Remote -> Cursor \cup {NoCursor}]
    /\ "put" \notin Getter
    /\ MaxPuts \in Nat /\ MaxCrashes \in Nat

\* A writer of files: the chain of puts, or a get that migrates.
Writer == Getter \cup {"put"}

\* Contents of a file.
Record == Remote \X Cursor
None == <<>>
Torn == <<"torn">>
Content == Record \cup {None, Torn}

VARIABLES
    file,      \* of an instance: what is at its path, None if nothing is
    tmp,       \* and at its path with .tmp
    \* the process
    given,     \* history: records that were put
    chain,     \* puts that wait or are under way
    at,        \* where a writer is in writePerPeer
    writing,   \* what it writes
    fd,        \* where the file it has open is now: tmp, file, gone
    pc,        \* where an association is: in get(), or live
    for,       \* its remote
    todo,      \* legacy records its migration has not written
    got,       \* its answer, with which the session walks
    beside,    \* history: a migration ran beside the put that is under way
    crashes

diskVars == <<file, tmp>>
writeVars == <<at, writing, fd>>
getVars == <<pc, for, todo, got>>
putVars == <<given, chain>>
vars == <<diskVars, putVars, writeVars, getVars, beside, crashes>>

TypeOK ==
    /\ file \in [Instance -> Content] /\ tmp \in [Instance -> Content]
    /\ given \subseteq Record
    /\ chain \in Seq(Record)
    /\ at \in [Writer -> {"idle", "open", "write", "rename"}]
    /\ writing \in [Writer -> Record \cup {None}]
    /\ \A w \in Writer : at[w] # "idle" => writing[w] # None
    /\ fd \in [Writer -> {"none", "tmp", "file", "gone"}]
    /\ pc \in [Getter -> {"idle", "legacy", "list", "migrate", "again", "last", "live"}]
    /\ for \in [Getter -> Remote]
    /\ todo \in [Getter -> SUBSET Remote]
    /\ got \in [Getter -> Cursor \cup {NoCursor}]
    /\ beside \in BOOLEAN
    /\ crashes \in 0..MaxCrashes

AnyRemote == CHOOSE r \in Remote : TRUE

Init ==
    /\ file = [i \in Instance |-> None] /\ tmp = [i \in Instance |-> None]
    /\ given = {} /\ chain = <<>>
    /\ at = [w \in Writer |-> "idle"]
    /\ writing = [w \in Writer |-> None]
    /\ fd = [w \in Writer |-> "none"]
    /\ pc = [g \in Getter |-> "idle"]
    /\ for = [g \in Getter |-> AnyRemote]
    /\ todo = [g \in Getter |-> {}]
    /\ got = [g \in Getter |-> NoCursor]
    /\ beside = FALSE
    /\ crashes = 0

-----------------------------------------------------------------------------
(* writePerPeer *)

\* cursorPathForInstance
PathOf(r) == InstanceOf[r]

Where(w) == PathOf(writing[w][1])

\* Mutant of Opened: the file is opened without O_TRUNC.
OpenedAsIs(old) == old

\* writeFile opens: a file that is there is emptied.
Opened(old) == Torn

Open(w) ==
    /\ at[w] = "open"
    /\ tmp' = [tmp EXCEPT ![Where(w)] = Opened(tmp[Where(w)])]
    /\ fd' = [fd EXCEPT ![w] = "tmp"]
    /\ at' = [at EXCEPT ![w] = "write"]
    /\ UNCHANGED <<file, putVars, writing, getVars, beside, crashes>>

\* What a file has after w has written to it: over the record of another writer
\* a shorter one leaves a rest that does not parse.
Written(w, old) == IF old \in {None, Torn, writing[w]} THEN {writing[w]} ELSE {writing[w], Torn}

\* writeFile writes, to the file it has opened, wherever that is by now.
Write(w) ==
    LET i == Where(w) IN
    /\ at[w] = "write"
    /\ at' = [at EXCEPT ![w] = "rename"]
    /\ CASE fd[w] = "tmp"  -> \E c \in Written(w, tmp[i]) :
                                tmp' = [tmp EXCEPT ![i] = c] /\ UNCHANGED file
         [] fd[w] = "file" -> \E c \in Written(w, file[i]) :
                                file' = [file EXCEPT ![i] = c] /\ UNCHANGED tmp
         [] OTHER          -> UNCHANGED diskVars
    /\ UNCHANGED <<putVars, writing, fd, getVars, beside, crashes>>

\* Open files follow a rename.
Follow(i) ==
    [v \in Writer |->
        IF at[v] = "idle" \/ Where(v) # i THEN fd[v]
        ELSE IF fd[v] = "tmp" THEN "file"
        ELSE IF fd[v] = "file" THEN "gone" ELSE fd[v]]

\* rename, which fails if another writer has renamed the file away.
Renamed(w) ==
    LET i == Where(w) IN
    /\ at[w] = "rename" /\ tmp[i] # None
    /\ file' = [file EXCEPT ![i] = tmp[i]]
    /\ tmp' = [tmp EXCEPT ![i] = None]
    /\ fd' = [Follow(i) EXCEPT ![w] = "none"]
    /\ at' = [at EXCEPT ![w] = "idle"]
    /\ writing' = [writing EXCEPT ![w] = None]

RenameFails(w) ==
    /\ at[w] = "rename" /\ tmp[Where(w)] = None
    /\ fd' = [fd EXCEPT ![w] = "none"]
    /\ at' = [at EXCEPT ![w] = "idle"]
    /\ writing' = [writing EXCEPT ![w] = None]
    /\ UNCHANGED diskVars

-----------------------------------------------------------------------------
(* put() *)

\* onFetchCursorCheckpoint of a session.
Put(g, c) ==
    LET p == <<for[g], c>> IN
    /\ pc[g] = "live"
    /\ p \notin given /\ Cardinality(given) < MaxPuts
    /\ given' = given \cup {p}
    /\ chain' = Append(chain, p)
    /\ UNCHANGED <<diskVars, writeVars, getVars, beside, crashes>>

Migrating == \E g \in Getter : pc[g] = "migrate"

PutStarts ==
    /\ chain # <<>> /\ at["put"] = "idle"
    /\ at' = [at EXCEPT !["put"] = "open"]
    /\ writing' = [writing EXCEPT !["put"] = Head(chain)]
    /\ beside' = Migrating
    /\ UNCHANGED <<diskVars, putVars, fd, getVars, crashes>>

\* The chain goes on whether the rename has failed or not.
PutEnds ==
    /\ Renamed("put") \/ RenameFails("put")
    /\ chain' = Tail(chain)
    /\ beside' = FALSE
    /\ UNCHANGED <<given, getVars, crashes>>

-----------------------------------------------------------------------------
(* get() *)

\* Mutant of Matches: the profile in the file is not compared.
MatchesInstance(c, r) == c \in Record /\ InstanceOf[c[1]] = InstanceOf[r]

\* The file is of this remote.
Matches(c, r) == c \in Record /\ c[1] = r

Go(g, at1) == pc' = [pc EXCEPT ![g] = at1]
Answer(g, c) == got' = [got EXCEPT ![g] = c] /\ Go(g, "live")

\* readPerPeer of a new call, before attach.
Get(g, r) ==
    /\ pc[g] = "idle"
    /\ for' = [for EXCEPT ![g] = r]
    /\ IF Matches(file[PathOf(r)], r)
         THEN Answer(g, file[PathOf(r)][2])
         ELSE Go(g, "legacy") /\ UNCHANGED got
    /\ UNCHANGED <<diskVars, putVars, writeVars, todo, beside, crashes>>

\* Mutant of OfLegacy: records without a cursor are kept.
OfLegacyAll == Remote

\* parseLegacyFile
OfLegacy == {r \in Remote : Legacy[r] # NoCursor}

\* migrateLegacyIfNeeded: readLegacy
ReadLegacy(g) ==
    /\ pc[g] = "legacy"
    /\ Go(g, IF OfLegacy = {} THEN "again" ELSE "list")
    /\ UNCHANGED <<diskVars, putVars, writeVars, for, todo, got, beside, crashes>>

\* readdir finds nothing, not even a scratch file.
Empty == \A i \in Instance : file[i] = None /\ tmp[i] = None

List(g) ==
    /\ pc[g] = "list"
    /\ Go(g, IF Empty THEN "migrate" ELSE "again")
    /\ todo' = [todo EXCEPT ![g] = IF Empty THEN OfLegacy ELSE {}]
    /\ beside' = (beside \/ (Empty /\ at["put"] # "idle"))
    /\ UNCHANGED <<diskVars, putVars, writeVars, for, got, crashes>>

MigrateStarts(g, r) ==
    /\ pc[g] = "migrate" /\ at[g] = "idle" /\ r \in todo[g]
    /\ at' = [at EXCEPT ![g] = "open"]
    /\ writing' = [writing EXCEPT ![g] = <<r, Legacy[r]>>]
    /\ todo' = [todo EXCEPT ![g] = @ \ {r}]
    /\ UNCHANGED <<diskVars, putVars, fd, pc, for, got, beside, crashes>>

MigrateWrote(g) ==
    /\ pc[g] = "migrate" /\ Renamed(g)
    /\ IF todo[g] = {} THEN Go(g, "again") ELSE UNCHANGED pc
    /\ UNCHANGED <<putVars, for, todo, got, beside, crashes>>

\* The rename throws, and with it get(): the attempt to connect ends.
MigrateFails(g) ==
    /\ pc[g] = "migrate" /\ RenameFails(g)
    /\ Go(g, "idle")
    /\ todo' = [todo EXCEPT ![g] = {}]
    /\ for' = [for EXCEPT ![g] = AnyRemote]
    /\ UNCHANGED <<putVars, got, beside, crashes>>

ReadAgain(g) ==
    LET c == file[PathOf(for[g])] IN
    /\ pc[g] = "again"
    /\ IF Matches(c, for[g]) THEN Answer(g, c[2])
       ELSE Go(g, "last") /\ UNCHANGED got
    /\ UNCHANGED <<diskVars, putVars, writeVars, for, todo, beside, crashes>>

ReadLegacyLast(g) ==
    /\ pc[g] = "last"
    /\ Answer(g, Legacy[for[g]])
    /\ UNCHANGED <<diskVars, putVars, writeVars, for, todo, beside, crashes>>

\* The session ends, or attach has turned it away.  Its puts stay in the chain.
End(g) ==
    /\ pc[g] = "live"
    /\ Go(g, "idle")
    /\ for' = [for EXCEPT ![g] = AnyRemote]
    /\ got' = [got EXCEPT ![g] = NoCursor]
    /\ UNCHANGED <<diskVars, putVars, writeVars, todo, beside, crashes>>

\* The process dies; a new one finds the disk.
Crash ==
    /\ crashes < MaxCrashes
    /\ crashes' = crashes + 1
    /\ chain' = <<>>
    /\ at' = [w \in Writer |-> "idle"]
    /\ fd' = [w \in Writer |-> "none"]
    /\ pc' = [g \in Getter |-> "idle"]
    /\ todo' = [g \in Getter |-> {}]
    /\ beside' = FALSE
    /\ writing' = [w \in Writer |-> None]
    /\ for' = [g \in Getter |-> AnyRemote]
    /\ got' = [g \in Getter |-> NoCursor]
    /\ UNCHANGED <<diskVars, given>>

-----------------------------------------------------------------------------
GetStep(g) ==
    \/ \E r \in Remote : Get(g, r) \/ MigrateStarts(g, r)
    \/ ReadLegacy(g) \/ List(g) \/ MigrateWrote(g) \/ MigrateFails(g)
    \/ ReadAgain(g) \/ ReadLegacyLast(g) \/ End(g)
    \/ \E c \in Cursor : Put(g, c)

Next ==
    \/ PutStarts \/ PutEnds
    \/ \E w \in Writer : Open(w) \/ Write(w)
    \/ \E g \in Getter : GetStep(g)
    \/ Crash

Spec == Init /\ [][Next]_vars

-----------------------------------------------------------------------------
(* Properties *)

\* What a get that starts now reads, if nothing else happens.
Kept(r) == IF Matches(file[PathOf(r)], r) THEN file[PathOf(r)][2] ELSE Legacy[r]

\* A session starts its walk from a cursor that was put for its own remote, or
\* from that of the legacy file, whatever ran beside it and whenever the
\* process has died.
GotOwn ==
    \A g \in Getter : pc[g] = "live" =>
        \/ <<for[g], got[g]>> \in given
        \/ got[g] = Legacy[for[g]]

\* The files keep the promise of a map that may forget.
Map == INSTANCE CursorMap WITH First <- Legacy, cursor <- [r \in Remote |-> Kept(r)]
KeepsMap == Map!Spec

\* What is kept of a remote changes by a put for it; otherwise only by a put for
\* another profile of its instance, or while a migration is under way.  And a
\* put that returns has stored its cursor, also over what an earlier process has
\* left behind, unless a migration ran beside it.
PutsDecide ==
    [][/\ \A r \in Remote : Kept(r)' # Kept(r) =>
            \/ chain # <<>> /\ Head(chain) = <<r, Kept(r)'>>
            \/ \E q \in Remote \ {r} : InstanceOf[q] = InstanceOf[r]
            \/ Migrating
       /\ \A p \in Record :
            (PutEnds /\ p = Head(chain) /\ ~ beside) => Kept(p[1])' = p[2]]_vars
=============================================================================
