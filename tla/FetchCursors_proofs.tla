------------------------ MODULE FetchCursors_proofs ------------------------
(***************************************************************************)
(* Type correctness of the store of cursors; that no session gets a cursor *)
(* which is not its own; that the files implement CursorMap; and that what *)
(* is kept changes by puts.  The last is not inductive: PutFile says where *)
(* the file of a put is while migrations rename it.                        *)
(***************************************************************************)
EXTENDS FetchCursors, TLAPS

\* An empty path and an unfinished file are not taken for a cursor.
LEMMA MarksAreNoRecords == None \notin Record /\ Torn \notin Record
BY DEF None, Torn, Record

-----------------------------------------------------------------------------
(* Types *)

ProcessOK ==
    /\ given \subseteq Record
    /\ chain \in Seq(Record)
    /\ pc \in [Getter -> {"idle", "legacy", "list", "migrate", "again", "last", "live"}]
    /\ for \in [Getter -> Remote]
    /\ todo \in [Getter -> SUBSET Remote]
    /\ got \in [Getter -> Cursor \cup {NoCursor}]
    /\ crashes \in 0..MaxCrashes
WritersOK ==
    /\ file \in [Instance -> Content] /\ tmp \in [Instance -> Content]
    /\ at \in [Writer -> {"idle", "open", "write", "rename"}]
    /\ writing \in [Writer -> Record \cup {None}]
    /\ \A w \in Writer : at[w] # "idle" => writing[w] # None
    /\ fd \in [Writer -> {"none", "tmp", "file", "gone"}]
Migrations == \A g \in Getter : todo[g] \subseteq OfLegacy

\* The put under way is one of the chain.
PutWaits == at["put"] # "idle" => chain # <<>>

StoreOK == ProcessOK /\ WritersOK /\ Migrations /\ PutWaits

\* The file a writer works on belongs to an instance.
LEMMA WhereIsInstance ==
    ASSUME WritersOK, NEW w \in Writer, at[w] # "idle"
    PROVE  Where(w) \in Instance /\ writing[w] \in Record
BY StoreAssumption DEF WritersOK, Where, PathOf, Record

\* Opening, writing and renaming keep the types of what writers work on.
LEMMA WriterSteps ==
    ASSUME WritersOK, NEW w \in Writer,
           Open(w) \/ Write(w) \/ Renamed(w) \/ RenameFails(w)
    PROVE  WritersOK'
<1>1. CASE Open(w)
  BY <1>1, WhereIsInstance DEF WritersOK, Open, Opened, Content
<1>2. CASE Write(w)
  <2>1. Where(w) \in Instance /\ writing[w] \in Record
    BY <1>2, WhereIsInstance DEF Write
  <2>2. \A old : Written(w, old) \subseteq Content
    BY <2>1 DEF Written, Content
  <2>3. file' \in [Instance -> Content] /\ tmp' \in [Instance -> Content]
    BY <1>2, <2>1, <2>2 DEF WritersOK, Write, diskVars
  <2>4. QED
    BY <1>2, <2>3 DEF WritersOK, Write
<1>3. CASE Renamed(w)
  <2>1. Where(w) \in Instance
    BY <1>3, WhereIsInstance DEF Renamed
  <2>2. Follow(Where(w)) \in [Writer -> {"none", "tmp", "file", "gone"}]
    BY DEF Follow, WritersOK
  <2>3. None \in Content
    BY DEF Content
  <2>4. QED
    BY <1>3, <2>1, <2>2, <2>3 DEF WritersOK, Renamed
<1>4. CASE RenameFails(w)
  BY <1>4 DEF WritersOK, RenameFails, diskVars
<1>5. QED
  BY <1>1, <1>2, <1>3, <1>4

\* A record a writer begins with is written beside its path.
LEMMA WriterStarts ==
    ASSUME WritersOK, NEW w \in Writer, NEW p \in Record,
           at' = [at EXCEPT ![w] = "open"], writing' = [writing EXCEPT ![w] = p],
           UNCHANGED <<file, tmp, fd>>
    PROVE  WritersOK'
BY MarksAreNoRecords DEF WritersOK

\* Every step keeps types, and migrations to records of the legacy file.
LEMMA StoreKept ==
    ASSUME StoreOK, [Next]_vars
    PROVE  StoreOK'
<1> USE StoreAssumption DEF StoreOK
<1> "put" \in Writer /\ Getter \subseteq Writer
  BY DEF Writer
<1>0. /\ at \in [Writer -> {"idle", "open", "write", "rename"}]
      /\ chain \in Seq(Record) /\ \A g \in Getter : g # "put"
  BY DEF WritersOK, ProcessOK
<1>1. CASE PutStarts
  <2>1. Head(chain) \in Record
    BY <1>1 DEF PutStarts, ProcessOK
  <2>2. WritersOK'
    BY <1>1, <2>1, WriterStarts DEF PutStarts, diskVars
  <2>3. QED
    BY <1>1, <2>2 DEF PutStarts, ProcessOK, Migrations, PutWaits, putVars, getVars
<1>2. CASE PutEnds
  <2>1. WritersOK'
    BY <1>2, WriterSteps DEF PutEnds
  <2>2. at["put"] = "rename" /\ at' = [at EXCEPT !["put"] = "idle"]
    BY <1>2 DEF PutEnds, Renamed, RenameFails
  <2>3. chain # <<>> /\ chain' = Tail(chain)
    BY <1>2, <2>2 DEF PutEnds, PutWaits
  <2>4. ProcessOK'
    BY <1>0, <1>2, <2>3 DEF PutEnds, ProcessOK, getVars
  <2>5. Migrations'
    BY <1>2 DEF PutEnds, Migrations, getVars
  <2>6. PutWaits'
    BY <1>0, <2>2 DEF PutWaits
  <2>7. QED
    BY <2>1, <2>4, <2>5, <2>6
<1>3. ASSUME NEW w \in Writer, Open(w) \/ Write(w) PROVE StoreOK'
  <2>1. WritersOK'
    BY <1>3, WriterSteps
  <2>2. QED
    BY <1>0, <1>3, <2>1 DEF Open, Write, ProcessOK, Migrations, PutWaits, putVars, getVars
<1>4. ASSUME NEW g \in Getter, NEW r \in Remote, MigrateStarts(g, r) PROVE StoreOK'
  <2>1. <<r, Legacy[r]>> \in Record
    BY <1>4 DEF MigrateStarts, Migrations, OfLegacy, Record
  <2>2. WritersOK'
    BY <1>4, <2>1, WriterStarts DEF MigrateStarts, diskVars
  <2>3. QED
    BY <1>0, <1>4, <2>2 DEF MigrateStarts, ProcessOK, Migrations, PutWaits, putVars
<1>5. ASSUME NEW g \in Getter, MigrateWrote(g) \/ MigrateFails(g) PROVE StoreOK'
  <2>1. WritersOK'
    BY <1>5, WriterSteps DEF MigrateWrote, MigrateFails
  <2>2. AnyRemote \in Remote
    BY DEF AnyRemote
  <2>3. ProcessOK'
    BY <1>5, <2>2 DEF MigrateWrote, MigrateFails, Go, ProcessOK, putVars
  <2>4. Migrations'
    BY <1>5 DEF MigrateWrote, MigrateFails, ProcessOK, Migrations, OfLegacy
  <2>5. PutWaits'
    BY <1>0, <1>5 DEF MigrateWrote, MigrateFails, Renamed, RenameFails, PutWaits, putVars
  <2>6. QED
    BY <2>1, <2>3, <2>4, <2>5
<1>6. ASSUME NEW g \in Getter, List(g) PROVE StoreOK'
  BY <1>6 DEF List, Go, ProcessOK, WritersOK, Migrations, PutWaits, OfLegacy, diskVars,
              putVars, writeVars
<1>7. ASSUME NEW g \in Getter, NEW r \in Remote, Get(g, r) PROVE StoreOK'
  <2>1. Matches(file[PathOf(r)], r) => file[PathOf(r)][2] \in Cursor
    BY DEF Matches, Record
  <2>2. ProcessOK'
    BY <1>7, <2>1 DEF Get, Go, Answer, ProcessOK, putVars
  <2>3. QED
    BY <1>7, <2>2 DEF Get, WritersOK, Migrations, PutWaits, diskVars, putVars, writeVars
<1>8. ASSUME NEW g \in Getter, ReadAgain(g) \/ ReadLegacyLast(g) \/ ReadLegacy(g) \/ End(g)
      PROVE  StoreOK'
  <2>1. for[g] \in Remote /\ AnyRemote \in Remote
    BY DEF ProcessOK, AnyRemote
  <2>2. Matches(file[PathOf(for[g])], for[g]) => file[PathOf(for[g])][2] \in Cursor
    BY DEF Matches, Record
  <2>3. ProcessOK'
    BY <1>8, <2>1, <2>2 DEF ReadAgain, ReadLegacyLast, ReadLegacy, End, Go, Answer,
                           ProcessOK, putVars
  <2>4. QED
    BY <1>8, <2>3 DEF ReadAgain, ReadLegacyLast, ReadLegacy, End, WritersOK,
                      Migrations, PutWaits, diskVars, putVars, writeVars
<1>9. ASSUME NEW g \in Getter, NEW c \in Cursor, Put(g, c) PROVE StoreOK'
  <2>1. <<for[g], c>> \in Record
    BY DEF ProcessOK, Record
  <2>2. /\ given' = given \cup {<<for[g], c>>}
        /\ chain' = Append(chain, <<for[g], c>>)
        /\ UNCHANGED <<pc, for, todo, got, crashes>>
    BY <1>9 DEF Put, getVars
  <2>3. chain' \in Seq(Record) /\ chain' # <<>>
    BY <1>0, <2>1, <2>2
  <2>4. ProcessOK'
    BY <2>1, <2>2, <2>3 DEF ProcessOK
  <2>5. WritersOK' /\ Migrations'
    BY <1>9 DEF Put, WritersOK, Migrations, diskVars, writeVars, getVars
  <2>6. QED
    BY <2>3, <2>4, <2>5 DEF PutWaits
<1>10. CASE Crash
  <2>1. AnyRemote \in Remote
    BY DEF AnyRemote
  <2>2. ProcessOK'
    BY <1>10, <2>1 DEF Crash, ProcessOK
  <2>3. WritersOK' /\ Migrations' /\ PutWaits'
    BY <1>10 DEF Crash, WritersOK, Migrations, PutWaits, diskVars
  <2>4. QED
    BY <2>2, <2>3
<1>11. CASE UNCHANGED vars
  BY <1>11 DEF vars, diskVars, putVars, writeVars, getVars, ProcessOK, WritersOK, Migrations,
               PutWaits
<1>12. QED
  BY <1>1, <1>2, <1>3, <1>4, <1>5, <1>6, <1>7, <1>8, <1>9, <1>10, <1>11
  DEF Next, GetStep

BesideOK == beside \in BOOLEAN

\* Every step leaves it true or false that a migration ran beside the put.
LEMMA BesideKept ==
    ASSUME BesideOK, [Next]_vars
    PROVE  BesideOK'
<1>1. \/ beside' = beside \/ beside' = FALSE \/ beside' = Migrating
      \/ \E g \in Getter : List(g)
  BY Zenon DEF Next, GetStep, PutStarts, PutEnds, Open, Write, Get, MigrateStarts,
     ReadLegacy, MigrateWrote, MigrateFails, ReadAgain, ReadLegacyLast, End, Put,
     Crash, vars
<1>2. QED
  BY <1>1, Zenon DEF BesideOK, List, Migrating

\* A process that starts with nothing on disk but the legacy file.
LEMMA StoreBegins == Init => StoreOK
<1> SUFFICES ASSUME Init PROVE StoreOK
  OBVIOUS
<1>1. AnyRemote \in Remote
  BY StoreAssumption DEF AnyRemote
<1>2. ProcessOK
  BY <1>1, StoreAssumption DEF Init, ProcessOK
<1>3. WritersOK
  BY StoreAssumption DEF Init, WritersOK, Content
<1>4. Migrations /\ PutWaits
  BY DEF Init, Migrations, PutWaits, Writer
<1>5. QED
  BY <1>2, <1>3, <1>4 DEF StoreOK

\* Type correctness.
THEOREM StoreTypeCorrect == Spec => []TypeOK
<1>1. Init => BesideOK
  BY DEF Init, BesideOK
<1>2. StoreOK /\ BesideOK => TypeOK
  BY DEF StoreOK, ProcessOK, WritersOK, BesideOK, TypeOK
<1>3. QED
  BY <1>1, <1>2, StoreBegins, StoreKept, BesideKept, PTL DEF Spec

-----------------------------------------------------------------------------
(* Whose cursors they are *)

\* Records that were put, or are those of the legacy file.
Known == given \cup {p \in Record : p[2] = Legacy[p[1]]}

\* Whatever is in a file or on its way there was known before, and so is what
\* sessions have.
FilesSound ==
    \A i \in Instance : file[i] \in Known \cup {None, Torn} /\ tmp[i] \in Known \cup {None, Torn}
WritersSound == \A w \in Writer : writing[w] \in Known \cup {None}
ChainSound == chain \in Seq(given)
Sound == FilesSound /\ WritersSound /\ ChainSound /\ GotOwn

\* What is known stays known.
LEMMA KnownStays ==
    ASSUME given \subseteq given'
    PROVE  Known \subseteq Known'
BY DEF Known

\* A writer moves what is known between its two paths, or tears it.
LEMMA WriterSound ==
    ASSUME StoreOK, FilesSound, WritersSound, UNCHANGED given, NEW w \in Writer,
           Open(w) \/ Write(w) \/ Renamed(w) \/ RenameFails(w)
    PROVE  FilesSound' /\ WritersSound'
<1> USE DEF FilesSound, WritersSound
<1>1. Known' = Known
  BY DEF Known
<1>2. at[w] # "idle"
  BY DEF Open, Write, Renamed, RenameFails
<1>3. /\ Where(w) \in Instance /\ writing[w] \in Known
      /\ file \in [Instance -> Content] /\ tmp \in [Instance -> Content]
      /\ writing \in [Writer -> Record \cup {None}]
  BY <1>2, WhereIsInstance, MarksAreNoRecords DEF StoreOK, WritersOK
<1>4. CASE Open(w)
  BY <1>1, <1>3, <1>4 DEF Open, Opened
<1>5. CASE Write(w)
  <2>1. \A old : Written(w, old) \subseteq Known \cup {Torn}
    BY <1>3 DEF Written
  <2>2. QED
    BY <1>1, <1>3, <1>5, <2>1 DEF Write, diskVars
<1>6. CASE Renamed(w)
  BY <1>1, <1>3, <1>6 DEF Renamed
<1>7. CASE RenameFails(w)
  BY <1>1, <1>3, <1>7 DEF RenameFails, diskVars
<1>8. QED
  BY <1>4, <1>5, <1>6, <1>7

\* A session that is answered with its own has its own, ...
LEMMA AnswerSound ==
    ASSUME StoreOK, GotOwn, UNCHANGED given, NEW g \in Getter, NEW c, Answer(g, c),
           \A f \in Getter \ {g} : for'[f] = for[f],
           <<for'[g], c>> \in given \/ c = Legacy[for'[g]]
    PROVE  GotOwn'
BY DEF GotOwn, StoreOK, ProcessOK, Answer, Go

\* ... and one that has no answer yet needs none.
LEMMA UnansweredSound ==
    ASSUME GotOwn, UNCHANGED given, NEW g \in Getter, pc'[g] # "live",
           \A f \in Getter \ {g} : pc'[f] = pc[f] /\ got'[f] = got[f] /\ for'[f] = for[f]
    PROVE  GotOwn'
BY DEF GotOwn

\* What a file has for a remote is its own.
LEMMA MatchIsOwn ==
    ASSUME FilesSound, NEW i \in Instance, NEW r \in Remote, Matches(file[i], r)
    PROVE  <<r, file[i][2]>> \in given \/ file[i][2] = Legacy[r]
BY MarksAreNoRecords DEF FilesSound, Matches, Known, Record

\* Every step keeps files, writers and sessions to what is known.
LEMMA SoundKept ==
    ASSUME StoreOK, Sound, [Next]_vars
    PROVE  Sound'
<1> USE StoreAssumption DEF Sound
<1>0. /\ "put" \in Writer /\ Getter \subseteq Writer
      /\ writing \in [Writer -> Record \cup {None}]
      /\ pc \in [Getter -> {"idle", "legacy", "list", "migrate", "again", "last", "live"}]
      /\ got \in [Getter -> Cursor \cup {NoCursor}]
      /\ for \in [Getter -> Remote]
  BY DEF Writer, StoreOK, WritersOK, ProcessOK
<1>1. CASE PutStarts
  <2>1. /\ chain # <<>> /\ writing' = [writing EXCEPT !["put"] = Head(chain)]
        /\ UNCHANGED <<file, tmp, given, chain, pc, for, got>>
    BY <1>1 DEF PutStarts, diskVars, putVars, getVars
  <2>2. Head(chain) \in given
    BY <2>1 DEF ChainSound
  <2>3. WritersSound'
    BY <1>0, <2>1, <2>2 DEF WritersSound, Known
  <2>4. QED
    BY <2>1, <2>3 DEF FilesSound, ChainSound, GotOwn, Known
<1>2. CASE PutEnds
  <2>1. /\ chain # <<>> /\ chain' = Tail(chain)
        /\ UNCHANGED <<given, pc, for, got>>
    BY <1>2 DEF PutEnds, Renamed, RenameFails, StoreOK, PutWaits, getVars
  <2>2. FilesSound' /\ WritersSound'
    BY <1>0, <1>2, <2>1, WriterSound DEF PutEnds
  <2>3. ChainSound'
    BY <2>1 DEF ChainSound
  <2>4. GotOwn'
    BY <2>1 DEF GotOwn
  <2>5. QED
    BY <2>2, <2>3, <2>4
<1>3. ASSUME NEW w \in Writer, Open(w) \/ Write(w) PROVE Sound'
  <2>1. UNCHANGED <<given, chain, pc, for, got>>
    BY <1>3 DEF Open, Write, putVars, getVars
  <2>2. QED
    BY <1>3, <2>1, WriterSound DEF ChainSound, GotOwn
<1>4. ASSUME NEW g \in Getter, NEW r \in Remote, MigrateStarts(g, r) PROVE Sound'
  <2>1. /\ writing' = [writing EXCEPT ![g] = <<r, Legacy[r]>>]
        /\ UNCHANGED <<file, tmp, given, chain, pc, for, got>>
    BY <1>4 DEF MigrateStarts, diskVars, putVars
  <2>2. <<r, Legacy[r]>> \in Known
    BY <1>4 DEF MigrateStarts, StoreOK, Migrations, OfLegacy, Known, Record
  <2>3. WritersSound'
    BY <1>0, <2>1, <2>2 DEF WritersSound, Known
  <2>4. QED
    BY <2>1, <2>3 DEF FilesSound, ChainSound, GotOwn, Known
<1>5. ASSUME NEW g \in Getter, MigrateWrote(g) \/ MigrateFails(g) PROVE Sound'
  <2>1. /\ UNCHANGED <<given, chain, got>>
        /\ pc[g] = "migrate" /\ (pc' = [pc EXCEPT ![g] = "again"] \/ pc' = pc
                                   \/ pc' = [pc EXCEPT ![g] = "idle"])
        /\ \A f \in Getter \ {g} : for'[f] = for[f]
    BY <1>0, <1>5 DEF MigrateWrote, MigrateFails, Go, putVars
  <2>2. FilesSound' /\ WritersSound'
    BY <1>0, <1>5, <2>1, WriterSound DEF MigrateWrote, MigrateFails
  <2>3. GotOwn'
    BY <1>0, <2>1, UnansweredSound
  <2>4. QED
    BY <2>1, <2>2, <2>3 DEF ChainSound
<1>6. ASSUME NEW g \in Getter, NEW r \in Remote,
             Get(g, r) \/ List(g) \/ ReadLegacy(g) \/ ReadAgain(g) \/ ReadLegacyLast(g) \/ End(g)
      PROVE  Sound'
  <2>1. UNCHANGED <<file, tmp, given, chain, writing>>
    BY <1>6 DEF Get, List, ReadLegacy, ReadAgain, ReadLegacyLast, End, diskVars,
                putVars, writeVars
  <2>2. FilesSound' /\ WritersSound' /\ ChainSound'
    BY <2>1 DEF FilesSound, WritersSound, ChainSound, Known
  <2>3. CASE Get(g, r) /\ Matches(file[PathOf(r)], r)
    <3>1. /\ Answer(g, file[PathOf(r)][2])
          /\ for' = [for EXCEPT ![g] = r]
      BY <2>3 DEF Get
    <3>2. <<r, file[PathOf(r)][2]>> \in given \/ file[PathOf(r)][2] = Legacy[r]
      BY <2>3, MatchIsOwn DEF PathOf
    <3>3. GotOwn'
      BY <1>0, <2>1, <3>1, <3>2, AnswerSound
    <3>4. QED
      BY <2>2, <3>3
  <2>4. CASE ReadAgain(g) /\ Matches(file[PathOf(for[g])], for[g])
    <3>1. /\ Answer(g, file[PathOf(for[g])][2])
          /\ UNCHANGED for
      BY <2>4 DEF ReadAgain
    <3>2. <<for[g], file[PathOf(for[g])][2]>> \in given
          \/ file[PathOf(for[g])][2] = Legacy[for[g]]
      BY <1>0, <2>4, MatchIsOwn DEF PathOf
    <3>3. GotOwn'
      BY <2>1, <3>1, <3>2, AnswerSound
    <3>4. QED
      BY <2>2, <3>3
  <2>5. CASE ReadLegacyLast(g)
    <3>1. Answer(g, Legacy[for[g]]) /\ UNCHANGED for
      BY <2>5 DEF ReadLegacyLast
    <3>2. GotOwn'
      BY <2>1, <3>1, AnswerSound
    <3>3. QED
      BY <2>2, <3>2
  <2>6. CASE \/ Get(g, r) /\ ~ Matches(file[PathOf(r)], r)
             \/ ReadAgain(g) /\ ~ Matches(file[PathOf(for[g])], for[g])
             \/ List(g) \/ ReadLegacy(g) \/ End(g)
    <3>1. /\ pc'[g] # "live"
          /\ \A f \in Getter \ {g} : pc'[f] = pc[f] /\ got'[f] = got[f] /\ for'[f] = for[f]
      BY <1>0, <2>6 DEF Get, ReadAgain, List, ReadLegacy, End, Go
    <3>2. GotOwn'
      BY <2>1, <3>1, UnansweredSound
    <3>3. QED
      BY <2>2, <3>2
  <2>7. QED
    BY <1>6, <2>3, <2>4, <2>5, <2>6
<1>7. ASSUME NEW g \in Getter, NEW c \in Cursor, Put(g, c) PROVE Sound'
  <2>1. /\ given' = given \cup {<<for[g], c>>}
        /\ chain' = Append(chain, <<for[g], c>>)
        /\ UNCHANGED <<file, tmp, writing, pc, for, got>>
    BY <1>7 DEF Put, diskVars, writeVars, getVars
  <2>2. Known \subseteq Known'
    BY <2>1, KnownStays
  <2>3. ChainSound'
    BY <2>1 DEF ChainSound
  <2>4. QED
    BY <2>1, <2>2, <2>3 DEF FilesSound, WritersSound, GotOwn
<1>8. CASE Crash
  <2>1. /\ chain' = <<>> /\ UNCHANGED <<file, tmp, given>>
        /\ writing' = [w \in Writer |-> None]
        /\ pc' = [g \in Getter |-> "idle"]
    BY <1>8 DEF Crash, diskVars
  <2>2. QED
    BY <2>1 DEF FilesSound, WritersSound, ChainSound, GotOwn, Known
<1>9. CASE UNCHANGED vars
  BY <1>9 DEF vars, diskVars, putVars, writeVars, getVars, FilesSound, WritersSound,
              ChainSound, GotOwn, Known
<1>10. QED
  BY <1>1, <1>2, <1>3, <1>4, <1>5, <1>6, <1>7, <1>8, <1>9 DEF Next, GetStep

\* Nothing is known to begin with, and nothing is kept.
LEMMA SoundBegins == Init => StoreOK /\ Sound
<1>1. Init => Sound
  BY DEF Init, Sound, FilesSound, WritersSound, ChainSound, GotOwn
<1>2. QED
  BY <1>1, StoreBegins

\* For any remotes, sessions, puts and crashes: a session starts from a cursor
\* of its own remote.
THEOREM CursorsAreOwn == Spec => []GotOwn
<1>1. Sound => GotOwn
  BY DEF Sound
<1>2. QED
  BY <1>1, SoundBegins, StoreKept, SoundKept, PTL DEF Spec

-----------------------------------------------------------------------------
(* The files implement the map *)

\* A step changes one file at most, and none when it gives a cursor.
LEMMA OneFile ==
    ASSUME StoreOK, [Next]_vars
    PROVE  \/ \E g \in Getter, c \in Cursor : Put(g, c)
           \/ UNCHANGED <<given, file>>
           \/ /\ UNCHANGED given
              /\ \E i \in Instance : \A j \in Instance \ {i} : file'[j] = file[j]
<1> DEFINE One == \E i \in Instance : \A j \in Instance \ {i} : file'[j] = file[j]
<1>1. ASSUME NEW w \in Writer, Write(w) \/ Renamed(w) PROVE One
  <2>1. Where(w) \in Instance /\ file \in [Instance -> Content]
    BY <1>1, WhereIsInstance DEF Write, Renamed, StoreOK, WritersOK
  <2>2. \A j \in Instance \ {Where(w)} : file'[j] = file[j]
    BY <1>1, <2>1 DEF Write, Renamed, diskVars
  <2>3. QED
    BY <2>1, <2>2
<1>2. "put" \in Writer /\ Getter \subseteq Writer
  BY DEF Writer
<1>3. CASE PutEnds
  <2>1. UNCHANGED given /\ (One \/ UNCHANGED file)
    BY <1>1, <1>2, <1>3 DEF PutEnds, RenameFails, diskVars
  <2>2. QED
    BY <2>1
<1>4. ASSUME NEW w \in Writer, Open(w) \/ Write(w)
      PROVE  UNCHANGED given /\ (One \/ UNCHANGED file)
  BY <1>1, <1>4 DEF Open, Write, putVars
<1>5. ASSUME NEW g \in Getter, MigrateWrote(g) \/ MigrateFails(g)
      PROVE  UNCHANGED given /\ (One \/ UNCHANGED file)
  BY <1>1, <1>2, <1>5 DEF MigrateWrote, MigrateFails, RenameFails, putVars, diskVars
<1>6. ASSUME NEW g \in Getter,
             \/ \E r \in Remote : MigrateStarts(g, r) \/ Get(g, r)
             \/ List(g) \/ ReadLegacy(g) \/ ReadAgain(g) \/ ReadLegacyLast(g) \/ End(g)
      PROVE  UNCHANGED <<given, file>>
  BY <1>6 DEF MigrateStarts, Get, List, ReadLegacy, ReadAgain, ReadLegacyLast, End,
              putVars, diskVars
<1>7. CASE PutStarts \/ Crash \/ UNCHANGED vars
  BY <1>7 DEF PutStarts, Crash, vars, putVars, diskVars
<1> DEFINE Changed ==
      \/ \E g \in Getter, c \in Cursor : Put(g, c)
      \/ UNCHANGED <<given, file>>
      \/ UNCHANGED given /\ One
<1>8. Changed
  <2>1. ASSUME NEW g \in Getter, GetStep(g) PROVE Changed
    <3>1. CASE \E c \in Cursor : Put(g, c)
      BY <3>1
    <3>2. CASE MigrateWrote(g) \/ MigrateFails(g)
      BY <1>5, <3>2
    <3>3. CASE ~ (\E c \in Cursor : Put(g, c)) /\ ~ (MigrateWrote(g) \/ MigrateFails(g))
      BY <1>6, <2>1, <3>3 DEF GetStep
    <3>4. QED
      BY <3>1, <3>2, <3>3
  <2>2. CASE PutStarts \/ PutEnds \/ Crash \/ UNCHANGED vars
    BY <1>3, <1>7, <2>2
  <2>3. ASSUME NEW w \in Writer, Open(w) \/ Write(w) PROVE Changed
    BY <1>4, <2>3
  <2>4. QED
    BY <2>1, <2>2, <2>3 DEF Next
<1>9. QED
  BY <1>8

\* What is kept of the remotes, as one function.
Keeping == [r \in Remote |-> Kept(r)]

\* A step that leaves the records put, and all files but one, stores in it a
\* record that was put, or makes the store forget.
LEMMA StoreOrForget ==
    ASSUME Sound', UNCHANGED given, NEW i \in Instance,
           \A j \in Instance \ {i} : file'[j] = file[j]
    PROVE  \E New \in {{}} \cup {{p} : p \in given}, R \in SUBSET Remote : Map!Store(New, R)
<1> USE StoreAssumption
<1> DEFINE New == IF file'[i] \in given THEN {file'[i]} ELSE {}
           R == {r \in Remote : PathOf(r) = i}
<1>1. New \in {{}} \cup {{p} : p \in given} /\ New \subseteq given /\ R \in SUBSET Remote
  OBVIOUS
<1>2. ASSUME NEW r \in Remote
      PROVE  \/ <<r, Kept(r)'>> \in New
             \/ Kept(r)' = IF r \in R THEN Legacy[r] ELSE Kept(r)
  <2>1. CASE PathOf(r) # i
    <3>1. file'[PathOf(r)] = file[PathOf(r)]
      BY <2>1 DEF PathOf
    <3>2. QED
      BY <2>1, <3>1 DEF Kept, Matches
  <2>2. CASE PathOf(r) = i /\ ~ Matches(file[i], r)'
    BY <2>2 DEF Kept
  <2>3. CASE PathOf(r) = i /\ Matches(file[i], r)'
    <3>1. file'[i] \in Record /\ file'[i][1] = r /\ Kept(r)' = file'[i][2]
      BY <2>3 DEF Kept, Matches
    <3>2. file'[i] = <<r, Kept(r)'>>
      BY <3>1 DEF Record
    <3>3. file'[i] \in given \/ file'[i][2] = Legacy[r]
      BY <3>1, MarksAreNoRecords DEF Sound, FilesSound, Known
    <3>4. QED
      BY <2>3, <3>1, <3>2, <3>3
  <2>4. QED
    BY <2>1, <2>2, <2>3
<1> HIDE DEF New, R
<1>3. ASSUME NEW r \in Remote
      PROVE  Kept(r)' \in {Keeping[q] : q \in Remote} \cup {Legacy[q] : q \in Remote}
                          \cup {p[2] : p \in New}
  <2>1. Keeping[r] = Kept(r)
    BY DEF Keeping
  <2>2. CASE <<r, Kept(r)'>> \in New
    <3>1. <<r, Kept(r)'>>[2] = Kept(r)'
      OBVIOUS
    <3>2. QED
      BY <2>2, <3>1
  <2>3. CASE Kept(r)' = IF r \in R THEN Legacy[r] ELSE Kept(r)
    BY <2>1, <2>3
  <2>4. QED
    BY <1>2, <2>2, <2>3
<1>4. Map!Store(New, R)
  BY <1>1, <1>2, <1>3 DEF Map!Store, Keeping
<1>5. QED
  BY <1>1, <1>4

\* For any remotes that share instances or not, sessions, puts and crashes: the
\* files keep the promise of CursorMap.
THEOREM FilesImplementMap == Spec => KeepsMap
<1>1. Init => Map!Init
  BY MarksAreNoRecords, StoreAssumption DEF Init, Map!Init, Kept, Matches, PathOf
<1>2. StoreOK /\ Sound' /\ [Next]_vars => [Map!Next]_<<given, [r \in Remote |-> Kept(r)]>>
  <2> SUFFICES ASSUME StoreOK, Sound', [Next]_vars
               PROVE  [Map!Next]_<<given, [r \in Remote |-> Kept(r)]>>
    OBVIOUS
  <2>1. ASSUME NEW g \in Getter, NEW c \in Cursor, Put(g, c) PROVE Map!Next
    <3>1. /\ for[g] \in Remote
          /\ given' = given \cup {<<for[g], c>>} /\ UNCHANGED file
      BY <2>1 DEF Put, diskVars, StoreOK, ProcessOK
    <3>2. UNCHANGED [r \in Remote |-> Kept(r)]
      BY <3>1 DEF Kept, Matches
    <3>3. QED
      BY <3>1, <3>2 DEF Map!Next, Map!Give
  <2>2. CASE UNCHANGED <<given, file>>
    BY <2>2 DEF Kept, Matches
  <2>3. CASE /\ UNCHANGED given
             /\ \E i \in Instance : \A j \in Instance \ {i} : file'[j] = file[j]
    BY <2>3, StoreOrForget DEF Map!Next
  <2>4. QED
    BY <2>1, <2>2, <2>3, OneFile
<1>3. QED
  BY <1>1, <1>2, SoundBegins, StoreKept, SoundKept, PTL DEF Spec, KeepsMap, Map!Spec

-----------------------------------------------------------------------------
(* What puts decide *)

LegacyRecord(p) == p \in Record /\ p[2] = Legacy[p[1]]

\* What a migration may leave where a put has not written yet.
Leftover(x) == x = Torn \/ LegacyRecord(x)

\* A migration has the scratch file of an instance open.
Busy(i) ==
    \E g \in Getter : at[g] \in {"write", "rename"} /\ fd[g] = "tmp" /\ Where(g) = i

\* A get writes only while it migrates, and then records of the legacy file.
GetsMigrate ==
    \A g \in Getter : at[g] # "idle" => pc[g] = "migrate" /\ LegacyRecord(writing[g])

\* The put under way is the first of the chain, and a migration beside it is noted.
PutIsFirst ==
    at["put"] # "idle" => writing["put"] = Head(chain) /\ (beside \/ ~ Migrating)

\* A scratch file that a writer has open is there.
ScratchThere ==
    \A w \in Writer : (at[w] \in {"write", "rename"} /\ fd[w] = "tmp") => tmp[Where(w)] # None

\* While a put writes, the scratch file is as the put has left it, or a migration
\* is about to rename it; only a migration renames it away; and what it leaves at
\* the path before the put has written is of the legacy file.
PutFile ==
    at["put"] \in {"write", "rename"} =>
        LET i == Where("put") IN
        /\ fd["put"] \in {"tmp", "file", "gone"}
        /\ beside \/ fd["put"] = "tmp"
        /\ \/ Busy(i)
           \/ tmp[i] = IF fd["put"] # "tmp" THEN None
                       ELSE IF at["put"] = "write" THEN Torn ELSE writing["put"]
        /\ at["put"] = "write" /\ fd["put"] = "tmp" => Leftover(tmp[i])
        /\ at["put"] = "write" /\ fd["put"] = "file" => Leftover(file[i])

PutTurn == GetsMigrate /\ PutIsFirst /\ ScratchThere /\ PutFile

\* Opening, writing and renaming keep open scratch files there.
LEMMA ScratchKept ==
    ASSUME StoreOK, ScratchThere, NEW w \in Writer,
           Open(w) \/ Write(w) \/ Renamed(w) \/ RenameFails(w)
    PROVE  ScratchThere'
<1>1. /\ Where(w) \in Instance /\ writing[w] \in Record /\ at[w] # "idle"
      /\ file \in [Instance -> Content] /\ tmp \in [Instance -> Content]
      /\ at \in [Writer -> {"idle", "open", "write", "rename"}]
      /\ writing \in [Writer -> Record \cup {None}]
      /\ fd \in [Writer -> {"none", "tmp", "file", "gone"}]
      /\ Torn # None /\ None \notin Record
  BY WhereIsInstance, MarksAreNoRecords DEF StoreOK, WritersOK, Open, Write, Renamed,
     RenameFails, Torn, None
<1>2. CASE Open(w)
  <2>1. \A v \in Writer : Where(v)' = Where(v)
    BY <1>2 DEF Open, Where
  <2>2. QED
    BY <1>1, <1>2, <2>1 DEF Open, Opened, ScratchThere
<1>3. CASE Write(w)
  <2>1. \A v \in Writer : Where(v)' = Where(v)
    BY <1>3 DEF Write, Where
  <2>2. \A old : None \notin Written(w, old)
    BY <1>1 DEF Written
  <2>3. \A i \in Instance : tmp[i] # None => tmp'[i] # None
    BY <1>1, <1>3, <2>2 DEF Write, diskVars
  <2>4. fd[w] = "tmp" => tmp'[Where(w)] # None
    BY <1>1, <1>3, <2>2 DEF Write
  <2>5. ASSUME NEW v \in Writer, at'[v] \in {"write", "rename"}, fd'[v] = "tmp"
        PROVE  tmp'[Where(v)'] # None
    <3>1. fd[v] = "tmp" /\ Where(v)' = Where(v) /\ at[v] # "idle"
      BY <1>1, <1>3, <2>1, <2>5 DEF Write
    <3>2. at[v] \in {"write", "rename"} /\ Where(v) \in Instance
      BY <1>1, <1>3, <2>5, <3>1, WhereIsInstance DEF Write, StoreOK
    <3>3. QED
      BY <2>3, <3>1, <3>2 DEF ScratchThere
  <2>6. QED
    BY <2>5 DEF ScratchThere
<1>4. CASE Renamed(w)
  <2>1. \A v \in Writer : v # w => Where(v)' = Where(v)
    BY <1>1, <1>4 DEF Renamed, Where
  <2>2. \A v \in Writer : v # w => at'[v] = at[v] /\ fd'[v] = Follow(Where(w))[v]
    BY <1>1, <1>4 DEF Renamed, Follow
  <2>3. at'[w] = "idle"
    BY <1>1, <1>4 DEF Renamed
  <2>4. ASSUME NEW v \in Writer, at'[v] \in {"write", "rename"}, fd'[v] = "tmp"
        PROVE  tmp'[Where(v)'] # None
    <3>1. v # w /\ at[v] \in {"write", "rename"} /\ Follow(Where(w))[v] = "tmp"
      BY <2>2, <2>3, <2>4
    <3>2. Where(v) # Where(w) /\ fd[v] = "tmp"
      BY <3>1 DEF Follow
    <3>3. tmp'[Where(v)] = tmp[Where(v)]
      BY <1>1, <1>4, <3>2 DEF Renamed
    <3>4. QED
      BY <2>1, <3>1, <3>2, <3>3 DEF ScratchThere
  <2>5. QED
    BY <2>4 DEF ScratchThere
<1>5. CASE RenameFails(w)
  <2>1. \A v \in Writer : v # w => Where(v)' = Where(v)
    BY <1>1, <1>5 DEF RenameFails, Where
  <2>2. QED
    BY <1>1, <1>5, <2>1 DEF RenameFails, ScratchThere, diskVars
<1>6. QED
  BY <1>2, <1>3, <1>4, <1>5

\* Steps that leave writers, the scratch files and what is at the paths alone.
Reading ==
    \/ \E g \in Getter :
          \/ \E r \in Remote : Get(g, r)
          \/ \E c \in Cursor : Put(g, c)
          \/ ReadLegacy(g) \/ ReadAgain(g) \/ ReadLegacyLast(g) \/ End(g)
    \/ UNCHANGED vars

\* They leave those that migrate alone, and the first of the chain.
LEMMA ReadingMoves ==
    ASSUME StoreOK, GetsMigrate, Reading
    PROVE  /\ UNCHANGED <<file, tmp, at, writing, fd, beside>>
           /\ \A g \in Getter : pc'[g] = "migrate" <=> pc[g] = "migrate"
           /\ chain # <<>> => chain' # <<>> /\ Head(chain') = Head(chain)
<1>1. /\ pc \in [Getter -> {"idle", "legacy", "list", "migrate", "again", "last", "live"}]
      /\ chain \in Seq(Record) /\ for \in [Getter -> Remote]
  BY DEF StoreOK, ProcessOK
<1>2. ASSUME NEW g \in Getter, NEW c \in Cursor, Put(g, c)
      PROVE  /\ UNCHANGED <<file, tmp, at, writing, fd, beside, pc>>
             /\ chain # <<>> => chain' # <<>> /\ Head(chain') = Head(chain)
  <2>1. <<for[g], c>> \in Record
    BY <1>1 DEF Record
  <2>2. chain' = Append(chain, <<for[g], c>>)
    BY <1>2 DEF Put
  <2>3. chain # <<>> => chain' # <<>> /\ Head(chain') = Head(chain)
    BY <1>1, <2>1, <2>2
  <2>4. QED
    BY <1>2, <2>3 DEF Put, diskVars, writeVars, getVars
<1>3. ASSUME NEW g \in Getter,
             \/ \E r \in Remote : Get(g, r)
             \/ ReadLegacy(g) \/ ReadAgain(g) \/ ReadLegacyLast(g) \/ End(g)
      PROVE  /\ UNCHANGED <<file, tmp, at, writing, fd, beside, chain>>
             /\ \A f \in Getter : pc'[f] = "migrate" <=> pc[f] = "migrate"
  BY <1>1, <1>3 DEF Get, ReadLegacy, ReadAgain, ReadLegacyLast, End, Go, Answer,
                    diskVars, writeVars, putVars
<1>4. CASE UNCHANGED vars
  BY <1>4 DEF vars, diskVars, writeVars, putVars, getVars
<1>5. QED
  BY <1>2, <1>3, <1>4 DEF Reading

\* The steps there are, as the lemmas below tell them apart.
LEMMA Steps ==
    ASSUME [Next]_vars
    PROVE  \/ PutStarts \/ PutEnds \/ Crash \/ Reading
           \/ \E w \in Writer : Open(w) \/ Write(w)
           \/ \E g \in Getter : \/ \E r \in Remote : MigrateStarts(g, r)
                                \/ List(g) \/ MigrateWrote(g) \/ MigrateFails(g)
BY Zenon DEF Next, GetStep, Reading

\* Every step keeps gets writing only while they migrate.
LEMMA GetsMigrateKept ==
    ASSUME StoreOK, GetsMigrate, [Next]_vars
    PROVE  GetsMigrate'
<1>0. /\ at \in [Writer -> {"idle", "open", "write", "rename"}]
      /\ writing \in [Writer -> Record \cup {None}]
      /\ pc \in [Getter -> {"idle", "legacy", "list", "migrate", "again", "last", "live"}]
      /\ "put" \in Writer /\ Getter \subseteq Writer /\ \A g \in Getter : g # "put"
  BY StoreAssumption DEF StoreOK, WritersOK, ProcessOK, Writer
<1>1. CASE PutStarts \/ PutEnds
  <2>1. \A g \in Getter : at'[g] = at[g] /\ writing'[g] = writing[g] /\ pc'[g] = pc[g]
    BY <1>0, <1>1 DEF PutStarts, PutEnds, Renamed, RenameFails, getVars
  <2>2. QED
    BY <2>1 DEF GetsMigrate, LegacyRecord
<1>2. CASE Crash
  BY <1>0, <1>2 DEF Crash, GetsMigrate
<1>3. CASE Reading
  <2>1. UNCHANGED <<at, writing>> /\ \A g \in Getter : pc'[g] = "migrate" <=> pc[g] = "migrate"
    BY <1>3, ReadingMoves
  <2>2. QED
    BY <2>1 DEF GetsMigrate, LegacyRecord
<1>4. ASSUME NEW w \in Writer, Open(w) \/ Write(w) PROVE GetsMigrate'
  <2>1. UNCHANGED <<writing, pc>> /\ \A g \in Getter : at'[g] # "idle" => at[g] # "idle"
    BY <1>0, <1>4 DEF Open, Write, getVars
  <2>2. QED
    BY <2>1 DEF GetsMigrate, LegacyRecord
<1>5. ASSUME NEW g \in Getter, NEW r \in Remote, MigrateStarts(g, r) PROVE GetsMigrate'
  <2>1. LegacyRecord(<<r, Legacy[r]>>)
    BY <1>5, StoreAssumption
    DEF MigrateStarts, StoreOK, Migrations, OfLegacy, LegacyRecord, Record
  <2>2. /\ pc[g] = "migrate" /\ pc' = pc /\ writing'[g] = <<r, Legacy[r]>>
        /\ \A f \in Getter \ {g} : at'[f] = at[f] /\ writing'[f] = writing[f]
    BY <1>0, <1>5 DEF MigrateStarts
  <2>3. LegacyRecord(writing[g])'
    BY <2>1, <2>2 DEF LegacyRecord
  <2>4. QED
    BY <2>2, <2>3 DEF GetsMigrate, LegacyRecord
<1>6. ASSUME NEW g \in Getter, MigrateWrote(g) \/ MigrateFails(g) PROVE GetsMigrate'
  <2>1. /\ at'[g] = "idle"
        /\ \A f \in Getter \ {g} : at'[f] = at[f] /\ writing'[f] = writing[f] /\ pc'[f] = pc[f]
    BY <1>0, <1>6 DEF MigrateWrote, MigrateFails, Renamed, RenameFails, Go
  <2>2. QED
    BY <2>1 DEF GetsMigrate, LegacyRecord
<1>7. ASSUME NEW g \in Getter, List(g) PROVE GetsMigrate'
  <2>1. /\ pc[g] = "list" /\ UNCHANGED <<at, writing>>
        /\ \A f \in Getter \ {g} : pc'[f] = pc[f]
    BY <1>0, <1>7 DEF List, Go, writeVars
  <2>2. QED
    BY <2>1 DEF GetsMigrate, LegacyRecord
<1>8. QED
  BY <1>1, <1>2, <1>3, <1>4, <1>5, <1>6, <1>7, Steps

\* Every step keeps the put the first of the chain, and notes a migration beside it.
LEMMA PutIsFirstKept ==
    ASSUME StoreOK, BesideOK, GetsMigrate, PutIsFirst, [Next]_vars
    PROVE  PutIsFirst'
<1>0. /\ at \in [Writer -> {"idle", "open", "write", "rename"}]
      /\ writing \in [Writer -> Record \cup {None}]
      /\ pc \in [Getter -> {"idle", "legacy", "list", "migrate", "again", "last", "live"}]
      /\ "put" \in Writer /\ Getter \subseteq Writer /\ \A g \in Getter : g # "put"
      /\ at["put"] # "idle" => chain # <<>>
  BY StoreAssumption DEF StoreOK, WritersOK, ProcessOK, Writer, PutWaits
<1>1. CASE PutStarts
  <2>1. writing'["put"] = Head(chain) /\ chain' = chain /\ beside' = Migrating /\ pc' = pc
    BY <1>0, <1>1 DEF PutStarts, putVars, getVars
  <2>2. Migrating' = Migrating
    BY <2>1 DEF Migrating
  <2>3. beside' \/ ~ Migrating'
    BY <2>1, <2>2
  <2>4. QED
    BY <2>1, <2>3 DEF PutIsFirst
<1>2. CASE PutEnds \/ Crash
  <2>1. at'["put"] = "idle"
    BY <1>0, <1>2 DEF PutEnds, Crash, Renamed, RenameFails
  <2>2. QED
    BY <2>1 DEF PutIsFirst
<1>3. CASE Reading
  <2>1. /\ UNCHANGED <<at, writing, beside>>
        /\ \A g \in Getter : pc'[g] = "migrate" <=> pc[g] = "migrate"
        /\ chain # <<>> => Head(chain') = Head(chain)
    BY <1>3, ReadingMoves
  <2>2. Migrating' <=> Migrating
    BY <2>1 DEF Migrating
  <2>3. QED
    BY <1>0, <2>1, <2>2 DEF PutIsFirst
<1>4. ASSUME NEW w \in Writer, Open(w) \/ Write(w) PROVE PutIsFirst'
  <2>1. /\ UNCHANGED <<writing, chain, beside, pc>>
        /\ at'["put"] # "idle" => at["put"] # "idle"
    BY <1>0, <1>4 DEF Open, Write, putVars, getVars
  <2>2. QED
    BY <2>1 DEF PutIsFirst, Migrating
<1>5. ASSUME NEW g \in Getter, NEW r \in Remote, MigrateStarts(g, r) PROVE PutIsFirst'
  <2>1. /\ at'["put"] = at["put"] /\ writing'["put"] = writing["put"]
        /\ UNCHANGED <<chain, beside, pc>>
    BY <1>0, <1>5 DEF MigrateStarts, putVars
  <2>2. QED
    BY <2>1 DEF PutIsFirst, Migrating
<1>6. ASSUME NEW g \in Getter, MigrateWrote(g) \/ MigrateFails(g) PROVE PutIsFirst'
  <2>1. /\ at'["put"] = at["put"] /\ writing'["put"] = writing["put"]
        /\ UNCHANGED <<chain, beside>>
        /\ \A f \in Getter : pc'[f] = "migrate" => pc[f] = "migrate"
    BY <1>0, <1>6 DEF MigrateWrote, MigrateFails, Renamed, RenameFails, Go, putVars
  <2>2. Migrating' => Migrating
    BY <2>1 DEF Migrating
  <2>3. QED
    BY <2>1, <2>2 DEF PutIsFirst
<1>7. ASSUME NEW g \in Getter, List(g) PROVE PutIsFirst'
  <2>1. /\ UNCHANGED <<at, writing, chain>>
        /\ pc' = [pc EXCEPT ![g] = IF Empty THEN "migrate" ELSE "again"]
        /\ beside' = (beside \/ (Empty /\ at["put"] # "idle"))
    BY <1>7 DEF List, Go, writeVars, putVars
  <2>2. CASE at["put"] # "idle" /\ ~ beside'
    <3>1. ~ Empty /\ ~ beside
      BY <2>1, <2>2, Zenon
    <3>2. pc' = [pc EXCEPT ![g] = "again"]
      BY <2>1, <3>1
    <3>3. ~ Migrating'
      BY <1>0, <2>2, <3>1, <3>2 DEF Migrating, PutIsFirst
    <3>4. QED
      BY <2>1, <2>2, <3>3 DEF PutIsFirst
  <2>3. CASE at["put"] = "idle" \/ beside'
    BY <2>1, <2>3 DEF PutIsFirst
  <2>4. QED
    BY <2>2, <2>3
<1>8. QED
  BY <1>1, <1>2, <1>3, <1>4, <1>5, <1>6, <1>7, Steps

\* Every step keeps open scratch files there.
LEMMA ScratchThereKept ==
    ASSUME StoreOK, GetsMigrate, ScratchThere, [Next]_vars
    PROVE  ScratchThere'
<1>0. /\ at \in [Writer -> {"idle", "open", "write", "rename"}]
      /\ writing \in [Writer -> Record \cup {None}]
      /\ "put" \in Writer /\ Getter \subseteq Writer
  BY DEF StoreOK, WritersOK, Writer
<1>1. ASSUME NEW w \in Writer, at'[w] \notin {"write", "rename"}, UNCHANGED <<tmp, fd>>,
             \A v \in Writer \ {w} : at'[v] = at[v] /\ writing'[v] = writing[v]
      PROVE  ScratchThere'
  BY <1>1 DEF ScratchThere, Where
<1>2. CASE PutStarts
  <2>1. /\ at'["put"] = "open" /\ UNCHANGED <<tmp, fd>>
        /\ \A v \in Writer \ {"put"} : at'[v] = at[v] /\ writing'[v] = writing[v]
    BY <1>0, <1>2 DEF PutStarts, diskVars
  <2>2. QED
    BY <1>0, <1>1, <2>1
<1>3. ASSUME NEW g \in Getter, NEW r \in Remote, MigrateStarts(g, r) PROVE ScratchThere'
  <2>1. /\ at'[g] = "open" /\ UNCHANGED <<tmp, fd>>
        /\ \A v \in Writer \ {g} : at'[v] = at[v] /\ writing'[v] = writing[v]
    BY <1>0, <1>3 DEF MigrateStarts, diskVars
  <2>2. QED
    BY <1>0, <1>1, <2>1
<1>4. CASE Crash
  BY <1>0, <1>4 DEF Crash, ScratchThere
<1>5. CASE PutEnds \/ (\E g \in Getter : MigrateWrote(g) \/ MigrateFails(g))
  BY <1>0, <1>5, ScratchKept DEF PutEnds, MigrateWrote, MigrateFails
<1>6. CASE \E w \in Writer : Open(w) \/ Write(w)
  BY <1>6, ScratchKept
<1>7. CASE Reading \/ (\E g \in Getter : List(g))
  <2>1. UNCHANGED <<tmp, at, writing, fd>>
    BY <1>7, ReadingMoves DEF List, diskVars, writeVars
  <2>2. QED
    BY <2>1 DEF ScratchThere, Where
<1>8. QED
  BY <1>2, <1>3, <1>4, <1>5, <1>6, <1>7, Steps

\* A put keeps its file through steps that leave the instance and the put alone,
\* and do not end a migration of the instance.
LEMMA PutFileFrame ==
    ASSUME PutFile, at'["put"] = at["put"], writing'["put"] = writing["put"],
           fd'["put"] = fd["put"], beside => beside', NEW i, i = Where("put"),
           tmp'[i] = tmp[i], file'[i] = file[i], Busy(i) => Busy(i)'
    PROVE  PutFile'
<1>1. Where("put")' = i
  BY DEF Where
<1> SUFFICES ASSUME at["put"] \in {"write", "rename"} PROVE PutFile'
  BY DEF PutFile
<1>2. /\ fd["put"] \in {"tmp", "file", "gone"}
      /\ beside \/ fd["put"] = "tmp"
      /\ \/ Busy(i)
         \/ tmp[i] = IF fd["put"] # "tmp" THEN None
                     ELSE IF at["put"] = "write" THEN Torn ELSE writing["put"]
      /\ at["put"] = "write" /\ fd["put"] = "tmp" => Leftover(tmp[i])
      /\ at["put"] = "write" /\ fd["put"] = "file" => Leftover(file[i])
  BY DEF PutFile
<1>3. /\ Leftover(tmp[i]) => Leftover(tmp[i])'
      /\ Leftover(file[i]) => Leftover(file[i])'
  BY <1>1 DEF Leftover, LegacyRecord
<1>4. \/ Busy(i)'
      \/ tmp'[i] = IF fd'["put"] # "tmp" THEN None
                   ELSE IF at'["put"] = "write" THEN Torn ELSE writing'["put"]
  BY <1>2
<1> HIDE DEF Busy
<1>5. Busy(Where("put"))' = Busy(i)'
  BY <1>1 DEF Busy
<1>6. QED
  BY <1>1, <1>2, <1>3, <1>4, <1>5 DEF PutFile

\* The put opens its file, and writes it.
LEMMA PutWrites ==
    ASSUME StoreOK, PutFile, Open("put") \/ Write("put")
    PROVE  PutFile'
<1>0. /\ at \in [Writer -> {"idle", "open", "write", "rename"}]
      /\ fd \in [Writer -> {"none", "tmp", "file", "gone"}]
      /\ tmp \in [Instance -> Content] /\ file \in [Instance -> Content]
      /\ "put" \in Writer /\ Getter \subseteq Writer /\ \A g \in Getter : g # "put"
  BY StoreAssumption DEF StoreOK, WritersOK, Writer
<1>1. Where("put") \in Instance
  BY <1>0, WhereIsInstance DEF StoreOK, Open, Write
<1> DEFINE i == Where("put")
<1>2. Where("put")' = i /\ \A g \in Getter : Where(g)' = Where(g)
  BY DEF Where, Open, Write
<1>3. CASE Open("put")
  <2>1. /\ at'["put"] = "write" /\ fd'["put"] = "tmp" /\ tmp'[i] = Torn
    BY <1>0, <1>1, <1>3 DEF Open, Opened
  <2>2. QED
    BY <1>2, <2>1 DEF PutFile, Leftover
<1>4. CASE Write("put")
  <2>1. /\ at["put"] = "write" /\ at'["put"] = "rename"
        /\ UNCHANGED <<fd, writing, beside>>
        /\ \A g \in Getter : at'[g] = at[g]
    BY <1>0, <1>4 DEF Write
  <2>2. /\ fd["put"] \in {"tmp", "file", "gone"}
        /\ beside \/ fd["put"] = "tmp"
        /\ \/ Busy(i)
           \/ tmp[i] = IF fd["put"] # "tmp" THEN None ELSE Torn
    BY <2>1 DEF PutFile
  <2>3. Busy(i) => Busy(i)'
    BY <1>2, <2>1 DEF Busy
  <2>4. CASE fd["put"] = "tmp" /\ tmp[i] = Torn
    <3>1. \E c \in Written("put", tmp[i]) : tmp' = [tmp EXCEPT ![i] = c]
      BY <1>4, <2>4 DEF Write
    <3>2. tmp'[i] = writing["put"]
      BY <1>0, <1>1, <2>4, <3>1 DEF Written
    <3>3. QED
      BY <1>2, <2>1, <2>2, <2>4, <3>2 DEF PutFile
  <2>5. CASE fd["put"] # "tmp" /\ tmp[i] = None
    <3>1. tmp' = tmp
      BY <1>4, <2>5 DEF Write, diskVars
    <3>2. QED
      BY <1>2, <2>1, <2>2, <2>5, <3>1 DEF PutFile
  <2>6. CASE Busy(i)
    <3>1. Busy(Where("put"))'
      BY <1>2, <2>3, <2>6 DEF Busy
    <3>2. QED
      BY <2>1, <2>2, <3>1 DEF PutFile
  <2>7. QED
    BY <2>2, <2>4, <2>5, <2>6
<1>5. QED
  BY <1>3, <1>4

\* A migration opens its file, and writes it.
LEMMA MigrationWrites ==
    ASSUME StoreOK, GetsMigrate, PutFile, NEW g \in Getter, Open(g) \/ Write(g)
    PROVE  PutFile'
<1>0. /\ at \in [Writer -> {"idle", "open", "write", "rename"}]
      /\ fd \in [Writer -> {"none", "tmp", "file", "gone"}]
      /\ tmp \in [Instance -> Content] /\ file \in [Instance -> Content]
      /\ "put" \in Writer /\ Getter \subseteq Writer /\ g # "put"
      /\ Torn # None
  BY StoreAssumption DEF StoreOK, WritersOK, Writer, Torn, None
<1>1. Where(g) \in Instance /\ LegacyRecord(writing[g])
  BY <1>0, WhereIsInstance DEF StoreOK, Open, Write, GetsMigrate
<1>2. /\ at'["put"] = at["put"] /\ fd'["put"] = fd["put"]
      /\ UNCHANGED <<writing, beside>>
      /\ at'[g] \in {"write", "rename"}
      /\ \A h \in Getter \ {g} : at'[h] = at[h] /\ fd'[h] = fd[h]
      /\ fd[g] = "tmp" /\ at[g] \in {"write", "rename"} => fd'[g] = "tmp"
  BY <1>0 DEF Open, Write
<1>3. \A v \in Writer : Where(v)' = Where(v)
  BY <1>2 DEF Where
<1> SUFFICES ASSUME at["put"] \in {"write", "rename"} PROVE PutFile'
  BY <1>2 DEF PutFile
<1> DEFINE i == Where("put")
<1>4. ASSUME NEW j \in Instance, Busy(j) PROVE Busy(j)'
  <2>1. PICK h \in Getter : at[h] \in {"write", "rename"} /\ fd[h] = "tmp" /\ Where(h) = j
    BY <1>4 DEF Busy
  <2>2. at'[h] \in {"write", "rename"} /\ fd'[h] = "tmp"
    BY <1>2, <2>1
  <2>3. Where(h)' = j
    BY <1>0, <1>3, <2>1
  <2>4. QED
    BY <2>2, <2>3 DEF Busy
<1>5. i \in Instance
  BY <1>0, WhereIsInstance DEF StoreOK
<1>6. CASE tmp'[i] = tmp[i] /\ file'[i] = file[i]
  BY <1>2, <1>4, <1>5, <1>6, PutFileFrame
<1>7. CASE tmp'[i] = tmp[i] /\ file'[i] # file[i]
  <2>1. Write(g) /\ fd[g] = "file" /\ Where(g) = i
    BY <1>0, <1>1, <1>5, <1>7 DEF Open, Write, diskVars
  <2>2. \E c \in Written(g, file[i]) : file' = [file EXCEPT ![i] = c]
    BY <2>1 DEF Write
  <2>3. file'[i] \in {writing[g], Torn}
    BY <1>0, <1>5, <2>2 DEF Written
  <2>4. Leftover(file'[i])
    BY <1>1, <2>3 DEF Leftover
  <2>5. Leftover(file[Where("put")])'
    BY <1>0, <1>3, <2>4 DEF Leftover, LegacyRecord
  <2>6. Leftover(tmp[i]) => Leftover(tmp[Where("put")])'
    BY <1>0, <1>3, <1>7 DEF Leftover, LegacyRecord
  <2>7. Busy(i) => Busy(Where("put"))'
    BY <1>0, <1>2, <1>3 DEF Busy
  <2>8. Where("put")' = i
    BY <1>0, <1>3
  <2>9. /\ fd["put"] \in {"tmp", "file", "gone"}
        /\ beside \/ fd["put"] = "tmp"
        /\ \/ Busy(i)
           \/ tmp[i] = IF fd["put"] # "tmp" THEN None
                       ELSE IF at["put"] = "write" THEN Torn ELSE writing["put"]
        /\ at["put"] = "write" /\ fd["put"] = "tmp" => Leftover(tmp[i])
    BY DEF PutFile
  <2> HIDE DEF i
  <2>10. QED
    BY <1>2, <1>7, <2>5, <2>6, <2>7, <2>8, <2>9 DEF PutFile
<1>8. CASE tmp'[i] # tmp[i]
  <2>1. /\ Where(g) = i /\ file' = file /\ fd'[g] = "tmp"
        /\ tmp'[i] \in {writing[g], Torn}
    <3>1. CASE Open(g)
      BY <1>0, <1>1, <1>5, <1>8, <3>1 DEF Open, Opened
    <3>2. CASE Write(g)
      <4>1. fd[g] = "tmp" /\ Where(g) = i /\ file' = file /\ fd' = fd
        BY <1>0, <1>1, <1>5, <1>8, <3>2 DEF Write, diskVars
      <4>2. \E c \in Written(g, tmp[i]) : tmp' = [tmp EXCEPT ![i] = c]
        BY <3>2, <4>1 DEF Write
      <4>3. tmp'[i] \in {writing[g], Torn}
        BY <1>0, <1>5, <4>2 DEF Written
      <4>4. QED
        BY <4>1, <4>3
    <3>3. QED
      BY <3>1, <3>2
  <2>2. Busy(Where("put"))'
    BY <1>0, <1>2, <1>3, <2>1 DEF Busy
  <2>3. Leftover(tmp[Where("put")])'
    BY <1>0, <1>1, <1>2, <1>3, <2>1 DEF Leftover, LegacyRecord
  <2>4. Leftover(file[i]) => Leftover(file[Where("put")])'
    BY <1>0, <1>3, <2>1 DEF Leftover, LegacyRecord
  <2>5. /\ fd["put"] \in {"tmp", "file", "gone"}
        /\ beside \/ fd["put"] = "tmp"
        /\ at["put"] = "write" /\ fd["put"] = "file" => Leftover(file[i])
    BY DEF PutFile
  <2>6. QED
    BY <1>2, <2>2, <2>3, <2>4, <2>5 DEF PutFile
<1>9. QED
  BY <1>6, <1>7, <1>8

\* A migration renames the file of a put to its path, and there is nothing beside.
LEMMA MigrationRenames ==
    ASSUME StoreOK, GetsMigrate, PutIsFirst, ScratchThere, PutFile,
           NEW g \in Getter, MigrateWrote(g) \/ MigrateFails(g)
    PROVE  PutFile'
<1>0. /\ at \in [Writer -> {"idle", "open", "write", "rename"}]
      /\ writing \in [Writer -> Record \cup {None}]
      /\ fd \in [Writer -> {"none", "tmp", "file", "gone"}]
      /\ tmp \in [Instance -> Content] /\ file \in [Instance -> Content]
      /\ "put" \in Writer /\ Getter \subseteq Writer /\ g # "put"
  BY StoreAssumption DEF StoreOK, WritersOK, Writer
<1>1. at[g] = "rename" /\ Migrating
  BY DEF MigrateWrote, MigrateFails, Renamed, RenameFails, Migrating
<1>2. Where(g) \in Instance
  BY <1>0, <1>1, WhereIsInstance DEF StoreOK
<1>3. /\ at'["put"] = at["put"] /\ writing'["put"] = writing["put"]
      /\ beside' = beside
      /\ \A h \in Getter \ {g} : at'[h] = at[h] /\ writing'[h] = writing[h]
  BY <1>0 DEF MigrateWrote, MigrateFails, Renamed, RenameFails
<1>4. Where("put")' = Where("put") /\ \A h \in Getter \ {g} : Where(h)' = Where(h)
  BY <1>3 DEF Where
<1> SUFFICES ASSUME at["put"] \in {"write", "rename"} PROVE PutFile'
  BY <1>3 DEF PutFile
<1> DEFINE i == Where("put")
<1>5. i \in Instance /\ beside
  BY <1>0, <1>1, WhereIsInstance DEF StoreOK, PutIsFirst
<1>6. CASE MigrateFails(g)
  <2>1. /\ UNCHANGED <<file, tmp>> /\ tmp[Where(g)] = None
        /\ \A v \in Writer \ {g} : fd'[v] = fd[v]
    BY <1>0, <1>6 DEF MigrateFails, RenameFails, diskVars
  <2>2. fd[g] # "tmp"
    BY <1>0, <1>1, <2>1 DEF ScratchThere
  <2>3. ASSUME NEW j PROVE Busy(j) => Busy(j)'
    BY <1>0, <1>3, <1>4, <2>1, <2>2 DEF Busy
  <2>4. QED
    BY <1>0, <1>3, <2>1, <2>3, PutFileFrame
<1>7. CASE MigrateWrote(g) /\ Where(g) # i
  <2>1. /\ tmp'[i] = tmp[i] /\ file'[i] = file[i]
        /\ \A v \in Writer \ {g} : fd'[v] = Follow(Where(g))[v]
    BY <1>0, <1>2, <1>5, <1>7 DEF MigrateWrote, Renamed, Follow
  <2>2. \A v \in Writer \ {g} : Where(v) = i => fd'[v] = fd[v]
    BY <1>7, <2>1 DEF Follow
  <2>3. ASSUME NEW j, j = i PROVE Busy(j) => Busy(j)'
    BY <1>0, <1>3, <1>4, <1>7, <2>2, <2>3 DEF Busy
  <2>4. fd'["put"] = fd["put"]
    BY <1>0, <2>2
  <2>5. QED
    BY <1>0, <1>3, <2>1, <2>3, <2>4, PutFileFrame
<1>8. CASE MigrateWrote(g) /\ Where(g) = i
  <2>1. tmp'[i] = None /\ file'[i] = tmp[i]
    BY <1>0, <1>5, <1>8 DEF MigrateWrote, Renamed
  <2>2. fd'["put"] = Follow(i)["put"]
    BY <1>0, <1>8 DEF MigrateWrote, Renamed, Follow
  <2>3. fd["put"] \in {"tmp", "file", "gone"}
    BY DEF PutFile
  <2>4. fd'["put"] = IF fd["put"] = "tmp" THEN "file" ELSE "gone"
    BY <1>0, <2>2, <2>3 DEF Follow
  <2>5. at["put"] = "write" /\ fd["put"] = "tmp" => Leftover(tmp[i])
    BY DEF PutFile
  <2>6. Leftover(tmp[i]) => Leftover(file[Where("put")])'
    BY <1>4, <2>1 DEF Leftover, LegacyRecord
  <2>7. fd'["put"] \in {"file", "gone"} /\ (fd'["put"] = "file" => fd["put"] = "tmp")
    BY <2>3, <2>4
  <2>8. tmp'[Where("put")'] = None
    BY <1>4, <2>1
  <2>9. QED
    BY <1>3, <1>5, <2>5, <2>6, <2>7, <2>8 DEF PutFile
<1>9. QED
  BY <1>6, <1>7, <1>8

\* Every step keeps what is said of the file of a put.
LEMMA PutFileKept ==
    ASSUME StoreOK, BesideOK, PutTurn, [Next]_vars
    PROVE  PutFile'
<1> USE DEF PutTurn
<1>0. /\ at \in [Writer -> {"idle", "open", "write", "rename"}]
      /\ writing \in [Writer -> Record \cup {None}]
      /\ "put" \in Writer /\ Getter \subseteq Writer /\ \A g \in Getter : g # "put"
  BY StoreAssumption DEF StoreOK, WritersOK, Writer
<1>1. CASE PutStarts \/ PutEnds \/ Crash
  <2>1. at'["put"] \in {"idle", "open"}
    BY <1>0, <1>1 DEF PutStarts, PutEnds, Renamed, RenameFails, Crash
  <2>2. QED
    BY <2>1 DEF PutFile
<1>2. CASE Reading \/ (\E g \in Getter : List(g))
  <2>0. UNCHANGED <<file, tmp, at, writing, fd>>
    BY <1>2, ReadingMoves DEF List, diskVars, writeVars
  <2>1. beside => beside'
    <3>1. CASE Reading
      BY <3>1, ReadingMoves
    <3>2. CASE \E g \in Getter : List(g)
      BY <3>2, Zenon DEF List
    <3>3. QED
      BY <1>2, <3>1, <3>2
  <2>2. \A i : Busy(i)' = Busy(i)
    BY <2>0 DEF Busy, Where
  <2>3. QED
    BY <2>0, <2>1, <2>2, PutFileFrame
<1>3. ASSUME NEW g \in Getter, NEW r \in Remote, MigrateStarts(g, r) PROVE PutFile'
  <2>1. /\ at[g] = "idle" /\ UNCHANGED <<file, tmp, fd, beside>>
        /\ \A v \in Writer \ {g} : at'[v] = at[v] /\ writing'[v] = writing[v]
    BY <1>0, <1>3 DEF MigrateStarts, diskVars
  <2>2. \A v \in Writer \ {g} : Where(v)' = Where(v)
    BY <2>1 DEF Where
  <2>3. \A i : Busy(i) => Busy(i)'
    BY <1>0, <2>1, <2>2 DEF Busy
  <2>4. QED
    BY <1>0, <2>1, <2>3, PutFileFrame
<1>4. CASE \E w \in Writer : Open(w) \/ Write(w)
  BY <1>4, PutWrites, MigrationWrites DEF Writer
<1>5. CASE \E g \in Getter : MigrateWrote(g) \/ MigrateFails(g)
  BY <1>5, MigrationRenames
<1>6. QED
  BY <1>1, <1>2, <1>3, <1>4, <1>5, Steps

\* Nothing is written to begin with.
LEMMA PutTurnBegins == Init => PutTurn
BY StoreAssumption DEF Init, PutTurn, GetsMigrate, PutIsFirst, ScratchThere, PutFile, Writer

\* When no migration is under way, gets do not write and have nothing open.
LEMMA GetsRest ==
    ASSUME PutTurn, ~ Migrating
    PROVE  (\A g \in Getter : at[g] = "idle") /\ \A i \in Instance : ~ Busy(i)
BY DEF PutTurn, GetsMigrate, Migrating, Busy

\* A put that renames while no migration is under way renames what it has written.
LEMMA PutRenamesItsOwn ==
    ASSUME StoreOK, PutTurn, ~ Migrating, Renamed("put")
    PROVE  file'[Where("put")] = Head(chain)
<1>1. /\ at["put"] = "rename" /\ "put" \in Writer
      /\ file \in [Instance -> Content]
  BY DEF Renamed, Writer, StoreOK, WritersOK
<1> DEFINE i == Where("put")
<1>2. i \in Instance
  BY <1>1, WhereIsInstance DEF StoreOK
<1>3. tmp[i] # None /\ file'[i] = tmp[i]
  BY <1>1, <1>2 DEF Renamed
<1>4. tmp[i] = writing["put"]
  BY <1>1, <1>2, <1>3, GetsRest DEF PutTurn, PutFile
<1>5. QED
  BY <1>1, <1>3, <1>4 DEF PutTurn, PutIsFirst

\* A file with a record of a remote is what is kept of it.
LEMMA KeptInFile ==
    ASSUME NEW r \in Remote, NEW c \in Cursor, file'[PathOf(r)] = <<r, c>>
    PROVE  Kept(r)' = c
<1>1. Matches(file[PathOf(r)], r)'
  BY DEF Matches, Record, PathOf
<1>2. Kept(r)' = file'[PathOf(r)][2]
  BY <1>1 DEF Kept, PathOf
<1>3. QED
  BY <1>2

\* With a leftover at its path, or nothing, a remote has what the legacy file has.
LEMMA KeptOfLeftover ==
    ASSUME NEW r \in Remote, Leftover(file[PathOf(r)])
    PROVE  Kept(r) = Legacy[r]
BY MarksAreNoRecords DEF Kept, Matches, Leftover, LegacyRecord

\* What is kept of a remote that shares its instance with none changes only by a
\* put for it, or while a migration is under way.
LEMMA OnlyPutsChange ==
    ASSUME StoreOK, PutTurn, [Next]_vars, NEW r \in Remote, Kept(r)' # Kept(r),
           ~ Migrating, ~ \E q \in Remote \ {r} : InstanceOf[q] = InstanceOf[r]
    PROVE  chain # <<>> /\ Head(chain) = <<r, Kept(r)'>>
<1>0. /\ "put" \in Writer /\ Getter \subseteq Writer /\ file \in [Instance -> Content]
  BY DEF StoreOK, WritersOK, Writer
<1> DEFINE i == PathOf(r)
<1>1. file'[i] # file[i]
  BY DEF Kept, Matches, PathOf
<1>2. /\ ~ (PutStarts \/ Crash \/ Reading)
      /\ \A w \in Writer : ~ Open(w)
      /\ \A g \in Getter : ~ List(g) /\ \A q \in Remote : ~ MigrateStarts(g, q)
  BY <1>1, ReadingMoves DEF PutStarts, Crash, PutTurn, Open, List, MigrateStarts, diskVars
<1>3. \A g \in Getter : ~ (Write(g) \/ MigrateWrote(g) \/ MigrateFails(g))
  BY GetsRest DEF Write, MigrateWrote, MigrateFails, Renamed, RenameFails
<1>4. PutEnds \/ Write("put")
  BY <1>2, <1>3, Steps DEF Writer
<1>5. at["put"] # "idle"
  BY <1>4 DEF PutEnds, Renamed, RenameFails, Write
<1>6. /\ Where("put") \in Instance /\ writing["put"] \in Record
      /\ chain # <<>> /\ writing["put"] = Head(chain)
  BY <1>0, <1>5, WhereIsInstance DEF StoreOK, PutWaits, PutTurn, PutIsFirst
<1>7. Where("put") = i
  <2>1. i \in Instance
    BY StoreAssumption DEF PathOf
  <2>2. CASE Write("put")
    BY <1>0, <1>1, <1>6, <2>1, <2>2 DEF Write, diskVars
  <2>3. CASE PutEnds
    BY <1>0, <1>1, <1>6, <2>1, <2>3 DEF PutEnds, Renamed, RenameFails, diskVars
  <2>4. QED
    BY <1>4, <2>2, <2>3
<1>8. PICK c \in Cursor : Head(chain) = <<r, c>>
  <2>1. PICK q \in Remote, c \in Cursor : writing["put"] = <<q, c>>
    BY <1>6 DEF Record
  <2>2. InstanceOf[q] = InstanceOf[r]
    BY <1>7, <2>1 DEF Where, PathOf
  <2>3. QED
    BY <1>6, <2>1, <2>2
<1>9. SUFFICES Kept(r)' = c
  BY <1>6, <1>8
<1>10. CASE PutEnds
  <2>1. Renamed("put")
    BY <1>1, <1>10 DEF PutEnds, RenameFails, diskVars
  <2>2. file'[i] = <<r, c>>
    BY <1>7, <1>8, <2>1, PutRenamesItsOwn
  <2>3. QED
    BY <2>2, KeptInFile
<1>11. CASE Write("put")
  <2>1. at["put"] = "write" /\ fd["put"] = "file"
    BY <1>1, <1>0, <1>6, <1>11, <1>7 DEF Write, diskVars, PutTurn, PutFile
  <2>2. \E x \in Written("put", file[i]) : file' = [file EXCEPT ![i] = x]
    BY <1>7, <1>11, <2>1 DEF Write
  <2>3. Leftover(file[i])
    BY <1>7, <2>1 DEF PutTurn, PutFile
  <2>4. file'[i] \in {writing["put"], Torn}
    BY <1>0, <1>6, <1>7, <2>2 DEF Written
  <2>5. file'[i] # Torn
    <3>1. SUFFICES ASSUME file'[i] = Torn PROVE FALSE
      OBVIOUS
    <3>2. Kept(r)' = Legacy[r]
      BY <3>1, MarksAreNoRecords DEF Kept, Matches, PathOf
    <3>3. QED
      BY <2>3, <3>2, KeptOfLeftover
  <2>6. file'[i] = <<r, c>>
    BY <1>6, <1>8, <2>4, <2>5
  <2>7. QED
    BY <2>6, KeptInFile
<1>12. QED
  BY <1>4, <1>10, <1>11

\* A put that ends with no migration beside it has stored its cursor.
LEMMA PutsStore ==
    ASSUME StoreOK, PutTurn, NEW p \in Record, PutEnds, p = Head(chain), ~ beside
    PROVE  Kept(p[1])' = p[2]
<1>1. at["put"] = "rename" /\ "put" \in Writer
  BY DEF PutEnds, Renamed, RenameFails, Writer
<1>2. /\ writing["put"] = p /\ ~ Migrating
      /\ Where("put") \in Instance
  BY <1>1, WhereIsInstance DEF PutTurn, PutIsFirst, StoreOK
<1>3. tmp[Where("put")] = p
  BY <1>1, <1>2, GetsRest DEF PutTurn, PutFile
<1>4. Renamed("put")
  BY <1>3, MarksAreNoRecords DEF PutEnds, RenameFails
<1>5. file'[Where("put")] = p /\ Where("put") = PathOf(p[1])
  BY <1>2, <1>4, PutRenamesItsOwn DEF Where
<1>6. p[1] \in Remote /\ p[2] \in Cursor /\ p = <<p[1], p[2]>>
  BY DEF Record
<1>7. file'[PathOf(p[1])] = <<p[1], p[2]>>
  BY <1>5, <1>6
<1>8. QED
  BY <1>6, <1>7, KeptInFile

\* For any remotes, associations, puts and crashes: what is kept of a remote
\* changes by its puts, those of another profile of its instance, or while a
\* migration is under way, and a put with no migration beside it is kept.
THEOREM PutsAreKept == Spec => PutsDecide
<1>1. Init => StoreOK /\ BesideOK /\ PutTurn
  BY StoreBegins, PutTurnBegins DEF Init, BesideOK
<1>2. StoreOK /\ BesideOK /\ PutTurn /\ [Next]_vars => (StoreOK /\ BesideOK /\ PutTurn)'
  BY StoreKept, BesideKept, GetsMigrateKept, PutIsFirstKept, ScratchThereKept, PutFileKept
  DEF PutTurn
<1>3. StoreOK /\ PutTurn /\ [Next]_vars =>
      [/\ \A r \in Remote : Kept(r)' # Kept(r) =>
            \/ chain # <<>> /\ Head(chain) = <<r, Kept(r)'>>
            \/ \E q \in Remote \ {r} : InstanceOf[q] = InstanceOf[r]
            \/ Migrating
       /\ \A p \in Record :
            (PutEnds /\ p = Head(chain) /\ ~ beside) => Kept(p[1])' = p[2]]_vars
  BY OnlyPutsChange, PutsStore
<1>4. QED
  BY <1>1, <1>2, <1>3, PTL DEF Spec, PutsDecide
=============================================================================
