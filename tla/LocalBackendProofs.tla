------------------------- MODULE LocalBackendProofs -------------------------
(***************************************************************************)
(* The local backend keeps the last saved entries through any number of    *)
(* crashes, and implements AtomicStore, for processes that never overlap,  *)
(* that only Load and Save, and whose restores from the backup succeed.    *)
(* Its caches answer with what the file holds also when processes overlap. *)
(* A migration between backends reports what it did.                       *)
(***************************************************************************)
EXTENDS LocalBackend, TLAPS

Orderly == /\ Serial = Procs
           /\ SideWrites = FALSE
           /\ "restore" \notin Faults

-----------------------------------------------------------------------------
(* The inductive invariant *)

\* At most one process runs; the cache of the others died with them.
AloneInv == /\ \A p, q \in Procs : pc[p] # "idle" /\ pc[q] # "idle" => p = q
            /\ \A p \in Procs : pc[p] = "idle" => ~cache[p].warm

\* A usable copy of the last saved entries is always on disk.
DiskInv == /\ Durable
           /\ bak.st # "torn"
           /\ main.st = "torn" => bak.st = "ok"

Settled == main.st = "ok" \/ (main.st = "missing" /\ bak.st = "missing")

\* The image p has yet to put in place is newer than the files on disk.
Newer(p) ==
    /\ buf[p].mtime <= clock /\ buf[p].ino <= clock
    /\ \A f \in {main, bak} :
           f.st # "missing" => f.mtime # buf[p].mtime /\ f.ino # buf[p].ino

\* What the disk holds at every point of a Load or Save of p.
PointInv(p) ==
    /\ pc[p] \in {"loaded", "backup"} => Settled
    /\ pc[p] = "read" => main.st # "missing" /\ stat[p] = main.mtime
    /\ pc[p] = "noMain" => main.st = "missing"
    /\ pc[p] = "badMain" => main.st = "torn"
    /\ pc[p] \in {"restore", "restoring"} =>
           /\ main.st # "ok" /\ bak.st = "ok"
           /\ buf[p].st = "ok" /\ buf[p].entries = bak.entries
    /\ pc[p] = "restoring" => main.st = "torn" /\ buf[p].ino = main.ino
    /\ pc[p] = "rename" => main.st = "missing"
    /\ pc[p] \in {"backup", "rename"} => buf[p].st = "ok" /\ Newer(p)
    /\ pc[p] \notin {"version", "rewrite", "rewriting"}

\* No two files share an mtime or an inode, and no clock reading is in the future.
StampInv == /\ main.mtime <= clock /\ bak.mtime <= clock
            /\ main.ino <= clock /\ bak.ino <= clock
            /\ main.st # "missing" /\ bak.st # "missing" =>
                   main.mtime # bak.mtime /\ main.ino # bak.ino

\* A warm cache agrees with whichever file carries its mtime.
CacheInv(p) == cache[p].warm =>
    /\ cache[p].mtime <= clock
    /\ \A f \in {main, bak} :
           f.st # "missing" /\ f.mtime = cache[p].mtime
               => f.st = "ok" /\ f.entries = cache[p].entries

Inv == /\ TypeOK /\ AloneInv /\ DiskInv /\ StampInv
       /\ \A p \in Procs : PointInv(p) /\ CacheInv(p)

-----------------------------------------------------------------------------
(* Types *)

\* The images that an action builds are files.
LEMMA FileTypes ==
    /\ Missing \in FileSet
    /\ \A m, i \in Nat : Torn(m, i) \in FileSet
    /\ \A e \in Entries, m \in Nat : File("ok", e, <<>>, NoBudgets, m, m) \in FileSet
    /\ \A f \in FileSet : Parsed(f) \in FileSet
    /\ NoCache \in CacheSet
<1> <<>> \in Histories
  BY ConstantsAssumption DEF Histories
<1> QED BY Zenon, ConstantsAssumption
        DEF Missing, Torn, File, FileSet, Parsed, NoCache, CacheSet

\* A write through an open descriptor leaves a file.
LEMMA WrittenType ==
    ASSUME TypeOK, NEW p \in Procs, NEW f \in FileSet, NEW g \in Written(p, f)
    PROVE  g \in FileSet
<1>0. buf[p] \in FileSet /\ clock + 1 \in Nat /\ f.ino \in Nat
  BY DEF TypeOK, FileSet
<1>1. [buf[p] EXCEPT !.mtime = clock + 1] \in FileSet
  BY Zenon, <1>0 DEF FileSet
<1>2. Torn(clock + 1, f.ino) \in FileSet
  BY Zenon, <1>0, FileTypes
<1> QED BY Zenon, <1>1, <1>2 DEF Written

\* The version history stays a bounded sequence of numbers.
LEMMA HistoryType ==
    ASSUME NEW vs \in Histories, NEW n \in Nat
    PROVE  /\ NextVersion(vs) \in Nat
           /\ KeepLast(Append(vs, n)) \in Histories
<1>0. vs \in Seq(Nat)
  BY Zenon DEF Histories
<1>1. NextVersion(vs) \in Nat
  BY <1>0 DEF NextVersion
<1>2. Append(vs, n) \in Seq(Nat) /\ Len(Append(vs, n)) > 0
  BY <1>0
<1>3. ASSUME NEW t \in Seq(Nat), Len(t) > 0 PROVE KeepLast(t) \in Histories
  <2> DEFINE a == IF Len(t) > MaxVersions THEN Len(t) - MaxVersions + 1 ELSE 1
  <2>1. a \in 1..Len(t)
    BY <1>3, ConstantsAssumption
  <2>2. \A i \in a..Len(t) : t[i] \in Nat
    BY <2>1
  <2>3. SubSeq(t, a, Len(t)) \in Seq(Nat)
    BY <2>1, <2>2
  <2>4. Len(SubSeq(t, a, Len(t))) <= MaxVersions
    BY <2>1, ConstantsAssumption
  <2> QED BY Zenon, <2>3, <2>4 DEF KeepLast, Histories
<1> QED BY Zenon, <1>1, <1>2, <1>3

\* Every step keeps the types.
LEMMA TypeStep == TypeOK /\ [Next]_vars => TypeOK'
<1> SUFFICES ASSUME TypeOK, [Next]_vars PROVE TypeOK'
  BY Zenon
<1> USE DEF Goto, Return, PCs
<1>1. ASSUME NEW p \in Procs, LoadMissing(p) PROVE TypeOK'
  BY Zenon, <1>1, FileTypes DEF LoadMissing, TypeOK
<1>2. ASSUME NEW p \in Procs, LoadHit(p) PROVE TypeOK'
  BY Zenon, <1>2 DEF LoadHit, TypeOK, CacheSet
<1>3. ASSUME NEW p \in Procs, LoadStat(p) PROVE TypeOK'
  <2>1. main.mtime \in Nat
    BY Zenon DEF TypeOK, FileSet
  <2> QED BY Zenon, <1>3, <2>1 DEF LoadStat, TypeOK
<1>4. ASSUME NEW p \in Procs, LoadRead(p) PROVE TypeOK'
  <2>1. main.entries \in Entries /\ stat[p] \in Nat
    BY Zenon DEF TypeOK, FileSet
  <2> DEFINE c == [warm |-> main.entries # Nil, entries |-> main.entries,
                   mtime |-> stat[p]]
  <2>c. c \in CacheSet
    <3>1. (main.entries # Nil) \in BOOLEAN
      BY Zenon
    <3> QED BY <2>1, <3>1, Zenon DEF CacheSet
  <2>d. cache' = cache \/ cache' = [cache EXCEPT ![p] = c]
    BY <1>4, Zenon DEF LoadRead
  <2> HIDE DEF c
  <2>2. cache' \in [Procs -> CacheSet]
    BY Zenon, <2>c, <2>d DEF TypeOK
  <2> QED BY Zenon, <1>4, <2>1, <2>2 DEF LoadRead, TypeOK
<1>5. ASSUME NEW p \in Procs, ReadBackup(p) PROVE TypeOK'
  BY <1>5, ConstantsAssumption DEF ReadBackup, TypeOK
<1>6. ASSUME NEW p \in Procs, RestoreTruncate(p) \/ RewriteTruncate(p) PROVE TypeOK'
  <2> DEFINE i == IF main.st = "missing" THEN clock + 1 ELSE main.ino
  <2>1. i \in Nat /\ clock + 1 \in Nat
    BY DEF TypeOK, FileSet
  <2>2. [buf[p] EXCEPT !.ino = i] \in FileSet
    BY Zenon, <2>1 DEF TypeOK, FileSet
  <2>3. Torn(clock + 1, i) \in FileSet
    BY Zenon, <2>1, FileTypes
  <2> HIDE DEF i
  <2> QED BY <1>6, <2>1, <2>2, <2>3
          DEF RestoreTruncate, RewriteTruncate, Truncate, TypeOK, i
<1>7. ASSUME NEW p \in Procs, RestoreFill(p) \/ RewriteFill(p) PROVE TypeOK'
  <2>1. main' \in FileSet /\ bak' \in FileSet
    BY Zenon, <1>7, WrittenType DEF RestoreFill, RewriteFill, Fill, TypeOK
  <2>2. buf[p].entries \in Entries
    BY Zenon DEF TypeOK, FileSet
  <2> QED BY <1>7, <2>1, <2>2 DEF RestoreFill, RewriteFill, Fill, TypeOK
<1>8. ASSUME NEW p \in Procs, RestoreFail(p) PROVE TypeOK'
  BY Zenon, <1>8 DEF RestoreFail, TypeOK, FileSet
<1>9. ASSUME NEW p \in Procs, NEW e \in Entries, SaveTemp(p, e) PROVE TypeOK'
  BY <1>9, FileTypes DEF SaveTemp, TypeOK
<1>10. ASSUME NEW p \in Procs, SaveBackup(p) \/ SaveBackupFail(p) PROVE TypeOK'
  BY Zenon, <1>10, FileTypes DEF SaveBackup, SaveBackupFail, TypeOK
<1>11. ASSUME NEW p \in Procs, SaveRename(p) \/ SaveRenameFail(p) PROVE TypeOK'
  <2>1. buf[p] \in FileSet /\ buf[p].entries \in Entries
    BY Zenon DEF TypeOK, FileSet
  <2> QED BY Zenon, <1>11, <2>1, FileTypes DEF SaveRename, SaveRenameFail, TypeOK
<1>12. ASSUME NEW p \in Procs, GetVersions(p) PROVE TypeOK'
  <2>1. Parsed(main).vers \in Histories
    BY Zenon, FileTypes DEF TypeOK, FileSet
  <2>2. NextVersion(Parsed(main).vers) \in Nat
    BY Zenon, <2>1, HistoryType
  <2> QED BY Zenon, <1>12, <2>2 DEF GetVersions, TypeOK
<1>13. ASSUME NEW p \in Procs, SaveVersion(p) PROVE TypeOK'
  <2>1. Parsed(main) \in FileSet /\ Parsed(main).vers \in Histories /\ stat[p] \in Nat
    BY Zenon, FileTypes DEF TypeOK, FileSet
  <2>2. KeepLast(Append(Parsed(main).vers, stat[p])) \in Histories
    BY Zenon, <2>1, HistoryType
  <2>3. [Parsed(main) EXCEPT !.vers = KeepLast(Append(@, stat[p]))] \in FileSet
    BY Zenon, <2>1, <2>2 DEF FileSet
  <2> QED BY Zenon, <1>13, <2>3 DEF SaveVersion, TypeOK
<1>14. ASSUME NEW p \in Procs, NEW b \in Budgets, SaveBudgets(p, b) PROVE TypeOK'
  <2>1. [Parsed(main) EXCEPT !.bud = b] \in FileSet
    BY Zenon, FileTypes DEF TypeOK, FileSet
  <2> QED BY Zenon, <1>14, <2>1 DEF SaveBudgets, TypeOK
<1>15. ASSUME NEW p \in Procs, Exit(p) PROVE TypeOK'
  BY Zenon, <1>15, FileTypes DEF Exit, TypeOK
<1>16. CASE UNCHANGED vars
  BY Zenon, <1>16 DEF vars, TypeOK
<1> QED BY Zenon, <1>1, <1>2, <1>3, <1>4, <1>5, <1>6, <1>7, <1>8, <1>9, <1>10, <1>11,
           <1>12, <1>13, <1>14, <1>15, <1>16 DEF Next, Load, Save, SaveSide

\* The initial state, without any file, is well typed.
LEMMA TypeInit == Init => TypeOK
BY FileTypes, ConstantsAssumption DEF Init, TypeOK, PCs

\* Type correctness of the backend for every choice of the constants.
THEOREM TypeCorrect == Spec => []TypeOK
BY TypeInit, TypeStep, PTL DEF Spec

-----------------------------------------------------------------------------
(* Preservation of the invariant *)

\* While one process runs, the others are idle and remember nothing.
LEMMA OthersIdle ==
    ASSUME Orderly, Inv, NEW p \in Procs, pc[p] # "idle" \/ MayRun(p)
    PROVE  \A q \in Procs \ {p} : pc[q] = "idle" /\ ~cache[q].warm
BY Zenon DEF Orderly, Inv, AloneInv, MayRun

\* A step of p preserves the invariant if it does so for the files and for p.
LEMMA Assemble ==
    ASSUME TypeOK, TypeOK', NEW p \in Procs,
           \A q \in Procs \ {p} : pc[q] = "idle" /\ ~cache[q].warm,
           \A q \in Procs \ {p} : pc'[q] = pc[q] /\ cache'[q] = cache[q],
           pc'[p] = "idle" => ~cache'[p].warm,
           DiskInv', StampInv', PointInv(p)', CacheInv(p)'
    PROVE  Inv'
<1>1. AloneInv'
  BY Zenon DEF AloneInv
<1>2. ASSUME NEW q \in Procs \ {p} PROVE PointInv(q)' /\ CacheInv(q)'
  BY Zenon, <1>2 DEF PointInv, CacheInv
<1> QED BY Zenon, <1>1, <1>2 DEF Inv

\* Load: the steps that change no file.
LEMMA LoadStep ==
    ASSUME Orderly, Inv, TypeOK', NEW p \in Procs,
           \/ LoadMissing(p) \/ LoadHit(p) \/ LoadStat(p) \/ LoadRead(p)
           \/ ReadBackup(p)
    PROVE  Inv'
<1>1. pc[p] # "idle" \/ MayRun(p)
  BY Zenon DEF LoadMissing, LoadHit, LoadStat, LoadRead, ReadBackup
<1>2. \A q \in Procs \ {p} : pc[q] = "idle" /\ ~cache[q].warm
  BY Zenon, <1>1, OthersIdle
<1>3. UNCHANGED <<main, bak, clock, stored>>
  BY Zenon DEF LoadMissing, LoadHit, LoadStat, LoadRead, ReadBackup
<1>4. DiskInv' /\ StampInv'
  BY Zenon, <1>3 DEF Inv, DiskInv, StampInv, Durable, Loadable
<1>5. \A q \in Procs \ {p} : pc'[q] = pc[q] /\ cache'[q] = cache[q]
  BY Zenon DEF LoadMissing, LoadHit, LoadStat, LoadRead, ReadBackup, Goto, Return, Inv,
         TypeOK
<1>6. pc'[p] # "idle"
  BY Zenon DEF LoadMissing, LoadHit, LoadStat, LoadRead, ReadBackup, Goto, Return, Inv,
         TypeOK
<1>7. PointInv(p)' /\ CacheInv(p)'
  <2> USE DEF Inv, TypeOK, Goto, Return
  <2>1. CASE LoadMissing(p)
    BY Zenon, <2>1, <1>3 DEF LoadMissing, PointInv, CacheInv, NoCache
  <2>2. CASE LoadHit(p)
    <3>1. main.st = "ok"
      BY Zenon, <2>2 DEF LoadHit, Cached, CacheInv
    <3> QED BY <2>2, <1>3, <3>1 DEF LoadHit, PointInv, CacheInv, Settled
  <2>3. CASE LoadStat(p)
    BY <2>3, <1>3 DEF LoadStat, PointInv, CacheInv
  <2>4. CASE LoadRead(p)
    <3>1. main.st # "missing" /\ stat[p] = main.mtime
      BY Zenon, <2>4 DEF LoadRead, PointInv
    <3>2. CASE main.st = "torn"
      <4>1. pc' = [pc EXCEPT ![p] = "badMain"] /\ cache' = cache
        BY Zenon, <2>4, <3>2 DEF LoadRead
      <4>2. pc'[p] = "badMain"
        BY Zenon, <4>1
      <4>3. PointInv(p)'
        BY Zenon, <4>2, <1>3, <3>2 DEF PointInv
      <4> QED BY <4>1, <4>3, <1>3 DEF CacheInv
    <3>3. CASE main.st = "ok"
      <4>1. pc' = [pc EXCEPT ![p] = "loaded"] /\ buf' = buf /\ stat' = stat
        BY Zenon, <2>4, <3>3 DEF LoadRead
      <4>2. PointInv(p)'
        BY Zenon, <4>1, <1>3, <3>3 DEF PointInv, Settled
      <4>3. cache'[p].mtime = main.mtime /\ cache'[p].entries = main.entries
        BY <2>4, <3>1, <3>3 DEF LoadRead
      <4> QED BY Zenon, <4>2, <4>3, <1>3, <3>3 DEF CacheInv, StampInv
    <3> QED BY Zenon, <2>4, <3>1, <3>2, <3>3 DEF LoadRead
  <2>5. CASE ReadBackup(p)
    <3>1. main.st # "ok" /\ cache' = cache
      BY Zenon, <2>5 DEF ReadBackup, PointInv
    <3>c. CacheInv(p)'
      BY Zenon, <1>3, <3>1 DEF CacheInv
    <3>2. CASE bak.st = "ok"
      <4>1. pc'[p] = "restore" /\ buf'[p] = bak
        BY Zenon, <2>5, <3>2 DEF ReadBackup
      <4>2. PointInv(p)'
        BY Zenon, <4>1, <1>3, <3>1, <3>2 DEF PointInv
      <4> QED BY Zenon, <4>2, <3>c
    <3>3. CASE bak.st = "missing"
      <4>1. main.st = "missing"
        BY Zenon, <3>1, <3>3 DEF DiskInv, FileSet
      <4>2. pc'[p] = "loaded"
        BY Zenon, <2>5, <3>3 DEF ReadBackup
      <4>3. PointInv(p)'
        BY Zenon, <4>1, <4>2, <1>3, <3>3 DEF PointInv, Settled
      <4> QED BY Zenon, <4>3, <3>c
    <3> QED BY Zenon, <3>2, <3>3 DEF DiskInv, FileSet
  <2> QED BY Zenon, <2>1, <2>2, <2>3, <2>4, <2>5
<1> QED BY Zenon, <1>2, <1>4, <1>5, <1>6, <1>7, Assemble DEF Inv

\* Load: truncating the main file loses nothing, for the backup is still there.
LEMMA TruncateStep ==
    ASSUME Orderly, Inv, TypeOK', NEW p \in Procs, RestoreTruncate(p)
    PROVE  Inv'
<1> USE DEF RestoreTruncate, Truncate, Goto
<1>1. \A q \in Procs \ {p} : pc[q] = "idle" /\ ~cache[q].warm
  BY Zenon, OthersIdle
<1>2. \A q \in Procs \ {p} : pc'[q] = pc[q] /\ cache'[q] = cache[q]
  BY Zenon DEF Inv, TypeOK
<1>3. /\ main.st # "ok" /\ bak.st = "ok"
      /\ buf[p].st = "ok" /\ buf[p].entries = bak.entries
  BY Zenon DEF Inv, PointInv
<1> DEFINE i == IF main.st = "missing" THEN clock + 1 ELSE main.ino
<1>4. /\ main' = Torn(clock + 1, i) /\ bak' = bak /\ clock' = clock + 1
      /\ buf' = [buf EXCEPT ![p].ino = i] /\ cache' = cache /\ stored' = stored
      /\ pc' = [pc EXCEPT ![p] = "restoring"]
  BY Zenon
<1>5. main'.st = "torn" /\ main'.mtime = clock + 1 /\ main'.ino = i
  BY <1>4 DEF Torn, File
<1>6. DiskInv'
  BY Zenon, <1>3, <1>4, <1>5 DEF Inv, DiskInv, Durable, Loadable
<1>a. clock \in Nat /\ main \in FileSet /\ bak \in FileSet /\ StampInv
  BY Zenon DEF Inv, TypeOK
<1>b. /\ bak.mtime \in Nat /\ bak.ino \in Nat /\ main.ino \in Nat
      /\ main.ino <= clock
  BY Zenon, <1>a DEF FileSet, StampInv
<1>7. i <= clock + 1 /\ i # bak.ino
  BY <1>3, <1>a, <1>b DEF StampInv
<1>8. /\ bak.mtime <= clock /\ bak.ino <= clock /\ clock \in Nat
      /\ bak.mtime \in Nat /\ bak.ino \in Nat
  BY Zenon, <1>a, <1>b DEF StampInv
<1>9. buf'[p].ino = i /\ buf'[p].st = "ok" /\ buf'[p].entries = bak.entries
  BY <1>3, <1>4 DEF Inv, TypeOK, FileSet
<1>10. pc'[p] = "restoring" /\ pc[p] = "restore"
  BY Zenon, <1>4 DEF Inv, TypeOK
<1>11. CacheInv(p)'
  BY <1>4, <1>5, <1>8 DEF Inv, CacheInv, TypeOK, CacheSet
<1> HIDE DEF i
<1>12. StampInv'
  BY <1>4, <1>5, <1>7, <1>8 DEF StampInv
<1>13. PointInv(p)'
  BY Zenon, <1>3, <1>4, <1>5, <1>9, <1>10 DEF PointInv
<1> QED BY Zenon, <1>1, <1>2, <1>6, <1>10, <1>11, <1>12, <1>13, Assemble DEF Inv

\* Load: the restored file holds what the backup holds.
LEMMA FillStep ==
    ASSUME Orderly, Inv, TypeOK', NEW p \in Procs, RestoreFill(p)
    PROVE  Inv'
<1> USE DEF RestoreFill, Fill, Goto
<1>1. \A q \in Procs \ {p} : pc[q] = "idle" /\ ~cache[q].warm
  BY Zenon, OthersIdle
<1>2. \A q \in Procs \ {p} : pc'[q] = pc[q] /\ cache'[q] = cache[q]
  BY Zenon DEF Inv, TypeOK
<1>3. /\ main.st = "torn" /\ bak.st = "ok" /\ buf[p].st = "ok"
      /\ buf[p].entries = bak.entries /\ buf[p].ino = main.ino
      /\ main.ino # bak.ino /\ pc'[p] = "loaded"
  BY Zenon DEF Inv, PointInv, StampInv, TypeOK
<1>4. main' = [buf[p] EXCEPT !.mtime = clock + 1]
  BY <1>3 DEF Written, Torn, File
<1>5. bak' = bak
  BY Zenon, <1>3 DEF Written
<1>6. buf[p] \in FileSet
  BY Zenon DEF Inv, TypeOK
<1>7. /\ main'.st = "ok" /\ main'.entries = bak.entries
      /\ main'.mtime = clock + 1 /\ main'.ino = main.ino
  BY Zenon, <1>3, <1>4, <1>6 DEF FileSet
<1>8. DiskInv'
  BY Zenon, <1>3, <1>5, <1>7 DEF Inv, DiskInv, Durable, Loadable
<1>a. clock \in Nat /\ main \in FileSet /\ bak \in FileSet /\ StampInv
  BY Zenon DEF Inv, TypeOK
<1>b. bak.mtime \in Nat /\ bak.ino \in Nat /\ main.ino \in Nat
  BY Zenon, <1>a DEF FileSet
<1>9. StampInv'
  BY <1>3, <1>5, <1>7, <1>a, <1>b DEF StampInv
<1>10. PointInv(p)'
  BY Zenon, <1>3, <1>7 DEF PointInv, Settled
<1>11. cache[p] \in CacheSet /\ CacheInv(p) /\ cache' = cache
  BY Zenon DEF Inv, TypeOK
<1>12. CacheInv(p)'
  BY <1>5, <1>7, <1>11, <1>a DEF CacheInv, CacheSet
<1> QED BY Zenon, <1>1, <1>2, <1>3, <1>8, <1>9, <1>10, <1>12, Assemble DEF Inv

\* Save: the temporary file is new.
LEMMA TempStep ==
    ASSUME Orderly, Inv, TypeOK', NEW p \in Procs, NEW e \in Entries, SaveTemp(p, e)
    PROVE  Inv'
<1> USE DEF SaveTemp, Goto
<1>1. \A q \in Procs \ {p} : pc[q] = "idle" /\ ~cache[q].warm
  BY Zenon, OthersIdle
<1>2. \A q \in Procs \ {p} : pc'[q] = pc[q] /\ cache'[q] = cache[q]
  BY Zenon DEF Inv, TypeOK
<1>3. pc'[p] = "backup" /\ Settled
  BY Zenon DEF Inv, PointInv, TypeOK
<1>4. buf'[p].st = "ok" /\ buf'[p].mtime = clock + 1 /\ buf'[p].ino = clock + 1
  BY Zenon DEF Inv, TypeOK, File
<1>a. clock \in Nat /\ main \in FileSet /\ bak \in FileSet /\ StampInv
  BY Zenon DEF Inv, TypeOK
<1>b. /\ main.mtime \in Nat /\ main.ino \in Nat
      /\ bak.mtime \in Nat /\ bak.ino \in Nat
  BY Zenon, <1>a DEF FileSet
<1>5. StampInv'
  BY <1>a, <1>b DEF StampInv
<1>6. Newer(p)'
  BY <1>4, <1>a, <1>b DEF Newer, StampInv
<1>7. DiskInv'
  BY Zenon DEF Inv, DiskInv, Durable, Loadable
<1>8. PointInv(p)'
  BY Zenon, <1>3, <1>4, <1>6 DEF PointInv, Settled
<1>9. cache[p] \in CacheSet /\ CacheInv(p) /\ cache' = cache
  BY Zenon DEF Inv, TypeOK
<1>10. CacheInv(p)'
  BY <1>9, <1>a DEF CacheInv, CacheSet
<1> QED BY Zenon, <1>1, <1>2, <1>3, <1>5, <1>7, <1>8, <1>10, Assemble DEF Inv

\* Save: between the two renames the backup holds the last saved entries.
LEMMA BackupStep ==
    ASSUME Orderly, Inv, TypeOK', NEW p \in Procs, SaveBackup(p) \/ SaveBackupFail(p)
    PROVE  Inv'
<1> USE DEF SaveBackup, SaveBackupFail, Goto
<1>1. \A q \in Procs \ {p} : pc[q] = "idle" /\ ~cache[q].warm
  BY Zenon, OthersIdle
<1>2. \A q \in Procs \ {p} : pc'[q] = pc[q] /\ cache'[q] = cache[q]
  BY Zenon DEF Inv, TypeOK
<1>3. /\ pc'[p] \in {"rename", "loaded"} /\ cache' = cache /\ buf' = buf
      /\ Settled /\ buf[p].st = "ok" /\ Newer(p)
  BY Zenon DEF Inv, PointInv, TypeOK
<1>4. CASE UNCHANGED <<main, bak>>
  <2>1. DiskInv' /\ StampInv' /\ CacheInv(p)'
    BY Zenon, <1>3, <1>4 DEF Inv, DiskInv, Durable, Loadable, StampInv, CacheInv
  <2>2. pc'[p] = "rename" => main.st = "missing"
    BY SMTT(30), <1>4 DEF Inv, TypeOK, Missing, File
  <2>3. PointInv(p)'
    BY Zenon, <1>3, <1>4, <2>2 DEF PointInv, Settled, Newer
  <2> QED BY Zenon, <1>1, <1>2, <1>3, <2>1, <2>3, Assemble DEF Inv
<1>5. CASE main.st # "missing" /\ bak' = main /\ main' = Missing /\ SaveBackup(p)
  <2>1. main.st = "ok"
    BY Zenon, <1>3, <1>5 DEF Settled
  <2>2. main'.st = "missing" /\ main'.mtime = 0 /\ main'.ino = 0
    BY Zenon, <1>5 DEF Missing, File
  <2>3. DiskInv'
    BY Zenon, <1>5, <2>1, <2>2 DEF Inv, DiskInv, Durable, Loadable
  <2>4. StampInv'
    BY SMTT(30), <1>5, <2>2 DEF Inv, StampInv, TypeOK
  <2>5. CacheInv(p)'
    BY Zenon, <1>3, <1>5, <2>2 DEF Inv, CacheInv
  <2>6. pc'[p] = "rename"
    BY Zenon, <1>5 DEF Inv, TypeOK
  <2>7. Newer(p)'
    BY Zenon, <1>3, <1>5, <2>2 DEF Newer
  <2>8. PointInv(p)'
    BY Zenon, <1>3, <2>2, <2>6, <2>7 DEF PointInv
  <2> QED BY Zenon, <1>1, <1>2, <1>3, <2>3, <2>4, <2>5, <2>8, Assemble DEF Inv
<1> QED BY Zenon, <1>4, <1>5

\* Save: the rename publishes the new entries, or the backup goes back.
LEMMA RenameStep ==
    ASSUME Orderly, Inv, TypeOK', NEW p \in Procs, SaveRename(p) \/ SaveRenameFail(p)
    PROVE  Inv'
<1>1. \A q \in Procs \ {p} : pc[q] = "idle" /\ ~cache[q].warm
  BY Zenon, OthersIdle DEF SaveRename, SaveRenameFail
<1>2. \A q \in Procs \ {p} : pc'[q] = pc[q] /\ cache'[q] = cache[q]
  BY Zenon DEF Inv, TypeOK, SaveRename, SaveRenameFail, Goto
<1>3. /\ pc'[p] = "loaded" /\ main.st = "missing"
      /\ buf[p].st = "ok" /\ Newer(p) /\ clock' = clock
  BY Zenon DEF Inv, PointInv, TypeOK, SaveRename, SaveRenameFail, Goto
<1>a. clock \in Nat /\ main \in FileSet /\ bak \in FileSet /\ StampInv
  BY Zenon DEF Inv, TypeOK
<1>4. CASE SaveRename(p)
  <2>1. /\ main' = buf[p] /\ bak' = bak /\ stored' = buf[p].entries
        /\ ~cache'[p].warm
    BY Zenon, <1>4 DEF SaveRename, Inv, TypeOK, NoCache
  <2>2. DiskInv'
    BY Zenon, <1>3, <2>1 DEF Inv, DiskInv, Durable, Loadable
  <2>3. StampInv'
    BY Zenon, <1>3, <1>4, <1>a, <2>1 DEF StampInv, Newer
  <2>4. PointInv(p)' /\ CacheInv(p)'
    BY Zenon, <1>3, <2>1 DEF PointInv, CacheInv, Settled
  <2> QED BY Zenon, <1>1, <1>2, <1>3, <2>2, <2>3, <2>4, Assemble DEF Inv
<1>5. CASE SaveRenameFail(p)
  <2>1. cache' = cache /\ stored' = stored
    BY Zenon, <1>5 DEF SaveRenameFail
  <2>2. CASE bak.st = "missing"
    <3>1. main' = main /\ bak' = bak
      BY Zenon, <1>5, <2>2 DEF SaveRenameFail
    <3>2. DiskInv' /\ StampInv' /\ CacheInv(p)' /\ PointInv(p)'
      BY Zenon, <1>3, <2>1, <2>2, <3>1
         DEF Inv, DiskInv, Durable, Loadable, StampInv, CacheInv, PointInv, Settled
    <3> QED BY Zenon, <1>1, <1>2, <1>3, <3>2, Assemble DEF Inv
  <2>3. CASE bak.st # "missing"
    <3>1. main' = bak /\ bak' = Missing
      BY Zenon, <1>5, <2>3 DEF SaveRenameFail
    <3>2. bak'.st = "missing" /\ bak'.mtime = 0 /\ bak'.ino = 0
      BY Zenon, <3>1 DEF Missing, File
    <3>3. bak.st = "ok"
      BY Zenon, <1>a, <2>3 DEF FileSet, Inv, DiskInv
    <3>4. DiskInv'
      BY Zenon, <1>3, <2>1, <3>1, <3>2, <3>3 DEF Inv, DiskInv, Durable, Loadable
    <3>5. StampInv'
      BY <1>3, <1>a, <3>1, <3>2 DEF StampInv
    <3>6. CacheInv(p)' /\ PointInv(p)'
      BY <1>3, <2>1, <3>1, <3>2, <3>3 DEF Inv, CacheInv, PointInv, Settled
    <3> QED BY Zenon, <1>1, <1>2, <1>3, <3>4, <3>5, <3>6, Assemble DEF Inv
  <2> QED BY Zenon, <2>2, <2>3
<1> QED BY Zenon, <1>4, <1>5

\* A process that exits or is killed leaves the files as they are.
LEMMA ExitStep ==
    ASSUME Orderly, Inv, TypeOK', NEW p \in Procs, Exit(p)
    PROVE  Inv'
<1> USE DEF Exit, Goto
<1>1. \A q \in Procs \ {p} : pc[q] = "idle" /\ ~cache[q].warm
  BY Zenon, OthersIdle
<1>2. \A q \in Procs \ {p} : pc'[q] = pc[q] /\ cache'[q] = cache[q]
  BY Zenon DEF Inv, TypeOK
<1>3. pc'[p] = "idle" /\ ~cache'[p].warm
  BY Zenon DEF Inv, TypeOK, NoCache
<1>4. DiskInv' /\ StampInv'
  BY Zenon DEF Inv, DiskInv, Durable, Loadable, StampInv
<1>5. PointInv(p)' /\ CacheInv(p)'
  BY Zenon, <1>3 DEF PointInv, CacheInv
<1> QED BY Zenon, <1>1, <1>2, <1>3, <1>4, <1>5, Assemble DEF Inv

\* Every step of every process preserves the invariant.
LEMMA InvStep ==
    ASSUME Orderly, Inv, [Next]_vars
    PROVE  Inv'
<1>1. TypeOK'
  BY Zenon, TypeStep DEF Inv
<1>2. CASE UNCHANGED vars
  <2>1. AloneInv' /\ DiskInv' /\ StampInv'
    BY Zenon, <1>2 DEF vars, Inv, AloneInv, DiskInv, StampInv, Durable, Loadable
  <2>2. ASSUME NEW p \in Procs PROVE PointInv(p)'
    <3>1. PointInv(p)
      BY Zenon DEF Inv
    <3> QED BY Zenon, <1>2, <3>1 DEF vars, PointInv, Settled, Newer
  <2>3. ASSUME NEW p \in Procs PROVE CacheInv(p)'
    <3>1. CacheInv(p)
      BY Zenon DEF Inv
    <3> QED BY Zenon, <1>2, <3>1 DEF vars, CacheInv
  <2> QED BY Zenon, <1>1, <2>1, <2>2, <2>3 DEF Inv
<1>3. ASSUME NEW p \in Procs, Load(p) PROVE Inv'
  <2>1. ~RestoreFail(p)
    BY Zenon DEF RestoreFail, Orderly
  <2> QED BY Zenon, <1>1, <1>3, <2>1, LoadStep, TruncateStep, FillStep DEF Load
<1>4. ASSUME NEW p \in Procs, Save(p) PROVE Inv'
  BY Zenon, <1>1, <1>4, TempStep, BackupStep, RenameStep DEF Save
<1>5. ASSUME NEW p \in Procs, SaveSide(p) PROVE FALSE
  BY Zenon, <1>5 DEF SaveSide, Orderly, GetVersions, SaveVersion, SaveBudgets,
              RewriteTruncate, Truncate, RewriteFill, Fill, Inv, PointInv
<1>6. ASSUME NEW p \in Procs, Exit(p) PROVE Inv'
  BY Zenon, <1>1, <1>6, ExitStep
<1> QED BY Zenon, <1>2, <1>3, <1>4, <1>5, <1>6 DEF Next

\* The invariant holds before any file exists.
LEMMA InvInit == Init => Inv
<1> SUFFICES ASSUME Init PROVE Inv
  BY Zenon
<1>1. AloneInv /\ DiskInv /\ StampInv
  BY DEF Init, AloneInv, DiskInv, StampInv, Durable, Loadable, Missing, File, NoCache
<1>2. \A p \in Procs : PointInv(p) /\ CacheInv(p)
  BY Zenon DEF Init, PointInv, CacheInv, NoCache
<1> QED BY Zenon, <1>1, <1>2, TypeInit DEF Inv

\* Wherever processes are killed, a Load finds the entries of the last Save that
\* renamed its file into place.
THEOREM DurableCorrect ==
    ASSUME Orderly
    PROVE  Spec => []Durable
<1>1. Inv /\ [Next]_vars => Inv'
  BY Zenon, InvStep
<1>2. Inv => Durable
  BY Zenon DEF Inv, DiskInv
<1> QED BY InvInit, <1>1, <1>2, PTL DEF Spec

-----------------------------------------------------------------------------
(* Refinement *)

Pending(p) == IF pc[p] \in {"backup", "rename"} THEN buf[p].entries ELSE NoSave

\* A step of the files is a step of the store, or invisible.
LEMMA StepRefines ==
    ASSUME Orderly, Inv, Inv', [Next]_vars
    PROVE  [AS!Next]_AS!vars
<1> DEFINE pend == [p \in Procs |-> Pending(p)]
<1>a. Loadable = stored /\ Loadable' = stored'
  BY Zenon DEF Inv, DiskInv, Durable
<1>b. ASSUME NEW p \in Procs, NEW x, pend' = [pend EXCEPT ![p] = x],
             UNCHANGED <<stored, ret>>, x = NoSave, Pending(p) # NoSave
      PROVE  AS!Next
  BY Zenon, <1>a, <1>b DEF AS!Next, AS!Abort, Pending
<1>c. ASSUME pend' = pend, UNCHANGED <<stored, ret>>
      PROVE  UNCHANGED AS!vars
  BY Zenon, <1>a, <1>c DEF AS!vars, Pending
<1>d. ASSUME NEW p \in Procs, pend' = pend, UNCHANGED stored,
             ret' = [ret EXCEPT ![p] = stored]
      PROVE  AS!Next
  BY Zenon, <1>a, <1>d DEF AS!Next, AS!Read, Pending
<1> USE DEF Goto, Return
<1>1. CASE UNCHANGED vars
  <2>1. pend' = pend
    BY Zenon, <1>1 DEF vars, Pending
  <2> QED BY Zenon, <1>1, <1>c, <2>1 DEF vars
<1>2. ASSUME NEW p \in Procs, Load(p) PROVE [AS!Next]_AS!vars
  <2>1. pend' = pend
    <3>1. pc[p] \notin {"backup", "rename"} /\ pc'[p] \notin {"backup", "rename"}
          /\ \A q \in Procs \ {p} : pc'[q] = pc[q] /\ buf'[q] = buf[q]
      BY <1>2 DEF Load, LoadMissing, LoadHit, LoadStat, LoadRead, ReadBackup,
             RestoreTruncate, Truncate, RestoreFill, Fill, RestoreFail, MayRun,
             Inv, TypeOK
    <3> QED BY Zenon, <3>1 DEF Pending
  <2>2. stored' = stored
    BY Zenon, <1>2 DEF Load, LoadMissing, LoadHit, LoadStat, LoadRead, ReadBackup,
           RestoreTruncate, Truncate, RestoreFill, Fill, RestoreFail
  <2>3. ret' = ret \/ ret' = [ret EXCEPT ![p] = stored]
    <3>1. CASE LoadMissing(p) \/ LoadStat(p) \/ RestoreTruncate(p)
      BY Zenon, <3>1 DEF LoadMissing, LoadStat, RestoreTruncate, Truncate
    <3>2. CASE LoadHit(p)
      <4>1. main.st = "ok" /\ cache[p].entries = main.entries
        BY Zenon, <3>2 DEF LoadHit, Cached, Inv, CacheInv
      <4> QED BY Zenon, <1>a, <3>2, <4>1 DEF LoadHit, Loadable
    <3>3. CASE LoadRead(p)
      <4>1. main.st # "missing"
        BY Zenon, <3>3 DEF LoadRead, Inv, PointInv
      <4> QED BY Zenon, <1>a, <3>3, <4>1 DEF LoadRead, Loadable
    <3>4. CASE ReadBackup(p)
      <4>1. bak.st # "torn" /\ (pc[p] = "badMain" => bak.st = "ok")
            /\ (pc[p] = "noMain" => main.st = "missing")
        BY Zenon, <3>4 DEF ReadBackup, Inv, PointInv, DiskInv
      <4> QED BY Zenon, <1>a, <3>4, <4>1 DEF ReadBackup, Loadable
    <3>5. CASE RestoreFill(p)
      <4>1. main.st # "ok" /\ bak.st = "ok" /\ buf[p].entries = bak.entries
        BY Zenon, <3>5 DEF RestoreFill, Fill, Inv, PointInv
      <4> QED BY Zenon, <1>a, <3>5, <4>1 DEF RestoreFill, Loadable
    <3>6. ~RestoreFail(p)
      BY Zenon DEF RestoreFail, Orderly
    <3> QED BY Zenon, <1>2, <3>1, <3>2, <3>3, <3>4, <3>5, <3>6 DEF Load
  <2> QED BY Zenon, <1>c, <1>d, <2>1, <2>2, <2>3
<1>3. ASSUME NEW p \in Procs, NEW e \in Entries, SaveTemp(p, e)
      PROVE  [AS!Next]_AS!vars
  <2>1. Pending(p) = NoSave /\ pend' = [pend EXCEPT ![p] = e]
    BY Zenon, <1>3 DEF SaveTemp, Pending, File, Inv, TypeOK
  <2>2. UNCHANGED <<stored, ret>>
    BY Zenon, <1>3 DEF SaveTemp
  <2> QED BY Zenon, <1>a, <2>1, <2>2 DEF AS!Next, AS!Begin, Pending
<1>4. ASSUME NEW p \in Procs, SaveBackup(p) PROVE [AS!Next]_AS!vars
  <2>1. pend' = pend
    BY Zenon, <1>4 DEF SaveBackup, Pending, Inv, TypeOK
  <2> QED BY Zenon, <1>4, <1>c, <2>1 DEF SaveBackup
<1>5. ASSUME NEW p \in Procs, SaveBackupFail(p) \/ SaveRenameFail(p)
      PROVE  [AS!Next]_AS!vars
  <2>1. pend' = [pend EXCEPT ![p] = NoSave]
    <3>1. pc' = [pc EXCEPT ![p] = "loaded"] /\ buf' = buf
      BY Zenon, <1>5 DEF SaveBackupFail, SaveRenameFail
    <3> QED BY Zenon, <3>1 DEF Pending, Inv, TypeOK
  <2>2. Pending(p) # NoSave
    <3>1. pc[p] \in {"backup", "rename"}
      BY Zenon, <1>5 DEF SaveBackupFail, SaveRenameFail
    <3>2. buf[p].entries \in Entries
      BY Zenon DEF Inv, TypeOK, FileSet
    <3> QED BY Zenon, <3>1, <3>2, ConstantsAssumption DEF Pending
  <2>3. UNCHANGED <<stored, ret>>
    BY Zenon, <1>5 DEF SaveBackupFail, SaveRenameFail
  <2> QED BY Zenon, <1>b, <2>1, <2>2, <2>3
<1>6. ASSUME NEW p \in Procs, SaveRename(p) PROVE [AS!Next]_AS!vars
  <2>1. pend' = [pend EXCEPT ![p] = NoSave]
    BY Zenon, <1>6 DEF SaveRename, Pending, Inv, TypeOK
  <2>2. Pending(p) # NoSave /\ stored' = Pending(p)
    BY Zenon, <1>6, ConstantsAssumption DEF SaveRename, Pending, Inv, TypeOK, FileSet
  <2>3. ret' = ret
    BY Zenon, <1>6 DEF SaveRename
  <2> QED BY Zenon, <1>a, <2>1, <2>2, <2>3 DEF AS!Next, AS!Commit, Pending
<1>7. ASSUME NEW p \in Procs, Exit(p) PROVE [AS!Next]_AS!vars
  <2>1. pend' = [pend EXCEPT ![p] = NoSave] /\ UNCHANGED <<stored, ret>>
    <3>1. /\ pc' = [pc EXCEPT ![p] = "idle"] /\ buf' = [buf EXCEPT ![p] = Missing]
          /\ UNCHANGED <<stored, ret>>
      BY Zenon, <1>7 DEF Exit
    <3> QED BY Zenon, <3>1 DEF Pending, Inv, TypeOK
  <2>2. CASE Pending(p) = NoSave
    <3>1. pend' = pend
      BY Zenon, <2>1, <2>2
    <3> QED BY Zenon, <1>c, <2>1, <3>1
  <2>3. CASE Pending(p) # NoSave
    BY Zenon, <1>b, <2>1, <2>3
  <2> QED BY Zenon, <2>2, <2>3
<1>8. ASSUME NEW p \in Procs, SaveSide(p) PROVE FALSE
  BY Zenon, <1>8 DEF SaveSide, Orderly, GetVersions, SaveVersion, SaveBudgets,
              RewriteTruncate, Truncate, RewriteFill, Fill, Inv, PointInv
<1> QED BY Zenon, <1>1, <1>2, <1>3, <1>4, <1>5, <1>6, <1>7, <1>8 DEF Next, Save

\* The backup-then-rename protocol with recovery implements a store whose Save
\* is one indivisible step.
THEOREM RefinementCorrect ==
    ASSUME Orderly
    PROVE  Spec => Refinement
<1>1. Init => AS!Init
  <2> SUFFICES ASSUME Init PROVE AS!Init
    BY Zenon
  <2>1. Loadable = Nil
    BY Zenon DEF Init, Loadable, Missing, File
  <2> QED BY Zenon, <2>1 DEF Init, AS!Init
<1>2. Inv /\ [Next]_vars => Inv'
  BY Zenon, InvStep
<1>3. Inv /\ Inv' /\ [Next]_vars => [AS!Next]_AS!vars
  BY Zenon, StepRefines
<1> QED BY InvInit, <1>1, <1>2, <1>3, PTL DEF Spec, Refinement, AS!Spec

-----------------------------------------------------------------------------
(* What the caches answer while processes overlap *)

Overwriting(p) == pc[p] \in {"backup", "rename"}

\* s is the mtime of no image that has yet to be renamed into place.
Past(s) == s <= clock /\ \A p \in Procs : Overwriting(p) => buf[p].mtime # s

\* The temporary files have mtimes of their own.
TempsInv ==
    \A p \in Procs : Overwriting(p) =>
       /\ buf[p].mtime <= clock
       /\ main.st # "missing" => main.mtime # buf[p].mtime
       /\ \A q \in Procs : q # p /\ Overwriting(q) => buf[q].mtime # buf[p].mtime

\* A Load notes an mtime that no later file will have.
NotesInv == \A q \in Procs : pc[q] = "read" => Past(stat[q])

\* A warm cache agrees with the file if the file has its mtime, now and later.
WarmInv ==
    \A q \in Procs : cache[q].warm =>
       /\ Past(cache[q].mtime)
       /\ main.st # "missing" /\ main.mtime = cache[q].mtime =>
              main.st = "ok" /\ main.entries = cache[q].entries

FreshInv == main.mtime <= clock /\ TempsInv /\ NotesInv /\ WarmInv

\* The numbers that FreshInv compares are naturals.
LEMMA StampTypes ==
    ASSUME TypeOK
    PROVE  /\ clock \in Nat /\ main.mtime \in Nat
           /\ \A p \in Procs : stat[p] \in Nat /\ buf[p].mtime \in Nat /\ cache[p].mtime \in Nat
<1> main \in FileSet /\ \A p \in Procs : buf[p] \in FileSet /\ cache[p] \in CacheSet
  BY Zenon DEF TypeOK
<1> QED BY Zenon DEF TypeOK, FileSet, CacheSet

\* A step of p that writes no file and begins no Save keeps what holds of the
\* mtimes; it may give p a cache or a noted mtime for which the same holds.
LEMMA QuietFresh ==
    ASSUME TypeOK, FreshInv, NEW p \in Procs, UNCHANGED <<main, clock>>,
           ~Overwriting(p)',
           \A q \in Procs \ {p} : pc'[q] = pc[q] /\ buf'[q] = buf[q] /\ stat'[q] = stat[q]
                                  /\ cache'[q] = cache[q],
           pc'[p] = "read" => Past(stat'[p]),
           cache'[p].warm => /\ Past(cache'[p].mtime)
                             /\ main.st # "missing" /\ main.mtime = cache'[p].mtime =>
                                    main.st = "ok" /\ main.entries = cache'[p].entries
    PROVE  FreshInv'
<1>1. \A q \in Procs : Overwriting(q)' => q # p /\ Overwriting(q) /\ buf'[q] = buf[q]
  BY Zenon DEF Overwriting
<1>2. \A s : Past(s) => Past(s)'
  BY Zenon, <1>1 DEF Past
<1>3. TempsInv'
  BY <1>1 DEF FreshInv, TempsInv
<1>4. NotesInv'
  BY Zenon, <1>2 DEF FreshInv, NotesInv
<1>5. WarmInv'
  BY Zenon, <1>2 DEF FreshInv, WarmInv
<1> QED BY Zenon, <1>3, <1>4, <1>5 DEF FreshInv

\* A Load notes or caches only the mtime it saw, and no file has changed.
LEMMA LoadFresh ==
    ASSUME TypeOK, FreshInv, NEW p \in Procs,
           LoadMissing(p) \/ LoadHit(p) \/ LoadStat(p) \/ LoadRead(p) \/ ReadBackup(p) \/ RestoreFail(p)
    PROVE  FreshInv'
<1> USE DEF LoadMissing, LoadHit, LoadStat, LoadRead, ReadBackup, RestoreFail, Goto, Return
<1>1. UNCHANGED <<main, clock>>
  BY Zenon
<1>2. \A q \in Procs \ {p} : pc'[q] = pc[q] /\ buf'[q] = buf[q] /\ stat'[q] = stat[q] /\ cache'[q] = cache[q]
  BY Zenon DEF TypeOK
<1>3. ~Overwriting(p)'
  BY Zenon DEF TypeOK, Overwriting
<1>4. pc'[p] = "read" => Past(stat'[p])
  BY Zenon DEF TypeOK, FreshInv, TempsInv, Past
<1>5. \/ cache'[p] = cache[p] \/ ~cache'[p].warm
      \/ pc[p] = "read" /\ main.st = "ok" /\ cache'[p].mtime = stat[p] /\ cache'[p].entries = main.entries
  <2>1. CASE LoadMissing(p)
    BY Zenon, <2>1 DEF TypeOK, NoCache
  <2>2. CASE LoadRead(p)
    <3>1. cache' = cache \/ (main.st = "ok" /\ cache' = [cache EXCEPT ![p] =
              [warm |-> main.entries # Nil, entries |-> main.entries, mtime |-> stat[p]]])
      BY <2>2, Zenon
    <3>2. pc[p] = "read" /\ p \in DOMAIN cache
      BY Zenon, <2>2 DEF TypeOK
    <3> HIDE DEF LoadMissing, LoadHit, LoadStat, LoadRead, ReadBackup, RestoreFail, Goto, Return
    <3> QED BY <3>1, <3>2
  <2>3. CASE cache' = cache
    BY Zenon, <2>3
  <2> QED BY <2>1, <2>2, <2>3, Zenon
<1>6. cache'[p].warm => /\ Past(cache'[p].mtime)
                        /\ main.st # "missing" /\ main.mtime = cache'[p].mtime =>
                               main.st = "ok" /\ main.entries = cache'[p].entries
  BY Zenon, <1>5 DEF FreshInv, NotesInv, WarmInv
<1> QED BY Zenon, <1>1, <1>2, <1>3, <1>4, <1>6, QuietFresh

\* A process that prepares a side section, or exits, changes neither file nor mtime.
LEMMA OtherFresh ==
    ASSUME TypeOK, FreshInv, NEW p \in Procs,
           \/ GetVersions(p) \/ SaveVersion(p) \/ Exit(p)
           \/ \E b \in Budgets \ {NoBudgets} : SaveBudgets(p, b)
    PROVE  FreshInv'
<1> USE DEF GetVersions, SaveVersion, SaveBudgets, Exit, Goto
<1>1. UNCHANGED <<main, clock>>
  BY Zenon
<1>2. \A q \in Procs \ {p} : pc'[q] = pc[q] /\ buf'[q] = buf[q] /\ stat'[q] = stat[q] /\ cache'[q] = cache[q]
  BY Zenon DEF TypeOK
<1>3. ~Overwriting(p)' /\ pc'[p] # "read"
  BY Zenon DEF TypeOK, Overwriting
<1>5. cache'[p] = cache[p] \/ ~cache'[p].warm
  BY DEF TypeOK, NoCache
<1>6. cache'[p].warm => /\ Past(cache'[p].mtime)
                        /\ main.st # "missing" /\ main.mtime = cache'[p].mtime =>
                               main.st = "ok" /\ main.entries = cache'[p].entries
  BY Zenon, <1>5 DEF FreshInv, WarmInv
<1> QED BY Zenon, <1>1, <1>2, <1>3, <1>6, QuietFresh

\* A write in place gives the file an mtime that nobody has seen.
LEMMA InPlaceFresh ==
    ASSUME TypeOK, FreshInv, NEW p \in Procs,
           RestoreTruncate(p) \/ RewriteTruncate(p) \/ RestoreFill(p) \/ RewriteFill(p)
    PROVE  FreshInv'
<1> USE DEF RestoreTruncate, RewriteTruncate, Truncate, RestoreFill, RewriteFill, Fill, Goto
<1>1. clock' = clock + 1 /\ UNCHANGED <<stat, cache>>
  BY Zenon
<1>2. main' = main \/ main'.mtime = clock + 1
  BY DEF Written, Torn, File, TypeOK, FileSet
<1>3. \A q \in Procs : Overwriting(q)' => Overwriting(q) /\ buf'[q] = buf[q]
  BY Zenon DEF TypeOK, Overwriting
<1>4. \A q \in Procs : pc'[q] = "read" => pc[q] = "read"
  BY Zenon DEF TypeOK
<1> HIDE DEF RestoreTruncate, RewriteTruncate, Truncate, RestoreFill, RewriteFill, Fill, Goto
<1>5. \A s \in Nat : Past(s) => Past(s)' /\ s # clock + 1
  BY <1>1, <1>3, StampTypes DEF Past
<1>6. TempsInv'
  BY <1>1, <1>2, <1>3, StampTypes DEF FreshInv, TempsInv
<1>7. NotesInv'
  BY Zenon, <1>1, <1>4, <1>5, StampTypes DEF FreshInv, NotesInv
<1>8. WarmInv'
  BY Zenon, <1>1, <1>2, <1>5, StampTypes DEF FreshInv, WarmInv
<1>9. main'.mtime <= clock'
  BY <1>1, <1>2, StampTypes DEF FreshInv
<1> QED BY Zenon, <1>6, <1>7, <1>8, <1>9 DEF FreshInv

\* The temporary file of a Save has an mtime that nobody has seen.
LEMMA TempFresh ==
    ASSUME TypeOK, FreshInv, NEW p \in Procs, NEW e \in Entries, SaveTemp(p, e)
    PROVE  FreshInv'
<1>1. clock' = clock + 1 /\ UNCHANGED <<main, stat, cache>>
  BY Zenon DEF SaveTemp
<1>2. buf'[p].mtime = clock + 1 /\ \A q \in Procs \ {p} : buf'[q] = buf[q]
  BY Zenon DEF SaveTemp, TypeOK, File
<1>3. \A q \in Procs \ {p} : Overwriting(q)' => Overwriting(q)
  BY Zenon DEF SaveTemp, Goto, TypeOK, Overwriting
<1>4. \A q \in Procs : pc'[q] = "read" => pc[q] = "read"
  BY Zenon DEF SaveTemp, Goto, TypeOK
<1>5. \A s \in Nat : Past(s) => Past(s)'
  BY <1>1, <1>2, <1>3, StampTypes DEF Past
<1>6. TempsInv'
  BY <1>1, <1>2, <1>3, StampTypes DEF FreshInv, TempsInv
<1>7. NotesInv'
  BY Zenon, <1>1, <1>4, <1>5, StampTypes DEF FreshInv, NotesInv
<1>8. WarmInv'
  BY Zenon, <1>1, <1>5, StampTypes DEF FreshInv, WarmInv
<1>9. main'.mtime <= clock'
  BY <1>1, StampTypes DEF FreshInv
<1> QED BY Zenon, <1>6, <1>7, <1>8, <1>9 DEF FreshInv

\* A Save moves the file away and then puts its own in place, whose mtime no
\* cache has.
LEMMA SaveFresh ==
    ASSUME TypeOK, FreshInv, NEW p \in Procs, SaveBackup(p) \/ SaveRename(p)
    PROVE  FreshInv'
<1> USE DEF SaveBackup, SaveRename, Goto
<1>1. UNCHANGED <<clock, buf, stat>>
  BY Zenon
<1>2. \A q \in Procs : Overwriting(q)' => Overwriting(q)
  BY Zenon DEF TypeOK, Overwriting
<1>3. \A q \in Procs : pc'[q] = "read" => pc[q] = "read"
  BY Zenon DEF TypeOK
<1>4. \A q \in Procs : cache'[q].warm => cache'[q] = cache[q]
  BY DEF TypeOK, NoCache
<1>5. Overwriting(p) /\ (main' = main \/ main' = Missing \/ (main' = buf[p] /\ ~Overwriting(p)'))
  BY Zenon DEF Overwriting, TypeOK
<1> HIDE DEF SaveBackup, SaveRename, Goto
<1>m. Missing.st = "missing" /\ Missing.mtime = 0
  BY Zenon DEF Missing, File
<1>6. \A s : Past(s) => Past(s)' /\ s # buf[p].mtime
  BY Zenon, <1>1, <1>2, <1>5 DEF Past
<1>7. TempsInv'
  BY Zenon, <1>1, <1>2, <1>5, <1>m DEF FreshInv, TempsInv
<1>8. NotesInv'
  BY Zenon, <1>1, <1>3, <1>6 DEF FreshInv, NotesInv
<1>9. WarmInv'
  BY Zenon, <1>4, <1>5, <1>6, <1>m DEF FreshInv, WarmInv
<1>10. main'.mtime <= clock'
  BY <1>1, <1>5, <1>m, StampTypes DEF FreshInv, TempsInv
<1> QED BY Zenon, <1>7, <1>8, <1>9, <1>10 DEF FreshInv

\* Every step preserves FreshInv when renames succeed.
LEMMA FreshStep ==
    ASSUME "rename" \notin Faults, TypeOK, FreshInv, [Next]_vars
    PROVE  FreshInv'
<1>1. CASE UNCHANGED vars
  <2>1. \A s : Past(s) => Past(s)'
    BY Zenon, <1>1 DEF vars, Past, Overwriting
  <2> QED BY Zenon, <1>1, <2>1 DEF vars, FreshInv, TempsInv, NotesInv, WarmInv, Overwriting
<1>2. ASSUME NEW p \in Procs, Load(p) PROVE FreshInv'
  BY Zenon, <1>2, LoadFresh, InPlaceFresh DEF Load
<1>3. ASSUME NEW p \in Procs, Save(p) PROVE FreshInv'
  BY Zenon, <1>3, TempFresh, SaveFresh DEF Save, SaveBackupFail, SaveRenameFail
<1>4. ASSUME NEW p \in Procs, SaveSide(p) \/ Exit(p) PROVE FreshInv'
  BY Zenon, <1>4, OtherFresh, InPlaceFresh DEF SaveSide
<1> QED BY Zenon, <1>1, <1>2, <1>3, <1>4 DEF Next

\* At the start nothing is cached and no Save is under way.
LEMMA FreshInit == Init => FreshInv
BY DEF Init, FreshInv, TempsInv, NotesInv, WarmInv, Overwriting, Missing, File, NoCache

\* A Load answered from the cache returns what the file holds: for any number of
\* processes whose Loads, Saves, restores and side writes overlap in any way and
\* may fail, as long as no rename does; and with failing renames too for
\* processes that the state lock serialises.
THEOREM HitsAreFresh ==
    ASSUME "rename" \notin Faults \/ Orderly
    PROVE  Spec => []HitIsFresh
<1>1. CASE "rename" \notin Faults
  <2>1. TypeOK /\ FreshInv /\ [Next]_vars => (TypeOK /\ FreshInv)'
    BY Zenon, <1>1, TypeStep, FreshStep
  <2>2. FreshInv => HitIsFresh
    BY Zenon DEF FreshInv, WarmInv, HitIsFresh, Cached
  <2> QED BY TypeInit, FreshInit, <2>1, <2>2, PTL DEF Spec
<1>2. CASE Orderly
  <2>1. Inv /\ [Next]_vars => Inv'
    BY Zenon, <1>2, InvStep
  <2>2. Inv => HitIsFresh
    BY Zenon DEF Inv, CacheInv, HitIsFresh, Cached
  <2> QED BY InvInit, <2>1, <2>2, PTL DEF Spec
<1> QED BY Zenon, <1>1, <1>2

-----------------------------------------------------------------------------
(* Migration from one backend to another *)

CONSTANTS Names, Sources
VARIABLES src, dst, before, dryRun, at, migrated, failed, exit
Mig == INSTANCE StateMigrate WITH i <- at

\* Until a save succeeds nothing is counted and the destination is as it was; from then
\* on it holds entries of the source only.  Saves one by one come after a failed bulk save
\* of a source with entries, and are counted.
MigInv ==
  /\ src \in Seq(Names \cup {"?"}) /\ at \in Nat /\ migrated \in Nat /\ dryRun \in BOOLEAN
  /\ pc \in {"load", "bulk", "single", "done"}
  /\ pc \in {"load", "bulk"} => dst = before /\ migrated = 0 /\ at = 0
  /\ pc \in {"bulk", "single"} => src # <<>> /\ ~dryRun
  /\ pc = "single" =>
       /\ at <= Len(src)
       /\ IF migrated = 0 THEN dst = before ELSE at # 0 /\ dst \subseteq Mig!Entries /\ dst # {}
  /\ Mig!DestinationIsExplained

\* Whatever the two backends hold and whichever of the saves fail, what the
\* destination holds after "agentspec state migrate" is accounted for.
THEOREM MigrationIsExplained ==
  ASSUME Sources \subseteq Seq(Names \cup {"?"})
  PROVE  Mig!Spec => []Mig!DestinationIsExplained
<1>1. Mig!Init => MigInv
  BY DEF Mig!Init, MigInv, Mig!DestinationIsExplained
<1>2. MigInv /\ [Mig!Next]_Mig!vars => MigInv'
  <2> SUFFICES ASSUME MigInv, [Mig!Next]_Mig!vars PROVE MigInv'  BY Zenon
  <2>l. Len(src) \in Nat /\ (src # <<>> => Len(src) # 0 /\ src[1] \in Mig!Entries)
    BY DEF MigInv, Mig!Entries
  <2>1. CASE Mig!Load
    BY Zenon, <2>1, <2>l DEF Mig!Load, Mig!Stop, MigInv, Mig!DestinationIsExplained, Mig!Entries
  <2>2. ASSUME NEW fails \in BOOLEAN, Mig!BulkSave(fails) PROVE MigInv'
    <3>1. CASE fails
      BY <3>1, <2>2, <2>l DEF Mig!BulkSave, Mig!Stop, MigInv, Mig!DestinationIsExplained
    <3>2. CASE ~fails
      <4>1. /\ pc = "bulk" /\ dst' = Mig!Entries /\ migrated' = Len(src) /\ pc' = "done"
            /\ UNCHANGED <<src, before, dryRun, at>>
        BY Zenon, <3>2, <2>2 DEF Mig!BulkSave, Mig!Stop
      <4>2. Mig!Entries' = Mig!Entries  BY Zenon, <4>1 DEF Mig!Entries
      <4> QED  BY Zenon, <4>1, <4>2, <2>l DEF MigInv, Mig!DestinationIsExplained
    <3> QED  BY Zenon, <3>1, <3>2
  <2>3. ASSUME NEW fails \in BOOLEAN, Mig!SaveOne(fails) PROVE MigInv'
    <3>1. /\ pc = "single" /\ at < Len(src) /\ at' = at + 1 /\ UNCHANGED <<src, before, dryRun, pc>>
          /\ IF fails THEN UNCHANGED <<dst, migrated>> ELSE dst' = {src[at + 1]} /\ migrated' = migrated + 1
      BY Zenon, <2>3 DEF Mig!SaveOne
    <3>2. Mig!Entries' = Mig!Entries /\ src[at + 1] \in Mig!Entries
      BY <3>1, <2>l DEF Mig!Entries, MigInv
    <3>3. CASE fails  BY <3>1, <3>2, <3>3, <2>l DEF MigInv, Mig!DestinationIsExplained
    <3>4. CASE ~fails
      <4>1. dst' \subseteq Mig!Entries /\ dst' # {}  BY Zenon, <3>1, <3>2, <3>4
      <4>2. at' # 0 /\ at' \in Nat /\ at' <= Len(src) /\ migrated' # 0 /\ migrated' \in Nat
        BY <3>1, <3>4, <2>l DEF MigInv
      <4> QED  BY Zenon, <3>1, <3>2, <4>1, <4>2 DEF MigInv, Mig!DestinationIsExplained
    <3> QED  BY Zenon, <3>3, <3>4
  <2>4. CASE Mig!SinglesDone
    <3>1. /\ pc = "single" /\ at = Len(src) /\ pc' = "done" /\ UNCHANGED <<src, dst, before, dryRun, at, migrated>>
      BY Zenon, <2>4 DEF Mig!SinglesDone, Mig!Stop
    <3>2. Mig!Entries' = Mig!Entries  BY Zenon, <3>1 DEF Mig!Entries
    <3> QED  BY Zenon, <3>1, <3>2, <2>l DEF MigInv, Mig!DestinationIsExplained
  <2>5. CASE UNCHANGED Mig!vars
    BY Zenon, <2>5 DEF Mig!vars, MigInv, Mig!DestinationIsExplained, Mig!Entries
  <2> QED  BY Zenon, <2>1, <2>2, <2>3, <2>4, <2>5 DEF Mig!Next
<1>3. MigInv => Mig!DestinationIsExplained  BY Zenon DEF MigInv
<1> QED  BY <1>1, <1>2, <1>3, PTL DEF Mig!Spec
=============================================================================
