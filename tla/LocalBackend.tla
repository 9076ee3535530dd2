---------------------------- MODULE LocalBackend ----------------------------
(***************************************************************************)
(* The local JSON state backend (internal/state/local.go): the state file, *)
(* its .bak copy, the temporary file of a Save, the mtime-validated cache  *)
(* of every process, and the side sections (version history, budgets) that *)
(* are rewritten in place.  Every system call that another process or a    *)
(* crash can separate from the next one is a step.                         *)
(***************************************************************************)
EXTENDS Naturals, Sequences

CONSTANTS Procs,       \* CLI processes
          Writers,     \* processes that save entries
          Serial,      \* processes that never run at the same time
          Entries,     \* values of the whole entries list
          Nil,         \* the nil list: no state yet
          Err,         \* a Load that returned an error
          NoSave,      \* no Save under way
          Budgets,     \* values of the budgets section
          NoBudgets,   \* the section is absent
          MaxVersions, \* versions kept per agent (10 in the code)
          SideWrites,  \* do processes also call SaveVersion and SaveBudgets?
          Faults,      \* calls that may fail: "rename" in Save, "restore" in Load
          MaxClock     \* bound: number of file writes in a behaviour

ASSUME ConstantsAssumption ==
    /\ Writers \subseteq Procs
    /\ Serial \subseteq Procs
    /\ Nil \in Entries
    /\ Err \notin Entries
    /\ NoSave \notin Entries
    /\ NoBudgets \in Budgets
    /\ MaxVersions \in Nat \ {0}
    /\ SideWrites \in BOOLEAN
    /\ Faults \subseteq {"rename", "restore"}
    /\ MaxClock \in Nat

VARIABLES main,   \* the file at b.Path
          bak,    \* the file at b.Path + ".bak"
          clock,  \* the mtime given to the last write
          pc,     \* what each process is doing
          buf,    \* the file image each process is about to put on disk
          stat,   \* the mtime a Load saw before reading
          cache,  \* each process's cachedEntries and cacheModTime
          ret,    \* what each process's last Load returned
          stored  \* history: the entries of the last Save whose rename happened

vars == <<main, bak, clock, pc, buf, stat, cache, ret, stored>>

\* A file: missing, cut short by an interrupted in-place write, or valid JSON.
\* The inode tells an open file from a path that another process renamed.
File(st, e, v, b, m, i) ==
    [st |-> st, entries |-> e, vers |-> v, bud |-> b, mtime |-> m, ino |-> i]

Histories == {vs \in Seq(Nat) : Len(vs) <= MaxVersions}

FileSet == [st : {"missing", "torn", "ok"}, entries : Entries,
            vers : Histories, bud : Budgets, mtime : Nat, ino : Nat]

Missing == File("missing", Nil, <<>>, NoBudgets, 0, 0)
Torn(m, i) == File("torn", Nil, <<>>, NoBudgets, m, i)

NoCache == [warm |-> FALSE, entries |-> Nil, mtime |-> 0]
CacheSet == [warm : BOOLEAN, entries : Entries, mtime : Nat]

PCs == {"idle", "loaded", "read", "noMain", "badMain", "restore", "restoring",
        "backup", "rename", "version", "rewrite", "rewriting"}

Init == /\ main = Missing /\ bak = Missing
        /\ clock = 0
        /\ pc = [p \in Procs |-> "idle"]
        /\ buf = [p \in Procs |-> Missing]
        /\ stat = [p \in Procs |-> 0]
        /\ cache = [p \in Procs |-> NoCache]
        /\ ret = [p \in Procs |-> Nil]
        /\ stored = Nil

-----------------------------------------------------------------------------
(* Load *)

\* A process runs from its first Load to its exit; those of Serial never overlap.
MayRun(p) == /\ pc[p] \in {"idle", "loaded"}
             /\ p \in Serial => \A q \in Serial \ {p} : pc[q] = "idle"

Goto(p, l) == pc' = [pc EXCEPT ![p] = l]

Return(p, v) == ret' = [ret EXCEPT ![p] = v] /\ Goto(p, "loaded")

\* Load: the file is missing, so the cache is dropped and the backup is tried.
LoadMissing(p) ==
    /\ MayRun(p) /\ main.st = "missing"
    /\ cache' = [cache EXCEPT ![p] = NoCache]
    /\ Goto(p, "noMain")
    /\ UNCHANGED <<main, bak, clock, buf, stat, ret, stored>>

\* A variant that trusts a warm cache without comparing mtimes.
CachedUnchecked(p) == cache[p].warm

\* Load: entries are cached and the file has the mtime noted with them.
Cached(p) == cache[p].warm /\ cache[p].mtime = main.mtime

\* Load: the cached entries are returned without reading the file.
LoadHit(p) ==
    /\ MayRun(p) /\ main.st # "missing"
    /\ Cached(p)
    /\ Return(p, cache[p].entries)
    /\ UNCHANGED <<main, bak, clock, buf, stat, cache, stored>>

\* Load: the cache cannot be used; its mtime is noted before the file is read.
LoadStat(p) ==
    /\ MayRun(p) /\ main.st # "missing"
    /\ ~Cached(p)
    /\ stat' = [stat EXCEPT ![p] = main.mtime]
    /\ Goto(p, "read")
    /\ UNCHANGED <<main, bak, clock, buf, cache, ret, stored>>

\* Load: read and parse.  A nil list leaves the cache cold (cachedEntries = nil).
LoadRead(p) ==
    /\ pc[p] = "read"
    /\ \/ /\ main.st = "missing"
          /\ Return(p, Err)
          /\ UNCHANGED cache
       \/ /\ main.st = "torn"
          /\ Goto(p, "badMain")
          /\ UNCHANGED <<ret, cache>>
       \/ /\ main.st = "ok"
          /\ cache' = [cache EXCEPT ![p] =
                 [warm |-> main.entries # Nil, entries |-> main.entries,
                  mtime |-> stat[p]]]
          /\ Return(p, main.entries)
    /\ UNCHANGED <<main, bak, clock, buf, stat, stored>>

\* A variant that takes a missing file for a fresh start without trying the backup.
ReadBackupFresh(p) ==
    /\ pc[p] \in {"noMain", "badMain"}
    /\ \/ /\ bak.st = "ok" /\ pc[p] = "badMain"
          /\ buf' = [buf EXCEPT ![p] = bak]
          /\ Goto(p, "restore")
          /\ UNCHANGED ret
       \/ /\ pc[p] = "noMain"
          /\ Return(p, Nil)
          /\ UNCHANGED buf
       \/ /\ bak.st # "ok" /\ pc[p] = "badMain"
          /\ Return(p, Err)
          /\ UNCHANGED buf
    /\ UNCHANGED <<main, bak, clock, stat, cache, stored>>

\* loadFromBackup and recoverFromBackup: without a usable backup a missing file
\* means a fresh start and a corrupted one an error.
ReadBackup(p) ==
    /\ pc[p] \in {"noMain", "badMain"}
    /\ \/ /\ bak.st = "ok"
          /\ buf' = [buf EXCEPT ![p] = bak]
          /\ Goto(p, "restore")
          /\ UNCHANGED ret
       \/ /\ bak.st = "missing" /\ pc[p] = "noMain"
          /\ Return(p, Nil)
          /\ UNCHANGED buf
       \/ /\ bak.st = "torn" \/ (bak.st = "missing" /\ pc[p] = "badMain")
          /\ Return(p, Err)
          /\ UNCHANGED buf
    /\ UNCHANGED <<main, bak, clock, stat, cache, stored>>

\* os.WriteFile opens with O_TRUNC: until the bytes are written the file is torn.
Truncate(p, from, to) ==
    /\ pc[p] = from
    /\ clock < MaxClock
    /\ clock' = clock + 1
    /\ LET i == IF main.st = "missing" THEN clock + 1 ELSE main.ino
       IN  /\ main' = Torn(clock + 1, i)
           /\ buf' = [buf EXCEPT ![p].ino = i]
    /\ Goto(p, to)
    /\ UNCHANGED <<bak, stat, cache, ret, stored>>

\* What f can be once p's bytes are written to the inode p has open.  If another
\* process filled that inode meanwhile, the two images may overlay.
Written(p, f) ==
    IF f.st = "missing" \/ f.ino # buf[p].ino THEN {f}
    ELSE {g \in {[buf[p] EXCEPT !.mtime = clock + 1], Torn(clock + 1, f.ino)} :
              g.st = "ok" \/ f.st = "ok"}

Fill(p, from) ==
    /\ pc[p] = from
    /\ clock < MaxClock
    /\ clock' = clock + 1
    /\ main' \in Written(p, main)
    /\ bak' \in Written(p, bak)
    /\ Goto(p, "loaded")
    /\ UNCHANGED <<buf, stat, cache, stored>>

RestoreTruncate(p) == Truncate(p, "restore", "restoring")

\* The backup is back at the main path; or the write failed, which is only logged.
RestoreFill(p) ==
    /\ Fill(p, "restoring")
    /\ ret' = [ret EXCEPT ![p] = buf[p].entries]

RestoreFail(p) ==
    /\ "restore" \in Faults /\ pc[p] \in {"restore", "restoring"}
    /\ Return(p, buf[p].entries)
    /\ UNCHANGED <<main, bak, clock, buf, stat, cache, stored>>

-----------------------------------------------------------------------------
(* Save *)

\* Save: a synced temporary file holds the new image, with entries alone: the
\* stateFile it marshals has no budgets and no agent versions.  (A failure up to
\* here removes the temporary file and changes nothing.)
SaveTemp(p, e) ==
    /\ p \in Writers /\ pc[p] = "loaded"
    /\ clock < MaxClock
    /\ clock' = clock + 1
    /\ buf' = [buf EXCEPT ![p] = File("ok", e, <<>>, NoBudgets,
                                        clock + 1, clock + 1)]
    /\ Goto(p, "backup")
    /\ UNCHANGED <<main, bak, stat, cache, ret, stored>>

\* A variant that removes the current file without keeping it as the backup.
SaveRemove(p) ==
    /\ pc[p] = "backup"
    /\ main' = Missing
    /\ Goto(p, "rename")
    /\ UNCHANGED <<bak, clock, buf, stat, cache, ret, stored>>

\* Save: the current file, when there is one, becomes the backup.
SaveBackup(p) ==
    /\ pc[p] = "backup"
    /\ IF main.st = "missing"
       THEN UNCHANGED <<main, bak>>
       ELSE bak' = main /\ main' = Missing
    /\ Goto(p, "rename")
    /\ UNCHANGED <<clock, buf, stat, cache, ret, stored>>

SaveBackupFail(p) ==
    /\ "rename" \in Faults /\ pc[p] = "backup" /\ main.st # "missing"
    /\ Goto(p, "loaded")
    /\ UNCHANGED <<main, bak, clock, buf, stat, cache, ret, stored>>

\* Save: the temporary file becomes the state file and the cache is dropped.
SaveRename(p) ==
    /\ pc[p] = "rename"
    /\ main' = buf[p]
    /\ stored' = buf[p].entries
    /\ cache' = [cache EXCEPT ![p] = NoCache]
    /\ Goto(p, "loaded")
    /\ UNCHANGED <<bak, clock, buf, stat, ret>>

\* Save: the rename failed; the backup is renamed back and the error returned.
SaveRenameFail(p) ==
    /\ "rename" \in Faults /\ pc[p] = "rename"
    /\ IF bak.st = "missing"
       THEN UNCHANGED <<main, bak>>
       ELSE main' = bak /\ bak' = Missing
    /\ Goto(p, "loaded")
    /\ UNCHANGED <<clock, buf, stat, cache, ret, stored>>

-----------------------------------------------------------------------------
(* SaveVersion and SaveBudgets: read the file, change a section, rewrite it *)

\* A file that cannot be read or parsed counts as an empty stateFile.
Parsed(f) == IF f.st = "ok" THEN f ELSE File("ok", Nil, <<>>, NoBudgets, 0, 0)

NextVersion(vs) == IF vs = <<>> THEN 1 ELSE vs[Len(vs)] + 1

KeepLast(vs) == SubSeq(vs, IF Len(vs) > MaxVersions
                           THEN Len(vs) - MaxVersions + 1 ELSE 1, Len(vs))

\* The apply command asks for the history and numbers the next version from it.
GetVersions(p) ==
    /\ SideWrites /\ p \in Writers /\ pc[p] = "loaded"
    /\ stat' = [stat EXCEPT ![p] = NextVersion(Parsed(main).vers)]
    /\ Goto(p, "version")
    /\ UNCHANGED <<main, bak, clock, buf, cache, ret, stored>>

SaveVersion(p) ==
    /\ pc[p] = "version"
    /\ buf' = [buf EXCEPT ![p] =
           [Parsed(main) EXCEPT !.vers = KeepLast(Append(@, stat[p]))]]
    /\ Goto(p, "rewrite")
    /\ UNCHANGED <<main, bak, clock, stat, cache, ret, stored>>

\* Part of the backend's interface; no command calls it yet.
SaveBudgets(p, b) ==
    /\ SideWrites /\ p \in Writers /\ pc[p] = "loaded"
    /\ buf' = [buf EXCEPT ![p] = [Parsed(main) EXCEPT !.bud = b]]
    /\ Goto(p, "rewrite")
    /\ UNCHANGED <<main, bak, clock, stat, cache, ret, stored>>

\* writeStateFile is os.WriteFile on the state file itself.
RewriteTruncate(p) == Truncate(p, "rewrite", "rewriting")

RewriteFill(p) == Fill(p, "rewriting") /\ UNCHANGED ret

-----------------------------------------------------------------------------
\* The process ends, at a point of its choosing or killed in the middle of a
\* call.  Its cache dies with it.
Exit(p) ==
    /\ pc[p] # "idle"
    /\ cache' = [cache EXCEPT ![p] = NoCache]
    /\ buf' = [buf EXCEPT ![p] = Missing]
    /\ stat' = [stat EXCEPT ![p] = 0]
    /\ Goto(p, "idle")
    /\ UNCHANGED <<main, bak, clock, ret, stored>>

Load(p) == \/ LoadMissing(p) \/ LoadHit(p) \/ LoadStat(p) \/ LoadRead(p)
           \/ ReadBackup(p)
           \/ RestoreTruncate(p) \/ RestoreFill(p) \/ RestoreFail(p)

Save(p) == \/ \E e \in Entries : SaveTemp(p, e)
           \/ SaveBackup(p) \/ SaveBackupFail(p)
           \/ SaveRename(p) \/ SaveRenameFail(p)

SaveSide(p) == \/ GetVersions(p) \/ SaveVersion(p)
               \/ \E b \in Budgets \ {NoBudgets} : SaveBudgets(p, b)
               \/ RewriteTruncate(p) \/ RewriteFill(p)

Next == \E p \in Procs : Load(p) \/ Save(p) \/ SaveSide(p) \/ Exit(p)

Spec == Init /\ [][Next]_vars

-----------------------------------------------------------------------------
(* Properties *)

\* The state of the files and of every process's registers is well typed.
TypeOK == /\ main \in FileSet /\ bak \in FileSet
          /\ clock \in Nat
          /\ pc \in [Procs -> PCs]
          /\ buf \in [Procs -> FileSet]
          /\ stat \in [Procs -> Nat]
          /\ cache \in [Procs -> CacheSet]
          /\ ret \in [Procs -> Entries \cup {Err}]
          /\ stored \in Entries

\* What a Load by a process that starts now and runs alone returns.
Loadable == IF main.st = "ok" THEN main.entries
            ELSE IF bak.st = "ok" THEN bak.entries
            ELSE IF main.st = "missing" /\ bak.st = "missing" THEN Nil
            ELSE Err

\* Wherever a process is killed, the next Load returns the entries of the last
\* Save that reached its rename: Save's backup-then-rename and Load's recovery
\* from the backup leave no window in which the state is lost.
Durable == Loadable = stored

\* A Load that would return without reading the file would return what is in the
\* file, although others may replace, restore or rewrite the file at any moment:
\* the mtime is noted before the read and compared before the cache is used.
HitIsFresh ==
    \A p \in Procs : main.st # "missing" /\ Cached(p)
                       => main.st = "ok" /\ cache[p].entries = main.entries

\* Processes that never overlap see a store whose Save is one indivisible step.
AS == INSTANCE AtomicStore WITH
          value <- Loadable,
          pending <- [p \in Procs |-> IF pc[p] \in {"backup", "rename"}
                                      THEN buf[p].entries ELSE NoSave]

\* The files, renames and restores of the local backend implement AtomicStore.
Refinement == AS!Spec

\* The state file that a Save puts in place carries the version history of the
\* file it replaces.
SaveKeepsHistory ==
    [][\A p \in Procs : pc[p] = "rename" /\ pc'[p] = "loaded" /\ main' = buf[p]
           => main'.vers = bak.vers]_vars

=============================================================================
