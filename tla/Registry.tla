------------------------------ MODULE Registry ------------------------------
(***************************************************************************)
(* Packages: agentspec install and publish (cmd/agentspec/install.go,      *)
(* publish.go) over the registry client, its cache and the Git resolver    *)
(* (internal/registry/client.go, cache.go, git.go, manifest.go).           *)
(*                                                                         *)
(* A release is <<source, version>>.  tags are the releases tagged on the  *)
(* remote, local those tagged in the publisher's repository, and cache is  *)
(* what the cache directory has of each: nothing, a clone without a        *)
(* manifest, one whose manifest is there and other files are not, or the   *)
(* whole release.  A hash stands for computeDirChecksum, which reads the   *)
(* files that are there; <<>> is none.  One command runs at a time and may *)
(* be killed.                                                              *)
(***************************************************************************)
EXTENDS Integers, Sequences, SequencesExt, FiniteSets, TLC

CONSTANTS Releases,    \* release -> [deps, valid]: its manifest's dependencies, and if it passes Validate
          Published,   \* releases tagged on the remote at the start
          Locks,       \* lock files the project may start with: sequences of [source, version, hash]
          MaxRuns,     \* bound on the commands
          MaxFaults    \* bound on kills and failed pushes

VARIABLES tags, local, cache, lock, run, runs, faults
vars == <<tags, local, cache, lock, run, runs, faults>>

Idle == [pc |-> "idle", todo |-> <<>>, item |-> <<>>, seen |-> {}, pins |-> <<>>, got |-> <<>>]
HasManifest(r) == r \in DOMAIN cache /\ cache[r] \in {"partial", "whole"}
Hash(r) == <<r, cache[r]>>

Init ==
  /\ tags = Published /\ local = tags
  /\ cache = [r \in DOMAIN Releases |-> "none"]
  /\ lock \in Locks
  /\ run = Idle /\ runs = 0 /\ faults = 0

Begin(r) == run.pc = "idle" /\ runs < MaxRuns /\ runs' = runs + 1 /\ run' = r
Fault == faults < MaxFaults /\ faults' = faults + 1

----------------------------------------------------------------------------
\* loadLockDeps: the last entry of a source counts.
loadLockDeps ==
  [s \in {e.source : e \in ToSet(lock)} |-> Last(SelectSeq(lock, LAMBDA e : e.source = s))]

\* runInstall resolves the package it is given, with or without a version.
Install(source, version) ==
  /\ Begin([Idle EXCEPT !.pc = "lookup", !.item = <<source, version>>, !.pins = loadLockDeps])
  /\ UNCHANGED <<tags, local, cache, lock, faults>>

\* Client.Resolve: the cache first, then the version the lock file pins.
Pinned(item) ==
  IF item[1] \in DOMAIN run.pins /\ item[2] \in {"", run.pins[item[1]].version}
  THEN <<item[1], run.pins[item[1]].version>> ELSE item

\* A package was found; ResolveDependencies turns to what its manifest names.
Found(r) ==
  run' = [run EXCEPT !.pc = "deps", !.todo = Append(@, Releases[r].deps),
            !.got = Append(@, [source |-> r[1], version |-> r[2], hash |-> Hash(r)])]

Lookup ==
  /\ run.pc = "lookup"
  /\ CASE HasManifest(run.item) /\ Releases[run.item].valid -> Found(run.item)
       [] ~(HasManifest(run.item) /\ Releases[run.item].valid) ->
            run' = IF Pinned(run.item)[2] = "" THEN Idle
                   ELSE [run EXCEPT !.pc = "git", !.item = Pinned(@)]
  /\ UNCHANGED <<tags, local, cache, lock, runs, faults>>

\* GitResolver.Resolve: what is cached under the version, or a clone into the
\* cache directory, which git refuses when that is there already.
Git ==
  /\ run.pc = "git"
  /\ IF HasManifest(run.item)
     THEN /\ run' = IF Releases[run.item].valid THEN [run EXCEPT !.pc = "verify"] ELSE Idle
          /\ UNCHANGED cache
     ELSE IF run.item \in tags /\ cache[run.item] = "none"
     THEN /\ cache' = [cache EXCEPT ![run.item] = "torn"]
          /\ run' = [run EXCEPT !.pc = "clone"]
     ELSE run' = Idle /\ UNCHANGED cache
  /\ UNCHANGED <<tags, local, lock, runs, faults>>

Clone ==
  /\ run.pc = "clone" /\ cache[run.item] # "whole"
  /\ cache' = [cache EXCEPT ![run.item] = IF @ = "torn" THEN "partial" ELSE "whole"]
  /\ UNCHANGED <<tags, local, lock, run, runs, faults>>

ReadManifest ==
  /\ run.pc = "clone" /\ cache[run.item] = "whole"
  /\ run' = IF Releases[run.item].valid THEN [run EXCEPT !.pc = "verify"] ELSE Idle
  /\ UNCHANGED <<tags, local, cache, lock, runs, faults>>

\* The checksum is compared with the lock file's entry of the source; the clone
\* is where Store would put it.
Matches(r) ==
  r[1] \in DOMAIN run.pins /\ run.pins[r[1]].hash # <<>> => run.pins[r[1]].hash = Hash(r)
Verify ==
  /\ run.pc = "verify"
  /\ IF Matches(run.item) THEN Found(run.item) ELSE run' = Idle
  /\ UNCHANGED <<tags, local, cache, lock, runs, faults>>

NextDependency(d) == d \notin run.seen

\* The walk of ResolveDependencies: the map of dependencies in any order.
ResolveDependencies(d) ==
  /\ run.pc = "deps" /\ run.todo # <<>> /\ d \in Last(run.todo)
  /\ LET left == [run EXCEPT !.todo = Append(Front(@), Last(@) \ {d})]
     IN  run' = IF NextDependency(d)
                THEN [left EXCEPT !.pc = "lookup", !.item = d, !.seen = @ \cup {d}] ELSE left
  /\ UNCHANGED <<tags, local, cache, lock, runs, faults>>
Return ==
  /\ run.pc = "deps" /\ run.todo # <<>> /\ Last(run.todo) = {}
  /\ run' = [run EXCEPT !.todo = Front(@), !.pc = IF Len(run.todo) = 1 THEN "lock" ELSE @]
  /\ UNCHANGED <<tags, local, cache, lock, runs, faults>>

\* Variant: the entry of a known source keeps its checksum.
UpsertVersion(file, deps) ==
  FoldLeft(LAMBDA f, d :
    IF \E i \in 1 .. Len(file) : file[i].source = d.source
    THEN [i \in 1 .. Len(f) |-> IF f[i].source = d.source THEN [d EXCEPT !.hash = f[i].hash] ELSE f[i]]
    ELSE Append(f, d), file, deps)

\* updateLockFile: an entry replaces the last one its source had in the file
\* and is appended when there was none.
Upsert(file, deps) ==
  LET At(s) == {i \in 1 .. Len(file) : file[i].source = s}
  IN  FoldLeft(LAMBDA f, d : IF At(d.source) = {} THEN Append(f, d)
                             ELSE [f EXCEPT ![Max(At(d.source))] = d], file, deps)

UpdateLockFile ==
  /\ run.pc = "lock" /\ lock' = Upsert(lock, run.got) /\ run' = Idle
  /\ UNCHANGED <<tags, local, cache, runs, faults>>

Kill ==
  /\ run.pc # "idle" /\ Fault /\ run' = Idle
  /\ UNCHANGED <<tags, local, cache, lock, runs>>

\* runPublish: a tag that exists is refused, then the tag is made and pushed.
Publish(r, fails) ==
  /\ Begin(Idle) /\ Releases[r].valid
  /\ local' = local \cup {r}
  /\ tags' = IF r \in local \/ fails THEN tags ELSE tags \cup {r}
  /\ IF fails THEN Fault ELSE UNCHANGED faults
  /\ UNCHANGED <<cache, lock>>

Next ==
  \/ \E r \in DOMAIN Releases, unversioned \in BOOLEAN :
       Install(r[1], IF unversioned THEN "" ELSE r[2])
  \/ Lookup \/ Git \/ Clone \/ ReadManifest \/ Verify \/ Return \/ UpdateLockFile \/ Kill
  \/ \E d \in DOMAIN Releases : ResolveDependencies(d)
  \/ \E r \in DOMAIN Releases, fails \in BOOLEAN : Publish(r, fails)
Spec == Init /\ [][Next]_vars

----------------------------------------------------------------------------
TypeOK ==
  /\ tags \subseteq local /\ local \subseteq DOMAIN Releases
  /\ \A r \in DOMAIN cache : cache[r] \in {"none", "torn", "partial", "whole"}
  /\ run.pc \in {"idle", "lookup", "git", "clone", "verify", "deps", "lock"}
  /\ runs \in 0 .. MaxRuns /\ faults \in 0 .. MaxFaults

\* What an install writes to the lock file is what the cache holds: every
\* release it names is there, with the checksum recorded (updateLockFile
\* writes after the whole walk, and nothing changes a cached release).
LocksCached ==
  \A i \in 1 .. Len(lock') : LET r == <<lock'[i].source, lock'[i].version>>
                             IN  lock'[i] \in ToSet(lock) \/ lock'[i].hash = Hash(r)
LockNamesTheCache == [][LocksCached]_vars

\* An install that reaches the lock file has resolved the dependencies of
\* everything it resolved, versions included (ResolveDependencies).
WalkIsClosed ==
  run.pc = "lock" =>
    LET got == {<<e.source, e.version>> : e \in ToSet(run.got)}
    IN  \A r \in got : Releases[r].deps \subseteq got
=============================================================================
