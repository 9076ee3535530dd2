------------------------------ MODULE Imports -------------------------------
(***************************************************************************)
(* Import resolution (internal/imports/resolver.go), the lock file         *)
(* (lock.go) and version selection (mvs.go).                               *)
(*                                                                         *)
(* disk maps each file that is there to its import statements, its hash    *)
(* and whether it parses.  ResolveAll walks the imports depth first: stack *)
(* holds, for each file being walked, its directory and the imports still  *)
(* to come.  The names the code tries for an import, in its order, are     *)
(* given by the constants.  was is what the program consisted of when the  *)
(* lock file was written.                                                  *)
(***************************************************************************)
EXTENDS Integers, Sequences, SequencesExt, FiniteSets, TLC

CONSTANTS Root, DirOf,      \* the main file; file -> its directory
          Disks,            \* what may be on disk at first
          PackagePaths,     \* the import paths classifyImport takes for packages
          LocalNames,       \* <<directory, path>> -> the files tried
          PackageNames,     \* <<path, version>> -> the entry points of a fetched package
          SearchPaths,      \* a sequence of <<path, version>> -> the files tried
          Semver,           \* version -> <<major, minor>>
          MaxRounds         \* bound on the resolutions

VARIABLES disk, step, stack, cache, visited, resolved, merged, lock, mismatches, rounds, was
vars == <<disk, step, stack, cache, visited, resolved, merged, lock, mismatches, rounds, was>>

NotFound == "?"

Init ==
  /\ disk \in Disks /\ step = "idle"
  /\ stack = <<>> /\ cache = <<>> /\ visited = {}
  /\ resolved = <<>> /\ merged = <<>> /\ lock = <<>> /\ mismatches = {} /\ rounds = 0
  /\ was = {}

----------------------------------------------------------------------------
\* The first of the names that os.Stat finds.
FirstOf(names) ==
  LET there == SelectSeq(names, LAMBDA f : f \in DOMAIN disk)
  IN  IF there = <<>> THEN NotFound ELSE Head(there)

classifyImport(path) == IF path \in PackagePaths THEN "package" ELSE "local"

resolveLocalPath(path, dir) == FirstOf(LocalNames[<<dir, path>>])

findEntryPoint(path, version) == FirstOf(PackageNames[<<path, version>>])

\* Each search path is tried with the version and then without.
resolvePackagePath(path, version) ==
  FirstOf(FlattenSeq([i \in 1 .. Len(SearchPaths) |->
    SearchPaths[i][<<path, version>>]
      \o (IF version = "" THEN <<>> ELSE SearchPaths[i][<<path, "">>])]))

\* Where an import leads; fetched is whether the registry has the package.
Located(imp, dir, fetched) ==
  CASE classifyImport(imp.path) = "local" -> resolveLocalPath(imp.path, dir)
    [] classifyImport(imp.path) = "package" /\ fetched -> findEntryPoint(imp.path, imp.version)
    [] classifyImport(imp.path) = "package" /\ ~fetched -> resolvePackagePath(imp.path, imp.version)

ResolvedImport(imp, file) ==
  [source |-> imp.path, kind |-> classifyImport(imp.path), version |-> imp.version,
   path |-> file, hash |-> disk[file].hash]

\* ResolveAll: a new resolver starts with the imports of the main file.
ResolveAll ==
  /\ step = "idle" /\ rounds < MaxRounds
  /\ step' = "resolving" /\ rounds' = rounds + 1
  /\ stack' = <<[dir |-> DirOf[Root], rest |-> disk[Root].imports]>>
  /\ cache' = <<>> /\ visited' = {} /\ resolved' = <<>> /\ merged' = <<>> /\ mismatches' = {}
  /\ UNCHANGED <<disk, lock, was>>

\* resolveTransitive: the imports of a file are walked on its first visit.
Walked(ri, rest) ==
  IF ri.path \in visited THEN rest
  ELSE Append(rest, [dir |-> DirOf[ri.path], rest |-> disk[ri.path].imports])

\* resolveImport, and the walk of the file it found.  The cache is asked with
\* the import path and the version.
Import(fetched) ==
  /\ step = "resolving" /\ stack # <<>> /\ Last(stack).rest # <<>>
  /\ LET imp  == Head(Last(stack).rest)
         key  == <<imp.path, imp.version>>
         file == Located(imp, Last(stack).dir, fetched)
         ri   == IF key \in DOMAIN cache THEN cache[key] ELSE ResolvedImport(imp, file)
         rest == Append(Front(stack), [Last(stack) EXCEPT !.rest = Tail(@)])
     IN  IF key \notin DOMAIN cache /\ (file = NotFound \/ ~disk[file].parses)
         THEN /\ step' = "failed" /\ stack' = <<>> /\ resolved' = <<>>
              /\ UNCHANGED <<cache, visited>>
         ELSE /\ cache' = (key :> ri) @@ cache
              /\ resolved' = Append(resolved, ri)
              /\ stack' = Walked(ri, rest) /\ visited' = visited \cup {ri.path}
              /\ UNCHANGED step
  /\ UNCHANGED <<disk, merged, lock, mismatches, rounds, was>>

Return ==
  /\ step = "resolving" /\ stack # <<>> /\ Last(stack).rest = <<>>
  /\ stack' = Front(stack)
  /\ step' = IF Len(stack) = 1 THEN "resolved" ELSE step
  /\ UNCHANGED <<disk, cache, visited, resolved, merged, lock, mismatches, rounds, was>>

\* MergeImports: the statements of each file once, in the order of the imports.
First(ris, F(_)) ==
  SelectSeq([i \in 1 .. Len(ris) |-> i], LAMBDA i : \A j \in 1 .. i - 1 : F(ris[j]) # F(ris[i]))

MergeOrder(ris) ==
  LET firsts == First(ris, LAMBDA ri : ri.path)
  IN  [i \in 1 .. Len(firsts) |-> ris[firsts[i]].path]
MergeImports ==
  /\ step = "resolved" /\ step' = "merged" /\ merged' = MergeOrder(resolved)
  /\ UNCHANGED <<disk, stack, cache, visited, resolved, lock, mismatches, rounds, was>>

\* GenerateLockFile keeps the first import of each source.
GenerateLockFile(ris) ==
  LET firsts == First(ris, LAMBDA ri : ri.source)
  IN  {ris[firsts[i]] : i \in 1 .. Len(firsts)}
Contents(ris) == {<<ri.path, ri.hash>> : ri \in ToSet(ris)}
WriteLockFile ==
  /\ step = "merged" /\ lock = <<>>
  /\ lock' = <<GenerateLockFile(resolved)>> /\ was' = Contents(resolved) /\ step' = "idle"
  /\ UNCHANGED <<disk, stack, cache, visited, resolved, merged, mismatches, rounds>>

Mismatch(dep, ri) ==
  \/ dep.hash # ri.hash
  \/ dep.version # "" /\ ri.version # "" /\ dep.version # ri.version
ValidateLockFile ==
  /\ step = "merged" /\ lock # <<>> /\ step' = "checked"
  /\ mismatches' = {ri \in ToSet(resolved) :
                      \E dep \in lock[1] : dep.source = ri.source /\ Mismatch(dep, ri)}
  /\ UNCHANGED <<disk, stack, cache, visited, resolved, merged, lock, rounds, was>>

\* The author changes one file after the lock file was written.
Edit ==
  /\ step = "idle" /\ lock # <<>>
  /\ \A f \in DOMAIN disk : disk[f].hash[2] = 0
  /\ \E f \in DOMAIN disk : disk' = [disk EXCEPT ![f].hash[2] = 1]
  /\ UNCHANGED <<step, stack, cache, visited, resolved, merged, lock, mismatches, rounds, was>>

Next ==
  \/ ResolveAll \/ Return \/ MergeImports \/ WriteLockFile \/ ValidateLockFile \/ Edit
  \/ \E fetched \in BOOLEAN : Import(fetched)
Spec == Init /\ [][Next]_vars

----------------------------------------------------------------------------
\* ExtractConstraints, compareSemver, MVS and DetectConflicts.
ExtractConstraints(ris) == SelectSeq(ris, LAMBDA ri : ri.kind = "package" /\ ri.version # "")
Older(v, u) ==
  \/ Semver[v][1] < Semver[u][1]
  \/ Semver[v][1] = Semver[u][1] /\ Semver[v][2] < Semver[u][2]

MVS(versions) ==
  FoldLeft(LAMBDA max, v : IF Older(max, v) THEN v ELSE max, Head(versions), Tail(versions))
DetectConflicts(versions) ==
  \E v, u \in ToSet(versions) : Semver[v][1] # Semver[u][1]

\* The versions the imports of one package ask for.
Asked(pkg) ==
  LET of == SelectSeq(ExtractConstraints(resolved), LAMBDA ri : ri.source = pkg)
  IN  [i \in 1 .. Len(of) |-> of[i].version]

----------------------------------------------------------------------------
TypeOK ==
  /\ step \in {"idle", "resolving", "resolved", "merged", "checked", "failed"}
  /\ visited \subseteq DOMAIN disk /\ ToSet(merged) \subseteq DOMAIN disk
  /\ step \in {"resolved", "merged"} => stack = <<>>
  /\ \A k \in DOMAIN cache : cache[k] \in ToSet(resolved) \/ step = "failed"
  /\ rounds \in 0 .. MaxRounds

\* The walk ends, circular imports or not: it is never deeper than there are
\* files (the visited map of resolveTransitive).
WalkIsBounded == Len(stack) <= 1 + Cardinality(DOMAIN disk)

\* The merged program is closed under the imports of its files, holds nothing
\* else, and holds each file once; a file comes after one that imports it
\* (ResolveAll and MergeImports).
ImportsOf(files) == UNION {ToSet(disk[f].imports) : f \in files}
MergedIsClosed ==
  step \in {"merged", "checked"} =>
    /\ \A imp \in ImportsOf({Root} \cup ToSet(merged)) :
         cache[<<imp.path, imp.version>>].path \in ToSet(merged)
    /\ \A i \in 1 .. Len(merged) :
         /\ \A j \in 1 .. i - 1 : merged[j] # merged[i]
         /\ \E imp \in ImportsOf({Root} \cup {merged[j] : j \in 1 .. i - 1}) :
              cache[<<imp.path, imp.version>>].path = merged[i]

\* A resolution that matches the lock file is made of the contents that were
\* locked; and when no package is imported at two versions, the contents that
\* were locked match the lock file (GenerateLockFile, ValidateLockFile).
OneVersion == \A k, m \in DOMAIN cache : k[1] = m[1] => k = m
LockIsExact ==
  step = "checked" =>
    /\ mismatches = {} => Contents(resolved) = was
    /\ OneVersion /\ Contents(resolved) = was => mismatches = {}

\* The version selected for a package is one that was asked for, is no older
\* than any that was, and has their major version unless a conflict is
\* reported (MVS, DetectConflicts).
SelectionIsSound ==
  step = "merged" => \A pkg \in PackagePaths : Asked(pkg) # <<>> =>
    LET v == MVS(Asked(pkg))
    IN  /\ v \in ToSet(Asked(pkg)) /\ \A u \in ToSet(Asked(pkg)) : ~Older(v, u)
        /\ (\E u \in ToSet(Asked(pkg)) : Semver[v][1] # Semver[u][1]) => DetectConflicts(Asked(pkg))
=============================================================================
