----------------------------- MODULE StateMigrate -----------------------------
(***************************************************************************)
(* internal/state/migrate.go and "agentspec state migrate": the entries of *)
(* one backend are saved to another, all at once or, if that fails, one by *)
(* one.  Save is the Backend interface's: it replaces everything the       *)
(* destination holds, or fails and leaves it as it is.                     *)
(***************************************************************************)
EXTENDS Naturals, Sequences, FiniteSets

CONSTANTS
  Names,        \* entry names
  Sources       \* the sources tried: sequences of names, or <<"?">> for a Load that fails

VARIABLES
  src, dst, before,   \* entries; before: what dst held at the start
  dryRun,
  pc,                 \* "load", "bulk", "single", "done"
  i,                  \* entries tried one by one
  migrated, failed,   \* the counters of MigrationResult
  exit                \* the command's exit code

vars == <<src, dst, before, dryRun, pc, i, migrated, failed, exit>>

TypeOK ==
  /\ dst \subseteq Names /\ pc \in {"load", "bulk", "single", "done"}
  /\ migrated \in 0 .. Len(src) /\ failed \in 0 .. Len(src) /\ exit \in {0, 1, 3}

Init ==
  /\ src \in Sources /\ dst \in SUBSET Names /\ before = dst /\ dryRun \in BOOLEAN
  /\ pc = "load" /\ i = 0 /\ migrated = 0 /\ failed = 0 /\ exit = 0

Entries == {src[k] : k \in 1 .. Len(src)}

Stop(code) == pc' = "done" /\ exit' = code

\* src.Load, an empty source, a dry run
Load ==
  /\ pc = "load"
  /\ IF src = <<"?">> THEN Stop(1) /\ UNCHANGED migrated
     ELSE IF src = <<>> THEN Stop(0) /\ UNCHANGED migrated
     ELSE IF dryRun THEN Stop(0) /\ migrated' = Len(src)
     ELSE pc' = "bulk" /\ UNCHANGED <<exit, migrated>>
  /\ UNCHANGED <<src, dst, before, dryRun, i, failed>>

BulkSave(fails) ==
  /\ pc = "bulk"
  /\ IF fails THEN pc' = "single" /\ UNCHANGED <<dst, migrated, exit>>
     ELSE dst' = Entries /\ migrated' = Len(src) /\ Stop(0)
  /\ UNCHANGED <<src, before, dryRun, i, failed>>

\* dst.Save([]Entry{e}) for the next entry
SaveOne(fails) ==
  /\ pc = "single" /\ i < Len(src) /\ i' = i + 1
  /\ IF fails THEN failed' = failed + 1 /\ UNCHANGED <<dst, migrated>>
     ELSE dst' = {src[i + 1]} /\ migrated' = migrated + 1 /\ UNCHANGED failed
  /\ UNCHANGED <<src, before, dryRun, pc, exit>>

SinglesDone ==
  /\ pc = "single" /\ i = Len(src) /\ Stop(IF failed > 0 THEN 1 ELSE 0)
  /\ UNCHANGED <<src, dst, before, dryRun, i, migrated, failed>>

Next == Load \/ SinglesDone \/ \E fails \in BOOLEAN : BulkSave(fails) \/ SaveOne(fails)
Spec == Init /\ [][Next]_vars

-----------------------------------------------------------------------------
\* What the destination holds after a migration is accounted for: nothing of its
\* own is mixed with the entries copied, a dry run, a failed load and a run in which
\* every save failed leave it untouched, and after a bulk save it is the source.
DestinationIsExplained ==
  pc = "done" =>
    IF dryRun \/ migrated = 0 THEN dst = before
    ELSE dst \subseteq Entries /\ dst # {} /\ (i = 0 => dst = Entries)
=============================================================================
