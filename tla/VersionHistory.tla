---------------------------- MODULE VersionHistory ----------------------------
(***************************************************************************)
(* The version history of an agent in PostgreSQL (SaveVersion and          *)
(* GetVersions), written by "apply" and "rollback": read the versions,     *)
(* upsert the next one, prune to the latest Keep.  Nothing holds the three *)
(* statements together; each may fail.  A snapshot is the number of the    *)
(* write it came with.                                                     *)
(***************************************************************************)
EXTENDS Integers, FiniteSets, FiniteSetsExt

CONSTANTS
  Workers,
  Keep,        \* versions retained (10)
  MaxWrites    \* bound: commands run

VARIABLES
  rows,      \* the table: version -> snapshot, 0 when there is no such row
  worker,    \* pc, command, next version, snapshot
  writes,
  unpruned   \* has a prune failed or a command stopped before it, since the last prune?

vars == <<rows, worker, writes, unpruned>>

Versions == {v \in DOMAIN rows : rows[v] # 0}
Latest(n) == {v \in Versions : Cardinality({u \in Versions : u > v}) < n}

TypeOK ==
  /\ rows \in [1 .. MaxWrites -> 0 .. MaxWrites] /\ writes \in 0 .. MaxWrites
  /\ \A w \in Workers : worker[w].pc \in {"idle", "save", "prune"} /\ worker[w].next \in 0 .. MaxWrites + 1

Idle == [pc |-> "idle", next |-> 0, snap |-> 0]

Init ==
  /\ rows = [v \in 1 .. MaxWrites |-> 0] /\ worker = [w \in Workers |-> Idle]
  /\ writes = 0 /\ unpruned = FALSE

\* apply: an error of GetVersions is ignored, the next version is then 1
Apply(w, fails) ==
  /\ worker[w].pc = "idle" /\ writes < MaxWrites /\ writes' = writes + 1
  /\ worker' = [worker EXCEPT ![w] = [pc |-> "save", snap |-> writes + 1,
       next |-> IF fails \/ Versions = {} THEN 1 ELSE Max(Versions) + 1]]
  /\ UNCHANGED <<rows, unpruned>>

\* rollback: the second to last version becomes the next one
Rollback(w) ==
  /\ worker[w].pc = "idle" /\ writes < MaxWrites /\ Cardinality(Versions) >= 2
  /\ writes' = writes + 1
  /\ worker' = [worker EXCEPT ![w] = [pc |-> "save", next |-> Max(Versions) + 1,
       snap |-> rows[Max(Versions \ {Max(Versions)})]]]
  /\ UNCHANGED <<rows, unpruned>>

\* SaveVersion: INSERT ... ON CONFLICT DO UPDATE
Insert(w, fails) ==
  /\ worker[w].pc = "save"
  /\ IF fails THEN worker' = [worker EXCEPT ![w] = Idle] /\ UNCHANGED rows
     ELSE /\ rows' = [rows EXCEPT ![worker[w].next] = worker[w].snap]
          /\ worker' = [worker EXCEPT ![w].pc = "prune"]
  /\ UNCHANGED <<writes, unpruned>>

\* DELETE ... NOT IN (the latest Keep versions)
Kept(w) == Latest(Keep)

Prune(w, fails) ==
  /\ worker[w].pc = "prune" /\ worker' = [worker EXCEPT ![w] = Idle]
  /\ rows' = IF fails THEN rows ELSE [v \in DOMAIN rows |-> IF v \in Kept(w) THEN rows[v] ELSE 0]
  /\ unpruned' = fails
  /\ UNCHANGED writes

Next ==
  \E w \in Workers :
    \/ Rollback(w)
    \/ \E fails \in BOOLEAN : Apply(w, fails) \/ Insert(w, fails) \/ Prune(w, fails)

Spec == Init /\ [][Next]_vars

-----------------------------------------------------------------------------
\* Between commands the history is the latest Keep versions without a gap, however
\* commands overlapped and wherever one failed; only a failed prune leaves more, and
\* the next one makes up for it.
RetainsLatest ==
  (\A w \in Workers : worker[w].pc # "prune") /\ ~unpruned =>
    /\ Cardinality(Versions) <= Keep
    /\ Versions # {} => Versions = Min(Versions) .. Max(Versions)

\* The latest version is never removed and its number never goes down.
KeepsNewest == Versions # {} => Versions' # {} /\ Max(Versions') >= Max(Versions)
=============================================================================
