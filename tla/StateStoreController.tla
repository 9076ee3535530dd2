------------------------- MODULE StateStoreController -------------------------
(***************************************************************************)
(* The StateStore controller (internal/operator/controller/                *)
(* statestore_controller.go): entries no Agent refers to are marked as     *)
(* orphaned and dropped after a grace period, drift and failed entries are *)
(* reported, and the entries are cleared when the store is deleted.  A     *)
(* reconcile reads the store, lists the Agents, reads the store again and  *)
(* writes its status.  Whoever fills the entries is outside the program.   *)
(* Every reconcile is followed by another (after five minutes, after an    *)
(* error, or because of its own write), so the work queue is left out.     *)
(***************************************************************************)
EXTENDS Integers

CONSTANTS
  Strays,    \* FQNs other than the store's scope; no Agent ever refers to them
  Grace,     \* defaultOrphanGracePeriod, in ticks
  MaxGen,    \* bound on an Agent's observed generation
  MaxEdits,  \* bound on what others write
  MaxFaults  \* bound on failed listings and restarts

VARIABLES
  store,     \* the stored StateStore
  agent,     \* the Agent named by the scope: 0 absent, 1 never observed, 1 + g observed
  w,         \* the worker: pc, its entries, the entries first read, drift, freshness
  edits,
  faults

vars == <<store, agent, w, edits, faults>>

Scope == "scope"
FQNs == Strays \cup {Scope}
NoEntry == [hash |-> 0, status |-> "none", age |-> -1]
Statuses == {"applied", "failed", "orphaned"}
EntrySet == [hash : 1 .. MaxGen, status : Statuses, age : -1 .. Grace] \cup {NoEntry}
Empty == [f \in FQNs |-> NoEntry]
Idle == [pc |-> "idle", seen |-> Empty, entries |-> Empty, drift |-> FALSE, fresh |-> TRUE]

TypeOK ==
  /\ store.entries \in [FQNs -> EntrySet]
  /\ \A x \in {"exists", "deleting", "finalizer", "healthy", "drifted", "ready"} : store[x] \in BOOLEAN
  /\ agent \in 0 .. MaxGen + 1 /\ edits \in 0 .. MaxEdits /\ faults \in 0 .. MaxFaults
  /\ w.pc \in {"idle", "finalize", "list", "refetch", "update", "clear", "remove"}
  /\ w.entries \in [FQNs -> EntrySet] /\ w.seen \in [FQNs -> EntrySet]

Init ==
  /\ store = [exists |-> TRUE, deleting |-> FALSE, finalizer |-> FALSE, entries |-> Empty,
              healthy |-> FALSE, drifted |-> FALSE, ready |-> FALSE]
  /\ agent = 0 /\ w = Idle /\ edits = 0 /\ faults = 0

\* Update and Status().Update: a copy that is not the latest is refused, and the
\* reconcile is tried again.
Put(s, next) ==
  /\ store' = IF w.fresh THEN s ELSE store
  /\ w' = IF w.fresh THEN [w EXCEPT !.pc = next] ELSE Idle

Reconcile ==
  /\ w.pc = "idle" /\ store.exists
  /\ w' = [Idle EXCEPT !.seen = store.entries,
                       !.pc = CASE store.deleting /\ store.finalizer -> "clear"
                                [] ~store.deleting /\ ~store.finalizer -> "finalize"
                                [] OTHER -> "list"]
  /\ UNCHANGED <<store, agent, edits, faults>>

AddFinalizer ==
  /\ w.pc = "finalize" /\ Put([store EXCEPT !.finalizer = TRUE], "idle")
  /\ UNCHANGED <<agent, edits, faults>>

\* collectReferencedFQNs: the one FQN an Agent stands for is the store's scope; its
\* hash is unknown until a generation has been observed.
Referenced(f) == f = Scope /\ agent > 0
Expected(f) == IF Referenced(f) THEN agent - 1 ELSE 0

\* A sweep that restarts the grace period whenever it meets an orphan.
SweptAgain(e, f) ==
  IF e = NoEntry THEN NoEntry
  ELSE IF Referenced(f) THEN IF e.status = "orphaned" THEN [e EXCEPT !.status = "applied", !.age = -1] ELSE e
  ELSE [e EXCEPT !.status = "orphaned", !.age = 0]

\* A sweep that drops an orphan as soon as it is marked.
SweptAtOnce(e, f) ==
  IF e = NoEntry \/ Referenced(f) THEN e
  ELSE IF e.status # "orphaned" THEN [e EXCEPT !.status = "orphaned", !.age = 0]
  ELSE NoEntry

\* What the loop makes of an entry: marked, kept, adopted again or dropped.
Swept(e, f) ==
  IF e = NoEntry THEN NoEntry
  ELSE IF Referenced(f) THEN IF e.status = "orphaned" THEN [e EXCEPT !.status = "applied", !.age = -1] ELSE e
  ELSE IF e.status # "orphaned" THEN [e EXCEPT !.status = "orphaned", !.age = 0]
  ELSE IF e.age >= Grace THEN NoEntry ELSE e

Drifts(es) == \E f \in FQNs : es[f] # NoEntry /\ Expected(f) > 0 /\ Expected(f) # es[f].hash

ListAgents ==
  /\ w.pc = "list"
  /\ LET kept == [f \in FQNs |-> Swept(w.seen[f], f)]
     IN  w' = [w EXCEPT !.pc = "refetch", !.entries = kept, !.drift = Drifts(kept)]
  /\ UNCHANGED <<store, agent, edits, faults>>

\* The listing fails: the store is reported as failed; a refusal of that is ignored.
ListFails ==
  /\ w.pc = "list" /\ faults < MaxFaults /\ faults' = faults + 1
  /\ store' = IF w.fresh THEN [store EXCEPT !.ready = FALSE, !.healthy = FALSE] ELSE store
  /\ w' = Idle
  /\ UNCHANGED <<agent, edits>>

\* The store is read again and its entries are replaced by the ones worked out.
Refetch ==
  /\ w.pc = "refetch"
  /\ w' = IF store.exists THEN [w EXCEPT !.pc = "update", !.fresh = TRUE] ELSE Idle
  /\ UNCHANGED <<store, agent, edits, faults>>

HasFailed(es) == \E f \in FQNs : es[f].status = "failed"

Healthy(es, drift) == ~drift /\ ~HasFailed(es)

UpdateStatus ==
  /\ w.pc = "update"
  /\ Put([store EXCEPT !.entries = w.entries, !.drifted = w.drift,
                       !.healthy = Healthy(w.entries, w.drift), !.ready = Healthy(w.entries, w.drift)],
         "idle")
  /\ UNCHANGED <<agent, edits, faults>>

ClearEntries ==
  /\ w.pc = "clear" /\ Put([store EXCEPT !.entries = Empty, !.healthy = FALSE], "remove")
  /\ UNCHANGED <<agent, edits, faults>>

RemoveFinalizer ==
  /\ w.pc = "remove" /\ Put([store EXCEPT !.finalizer = FALSE, !.exists = FALSE], "idle")
  /\ UNCHANGED <<agent, edits, faults>>

Restart ==
  /\ w.pc # "idle" /\ faults < MaxFaults /\ faults' = faults + 1 /\ w' = Idle
  /\ UNCHANGED <<store, agent, edits>>

-----------------------------------------------------------------------------
(* the surroundings *)

\* Somebody writes an entry into the status.
WriteEntry(f, h, s) ==
  /\ store.exists /\ edits < MaxEdits /\ edits' = edits + 1
  /\ store' = [store EXCEPT !.entries[f] = [hash |-> h, status |-> s, age |-> -1]]
  /\ w' = [w EXCEPT !.fresh = (w.pc = "idle")]
  /\ UNCHANGED <<agent, faults>>

SetAgent(a) ==
  /\ a # agent /\ edits < MaxEdits /\ edits' = edits + 1 /\ agent' = a
  /\ UNCHANGED <<store, w, faults>>

Delete ==
  /\ store.exists /\ ~store.deleting /\ edits < MaxEdits /\ edits' = edits + 1
  /\ store' = [store EXCEPT !.deleting = TRUE, !.exists = store.finalizer,
                       !.entries = IF store.finalizer THEN @ ELSE Empty]
  /\ w' = [w EXCEPT !.fresh = (w.pc = "idle")]
  /\ UNCHANGED <<agent, faults>>

Older(es) == [f \in FQNs |-> IF es[f].age \in 0 .. Grace - 1 THEN [es[f] EXCEPT !.age = @ + 1] ELSE es[f]]

Tick ==
  /\ store' = [store EXCEPT !.entries = Older(@)]
  /\ w' = [w EXCEPT !.entries = Older(@), !.seen = Older(@)]
  /\ UNCHANGED <<agent, edits, faults>>

Work ==
  \/ Reconcile \/ AddFinalizer \/ ListAgents \/ ListFails \/ Refetch \/ UpdateStatus
  \/ ClearEntries \/ RemoveFinalizer

Next ==
  \/ Work \/ Restart \/ Delete \/ Tick
  \/ \E f \in FQNs, h \in 1 .. MaxGen, s \in {"applied", "failed"} : WriteEntry(f, h, s)
  \/ \E a \in 0 .. MaxGen + 1 : SetAgent(a)

Fairness == WF_vars(Work) /\ WF_vars(Tick)

Spec == Init /\ [][Next]_vars

-----------------------------------------------------------------------------
\* A live store loses an entry only because the reconcile had read it as an orphan
\* whose grace period was over, or because it was written after the reconcile first
\* read the store: then the update puts the older entries back.
RemovesOverdue ==
  \A f \in FQNs :
    store.entries[f] # NoEntry /\ store'.entries[f] = NoEntry /\ ~store'.deleting
      => \/ w.seen[f].status = "orphaned" /\ w.seen[f].age >= Grace
         \/ w.seen[f] = NoEntry

\* Once nobody writes any more, what the store reports about itself comes to agree
\* with its entries and the Agent: healthy exactly when nothing failed or drifted.
HealthSettles ==
  <>[](store.exists => /\ store.healthy = (~HasFailed(store.entries) /\ ~Drifts(store.entries))
                       /\ store.ready = store.healthy /\ store.drifted = Drifts(store.entries))

\* An entry no Agent refers to does not stay for ever.
OrphansGo == \A f \in FQNs : []<>(store.entries[f] = NoEntry \/ Referenced(f))
=============================================================================
