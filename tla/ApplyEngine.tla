---------------------------- MODULE ApplyEngine ----------------------------
(***************************************************************************)
(* agentspec apply: load the state, plan (internal/plan/plan.go), take the *)
(* state lock, run the adapter, merge the results into the state that is   *)
(* loaded again, save, unlock (cmd/agentspec/apply.go and                  *)
(* internal/apply/apply.go).  Any number of processes run the command over *)
(* and over on one state.  Load and Save are the indivisible steps of      *)
(* AtomicStore; the lock is exclusive or, for a backend without            *)
(* LockWithContext, absent.                                                *)
(***************************************************************************)
EXTENDS Naturals

CONSTANTS Procs, NoProc,
          FQNs,      \* resource names
          Hashes,    \* content hashes of resource definitions
          NoHash,    \* the empty hash of a failed entry
          NoEntry,   \* no entry in the state
          Gone,      \* not desired; not deployed
          Adapters,  \* "crds": one object per resource (operator mode);
                     \* "config": one file holding all of them (direct mode)
          Locked,    \* does the backend implement apply.Locker?
          Faults     \* what may go wrong: "load", "save", "crash"

ASSUME ApplyAssumption ==
    /\ NoProc \notin Procs
    /\ NoHash \notin Hashes /\ Gone \notin Hashes
    /\ NoEntry \notin [hash : Hashes \cup {NoHash}, status : {"applied", "failed"}]
    /\ Adapters \subseteq {"crds", "config"}
    /\ Locked \in BOOLEAN
    /\ Faults \subseteq {"load", "save", "crash"}

VARIABLES adapter,  \* the one every process applies with
          state,    \* the entries in the backend, by FQN
          world,    \* what is deployed, by FQN
          lock,     \* the process inside apply.Apply
          pc,
          want,     \* the desired resources of the process's .ias files
          plan,     \* its plan
          todo,     \* objects its adapter has not created or updated yet
          outcome,  \* what its adapter reported, for every resource alike
          existing, \* the entries it merges the results into
          unsaved   \* history: objects changed by an apply that never saved

vars == <<adapter, state, world, lock, pc, want, plan, todo, outcome, existing, unsaved>>

Entry(h, s) == [hash |-> h, status |-> s]
EntrySet == [hash : Hashes \cup {NoHash}, status : {"applied", "failed"}]
            \cup {NoEntry}
StateSet == [FQNs -> EntrySet]
DesiredSet == [FQNs -> Hashes \cup {Gone}]
ActionTypes == {"create", "update", "delete", "noop", "none"}

Nothing == [f \in FQNs |-> NoEntry]

-----------------------------------------------------------------------------
(* internal/plan *)

\* The action ComputePlan emits for a resource ("none": it is mentioned nowhere).
PlanAction(d, e) ==
    CASE d # Gone /\ e = NoEntry -> "create"
      [] d # Gone /\ e # NoEntry /\ e.hash # d -> "update"
      [] d # Gone /\ e # NoEntry /\ e.hash = d /\ e.status = "failed" -> "update"
      [] d # Gone /\ e # NoEntry /\ e.hash = d /\ e.status # "failed" -> "noop"
      [] d = Gone /\ e # NoEntry -> "delete"
      [] d = Gone /\ e = NoEntry -> "none"

ComputePlan(d, s) == [f \in FQNs |-> PlanAction(d[f], s[f])]

Changes(pl) == {f \in FQNs : pl[f] \in {"create", "update", "delete"}}
Upserts(pl) == {f \in FQNs : pl[f] \in {"create", "update"}}

\* DetectDrift compares hashes only; it never looks at the status.
DetectDrift(d, s) ==
    {f \in FQNs : \/ d[f] # Gone /\ s[f] = NoEntry
                  \/ d[f] # Gone /\ s[f] # NoEntry /\ s[f].hash # d[f]
                  \/ d[f] = Gone /\ s[f] # NoEntry}

-----------------------------------------------------------------------------
Init == /\ adapter \in Adapters
        /\ state = Nothing
        /\ world = [f \in FQNs |-> Gone]
        /\ lock = NoProc
        /\ pc = [p \in Procs |-> "idle"]
        /\ want = [p \in Procs |-> [f \in FQNs |-> Gone]]
        /\ plan = [p \in Procs |-> [f \in FQNs |-> "none"]]
        /\ todo = [p \in Procs |-> {}]
        /\ outcome = [p \in Procs |-> "none"]
        /\ existing = [p \in Procs |-> Nothing]
        /\ unsaved = {}

Goto(p, l) == pc' = [pc EXCEPT ![p] = l]

\* The registers of a process that is not running any more.
Forget(p) == /\ want' = [want EXCEPT ![p] = [f \in FQNs |-> Gone]]
             /\ plan' = [plan EXCEPT ![p] = [f \in FQNs |-> "none"]]
             /\ todo' = [todo EXCEPT ![p] = {}]
             /\ outcome' = [outcome EXCEPT ![p] = "none"]
             /\ existing' = [existing EXCEPT ![p] = Nothing]

\* The command loads the state and plans before any lock is taken.  Without
\* changes it returns at once, which is no step here.
Plan(p, d) ==
    /\ pc[p] = "idle"
    /\ Changes(ComputePlan(d, state)) # {}
    /\ want' = [want EXCEPT ![p] = d]
    /\ plan' = [plan EXCEPT ![p] = ComputePlan(d, state)]
    /\ Goto(p, "planned")
    /\ UNCHANGED <<adapter, state, world, lock, todo, outcome, existing, unsaved>>

\* The user declines, or the lock is not obtained in time.
Cancel(p) ==
    /\ pc[p] = "planned"
    /\ Forget(p)
    /\ Goto(p, "idle")
    /\ UNCHANGED <<adapter, state, world, lock, unsaved>>

\* apply.Apply locks if the backend is a Locker.
Lock(p) ==
    /\ pc[p] = "planned"
    /\ Locked => lock = NoProc
    /\ lock' = IF Locked THEN p ELSE lock
    /\ todo' = [todo EXCEPT ![p] = Upserts(plan[p])]
    /\ Goto(p, "adapter")
    /\ UNCHANGED <<adapter, state, world, want, plan, outcome, existing, unsaved>>

\* applyOperatorCRDs: kubectl applies one object after the other.
ApplyCRD(p, f) ==
    /\ adapter = "crds" /\ pc[p] = "adapter" /\ f \in todo[p]
    /\ world' = [world EXCEPT ![f] = want[p][f]]
    /\ todo' = [todo EXCEPT ![p] = @ \ {f}]
    /\ UNCHANGED <<adapter, state, lock, pc, want, plan, outcome, existing, unsaved>>

\* Nothing is left to apply: every action is reported as a success, a delete
\* included, for which no object was touched.
CRDsApplied(p) ==
    /\ adapter = "crds" /\ pc[p] = "adapter" /\ todo[p] = {}
    /\ outcome' = [outcome EXCEPT ![p] = "success"]
    /\ Goto(p, "load")
    /\ UNCHANGED <<adapter, state, world, lock, want, plan, todo, existing, unsaved>>

\* An object is refused: every action is reported as failed.
CRDFails(p) ==
    /\ adapter = "crds" /\ pc[p] = "adapter" /\ todo[p] # {}
    /\ outcome' = [outcome EXCEPT ![p] = "failed"]
    /\ Goto(p, "load")
    /\ UNCHANGED <<adapter, state, world, lock, want, plan, todo, existing, unsaved>>

\* applyDirect: the config map is built from the resources of this plan's
\* creates and updates and replaces the deployed one; a manifest after it (the
\* deployment, the service) may still be refused.
ApplyConfig(p) ==
    /\ adapter = "config" /\ pc[p] = "adapter"
    /\ world' = [f \in FQNs |->
                    IF f \in Upserts(plan[p]) THEN want[p][f] ELSE Gone]
    /\ todo' = [todo EXCEPT ![p] = {}]
    /\ \E o \in {"success", "failed"} : outcome' = [outcome EXCEPT ![p] = o]
    /\ Goto(p, "load")
    /\ UNCHANGED <<adapter, state, lock, want, plan, existing, unsaved>>

\* applyDirect: the namespace or the config map itself is refused.
ConfigFails(p) ==
    /\ adapter = "config" /\ pc[p] = "adapter"
    /\ outcome' = [outcome EXCEPT ![p] = "failed"]
    /\ Goto(p, "load")
    /\ UNCHANGED <<adapter, state, world, lock, want, plan, todo, existing, unsaved>>

\* The state is loaded again to merge the results into it; an error of this
\* Load is dropped and counts as an empty state.
LoadExisting(p) ==
    /\ pc[p] = "load"
    /\ \/ existing' = [existing EXCEPT ![p] = state]
       \/ /\ "load" \in Faults
          /\ existing' = [existing EXCEPT ![p] = Nothing]
    /\ Goto(p, "save")
    /\ UNCHANGED <<adapter, state, world, lock, want, plan, todo, outcome, unsaved>>

\* Variants of the merge: a failure is recorded as a success; a failure keeps the
\* hash; a deleted resource keeps its entry; the entries that are not of the plan are
\* left out.
MergedOptimistic(p, f) ==
    IF f \notin Changes(plan[p]) THEN existing[p][f]
    ELSE IF plan[p][f] = "delete" THEN NoEntry
    ELSE Entry(want[p][f], "applied")

MergedHashKept(p, f) ==
    IF f \notin Changes(plan[p]) THEN existing[p][f]
    ELSE IF plan[p][f] = "delete" THEN NoEntry
    ELSE Entry(want[p][f], IF outcome[p] = "failed" THEN "failed" ELSE "applied")

MergedKeepsDeleted(p, f) ==
    IF f \notin Changes(plan[p]) \/ plan[p][f] = "delete" THEN existing[p][f]
    ELSE IF outcome[p] = "failed" THEN Entry(NoHash, "failed")
    ELSE Entry(want[p][f], "applied")

MergedPlanOnly(p, f) ==
    IF f \notin Changes(plan[p]) THEN NoEntry
    ELSE IF outcome[p] = "failed" THEN Entry(NoHash, "failed")
    ELSE IF plan[p][f] = "delete" THEN NoEntry
    ELSE Entry(want[p][f], "applied")

\* The entry of f after the merge of the results.
Merged(p, f) ==
    IF f \notin Changes(plan[p]) THEN existing[p][f]
    ELSE IF outcome[p] = "failed" THEN Entry(NoHash, "failed")
    ELSE IF plan[p][f] = "delete" THEN NoEntry
    ELSE Entry(want[p][f], "applied")

\* The objects p's adapter has changed for a plan that is not recorded yet.
Touched(p) == IF pc[p] \in {"adapter", "load", "save"}
              THEN Upserts(plan[p]) \ todo[p] ELSE {}

Save(p) ==
    /\ pc[p] = "save"
    /\ state' = [f \in FQNs |-> Merged(p, f)]
    /\ unsaved' = unsaved \ Changes(plan[p])
    /\ Goto(p, "unlock")
    /\ UNCHANGED <<adapter, world, lock, want, plan, todo, outcome, existing>>

SaveFails(p) ==
    /\ "save" \in Faults /\ pc[p] = "save"
    /\ unsaved' = unsaved \cup Touched(p)
    /\ outcome' = [outcome EXCEPT ![p] = "none"]
    /\ Goto(p, "unlock")
    /\ UNCHANGED <<adapter, state, world, lock, want, plan, todo, existing>>

\* The deferred Unlock; the command ends.
Unlock(p) ==
    /\ pc[p] = "unlock"
    /\ lock' = IF lock = p THEN NoProc ELSE lock
    /\ Forget(p)
    /\ Goto(p, "idle")
    /\ UNCHANGED <<adapter, state, world, unsaved>>

\* The process is killed; the kernel drops its flock.
Crash(p) ==
    /\ "crash" \in Faults /\ pc[p] \in {"adapter", "load", "save"}
    /\ unsaved' = unsaved \cup Touched(p)
    /\ lock' = IF lock = p THEN NoProc ELSE lock
    /\ Forget(p)
    /\ Goto(p, "idle")
    /\ UNCHANGED <<adapter, state, world>>

Next == \E p \in Procs :
            \/ \E d \in DesiredSet : Plan(p, d)
            \/ Cancel(p) \/ Lock(p)
            \/ \E f \in FQNs : ApplyCRD(p, f)
            \/ CRDsApplied(p) \/ CRDFails(p)
            \/ ApplyConfig(p) \/ ConfigFails(p)
            \/ LoadExisting(p) \/ Save(p) \/ SaveFails(p)
            \/ Unlock(p) \/ Crash(p)

Spec == Init /\ [][Next]_vars

-----------------------------------------------------------------------------
(* Properties *)

\* The state, the deployment and every process's registers are well typed.
TypeOK == /\ adapter \in Adapters
          /\ state \in StateSet
          /\ world \in DesiredSet
          /\ lock \in Procs \cup {NoProc}
          /\ pc \in [Procs -> {"idle", "planned", "adapter", "load", "save",
                               "unlock"}]
          /\ want \in [Procs -> DesiredSet]
          /\ plan \in [Procs -> [FQNs -> ActionTypes]]
          /\ todo \in [Procs -> SUBSET FQNs]
          /\ outcome \in [Procs -> {"none", "success", "failed"}]
          /\ existing \in [Procs -> StateSet]
          /\ unsaved \in SUBSET FQNs

\* An entry that says "applied" tells the truth in operator mode: the object is
\* deployed with the recorded hash, except while an apply is at it or after one
\* that died between its adapter and its Save.
TrackedWorld ==
    adapter = "crds" => \A f \in FQNs :
        /\ state[f] # NoEntry /\ state[f].status = "applied"
        /\ f \notin unsaved
        /\ \A p \in Procs : f \notin Touched(p)
        => world[f] = state[f].hash

\* After a reload that returned entries, Save changes no entry but those of its
\* own plan: the results of an apply that ran in between are not overwritten.
SaveKeepsOthers ==
    [][\A p \in Procs, f \in FQNs :
          /\ pc[p] = "save" /\ pc'[p] = "unlock"
          /\ existing[p] # Nothing /\ f \notin Changes(plan[p])
          => state'[f] = state[f]]_vars

\* An apply that reports success has brought the state to what its process
\* wants, so that planning again finds no change.
Converged ==
    \A p \in Procs :
        pc[p] = "unlock" /\ outcome[p] = "success"
            => Changes(ComputePlan(want[p], state)) = {}

\* Drift is reported for a set of resources exactly when a plan would change
\* something, whatever failed before, although DetectDrift ignores the status.
DriftIffChanges ==
    \A d \in DesiredSet : DetectDrift(d, state) = Changes(ComputePlan(d, state))

\* For model checking: processes, resources and hashes are interchangeable.
Permuted(S) == {[x \in S |-> f[x]] : f \in {g \in [S -> S] : \A y \in S : \E x \in S : g[x] = y}}
Symmetry == Permuted(Procs) \cup Permuted(FQNs) \cup Permuted(Hashes)
=============================================================================
