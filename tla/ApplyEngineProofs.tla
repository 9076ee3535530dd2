------------------------- MODULE ApplyEngineProofs -------------------------
(***************************************************************************)
(* Theorems about ApplyEngine, for any processes, resources and hashes,    *)
(* and about the walk of agentspec install over the dependencies of a      *)
(* package (Registry), for any releases and lock files.                    *)
(***************************************************************************)
EXTENDS ApplyEngine, Integers, Sequences, TLAPS

(* Facts about plans *)

\* A plan creates or updates only what is desired.
LEMMA UpsertsDesired ==
    ASSUME NEW d \in DesiredSet, NEW s, NEW f \in FQNs,
           ComputePlan(d, s)[f] \in {"create", "update"}
    PROVE  d[f] \in Hashes
BY Zenon DEF ComputePlan, PlanAction, DesiredSet

\* ComputePlan gives every resource one of the action types.
LEMMA PlanType ==
    ASSUME NEW d, NEW s
    PROVE  ComputePlan(d, s) \in [FQNs -> ActionTypes]
<1> SUFFICES ASSUME NEW f \in FQNs PROVE PlanAction(d[f], s[f]) \in ActionTypes
  BY Zenon DEF ComputePlan
<1> QED BY Zenon DEF PlanAction, ActionTypes

-----------------------------------------------------------------------------
(* Types *)

\* An update or a create of a plan comes with a hash.
PlanInv == \A p \in Procs : \A f \in FQNs :
               plan[p][f] \in {"create", "update"} => want[p][f] \in Hashes

\* The results of an adapter are there when they are merged.
OutcomeInv == \A p \in Procs :
                  pc[p] \in {"load", "save"} => outcome[p] \in {"success", "failed"}

TypeInv == TypeOK /\ PlanInv /\ OutcomeInv

\* The merged entry is a well-typed entry.
LEMMA MergedType ==
    ASSUME TypeInv, NEW p \in Procs, pc[p] = "save", NEW f \in FQNs
    PROVE  Merged(p, f) \in EntrySet
<1>1. existing[p][f] \in EntrySet
  BY Zenon DEF TypeInv, TypeOK, StateSet
<1>2. Entry(NoHash, "failed") \in EntrySet
  BY Zenon DEF Entry, EntrySet
<1>3. NoEntry \in EntrySet
  BY Zenon DEF EntrySet
<1>4. ASSUME f \in Changes(plan[p]), plan[p][f] # "delete"
      PROVE  Entry(want[p][f], "applied") \in EntrySet
  <2>1. want[p][f] \in Hashes
    BY Zenon, <1>4 DEF TypeInv, PlanInv, Changes
  <2> QED BY Zenon, <2>1 DEF Entry, EntrySet
<1> QED BY Zenon, <1>1, <1>2, <1>3, <1>4 DEF Merged

\* Every step of the apply command keeps the types.
LEMMA TypeStep == TypeInv /\ [Next]_vars => TypeInv'
<1> SUFFICES ASSUME TypeInv, [Next]_vars PROVE TypeInv'
  BY Zenon
<1> USE DEF TypeInv, Goto
<1>1. ASSUME NEW p \in Procs, NEW d \in DesiredSet, Plan(p, d) PROVE TypeInv'
  <2>1. ComputePlan(d, state) \in [FQNs -> ActionTypes]
    BY Zenon, PlanType
  <2>2. TypeOK'
    BY Zenon, <1>1, <2>1 DEF Plan, TypeOK
  <2>3. PlanInv'
    BY Zenon, <1>1, UpsertsDesired DEF Plan, TypeOK, PlanInv
  <2>4. OutcomeInv'
    BY Zenon, <1>1 DEF Plan, TypeOK, OutcomeInv
  <2> QED BY Zenon, <2>2, <2>3, <2>4
<1>2. ASSUME NEW p \in Procs, Cancel(p) PROVE TypeInv'
  BY Zenon, <1>2 DEF Cancel, Nothing, Forget, TypeOK, PlanInv, OutcomeInv, DesiredSet, StateSet,
              EntrySet, ActionTypes
<1>3. ASSUME NEW p \in Procs, Lock(p) PROVE TypeInv'
  BY Zenon, <1>3 DEF Lock, TypeOK, PlanInv, OutcomeInv, Upserts
<1>4. ASSUME NEW p \in Procs, NEW f \in FQNs, ApplyCRD(p, f) PROVE TypeInv'
  BY <1>4 DEF ApplyCRD, TypeOK, PlanInv, OutcomeInv, DesiredSet
<1>5. ASSUME NEW p \in Procs, CRDsApplied(p) PROVE TypeInv'
  BY Zenon, <1>5 DEF CRDsApplied, TypeOK, PlanInv, OutcomeInv
<1>6. ASSUME NEW p \in Procs, CRDFails(p) PROVE TypeInv'
  BY Zenon, <1>6 DEF CRDFails, TypeOK, PlanInv, OutcomeInv
<1>7. ASSUME NEW p \in Procs, ApplyConfig(p) PROVE TypeInv'
  <2>1. world' \in DesiredSet
    BY <1>7 DEF ApplyConfig, TypeOK, DesiredSet
  <2> QED BY Zenon, <1>7, <2>1 DEF ApplyConfig, TypeOK, PlanInv, OutcomeInv
<1>8. ASSUME NEW p \in Procs, ConfigFails(p) PROVE TypeInv'
  BY Zenon, <1>8 DEF ConfigFails, TypeOK, PlanInv, OutcomeInv
<1>9. ASSUME NEW p \in Procs, LoadExisting(p) PROVE TypeInv'
  <2>1. [f \in FQNs |-> NoEntry] \in StateSet
    BY Zenon DEF StateSet, EntrySet
  <2> QED BY <1>9, <2>1 DEF Nothing, LoadExisting, TypeOK, PlanInv, OutcomeInv
<1>10. ASSUME NEW p \in Procs, Save(p) PROVE TypeInv'
  <2>1. state' \in StateSet
    BY Zenon, <1>10, MergedType DEF Save, StateSet
  <2> QED BY Zenon, <1>10, <2>1 DEF Save, TypeOK, PlanInv, OutcomeInv
<1>11. ASSUME NEW p \in Procs, SaveFails(p) PROVE TypeInv'
  BY Zenon, <1>11 DEF SaveFails, TypeOK, PlanInv, OutcomeInv, Touched, Upserts
<1>12. ASSUME NEW p \in Procs, Unlock(p) PROVE TypeInv'
  BY Zenon, <1>12 DEF Unlock, Nothing, Forget, TypeOK, PlanInv, OutcomeInv, DesiredSet, StateSet,
               EntrySet, ActionTypes
<1>13. ASSUME NEW p \in Procs, Crash(p) PROVE TypeInv'
  BY Zenon, <1>13 DEF Crash, Nothing, Forget, TypeOK, PlanInv, OutcomeInv, DesiredSet, StateSet,
               EntrySet, ActionTypes, Touched, Upserts
<1>14. CASE UNCHANGED vars
  BY Zenon, <1>14 DEF vars, TypeOK, PlanInv, OutcomeInv
<1> QED BY Zenon, <1>1, <1>2, <1>3, <1>4, <1>5, <1>6, <1>7, <1>8, <1>9, <1>10, <1>11,
           <1>12, <1>13, <1>14 DEF Next

\* The initial state is well typed.
LEMMA TypeInit == Init => TypeInv
BY DEF Nothing, Init, TypeInv, TypeOK, PlanInv, OutcomeInv, DesiredSet, StateSet, EntrySet,
       ActionTypes

\* Type correctness of the apply command, whatever fails and whoever crashes.
THEOREM TypeCorrect == Spec => []TypeOK
<1>1. TypeInv => TypeOK
  BY Zenon DEF TypeInv
<1> QED BY TypeInit, TypeStep, <1>1, PTL DEF Spec

-----------------------------------------------------------------------------
(* The lock protects the state between the second Load and the Save *)

Inside == {"adapter", "load", "save", "unlock"}

\* A process inside apply.Apply holds the lock.
LockInv == \A p \in Procs : pc[p] \in Inside => lock = p

\* Objects still to do belong to the plan; the others are deployed as wanted.
ProgressInv ==
    \A p \in Procs : pc[p] \in {"adapter", "load", "save"} =>
        /\ todo[p] \subseteq Upserts(plan[p])
        /\ \A f \in Upserts(plan[p]) \ todo[p] : world[f] = want[p][f]
        /\ pc[p] # "adapter" /\ outcome[p] = "success" => todo[p] = {}

\* What a process merges into is the state, or nothing after a failed Load.
ExistingInv ==
    \A p \in Procs : pc[p] = "save" =>
        \A f \in FQNs : existing[p][f] \in {state[f], NoEntry}

Support == LockInv /\ ProgressInv /\ ExistingInv
TrackInv == TypeInv /\ (adapter = "crds" => Support) /\ TrackedWorld

\* No step changes the adapter.
LEMMA AdapterKept == [Next]_vars => adapter' = adapter
BY DEF Next, vars, Plan, Cancel, Lock, ApplyCRD, CRDsApplied, CRDFails, ApplyConfig,
       ConfigFails, LoadExisting, Save, SaveFails, Unlock, Crash

\* The parts of TrackInv that the proof of TrackedWorld rests on are preserved.
LEMMA SupportStep ==
    ASSUME Locked, adapter = "crds", TrackInv, [Next]_vars
    PROVE  LockInv' /\ ProgressInv' /\ ExistingInv'
<1> USE DEF TrackInv, Support, TypeInv, TypeOK, Goto, Inside
<1>1. ASSUME NEW p \in Procs, NEW d \in DesiredSet, Plan(p, d)
      PROVE  LockInv' /\ ProgressInv' /\ ExistingInv'
  BY <1>1 DEF Plan, LockInv, ProgressInv, ExistingInv
<1>2. ASSUME NEW p \in Procs, Cancel(p)
      PROVE  LockInv' /\ ProgressInv' /\ ExistingInv'
  BY <1>2 DEF Cancel, Nothing, Forget, LockInv, ProgressInv, ExistingInv
<1>3. ASSUME NEW p \in Procs, Lock(p)
      PROVE  LockInv' /\ ProgressInv' /\ ExistingInv'
  <2>1. LockInv'
    BY Zenon, <1>3, ApplyAssumption DEF Lock, LockInv
  <2>2. ProgressInv'
    BY <1>3 DEF Lock, ProgressInv
  <2>3. ExistingInv'
    BY Zenon, <1>3 DEF Lock, ExistingInv
  <2> QED BY Zenon, <2>1, <2>2, <2>3
<1>4. ASSUME NEW p \in Procs, NEW f \in FQNs, ApplyCRD(p, f)
      PROVE  LockInv' /\ ProgressInv' /\ ExistingInv'
  <2>1. \A q \in Procs : pc[q] \in Inside => q = p
    BY Zenon, <1>4 DEF ApplyCRD, LockInv
  <2>2. ProgressInv'
    BY <1>4, <2>1 DEF ApplyCRD, ProgressInv, DesiredSet
  <2> QED BY Zenon, <1>4, <2>2 DEF ApplyCRD, LockInv, ExistingInv
<1>5. ASSUME NEW p \in Procs, CRDsApplied(p)
      PROVE  LockInv' /\ ProgressInv' /\ ExistingInv'
  BY <1>5 DEF CRDsApplied, LockInv, ProgressInv, ExistingInv
<1>6. ASSUME NEW p \in Procs, CRDFails(p)
      PROVE  LockInv' /\ ProgressInv' /\ ExistingInv'
  BY <1>6 DEF CRDFails, LockInv, ProgressInv, ExistingInv
<1>7. ASSUME NEW p \in Procs, LoadExisting(p)
      PROVE  LockInv' /\ ProgressInv' /\ ExistingInv'
  <2>1. \A f \in FQNs : existing'[p][f] \in {state[f], NoEntry}
    BY <1>7 DEF Nothing, LoadExisting
  <2> QED BY <1>7, <2>1 DEF Nothing, LoadExisting, LockInv, ProgressInv, ExistingInv
<1>8. ASSUME NEW p \in Procs, Save(p)
      PROVE  LockInv' /\ ProgressInv' /\ ExistingInv'
  <2>1. \A q \in Procs : pc[q] \in Inside => q = p
    BY Zenon, <1>8 DEF Save, LockInv
  <2> QED BY <1>8, <2>1 DEF Save, LockInv, ProgressInv, ExistingInv
<1>9. ASSUME NEW p \in Procs, SaveFails(p)
      PROVE  LockInv' /\ ProgressInv' /\ ExistingInv'
  BY <1>9 DEF SaveFails, LockInv, ProgressInv, ExistingInv
<1>10. ASSUME NEW p \in Procs, Unlock(p) \/ Crash(p)
      PROVE  LockInv' /\ ProgressInv' /\ ExistingInv'
  <2>1. \A q \in Procs : pc[q] \in Inside => q = p
    BY Zenon, <1>10 DEF Unlock, Crash, LockInv
  <2>2. pc' = [pc EXCEPT ![p] = "idle"]
    BY Zenon, <1>10 DEF Unlock, Crash
  <2>3. \A q \in Procs : pc'[q] \notin Inside
    BY Zenon, <2>1, <2>2
  <2> QED BY Zenon, <2>3 DEF LockInv, ProgressInv, ExistingInv
<1>11. CASE UNCHANGED vars
  BY <1>11 DEF vars, LockInv, ProgressInv, ExistingInv
<1>12. ASSUME NEW p \in Procs, ApplyConfig(p) \/ ConfigFails(p) PROVE FALSE
  BY Zenon, <1>12 DEF ApplyConfig, ConfigFails
<1> QED BY Zenon, <1>1, <1>2, <1>3, <1>4, <1>5, <1>6, <1>7, <1>8, <1>9, <1>10, <1>11,
           <1>12 DEF Next

\* No step of any process makes an "applied" entry lie about the deployment.
LEMMA TrackedStep ==
    ASSUME Locked, adapter = "crds", TrackInv, [Next]_vars
    PROVE  TrackedWorld'
<1> SUFFICES ASSUME NEW f \in FQNs,
                    state'[f] # NoEntry, state'[f].status = "applied",
                    f \notin unsaved',
                    \A q \in Procs : f \notin Touched(q)'
             PROVE  world'[f] = state'[f].hash
  BY Zenon DEF TrackedWorld
<1> USE DEF TrackInv, Support, TypeInv, TypeOK, Goto
<1>1. ASSUME NEW p \in Procs, NEW d \in DesiredSet, Plan(p, d)
      PROVE  world'[f] = state'[f].hash
  <2>1. \A q \in Procs : Touched(q)' = Touched(q)
    BY Zenon, <1>1 DEF Plan, Touched
  <2> QED BY Zenon, <1>1, <2>1 DEF Plan, TrackedWorld
<1>2. ASSUME NEW p \in Procs, Cancel(p) \/ Unlock(p)
      PROVE  world'[f] = state'[f].hash
  <2>1. \A q \in Procs : Touched(q)' = Touched(q)
    BY <1>2 DEF Cancel, Unlock, Nothing, Forget, Touched
  <2> QED BY <1>2, <2>1 DEF Cancel, Unlock, TrackedWorld
<1>3. ASSUME NEW p \in Procs, Lock(p)
      PROVE  world'[f] = state'[f].hash
  <2>1. \A q \in Procs : Touched(q)' = Touched(q)
    BY Zenon, <1>3 DEF Lock, Touched
  <2> QED BY Zenon, <1>3, <2>1 DEF Lock, TrackedWorld
<1>4. ASSUME NEW p \in Procs, NEW g \in FQNs, ApplyCRD(p, g)
      PROVE  world'[f] = state'[f].hash
  <2>1. \A q \in Procs : Touched(q) \subseteq Touched(q)'
    BY Zenon, <1>4 DEF ApplyCRD, Touched
  <2>2. g \in Touched(p)'
    BY Zenon, <1>4 DEF ApplyCRD, Touched, ProgressInv
  <2>3. f # g
    BY Zenon, <2>2
  <2> QED BY Zenon, <1>4, <2>1, <2>3 DEF ApplyCRD, TrackedWorld, DesiredSet
<1>5. ASSUME NEW p \in Procs, CRDsApplied(p) \/ CRDFails(p) \/ LoadExisting(p)
      PROVE  world'[f] = state'[f].hash
  <2>1. \A q \in Procs : Touched(q)' = Touched(q)
    BY <1>5 DEF CRDsApplied, CRDFails, LoadExisting, Touched
  <2> QED BY <1>5, <2>1 DEF CRDsApplied, CRDFails, LoadExisting, TrackedWorld
<1>6. ASSUME NEW p \in Procs, Save(p)
      PROVE  world'[f] = state'[f].hash
  <2>1. state'[f] = Merged(p, f) /\ world' = world
    BY Zenon, <1>6 DEF Save
  <2>2. \A q \in Procs \ {p} : Touched(q)' = Touched(q)
    BY Zenon, <1>6 DEF Save, Touched
  <2>3. CASE f \notin Changes(plan[p])
    <3>1. state'[f] = state[f]
      BY Zenon, <1>6, <2>1, <2>3 DEF Merged, Save, ExistingInv
    <3>2. f \notin unsaved
      BY Zenon, <1>6, <2>3 DEF Save
    <3>3. f \notin Touched(p)
      BY Zenon, <2>3 DEF Touched, Upserts, Changes
    <3> QED BY Zenon, <2>1, <2>2, <3>1, <3>2, <3>3 DEF TrackedWorld
  <2>4. CASE f \in Changes(plan[p])
    <3>1. outcome[p] # "failed" /\ plan[p][f] # "delete"
      BY <2>1, <2>4 DEF Merged, Entry
    <3>2. f \in Upserts(plan[p]) /\ outcome[p] = "success"
      BY Zenon, <1>6, <2>4, <3>1 DEF Changes, Upserts, OutcomeInv, Save
    <3>3. world[f] = want[p][f]
      BY Zenon, <1>6, <3>2 DEF ProgressInv, Save
    <3> QED BY <2>1, <2>4, <3>1, <3>3 DEF Merged, Entry
  <2> QED BY Zenon, <2>3, <2>4
<1>7. ASSUME NEW p \in Procs, SaveFails(p) \/ Crash(p)
      PROVE  world'[f] = state'[f].hash
  <2>1. \A q \in Procs \ {p} : Touched(q)' = Touched(q)
    BY <1>7 DEF SaveFails, Crash, Nothing, Forget, Touched
  <2>2. f \notin Touched(p) /\ f \notin unsaved
    BY Zenon, <1>7 DEF SaveFails, Crash
  <2>3. \A q \in Procs : f \notin Touched(q)
    BY Zenon, <2>1, <2>2
  <2>4. state' = state /\ world' = world
    BY Zenon, <1>7 DEF SaveFails, Crash
  <2> QED BY Zenon, <2>2, <2>3, <2>4 DEF TrackedWorld
<1>8. CASE UNCHANGED vars
  <2>1. \A q \in Procs : Touched(q)' = Touched(q)
    BY Zenon, <1>8 DEF vars, Touched
  <2> QED BY Zenon, <1>8, <2>1 DEF vars, TrackedWorld
<1>9. ASSUME NEW p \in Procs, ApplyConfig(p) \/ ConfigFails(p) PROVE FALSE
  BY Zenon, <1>9 DEF ApplyConfig, ConfigFails
<1> QED BY Zenon, <1>1, <1>2, <1>3, <1>4, <1>5, <1>6, <1>7, <1>8, <1>9 DEF Next

\* With a lock, when the adapter deploys object by object, an entry that says
\* "applied" is true of the deployment, for any number of concurrent applies
\* and whatever Load, Save, adapter or process fails.
THEOREM TrackedCorrect ==
    ASSUME Locked
    PROVE  Spec => []TrackedWorld
<1>1. Init => TrackInv
  <2>1. Init => Support /\ TrackedWorld
    BY DEF Nothing, Init, Support, LockInv, ProgressInv, ExistingInv, TrackedWorld, Inside
  <2> QED BY Zenon, <2>1, TypeInit DEF TrackInv
<1>2. TrackInv /\ [Next]_vars => TrackInv'
  <2> SUFFICES ASSUME TrackInv, [Next]_vars PROVE TrackInv'
    BY Zenon
  <2>1. TypeInv'
    BY Zenon, TypeStep DEF TrackInv
  <2>2. CASE adapter = "crds"
    BY Zenon, <2>1, <2>2, SupportStep, TrackedStep DEF TrackInv, Support
  <2>3. CASE adapter # "crds"
    BY Zenon, <2>1, <2>3, AdapterKept DEF TrackInv, TrackedWorld
  <2> QED BY Zenon, <2>2, <2>3
<1>3. TrackInv => TrackedWorld
  BY Zenon DEF TrackInv
<1> QED BY <1>1, <1>2, <1>3, PTL DEF Spec

\* With a lock, and unless the reload returned nothing, Save keeps every entry that
\* is not of its own plan: concurrent applies lose nothing of each other.
THEOREM MergeCorrect ==
    ASSUME Locked
    PROVE  Spec => SaveKeepsOthers
<1> DEFINE Fresh == \A p \in Procs : pc[p] = "save" => existing[p] \in {state, Nothing}
           Inv == TypeInv /\ LockInv /\ Fresh
           Keeps == \A p \in Procs, f \in FQNs :
                        /\ pc[p] = "save" /\ pc'[p] = "unlock"
                        /\ existing[p] # Nothing /\ f \notin Changes(plan[p])
                        => state'[f] = state[f]
<1>1. Init => Inv
  BY Zenon, TypeInit DEF Nothing, Init, LockInv, Inside
<1>2. TypeInv /\ LockInv /\ [Next]_vars => LockInv'
  <2> SUFFICES ASSUME TypeInv, LockInv, [Next]_vars PROVE LockInv'
    BY Zenon
  <2> USE DEF TypeInv, TypeOK, LockInv, Inside, Goto
  <2>1. ASSUME NEW p \in Procs, NEW d \in DesiredSet, Plan(p, d) PROVE LockInv'
    BY Zenon, <2>1 DEF Plan
  <2>2. ASSUME NEW p \in Procs, Cancel(p) PROVE LockInv'
    BY Zenon, <2>2 DEF Cancel
  <2>3. ASSUME NEW p \in Procs, Lock(p) PROVE LockInv'
    BY Zenon, <2>3, ApplyAssumption DEF Lock
  <2>4. ASSUME NEW p \in Procs, NEW f \in FQNs, ApplyCRD(p, f) PROVE LockInv'
    BY Zenon, <2>4 DEF ApplyCRD
  <2>5. ASSUME NEW p \in Procs, CRDsApplied(p) \/ CRDFails(p) PROVE LockInv'
    BY Zenon, <2>5 DEF CRDsApplied, CRDFails
  <2>6. ASSUME NEW p \in Procs, ApplyConfig(p) \/ ConfigFails(p) PROVE LockInv'
    BY Zenon, <2>6 DEF ApplyConfig, ConfigFails
  <2>7. ASSUME NEW p \in Procs, LoadExisting(p) PROVE LockInv'
    BY Zenon, <2>7 DEF Nothing, LoadExisting
  <2>8. ASSUME NEW p \in Procs, Save(p) \/ SaveFails(p) PROVE LockInv'
    BY Zenon, <2>8 DEF Save, SaveFails
  <2>9. ASSUME NEW p \in Procs, Unlock(p) \/ Crash(p) PROVE LockInv'
    BY Zenon, <2>9 DEF Unlock, Crash
  <2>10. CASE UNCHANGED vars
    BY Zenon, <2>10 DEF vars
  <2> QED BY Zenon, <2>1, <2>2, <2>3, <2>4, <2>5, <2>6, <2>7, <2>8, <2>9, <2>10 DEF Next
<1>3. Inv /\ [Next]_vars => Fresh'
  <2> SUFFICES ASSUME Inv, [Next]_vars, NEW q \in Procs, pc'[q] = "save"
               PROVE  existing'[q] \in {state', Nothing}
    BY Zenon
  <2> USE DEF TypeInv, TypeOK, LockInv, Inside, Goto
  <2>1. ASSUME NEW p \in Procs, NEW d \in DesiredSet, Plan(p, d)
        PROVE  existing'[q] \in {state', Nothing}
    BY Zenon, <2>1 DEF Plan
  <2>2. ASSUME NEW p \in Procs, Cancel(p) \/ Unlock(p) \/ Crash(p)
        PROVE  existing'[q] \in {state', Nothing}
    BY <2>2 DEF Cancel, Unlock, Crash, Nothing, Forget
  <2>3. ASSUME NEW p \in Procs, Lock(p) PROVE existing'[q] \in {state', Nothing}
    BY Zenon, <2>3 DEF Lock
  <2>4. ASSUME NEW p \in Procs, NEW f \in FQNs, ApplyCRD(p, f)
        PROVE  existing'[q] \in {state', Nothing}
    BY Zenon, <2>4 DEF ApplyCRD
  <2>5. ASSUME NEW p \in Procs, CRDsApplied(p) \/ CRDFails(p)
                                \/ ApplyConfig(p) \/ ConfigFails(p)
        PROVE  existing'[q] \in {state', Nothing}
    BY Zenon, <2>5 DEF CRDsApplied, CRDFails, ApplyConfig, ConfigFails
  <2>6. ASSUME NEW p \in Procs, LoadExisting(p) PROVE existing'[q] \in {state', Nothing}
    BY Zenon, <2>6 DEF Nothing, LoadExisting
  <2>7. ASSUME NEW p \in Procs, Save(p) PROVE existing'[q] \in {state', Nothing}
    <3>1. pc'[p] = "unlock" /\ pc[p] = "save"
      BY Zenon, <2>7 DEF Save
    <3>2. q # p /\ pc[q] = "save"
      BY Zenon, <2>7, <3>1 DEF Save
    <3> QED BY Zenon, <3>1, <3>2
  <2>8. ASSUME NEW p \in Procs, SaveFails(p) PROVE existing'[q] \in {state', Nothing}
    BY Zenon, <2>8 DEF SaveFails
  <2>9. CASE UNCHANGED vars
    BY Zenon, <2>9 DEF vars
  <2> QED BY Zenon, <2>1, <2>2, <2>3, <2>4, <2>5, <2>6, <2>7, <2>8, <2>9 DEF Next
<1>4. Inv /\ [Next]_vars => Inv'
  BY Zenon, <1>2, <1>3, TypeStep
<1>5. Inv /\ [Next]_vars => [Keeps]_vars
  <2> SUFFICES ASSUME Inv, Next, NEW p \in Procs, NEW f \in FQNs,
                      pc[p] = "save", f \notin Changes(plan[p]), pc'[p] = "unlock",
                      existing[p] # Nothing
               PROVE  state'[f] = state[f]
    BY Zenon
  <2> USE DEF TypeInv, TypeOK, Goto
  <2>1. CASE Save(p)
    <3>1. state'[f] = Merged(p, f)
      BY Zenon, <2>1 DEF Save
    <3>2. Merged(p, f) = existing[p][f]
      BY Zenon DEF Merged
    <3>3. existing[p] = state
      BY Zenon
    <3> QED BY Zenon, <3>1, <3>2, <3>3
  <2>2. CASE UNCHANGED state
    BY Zenon, <2>2
  <2>3. ASSUME NEW q \in Procs, Save(q) PROVE q = p
    BY Zenon, <2>3 DEF Save
  <2>4. (\E q \in Procs : Save(q)) \/ UNCHANGED state
    BY DEF Next, Plan, Cancel, Lock, ApplyCRD, CRDsApplied, CRDFails, ApplyConfig,
           ConfigFails, LoadExisting, SaveFails, Unlock, Crash
  <2> QED BY Zenon, <2>1, <2>2, <2>3, <2>4
<1> QED BY <1>1, <1>4, <1>5, PTL DEF Spec, SaveKeepsOthers

-----------------------------------------------------------------------------
(* Drift *)

\* A failed entry carries no hash, in the state and in what is merged into.
HashlessFailure(s) ==
    \A f \in FQNs : s[f] # NoEntry /\ s[f].status = "failed" => s[f].hash = NoHash

FailedInv == /\ HashlessFailure(state)
             /\ \A p \in Procs : HashlessFailure(existing[p])

\* Drift detection and planning agree on every state the command can produce,
\* for every set of desired resources, with any adapter, locked or not.
THEOREM DriftCorrect == Spec => []DriftIffChanges
<1>1. Init => FailedInv
  BY SMTT(30) DEF Nothing, Init, FailedInv, HashlessFailure
<1>2. TypeInv /\ FailedInv /\ [Next]_vars => FailedInv'
  <2> SUFFICES ASSUME TypeInv, FailedInv, [Next]_vars PROVE FailedInv'
    BY Zenon
  <2> USE DEF TypeInv, TypeOK, FailedInv, HashlessFailure
  <2>1. ASSUME NEW p \in Procs, LoadExisting(p) PROVE FailedInv'
    <3>1. HashlessFailure(Nothing)
      BY Zenon DEF Nothing
    <3>2. /\ state' = state
          /\ existing'[p] \in {state, Nothing}
          /\ \A q \in Procs \ {p} : existing'[q] = existing[q]
      BY Zenon, <2>1 DEF LoadExisting
    <3>3. HashlessFailure(state) /\ \A q \in Procs : HashlessFailure(existing[q])
      BY Zenon
    <3> HIDE DEF HashlessFailure
    <3>4. HashlessFailure(existing'[p])
      BY Zenon, <3>1, <3>2, <3>3
    <3>5. \A q \in Procs \ {p} : HashlessFailure(existing'[q])
      BY Zenon, <3>2, <3>3
    <3>6. HashlessFailure(state)'
      BY Zenon, <3>2, <3>3 DEF HashlessFailure
    <3>7. \A q \in Procs : HashlessFailure(existing[q])'
      BY ZenonT(30), <3>4, <3>5 DEF HashlessFailure
    <3> QED BY Zenon, <3>6, <3>7
  <2>2. ASSUME NEW p \in Procs, Save(p) PROVE FailedInv'
    <3>1. \A f \in FQNs : Merged(p, f) # NoEntry /\ Merged(p, f).status = "failed"
                            => Merged(p, f).hash = NoHash
      BY Zenon DEF Merged, Entry
    <3>2. state' = [f \in FQNs |-> Merged(p, f)] /\ existing' = existing
      BY Zenon, <2>2 DEF Save
    <3> QED BY Zenon, <3>1, <3>2
  <2>3. ASSUME NEW p \in Procs, Cancel(p) \/ Unlock(p) \/ Crash(p)
        PROVE  FailedInv'
    <3>1. /\ state' = state
          /\ existing' = [existing EXCEPT ![p] = Nothing]
      BY Zenon, <2>3 DEF Cancel, Unlock, Crash, Nothing, Forget
    <3>2. HashlessFailure(Nothing)
      BY Zenon DEF Nothing
    <3>3. existing'[p] = Nothing /\ \A q \in Procs \ {p} : existing'[q] = existing[q]
      BY Zenon, <3>1
    <3> QED BY <3>1, <3>2, <3>3
  <2>4. CASE UNCHANGED <<state, existing>>
    BY Zenon, <2>4
  <2>5. \/ UNCHANGED <<state, existing>>
        \/ \E p \in Procs : \/ LoadExisting(p) \/ Save(p)
                             \/ Cancel(p) \/ Unlock(p) \/ Crash(p)
    BY DEF Next, vars, Plan, Lock, ApplyCRD, CRDsApplied, CRDFails, ApplyConfig,
           ConfigFails, SaveFails
  <2> QED BY Zenon, <2>1, <2>2, <2>3, <2>4, <2>5
<1>3. TypeInv /\ FailedInv => DriftIffChanges
  <2> SUFFICES ASSUME FailedInv, NEW d \in DesiredSet
               PROVE  DetectDrift(d, state) = Changes(ComputePlan(d, state))
    BY Zenon DEF DriftIffChanges
  <2>1. ASSUME NEW f \in FQNs
        PROVE  f \in DetectDrift(d, state) <=> f \in Changes(ComputePlan(d, state))
    <3>1. d[f] # Gone => d[f] # NoHash
      BY Zenon, ApplyAssumption DEF DesiredSet
    <3> QED BY <3>1 DEF DetectDrift, Changes, ComputePlan, PlanAction, FailedInv,
                        HashlessFailure
  <2> QED BY Zenon, <2>1 DEF DetectDrift, Changes
<1> QED BY <1>1, <1>2, <1>3, TypeInit, TypeStep, PTL DEF Spec

-----------------------------------------------------------------------------
(* A successful apply leaves nothing to do *)

\* One process, whose second Load does not fail: an apply of another process
\* between the plan and the Save, or a reload taken for empty, may leave work.
Alone == /\ \A p, q \in Procs : p = q
         /\ "load" \notin Faults

\* Until it saves, a process's plan is the one it would make now, and it merges
\* the results into the state.
PlanIsFresh ==
    \A p \in Procs :
        /\ pc[p] \in {"planned", "adapter", "load", "save"} => plan[p] = ComputePlan(want[p], state)
        /\ pc[p] = "save" => existing[p] = state

\* The merge of a plan that succeeded makes every resource a no-op.
LEMMA MergeConverges ==
    ASSUME TypeInv, PlanIsFresh, NEW p \in Procs, Save(p), outcome[p] = "success"
    PROVE  Changes(ComputePlan(want[p], state')) = {}
<1> SUFFICES ASSUME NEW f \in FQNs
             PROVE  PlanAction(want[p][f], state'[f]) \notin {"create", "update", "delete"}
  BY Zenon DEF Changes, ComputePlan
<1>1. /\ state'[f] = Merged(p, f) /\ existing[p][f] = state[f]
      /\ plan[p][f] = PlanAction(want[p][f], state[f])
      /\ plan[p][f] \in {"create", "update"} => want[p][f] \in Hashes
  BY Zenon DEF Save, PlanIsFresh, ComputePlan, TypeInv, PlanInv
<1>2. CASE f \notin Changes(plan[p])
  BY Zenon, <1>1, <1>2 DEF Merged, Changes
<1>3. CASE f \in Changes(plan[p]) /\ plan[p][f] = "delete"
  <2>1. want[p][f] = Gone
    BY Zenon, <1>1, <1>3 DEF PlanAction
  <2> QED BY Zenon, <1>1, <1>3, <2>1 DEF Merged, PlanAction
<1>4. CASE f \in Changes(plan[p]) /\ plan[p][f] # "delete"
  <2>1. want[p][f] \in Hashes
    BY Zenon, <1>1, <1>4 DEF Changes
  <2>2. Merged(p, f) = Entry(want[p][f], "applied")
    BY Zenon, <1>4 DEF Merged
  <2>3. /\ Entry(want[p][f], "applied") # NoEntry
        /\ Entry(want[p][f], "applied").hash = want[p][f]
        /\ Entry(want[p][f], "applied").status = "applied"
    BY <2>1, ApplyAssumption DEF Entry
  <2> QED BY Zenon, <1>1, <2>1, <2>2, <2>3, ApplyAssumption DEF PlanAction
<1> QED BY Zenon, <1>2, <1>3, <1>4

\* An apply that reports success has brought the state to what was asked for, so that
\* planning again finds no change (apply.Apply, ComputePlan), whatever failed or was
\* killed before it.
THEOREM ApplyConverges ==
    ASSUME Alone
    PROVE  Spec => []Converged
<1> DEFINE ConvInv == PlanIsFresh /\ Converged
<1>1. Init => ConvInv
  BY Zenon DEF Init, PlanIsFresh, Converged
<1>2. TypeInv /\ ConvInv /\ [Next]_vars => ConvInv'
  <2> SUFFICES ASSUME TypeInv, ConvInv, [Next]_vars PROVE ConvInv'
    BY Zenon
  <2> USE DEF Goto
  <2>1. ASSUME NEW p \in Procs, NEW d \in DesiredSet, Plan(p, d) PROVE ConvInv'
    BY <2>1 DEF Plan, Alone, TypeInv, TypeOK, PlanIsFresh, Converged
  <2>2. ASSUME NEW p \in Procs, Cancel(p) \/ Unlock(p) \/ Crash(p) PROVE ConvInv'
    BY <2>2 DEF Cancel, Unlock, Crash, Alone, TypeInv, TypeOK, PlanIsFresh, Converged
  <2>3. ASSUME NEW p \in Procs, Lock(p) PROVE ConvInv'
    BY Zenon, <2>3 DEF Lock, TypeInv, TypeOK, PlanIsFresh, Converged
  <2>4. ASSUME NEW p \in Procs, NEW f \in FQNs, ApplyCRD(p, f) PROVE ConvInv'
    BY Zenon, <2>4 DEF ApplyCRD, PlanIsFresh, Converged
  <2>5. ASSUME NEW p \in Procs, CRDsApplied(p) \/ CRDFails(p) \/ ApplyConfig(p) \/ ConfigFails(p)
        PROVE  ConvInv'
    BY ZenonT(30), <2>5 DEF CRDsApplied, CRDFails, ApplyConfig, ConfigFails, TypeInv, TypeOK, PlanIsFresh, Converged
  <2>6. ASSUME NEW p \in Procs, LoadExisting(p) PROVE ConvInv'
    BY <2>6 DEF LoadExisting, Alone, TypeInv, TypeOK, PlanIsFresh, Converged
  <2>7. ASSUME NEW p \in Procs, Save(p) PROVE ConvInv'
    <3>1. outcome[p] = "success" => Changes(ComputePlan(want[p], state')) = {}
      BY Zenon, <2>7, MergeConverges
    <3>2. \A q \in Procs : q = p
      BY Zenon DEF Alone
    <3> QED BY Zenon, <2>7, <3>1, <3>2 DEF Save, TypeInv, TypeOK, PlanIsFresh, Converged
  <2>8. ASSUME NEW p \in Procs, SaveFails(p) PROVE ConvInv'
    BY Zenon, <2>8 DEF SaveFails, Alone, TypeInv, TypeOK, PlanIsFresh, Converged
  <2>9. CASE UNCHANGED vars
    BY Zenon, <2>9 DEF vars, PlanIsFresh, Converged
  <2> QED BY Zenon, <2>1, <2>2, <2>3, <2>4, <2>5, <2>6, <2>7, <2>8, <2>9 DEF Next
<1>3. ConvInv => Converged
  BY Zenon
<1> QED BY <1>1, <1>2, <1>3, TypeInit, TypeStep, PTL DEF Spec

-----------------------------------------------------------------------------
(* Packages *)

CONSTANTS Releases, Published, Locks, MaxRuns, MaxFaults
VARIABLES tags, local, cache, run, runs, faults
Reg == INSTANCE Registry

\* A release is a source and a version; the remote has only tags of releases.
RegistryConstants ==
  /\ \A r \in DOMAIN Releases : r = <<r[1], r[2]>> /\ r[2] # ""
  /\ Published \subseteq DOMAIN Releases

Copies == {"none", "torn", "partial", "whole"}
Needed == UNION {Releases[r].deps : r \in DOMAIN Releases}
LockEntry == [source : {r[1] : r \in DOMAIN Releases}, version : {r[2] : r \in DOMAIN Releases},
          hash : (DOMAIN Releases) \X Copies]

RegType ==
  /\ cache \in [DOMAIN Releases -> Copies] /\ tags \subseteq DOMAIN Releases
  /\ DOMAIN run = {"pc", "todo", "item", "seen", "pins", "got"}
  /\ run.todo \in Seq(SUBSET Needed) /\ run.got \in Seq(LockEntry)
  /\ run.pc \in {"clone", "verify"} => run.item \in DOMAIN Releases

\* The releases resolved so far, and the one that is being resolved.
Release(e) == <<e.source, e.version>>
Got == {Release(run.got[i]) : i \in DOMAIN run.got}
Open == IF run.pc \in {"lookup", "git", "clone", "verify"} THEN {run.item} ELSE {}

\* A dependency of what was resolved is resolved, being resolved or still to do.  What
\* the walk will not visit again is resolved or being resolved.  Only the package
\* the command names may lack a version, and it comes first.
WalkInv ==
  /\ \A r \in Got : \A d \in Releases[r].deps :
       d \in Got \cup Open \/ \E i \in DOMAIN run.todo : d \in run.todo[i]
  /\ run.seen \subseteq Got \cup Open
  /\ \A d \in Open : d = <<d[1], d[2]>> /\ (d[2] = "" => run.got = <<>> /\ run.seen = {})
  /\ run.pc = "lock" => DOMAIN run.todo = {}

RegInv == RegType /\ WalkInv

\* A step that touches neither what was resolved nor what is to do.
LEMMA WalkPauses ==
  ASSUME RegInv, RegType', Got' = Got, run'.got = run.got, run'.seen = run.seen, run'.todo = run.todo,
         run'.pc # "lock", Open \subseteq Open', \A d \in Open' : d \in Open
  PROVE  RegInv'
BY Zenon DEF RegInv, WalkInv

\* Nothing is resolved at the start of a command.
LEMMA WalkBegins ==
  ASSUME RegType', run'.got = <<>>, run'.seen = {}, run'.pc # "lock", \A d \in Open' : d = <<d[1], d[2]>>
  PROVE  RegInv'
<1>1. Got' = {}
  BY DEF Got
<1> QED BY <1>1 DEF RegInv, WalkInv

\* No command runs.
LEMMA WalkStops ==
  ASSUME RegType, cache' \in [DOMAIN Releases -> Copies], tags' \subseteq DOMAIN Releases, run' = Reg!Idle
  PROVE  RegInv'
<1>1. /\ DOMAIN run' = {"pc", "todo", "item", "seen", "pins", "got"} /\ run'.todo = <<>> /\ run'.got = <<>>
      /\ run'.seen = {} /\ run'.pc = "idle"
  BY Zenon DEF Reg!Idle
<1>2. RegType' /\ Open' = {}
  BY <1>1 DEF RegType, Open
<1> QED BY Zenon, <1>1, <1>2, WalkBegins

\* A command begins.
LEMMA WalkInstalls ==
  ASSUME RegType, NEW s, NEW t, Reg!Install(s, t)
  PROVE  RegInv'
<1>1. /\ DOMAIN run' = {"pc", "todo", "item", "seen", "pins", "got"} /\ run'.todo = <<>> /\ run'.got = <<>>
      /\ run'.seen = {} /\ run'.pc = "lookup" /\ run'.item = <<s, t>> /\ cache' = cache /\ tags' = tags
  BY DEF Reg!Install, Reg!Begin, Reg!Idle
<1>2. RegType' /\ Open' = {<<s, t>>}
  BY <1>1 DEF RegType, Open
<1> QED BY <1>1, <1>2, WalkBegins

\* A release is found: it is resolved, and its dependencies are to do.
LEMMA WalkFinds ==
  ASSUME RegistryConstants, RegInv, Open = {run.item}, run.item \in DOMAIN Releases, Reg!Found(run.item),
         cache' = cache, tags' = tags
  PROVE  RegInv'
<1> DEFINE r == run.item
           e == [source |-> r[1], version |-> r[2], hash |-> Reg!Hash(r)]
<1>1. /\ DOMAIN run' = DOMAIN run /\ run'.pc = "deps" /\ run'.seen = run.seen
      /\ run'.todo = Append(run.todo, Releases[r].deps) /\ run'.got = Append(run.got, e)
  BY DEF Reg!Found, RegInv, RegType
<1>2. Reg!Hash(r) \in (DOMAIN Releases) \X Copies
  BY DEF Reg!Hash, RegInv, RegType
<1>3. e \in LockEntry /\ Release(e) = r
  BY <1>2 DEF LockEntry, RegistryConstants, Release
<1>4. Releases[r].deps \in SUBSET Needed
  BY DEF Needed
<1> HIDE DEF e
<1>5. run.todo \in Seq(SUBSET Needed) /\ run.got \in Seq(LockEntry)
  BY DEF RegInv, RegType
<1>6. RegType'
  BY <1>1, <1>3, <1>4, <1>5 DEF RegInv, RegType
<1>7. Open' = {}
  BY Zenon, <1>1 DEF Open
<1>8. Got' = Got \cup {r}
  <2>1. Len(run.got) \in Nat /\ DOMAIN run.got = 1 .. Len(run.got) /\ DOMAIN run'.got = 1 .. Len(run.got) + 1
    BY <1>1, <1>3, <1>5
  <2>2. /\ \A i \in 1 .. Len(run.got) : run'.got[i] = run.got[i]
        /\ run'.got[Len(run.got) + 1] = e
    BY <1>1, <1>3, <1>5
  <2>3. \A x \in Got' : x \in Got \cup {r}
    BY <1>3, <2>1, <2>2 DEF Got
  <2>4. \A x \in Got \cup {r} : x \in Got'
    BY <1>3, <2>1, <2>2 DEF Got
  <2> QED BY <2>3, <2>4
<1>9. /\ \A i \in DOMAIN run.todo : i \in DOMAIN run'.todo /\ run'.todo[i] = run.todo[i]
      /\ \E i \in DOMAIN run'.todo : run'.todo[i] = Releases[r].deps
  <2> DEFINE D == Releases[r].deps
  <2> HIDE DEF D
  <2>1. /\ Len(run.todo) \in Nat /\ DOMAIN run.todo = 1 .. Len(run.todo)
        /\ DOMAIN Append(run.todo, D) = 1 .. Len(run.todo) + 1
    BY <1>5
  <2>2. /\ \A i \in 1 .. Len(run.todo) : Append(run.todo, D)[i] = run.todo[i]
        /\ Append(run.todo, D)[Len(run.todo) + 1] = D
    BY <1>5
  <2>3. run'.todo = Append(run.todo, D)
    BY <1>1 DEF D
  <2>4. \A i \in DOMAIN run.todo : i \in DOMAIN run'.todo /\ run'.todo[i] = run.todo[i]
    BY <2>1, <2>2, <2>3
  <2>5. \E i \in DOMAIN run'.todo : run'.todo[i] = D
    BY <2>1, <2>2, <2>3
  <2> QED BY <2>4, <2>5 DEF D
<1>10. \A q \in Got' : \A d \in Releases[q].deps : d \in Got' \/ \E i \in DOMAIN run'.todo : d \in run'.todo[i]
  BY <1>8, <1>9 DEF RegInv, WalkInv
<1>11. run'.seen \subseteq Got'
  BY <1>1, <1>8 DEF RegInv, WalkInv
<1> QED BY Zenon, <1>1, <1>6, <1>7, <1>10, <1>11 DEF RegInv, WalkInv

\* The cache is asked, then the lock file: an item with a version stays itself.
LEMMA WalkLooks ==
  ASSUME RegistryConstants, RegInv, Reg!Lookup
  PROVE  RegInv'
<1>1. Open = {run.item} /\ cache' = cache /\ tags' = tags /\ run.pc = "lookup"
  BY DEF Reg!Lookup, Open
<1>2. CASE Reg!HasManifest(run.item) /\ Releases[run.item].valid
  <2>1. Reg!Found(run.item)
    BY <1>2 DEF Reg!Lookup
  <2>2. run.item \in DOMAIN Releases
    BY <1>2 DEF Reg!HasManifest, RegInv, RegType
  <2> QED BY <1>1, <2>1, <2>2, WalkFinds
<1>3. CASE ~(Reg!HasManifest(run.item) /\ Releases[run.item].valid)
  <2>1. run' = IF Reg!Pinned(run.item)[2] = "" THEN Reg!Idle
               ELSE [run EXCEPT !.pc = "git", !.item = Reg!Pinned(@)]
    BY <1>3 DEF Reg!Lookup
  <2>2. CASE Reg!Pinned(run.item)[2] = ""
    BY <1>1, <2>1, <2>2, WalkStops DEF RegInv, RegType
  <2>3. CASE Reg!Pinned(run.item)[2] # ""
    <3>1. /\ DOMAIN run' = DOMAIN run /\ run'.pc = "git" /\ run'.item = Reg!Pinned(run.item)
          /\ run'.todo = run.todo /\ run'.seen = run.seen /\ run'.got = run.got
      BY <2>1, <2>3 DEF RegInv, RegType
    <3>2. RegType' /\ Open' = {Reg!Pinned(run.item)} /\ Got' = Got
      BY <1>1, <3>1 DEF RegInv, RegType, Open, Got
    <3>3. run.item = <<run.item[1], run.item[2]>>
      BY <1>1 DEF RegInv, WalkInv
    <3>4. CASE run.item[2] # ""
      <4>1. Reg!Pinned(run.item) = run.item
        BY <3>3, <3>4 DEF Reg!Pinned
      <4> QED BY <1>1, <3>1, <3>2, <4>1, WalkPauses
    <3>5. CASE run.item[2] = ""
      <4>1. run'.got = <<>> /\ run'.seen = {}
        BY <1>1, <3>1, <3>5 DEF RegInv, WalkInv
      <4>2. Reg!Pinned(run.item) = <<Reg!Pinned(run.item)[1], Reg!Pinned(run.item)[2]>>
        BY <3>3 DEF Reg!Pinned
      <4> QED BY <3>1, <3>2, <4>1, <4>2, WalkBegins
    <3> QED BY <3>4, <3>5
  <2> QED BY <2>2, <2>3
<1> QED BY <1>2, <1>3

\* An item on its way through the Git resolver, or the command given up.
LEMMA WalkFetches ==
  ASSUME RegInv, run.pc \in {"git", "clone"}, cache' \in [DOMAIN Releases -> Copies], tags' = tags,
         NEW p \in {"clone", "verify"}, run.item \in DOMAIN Releases,
         run' \in {[run EXCEPT !.pc = p], run, Reg!Idle}
  PROVE  RegInv'
<1>1. CASE run' = Reg!Idle
  BY <1>1, WalkStops DEF RegInv, RegType
<1>2. CASE run' \in {[run EXCEPT !.pc = p], run}
  <2>1. /\ DOMAIN run' = DOMAIN run /\ run'.pc \in {p, run.pc} /\ run'.item = run.item
        /\ run'.todo = run.todo /\ run'.seen = run.seen /\ run'.got = run.got
    BY <1>2 DEF RegInv, RegType
  <2>2. RegType' /\ Open' = {run.item} /\ Open = {run.item} /\ Got' = Got
    BY <2>1 DEF RegInv, RegType, Open, Got
  <2> QED BY <2>1, <2>2, WalkPauses
<1> QED BY <1>1, <1>2

\* The Git resolver starts.
LEMMA WalkClones ==
  ASSUME RegInv, Reg!Git \/ Reg!Clone \/ Reg!ReadManifest
  PROVE  RegInv'
<1>1. cache \in [DOMAIN Releases -> Copies] /\ tags \subseteq DOMAIN Releases
  BY Zenon DEF RegInv, RegType
<1>2. CASE Reg!Git
  <2>1. CASE Reg!HasManifest(run.item)
    <3>1. run.item \in DOMAIN Releases
      BY <1>1, <2>1 DEF Reg!HasManifest
    <3>2. run.pc \in {"git", "clone"} /\ cache' = cache /\ tags' = tags
          /\ run' \in {[run EXCEPT !.pc = "verify"], run, Reg!Idle}
      BY <1>2, <2>1 DEF Reg!Git
    <3> QED BY <1>1, <3>1, <3>2, WalkFetches
  <2>2. CASE ~Reg!HasManifest(run.item) /\ run.item \in tags /\ cache[run.item] = "none"
    <3>1. run.item \in DOMAIN Releases
      BY <1>1, <2>2
    <3>2. run.pc \in {"git", "clone"} /\ cache' = [cache EXCEPT ![run.item] = "torn"] /\ tags' = tags
          /\ run' \in {[run EXCEPT !.pc = "clone"], run, Reg!Idle}
      BY <1>2, <2>2 DEF Reg!Git
    <3>3. cache' \in [DOMAIN Releases -> Copies]
      BY <1>1, <3>2 DEF Copies
    <3> QED BY <3>1, <3>2, <3>3, WalkFetches
  <2>3. CASE ~Reg!HasManifest(run.item) /\ ~(run.item \in tags /\ cache[run.item] = "none")
    BY <1>1, <1>2, <2>3, WalkStops DEF Reg!Git, RegInv
  <2> QED BY <2>1, <2>2, <2>3
<1>3. CASE Reg!Clone
  <2>1. run.pc = "clone" /\ run.item \in DOMAIN Releases
    BY <1>3 DEF Reg!Clone, RegInv, RegType
  <2>2. cache' \in [DOMAIN Releases -> Copies] /\ tags' = tags /\ run' = run
    BY <1>1, <1>3 DEF Reg!Clone, Copies
  <2> QED BY <2>1, <2>2, WalkFetches
<1>4. CASE Reg!ReadManifest
  <2>1. run.pc = "clone" /\ run.item \in DOMAIN Releases
    BY <1>4 DEF Reg!ReadManifest, RegInv, RegType
  <2>2. cache' = cache /\ tags' = tags /\ run' \in {[run EXCEPT !.pc = "verify"], run, Reg!Idle}
    BY <1>4 DEF Reg!ReadManifest
  <2> QED BY <1>1, <2>1, <2>2, WalkFetches
<1> QED BY <1>2, <1>3, <1>4

\* The checksum is compared.
LEMMA WalkVerifies ==
  ASSUME RegistryConstants, RegInv, Reg!Verify
  PROVE  RegInv'
<1>1. Open = {run.item} /\ run.item \in DOMAIN Releases /\ cache' = cache /\ tags' = tags
  BY Zenon DEF Reg!Verify, Open, RegInv, RegType
<1>2. Reg!Found(run.item) \/ run' = Reg!Idle
  BY Zenon DEF Reg!Verify
<1>3. CASE run' = Reg!Idle
  BY <1>1, <1>3, WalkStops DEF RegInv, RegType
<1> QED BY <1>1, <1>2, <1>3, WalkFinds

\* The last element and what is in front of it.
LEMMA LastAndFront ==
  ASSUME NEW S, NEW q \in Seq(S), q # <<>>
  PROVE  /\ Len(q) \in Nat /\ Len(q) > 0 /\ DOMAIN q = 1 .. Len(q) /\ Reg!Last(q) = q[Len(q)]
         /\ Reg!Front(q) \in Seq(S) /\ Len(Reg!Front(q)) = Len(q) - 1
         /\ \A i \in 1 .. Len(q) - 1 : Reg!Front(q)[i] = q[i]
<1>1. Len(q) \in Nat /\ DOMAIN q = 1 .. Len(q) /\ Reg!Last(q) = q[Len(q)]
  BY DEF Reg!Last
<1>2. Len(q) > 0
  BY <1>1
<1>3. Len(q) - 1 \in Nat /\ \A i \in 1 .. Len(q) - 1 : q[i] \in S
  BY <1>1, <1>2
<1>4. Reg!Front(q) = [i \in 1 .. Len(q) - 1 |-> q[i]]
  BY <1>1, <1>2 DEF Reg!Front
<1>5. Reg!Front(q) \in Seq(S) /\ Len(Reg!Front(q)) = Len(q) - 1
  BY <1>3, <1>4
<1> QED BY <1>1, <1>2, <1>4, <1>5

\* A dependency is taken up, or was before.
LEMMA WalkTakes ==
  ASSUME RegistryConstants, RegInv, NEW d \in DOMAIN Releases, Reg!ResolveDependencies(d)
  PROVE  RegInv'
<1> DEFINE n == Len(run.todo)
           L == Reg!Last(run.todo) \ {d}
           rest == Append(Reg!Front(run.todo), L)
           left == [run EXCEPT !.todo = Append(Reg!Front(@), Reg!Last(@) \ {d})]
<1>1. run.todo \in Seq(SUBSET Needed) /\ run.todo # <<>> /\ run.pc = "deps" /\ cache' = cache /\ tags' = tags
  BY DEF Reg!ResolveDependencies, RegInv, RegType
<1>2. /\ n \in Nat /\ n > 0 /\ DOMAIN run.todo = 1 .. n /\ Reg!Last(run.todo) = run.todo[n]
      /\ Reg!Front(run.todo) \in Seq(SUBSET Needed) /\ Len(Reg!Front(run.todo)) = n - 1
      /\ \A i \in 1 .. n - 1 : Reg!Front(run.todo)[i] = run.todo[i]
  BY <1>1, LastAndFront
<1>3. L \in SUBSET Needed
  BY <1>1, <1>2
<1>4. /\ run' = IF d \notin run.seen THEN [left EXCEPT !.pc = "lookup", !.item = d, !.seen = @ \cup {d}] ELSE left
      /\ left.todo = rest /\ left.seen = run.seen /\ left.got = run.got /\ left.pc = run.pc
      /\ DOMAIN left = DOMAIN run
  BY Zenon DEF Reg!ResolveDependencies, Reg!NextDependency, RegInv, RegType
<1> HIDE DEF left
<1>5. /\ run'.todo = rest /\ run'.got = run.got /\ DOMAIN run' = DOMAIN run
      /\ d \notin run.seen => run'.pc = "lookup" /\ run'.item = d /\ run'.seen = run.seen \cup {d}
      /\ d \in run.seen => run'.pc = "deps" /\ run'.seen = run.seen
  BY <1>1, <1>4 DEF RegInv, RegType
<1> HIDE DEF L
<1>6. rest \in Seq(SUBSET Needed) /\ DOMAIN rest = 1 .. n /\ rest[n] = L
      /\ \A i \in 1 .. n - 1 : rest[i] = run.todo[i]
  BY <1>2, <1>3
<1> HIDE DEF rest
<1>7. RegType'
  BY <1>1, <1>5, <1>6 DEF RegInv, RegType
<1>8. Got' = Got /\ Open = {} /\ (d \notin run.seen => Open' = {d}) /\ (d \in run.seen => Open' = {})
  BY <1>1, <1>5 DEF Got, Open
<1>9. \A i \in DOMAIN run.todo : \A x \in run.todo[i] : x = d \/ \E j \in DOMAIN rest : x \in rest[j]
  <2> SUFFICES ASSUME NEW i \in 1 .. n, NEW x \in run.todo[i], x # d
               PROVE  x \in rest[i]
    BY <1>2, <1>6
  <2>1. CASE i = n
    BY <1>2, <1>6, <2>1 DEF L
  <2>2. CASE i # n
    BY <1>2, <1>6, <2>2
  <2> QED BY <2>1, <2>2
<1>10. d \in Got' \cup Open' /\ run'.seen \subseteq Got' \cup Open'
  BY Zenon, <1>5, <1>8 DEF RegInv, WalkInv
<1>11. \A r \in Got' : \A x \in Releases[r].deps :
         x \in Got' \cup Open' \/ \E i \in DOMAIN run'.todo : x \in run'.todo[i]
  BY <1>5, <1>8, <1>9, <1>10 DEF RegInv, WalkInv
<1>12. \A x \in Open' : x = <<x[1], x[2]>> /\ x[2] # ""
  BY <1>8 DEF RegistryConstants
<1> QED BY <1>1, <1>5, <1>7, <1>10, <1>11, <1>12 DEF RegInv, WalkInv

\* A release all of whose dependencies were taken up.
LEMMA WalkReturns ==
  ASSUME RegInv, Reg!Return
  PROVE  RegInv'
<1> DEFINE n == Len(run.todo)
           rest == Reg!Front(run.todo)
<1>1. run.todo \in Seq(SUBSET Needed) /\ run.todo # <<>> /\ run.pc = "deps" /\ cache' = cache /\ tags' = tags
  BY Zenon DEF Reg!Return, RegInv, RegType
<1>2. /\ n \in Nat /\ n > 0 /\ DOMAIN run.todo = 1 .. n /\ run.todo[n] = {}
      /\ rest \in Seq(SUBSET Needed) /\ Len(rest) = n - 1
      /\ \A i \in 1 .. n - 1 : rest[i] = run.todo[i]
  BY <1>1, LastAndFront DEF Reg!Return
<1>3. /\ run'.todo = rest /\ run'.got = run.got /\ run'.seen = run.seen /\ DOMAIN run' = DOMAIN run
      /\ run'.pc = IF n = 1 THEN "lock" ELSE "deps"
  BY <1>1 DEF Reg!Return, RegInv, RegType
<1> HIDE DEF rest
<1>4. RegType' /\ Got' = Got /\ Open = {} /\ Open' = {}
  BY <1>1, <1>2, <1>3 DEF RegInv, RegType, Got, Open
<1>5. DOMAIN rest = 1 .. n - 1 /\ (n = 1 => DOMAIN rest = {})
  <2>1. rest \in Seq(SUBSET Needed)
    BY <1>2
  <2>2. DOMAIN rest = 1 .. Len(rest)
    BY <2>1
  <2>3. Len(rest) = n - 1
    BY <1>2
  <2>4. DOMAIN rest = 1 .. n - 1
    BY <2>2, <2>3, Zenon
  <2>5. ASSUME n = 1 PROVE DOMAIN rest = {}
    <3>1. n - 1 = 0 /\ 1 .. 0 = {}
      BY <2>5
    <3> QED BY <2>4, <3>1, Zenon
  <2> QED BY Zenon, <2>4, <2>5
<1>6. \A i \in DOMAIN run.todo : \A x \in run.todo[i] : \E j \in DOMAIN rest : x \in rest[j]
  <2> SUFFICES ASSUME NEW i \in 1 .. n, NEW x \in run.todo[i]
               PROVE  i \in 1 .. n - 1 /\ x \in rest[i]
    BY Zenon, <1>2, <1>5
  <2> QED BY <1>2
<1>7. \A r \in Got' : \A x \in Releases[r].deps : x \in Got' \/ \E i \in DOMAIN run'.todo : x \in run'.todo[i]
  BY <1>3, <1>4, <1>6 DEF RegInv, WalkInv
<1>8. run'.seen \subseteq Got' /\ (run'.pc = "lock" => DOMAIN run'.todo = {})
  BY <1>3, <1>4, <1>5 DEF RegInv, WalkInv
<1> QED BY <1>4, <1>7, <1>8 DEF RegInv, WalkInv

\* An install that comes to write the lock file has resolved, in the versions asked
\* for, every dependency of everything it resolved, in whatever order the map of
\* dependencies is walked, from the cache, a clone or a pinned version, with cycles
\* and with commands killed before (ResolveDependencies of
\* internal/registry/client.go).
THEOREM InstallsAreClosed ==
  ASSUME RegistryConstants
  PROVE  Reg!Spec => []Reg!WalkIsClosed
<1>1. Reg!Init => RegInv
  <2> SUFFICES ASSUME Reg!Init PROVE RegInv
    OBVIOUS
  <2>1. cache \in [DOMAIN Releases -> Copies] /\ tags \subseteq DOMAIN Releases
    BY DEF Reg!Init, Copies, RegistryConstants
  <2>2. /\ DOMAIN run = {"pc", "todo", "item", "seen", "pins", "got"} /\ run.todo = <<>> /\ run.got = <<>>
        /\ run.seen = {} /\ run.pc = "idle"
    BY DEF Reg!Init, Reg!Idle
  <2>3. RegType /\ Got = {} /\ Open = {}
    BY <2>1, <2>2 DEF RegType, Got, Open
  <2> QED BY <2>2, <2>3 DEF RegInv, WalkInv
<1>2. RegInv /\ [Reg!Next]_Reg!vars => RegInv'
  <2> SUFFICES ASSUME RegInv, [Reg!Next]_Reg!vars PROVE RegInv'
    OBVIOUS
  <2>0. cache \in [DOMAIN Releases -> Copies] /\ tags \subseteq DOMAIN Releases /\ RegType
    BY DEF RegInv, RegType
  <2>1. CASE \E r \in DOMAIN Releases, unversioned \in BOOLEAN :
               Reg!Install(r[1], IF unversioned THEN "" ELSE r[2])
    BY <2>0, <2>1, WalkInstalls
  <2>2. CASE Reg!UpdateLockFile
    BY <2>0, <2>2, WalkStops DEF Reg!UpdateLockFile
  <2>3. CASE Reg!Kill
    BY <2>0, <2>3, WalkStops DEF Reg!Kill
  <2>4. ASSUME NEW r \in DOMAIN Releases, NEW fails \in BOOLEAN, Reg!Publish(r, fails)
        PROVE  RegInv'
    BY <2>0, <2>4, WalkStops DEF Reg!Publish, Reg!Begin
  <2>5. CASE Reg!Lookup
    BY <2>5, WalkLooks
  <2>6. CASE Reg!Git \/ Reg!Clone \/ Reg!ReadManifest
    BY <2>6, WalkClones
  <2>7. CASE Reg!Verify
    BY Zenon, <2>7, WalkVerifies
  <2>8. CASE \E d \in DOMAIN Releases : Reg!ResolveDependencies(d)
    BY <2>8, WalkTakes
  <2>9. CASE Reg!Return
    BY <2>9, WalkReturns
  <2>10. CASE UNCHANGED Reg!vars
    <3>1. cache' = cache /\ tags' = tags /\ run' = run
      BY <2>10 DEF Reg!vars
    <3>2. Got' = Got /\ Open' = Open /\ RegType'
      BY <2>0, <3>1 DEF RegType, Got, Open
    <3> QED BY <3>1, <3>2 DEF RegInv, WalkInv
  <2> QED BY Zenon, <2>1, <2>2, <2>3, <2>4, <2>5, <2>6, <2>7, <2>8, <2>9, <2>10 DEF Reg!Next
<1>3. RegInv => Reg!WalkIsClosed
  <2> SUFFICES ASSUME RegInv, run.pc = "lock"
               PROVE  \A r \in Got : Releases[r].deps \subseteq Got
    <3>1. Got = {<<e.source, e.version>> : e \in Reg!ToSet(run.got)}
      BY Zenon DEF Got, Release, Reg!ToSet
    <3> QED BY <3>1 DEF Reg!WalkIsClosed
  <2>1. Open = {} /\ DOMAIN run.todo = {}
    BY Zenon DEF Open, RegInv, WalkInv
  <2> QED BY <2>1 DEF RegInv, WalkInv
<1> QED BY <1>1, <1>2, <1>3, PTL DEF Reg!Spec
=============================================================================
