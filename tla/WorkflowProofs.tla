--------------------------- MODULE WorkflowProofs ---------------------------
(***************************************************************************)
(* The Workflow reconciler, for every workflow, with lagging caches,       *)
(* failing creates and restarts: it is type correct; no task is created    *)
(* before those of its dependencies have completed; and what the status    *)
(* reports is right (a step that Succeeded has a completed task, a         *)
(* workflow that is Completed has one for every step, and one that is      *)
(* Failed was rejected or has a task that timed out).                      *)
(***************************************************************************)
EXTENDS WorkflowController, TLAPS

USE DEF Terminal, Ended

\* A status is a record of a phase and the phases of the steps.
LEMMA StatusType ==
    ASSUME NEW ph \in {"new", "Running"} \cup Terminal, NEW st \in [Names -> Phases]
    PROVE  /\ Status(ph, st) \in StatusSet
           /\ Status(ph, st).phase = ph /\ Status(ph, st).step = st
  BY Zenon DEF Status, StatusSet

\* The parts of a status.
LEMMA StatusParts ==
    ASSUME NEW x \in StatusSet
    PROVE  /\ x.phase \in {"new", "Running"} \cup Terminal
           /\ x.step \in [Names -> Phases]
  BY Zenon DEF StatusSet

\* A status and the tasks before anything is known of a step.
LEMMA UntrackedType == /\ Untracked \in [Names -> Phases]
                       /\ Untracked \in [Names -> TaskPhases]
  BY Zenon DEF Untracked, Phases, TaskPhases

\* setStepStatus changes the phase of one step.
LEMMA SetStepType ==
    ASSUME TypeOK, NEW s \in Names, NEW ph \in Phases, SetStep(s, ph)
    PROVE  /\ view' \in StatusSet
           /\ view'.step = [view.step EXCEPT ![s] = ph]
<1>1. view.step \in [Names -> Phases]
  BY Zenon, StatusParts DEF TypeOK
<1> QED BY Zenon, <1>1 DEF SetStep, TypeOK, StatusSet

\* Creating a task leaves the tasks typed.
LEMMA CreateTaskType ==
    ASSUME TypeOK, NEW s \in Names, CreateTask(s)
    PROVE  task' \in [Names -> TaskPhases]
  BY Zenon DEF CreateTask, TypeOK, TaskPhases

\* The step that the loop looks at, and the finally step.
LEMMA Looked ==
    ASSUME TypeOK
    PROVE  /\ pc = "step" => Steps[at] \in Main /\ Steps[at] \in Names
           /\ pc = "finally" /\ at <= Len(Finally) => Finally[at] \in Last /\ Finally[at] \in Names
  BY WorkflowAssumption DEF TypeOK, Main, Last, Names

\* What the registers of a Reconcile that ended hold is well typed.
LEMMA IdleType ==
    ASSUME TypeOK, Idle
    PROVE  /\ pc' = "idle" /\ at' \in 1 .. Len(Finally) + 1
           /\ snap' \in [Names -> Phases] /\ view' \in StatusSet
           /\ anyFailed' \in BOOLEAN /\ allDone' \in BOOLEAN /\ requeue' \in BOOLEAN
<1>1. Status("new", Untracked) \in StatusSet
  BY Zenon, StatusType, UntrackedType
<1>2. 1 \in 1 .. Len(Finally) + 1
  BY WorkflowAssumption
<1> QED BY Zenon, <1>1, <1>2, UntrackedType DEF Idle

\* One iteration of the loop keeps the registers well typed.
LEMMA StepType ==
    ASSUME TypeOK, NEW s \in Names,
           \/ StepEnded(s) \/ StepSkipped(s) \/ StepBlocked(s)
           \/ StepCreate(s) \/ StepCheck(s)
    PROVE  /\ view' \in StatusSet /\ task' \in [Names -> TaskPhases]
           /\ anyFailed' \in BOOLEAN /\ allDone' \in BOOLEAN /\ requeue' \in BOOLEAN
<1>1. CASE StepEnded(s)
  BY Zenon, <1>1 DEF StepEnded, TypeOK
<1>2. CASE StepSkipped(s)
  <2>1. SetStep(s, "Failed") /\ "Failed" \in Phases
    BY Zenon, <1>2 DEF StepSkipped, Phases
  <2> QED BY Zenon, <1>2, <2>1, SetStepType DEF StepSkipped, TypeOK
<1>3. CASE StepBlocked(s)
  <2>1. SetStep(s, "Failed") => view' \in StatusSet
    BY Zenon, SetStepType DEF Phases
  <2> QED BY Zenon, <1>3, <2>1 DEF StepBlocked, TypeOK
<1>4. CASE StepCreate(s)
  <2>1. SetStep(s, "Running") /\ "Running" \in Phases /\ CreateTask(s)
    BY Zenon, <1>4 DEF StepCreate, Phases
  <2> QED BY Zenon, <1>4, <2>1, SetStepType, CreateTaskType DEF StepCreate, TypeOK
<1>5. CASE StepCheck(s)
  <2>1. Result(s) \in Phases
    BY Zenon DEF Result, Phases
  <2>2. SetStep(s, Result(s)) => view' \in StatusSet
    BY Zenon, <2>1, SetStepType
  <2> QED BY Zenon, <1>5, <2>2 DEF StepCheck, TypeOK
<1> QED BY Zenon, <1>1, <1>2, <1>3, <1>4, <1>5

\* Checking the tasks of the steps leaves phases.
LEMMA CheckedType ==
    ASSUME NEW st \in [Names -> Phases]
    PROVE  Checked(st) \in [Names -> Phases]
  BY Zenon DEF Checked, Result, Phases

\* The initial state is typed.
LEMMA TypeInit == Init => TypeOK
<1> SUFFICES ASSUME Init PROVE TypeOK
  BY Zenon
<1>1. Status("new", Untracked) \in StatusSet
  BY Zenon, StatusType, UntrackedType
<1>2. 1 \in 1 .. Len(Finally) + 1 /\ 0 \in 0 .. MaxFaults
  BY WorkflowAssumption
<1>3. deps \in [Main -> Seq(Names)]
  BY Zenon, WorkflowAssumption DEF Init
<1> QED BY Zenon, <1>1, <1>2, <1>3, UntrackedType DEF Init, TypeOK

\* A fault is counted, up to its bound.
LEMMA FaultType == ASSUME TypeOK, NEW f, Fault(f) PROVE faults' \in 0 .. MaxFaults
  BY WorkflowAssumption DEF Fault, TypeOK

\* Every step of the reconciler, the tasks and the faults keeps the types.
LEMMA TypeStep == TypeOK /\ [Next]_vars => TypeOK'
<1> SUFFICES ASSUME TypeOK, [Next]_vars PROVE TypeOK'
  BY Zenon
<1>1. CASE Skip
  BY Zenon, <1>1 DEF Skip, TypeOK, pass, spec
<1>2. CASE Reject
  <2>1. Status("Failed", Untracked) \in StatusSet
    BY Zenon, StatusType, UntrackedType
  <2>2. obj' \in StatusSet /\ synced' \in BOOLEAN
    BY Zenon, <1>2, <2>1 DEF Reject, Update
  <2> QED BY Zenon, <1>2, <2>2 DEF Reject, TypeOK, pass, spec
<1>3. CASE Start
  <2> DEFINE st == [s \in Names |-> IF s \in Main THEN "Pending" ELSE "none"]
  <2>1. Status("Running", st) \in StatusSet
    <3>1. st \in [Names -> Phases]
      BY Zenon DEF Phases
    <3> QED BY Zenon, <3>1, StatusType
  <2>2. obj' \in StatusSet /\ synced' \in BOOLEAN
    BY Zenon, <1>3, <2>1 DEF Start, Update, Conflict, TypeOK
  <2> QED BY Zenon, <1>3, <2>2 DEF Start, TypeOK, pass, spec
<1>4. CASE Begin
  <2>1. cache.step \in [Names -> Phases]
    BY Zenon, StatusParts DEF TypeOK
  <2>2. 1 \in 1 .. Len(Steps)
    BY WorkflowAssumption
  <2> QED BY Zenon, <1>4, <2>1, <2>2 DEF Begin, TypeOK, spec
<1>5. CASE Step
  <2>1. Steps[at] \in Names
    BY Zenon, <1>5, Looked DEF Step
  <2>2. /\ view' \in StatusSet /\ task' \in [Names -> TaskPhases]
        /\ anyFailed' \in BOOLEAN /\ allDone' \in BOOLEAN /\ requeue' \in BOOLEAN
    BY Zenon, <1>5, <2>1, StepType DEF Step
  <2>3. /\ pc' \in {"step", "finally"}
        /\ at' \in 1 .. IF pc' = "step" THEN Len(Steps) ELSE Len(Finally) + 1
    <3>1. pc = "step" /\ Advance
      BY Zenon, <1>5 DEF Step
    <3>2. at \in 1 .. Len(Steps)
      BY Zenon, <3>1 DEF TypeOK
    <3>3. CASE at = Len(Steps)
      BY <3>1, <3>3, WorkflowAssumption DEF Advance
    <3>4. CASE at # Len(Steps)
      <4>1. at' = at + 1 /\ pc' = "step"
        BY Zenon, <3>1, <3>4 DEF Advance
      <4>2. Len(Steps) \in Nat
        BY Zenon, WorkflowAssumption
      <4>3. at + 1 \in 1 .. Len(Steps)
        BY <3>2, <3>4, <4>2
      <4> QED BY Zenon, <4>1, <4>3
    <3> QED BY Zenon, <3>3, <3>4
  <2> QED BY Zenon, <1>5, <2>2, <2>3 DEF Step, TypeOK, spec
<1>6. CASE CreateFails
  <2>1. Idle /\ faults' \in 0 .. MaxFaults
    BY Zenon, <1>6, FaultType DEF CreateFails
  <2> QED BY Zenon, <1>6, <2>1, IdleType DEF CreateFails, TypeOK, spec
<1>7. CASE FinallyStep
  <2> DEFINE s == Finally[at]
  <2>1. s \in Names
    BY Zenon, <1>7, Looked DEF FinallyStep
  <2>2. /\ view' \in StatusSet /\ task' \in [Names -> TaskPhases]
        /\ faults' \in 0 .. MaxFaults
    <3>1. SetStep(s, "Running") => view' \in StatusSet
      BY Zenon, <2>1, SetStepType DEF Phases
    <3>2. CreateTask(s) => task' \in [Names -> TaskPhases]
      BY Zenon, <2>1, CreateTaskType
    <3>3. Fault("create") => faults' \in 0 .. MaxFaults
      BY Zenon, FaultType
    <3> QED BY Zenon, <1>7, <3>1, <3>2, <3>3 DEF FinallyStep, TypeOK
  <2>3. pc' = "finally" /\ at' \in 1 .. Len(Finally) + 1
    BY <1>7, WorkflowAssumption DEF FinallyStep, TypeOK
  <2> QED BY Zenon, <1>7, <2>2, <2>3 DEF FinallyStep, TypeOK, spec
<1>8. CASE Outcome
  <2> DEFINE st == IF RunFinally THEN Checked(view.step) ELSE view.step
             ph == IF ~AllStepsDone(st) THEN view.phase
                   ELSE IF anyFailed THEN "Failed" ELSE "Completed"
  <2>1. st \in [Names -> Phases] /\ ph \in {"new", "Running"} \cup Terminal
    BY Zenon, StatusParts, CheckedType DEF TypeOK
  <2>2. Status(ph, st) \in StatusSet
    BY Zenon, <2>1, StatusType
  <2>3. view' = Status(ph, st) /\ requeue' \in BOOLEAN
    BY Zenon, <1>8 DEF Outcome
  <2>4. pc' = "write" /\ at' \in 1 .. Len(Finally) + 1
    BY Zenon, <1>8 DEF Outcome, TypeOK
  <2> QED BY Zenon, <1>8, <2>2, <2>3, <2>4 DEF Outcome, TypeOK, spec
<1>9. CASE Write
  <2>1. obj' \in StatusSet /\ synced' \in BOOLEAN /\ queued' \in BOOLEAN
    BY Zenon, <1>9 DEF Write, Update, Conflict, TypeOK
  <2>2. Idle
    BY Zenon, <1>9 DEF Write
  <2> QED BY Zenon, <1>9, <2>1, <2>2, IdleType DEF Write, TypeOK, spec
<1>10. CASE Sync
  BY Zenon, <1>10 DEF Sync, TypeOK, pass, spec
<1>11. CASE Restart
  <2>1. Idle /\ faults' \in 0 .. MaxFaults
    BY Zenon, <1>11, FaultType DEF Restart
  <2> QED BY Zenon, <1>11, <2>1, IdleType DEF Restart, TypeOK, spec
<1>12. ASSUME NEW s \in Names, SyncTask(s) PROVE TypeOK'
  BY Zenon, <1>12 DEF SyncTask, TypeOK, pass, spec
<1>13. ASSUME NEW s \in Names, TaskReconcile(s) PROVE TypeOK'
  <2>1. task' \in [Names -> TaskPhases]
    BY Zenon, <1>13 DEF TaskReconcile, TaskStart, TaskComplete, TaskTimeout, TaskGoes,
                 TypeOK, TaskPhases
  <2> QED BY <1>13, <2>1 DEF TaskReconcile, TaskStart, TaskComplete, TaskTimeout,
                             TaskGoes, TypeOK, pass, spec
<1>14. CASE UNCHANGED vars
  BY Zenon, <1>14 DEF vars, pass, spec, TypeOK
<1> QED BY Zenon, <1>1, <1>2, <1>3, <1>4, <1>5, <1>6, <1>7, <1>8, <1>9, <1>10, <1>11, <1>12,
           <1>13, <1>14 DEF Next, Reconcile

\* The status, the caches, the tasks and the registers of the Workflow reconciler
\* are well typed in every reachable state, for all workflows and faults.
THEOREM TypeCorrect == Spec => []TypeOK
  BY TypeInit, TypeStep, PTL DEF Spec

-----------------------------------------------------------------------------
(* Dependencies *)

\* A phase Succeeded, wherever it is kept, is that of a step whose task completed.
Earned(st) == \A s \in Names : st[s] = "Succeeded" => task[s] = "Completed"

\* DependenciesFirst is not inductive alone: the phases that a Reconcile decides on
\* were read some time ago, in any of five places.
DepInv == /\ TypeOK
          /\ Earned(obj.step) /\ Earned(cache.step)
          /\ Earned(view.step) /\ Earned(snap)
          /\ \A s \in Names : tcache[s] = "Completed" => task[s] = "Completed"
          /\ DependenciesFirst

\* The dependencies of a step are names.
LEMMA GraphType ==
    ASSUME TypeOK, NEW s \in Main
    PROVE  deps[s] \in Seq(Names) /\ \A k \in DOMAIN deps[s] : deps[s][k] \in Names
<1>1. deps[s] \in Seq(Names)
  BY Zenon DEF TypeOK
<1> QED BY <1>1

\* What a step of the system may do to the tasks and to the dependency lists.
LEMMA TasksAdvance ==
    ASSUME DepInv, [Next]_vars
    PROVE  /\ deps' = deps
           /\ \A s \in Names : task[s] = "Completed" => task'[s] = "Completed"
           /\ \A s \in Main : task[s] = "none" /\ task'[s] # "none" => Unmet(s) = {}
<1> USE DEF DepInv, TypeOK
<1>1. CASE Step
  <2>1. pc = "step" /\ Steps[at] \in Main /\ Steps[at] \in Names /\ deps' = deps
    BY Zenon, <1>1, Looked DEF Step, spec
  <2>2. \/ UNCHANGED task
        \/ CreateTask(Steps[at]) /\ Unmet(Steps[at]) = {}
    BY Zenon, <1>1 DEF Step, StepEnded, StepSkipped, StepBlocked, StepCreate, StepCheck, Ready
  <2>3. \A s \in Names : s # Steps[at] => task'[s] = task[s]
    BY Zenon, <2>2 DEF CreateTask
  <2>4. task[Steps[at]] = "Completed" => task'[Steps[at]] = "Completed"
    BY Zenon, <2>1, <2>2 DEF CreateTask
  <2>5. task'[Steps[at]] # task[Steps[at]] => Unmet(Steps[at]) = {}
    BY Zenon, <2>2
  <2>6. Main \subseteq Names
    BY Zenon DEF Names
  <2> QED BY Zenon, <2>1, <2>3, <2>4, <2>5, <2>6
<1>2. CASE FinallyStep
  <2>1. Finally[at] \in Last /\ Finally[at] \in Names /\ deps' = deps
    BY Zenon, <1>2, Looked DEF FinallyStep, spec
  <2>2. Finally[at] \notin Main
    BY Zenon, <2>1, WorkflowAssumption
  <2>3. UNCHANGED task \/ CreateTask(Finally[at])
    BY Zenon, <1>2 DEF FinallyStep
  <2>4. \A s \in Names : s # Finally[at] => task'[s] = task[s]
    BY Zenon, <2>3 DEF CreateTask
  <2>5. task[Finally[at]] = "Completed" => task'[Finally[at]] = "Completed"
    BY Zenon, <2>1, <2>3 DEF CreateTask
  <2>6. Main \subseteq Names
    BY Zenon DEF Names
  <2> QED BY Zenon, <2>1, <2>2, <2>4, <2>5, <2>6
<1>3. ASSUME NEW t \in Names, TaskReconcile(t)
      PROVE  /\ deps' = deps
             /\ \A s \in Names : task[s] = "Completed" => task'[s] = "Completed"
             /\ \A s \in Main : task[s] = "none" => task'[s] = "none"
  BY Zenon, <1>3 DEF TaskReconcile, TaskStart, TaskComplete, TaskTimeout, TaskGoes, spec, Names
<1>4. CASE UNCHANGED <<deps, task>>
  BY Zenon, <1>4
<1>5. \/ Step \/ FinallyStep \/ (\E t \in Names : TaskReconcile(t))
      \/ UNCHANGED <<deps, task>>
  BY Zenon DEF Next, Reconcile, Skip, Reject, Start, Begin, CreateFails, Outcome, Write, Sync,
         Restart, SyncTask, vars, spec
<1> QED BY Zenon, <1>1, <1>2, <1>3, <1>4, <1>5

\* The dependencies come first after the step as well.
LEMMA DependenciesStep ==
    ASSUME DepInv, [Next]_vars
    PROVE  DependenciesFirst'
<1> SUFFICES ASSUME NEW s \in Main, task'[s] # "none", NEW k \in DOMAIN deps[s]
             PROVE  task'[deps[s][k]] = "Completed"
  BY Zenon, TasksAdvance DEF DependenciesFirst
<1>1. deps[s][k] \in Names
  BY Zenon, GraphType DEF DepInv
<1>2. CASE task[s] # "none"
  BY Zenon, <1>1, <1>2, TasksAdvance DEF DepInv, DependenciesFirst
<1>3. CASE task[s] = "none"
  <2>1. snap[deps[s][k]] = "Succeeded"
    BY Zenon, <1>3, TasksAdvance DEF Unmet
  <2>2. task[deps[s][k]] = "Completed"
    BY Zenon, <1>1, <2>1 DEF DepInv, Earned
  <2> QED BY Zenon, <1>1, <2>2, TasksAdvance
<1> QED BY Zenon, <1>2, <1>3

\* The phases a Reconcile computes in one iteration of its loop are earned.
LEMMA ViewStep ==
    ASSUME DepInv, NEW s \in Names,
           \/ StepEnded(s) \/ StepSkipped(s) \/ StepBlocked(s)
           \/ StepCreate(s) \/ StepCheck(s)
    PROVE  \A t \in Names : view'.step[t] = "Succeeded" => task[t] = "Completed"
<1>0. TypeOK /\ view.step \in [Names -> Phases]
  BY Zenon, StatusParts DEF DepInv, TypeOK
<1>1. CASE UNCHANGED view
  BY Zenon, <1>1 DEF DepInv, Earned
<1>2. ASSUME NEW ph \in {"Running", "Failed"}, SetStep(s, ph)
      PROVE  \A t \in Names : view'.step[t] = "Succeeded" => task[t] = "Completed"
  <2>1. view'.step = [view.step EXCEPT ![s] = ph]
    BY Zenon, <1>0, <1>2, SetStepType DEF Phases
  <2> QED BY Zenon, <1>0, <2>1 DEF DepInv, Earned
<1>3. ASSUME SetStep(s, "Succeeded"), tcache[s] = "Completed"
      PROVE  \A t \in Names : view'.step[t] = "Succeeded" => task[t] = "Completed"
  <2>1. view'.step = [view.step EXCEPT ![s] = "Succeeded"]
    BY ZenonT(30), <1>0, <1>3, SetStepType DEF Phases
  <2> QED BY Zenon, <1>0, <1>3, <2>1 DEF DepInv, Earned
<1>4. \/ UNCHANGED view \/ SetStep(s, "Running") \/ SetStep(s, "Failed")
      \/ SetStep(s, "Succeeded") /\ tcache[s] = "Completed"
  BY Zenon DEF StepEnded, StepSkipped, StepBlocked, StepCreate, StepCheck, Result
<1> QED BY Zenon, <1>1, <1>2, <1>3, <1>4

\* So is every phase in a status, a cache or a register after the step.
LEMMA EarnedStep ==
    ASSUME DepInv, [Next]_vars
    PROVE  /\ \A s \in Names : obj'.step[s] = "Succeeded" => task[s] = "Completed"
           /\ \A s \in Names : cache'.step[s] = "Succeeded" => task[s] = "Completed"
           /\ \A s \in Names : view'.step[s] = "Succeeded" => task[s] = "Completed"
           /\ \A s \in Names : snap'[s] = "Succeeded" => task[s] = "Completed"
           /\ \A s \in Names : tcache'[s] = "Completed" => task[s] = "Completed"
<1> DEFINE Good(st) == \A s \in Names : st[s] = "Succeeded" => task[s] = "Completed"
           Goal == /\ Good(obj'.step) /\ Good(cache'.step)
                   /\ Good(view'.step) /\ Good(snap')
                   /\ \A s \in Names : tcache'[s] = "Completed" => task[s] = "Completed"
<1> SUFFICES Goal
  BY Zenon
<1>0. /\ Good(obj.step) /\ Good(cache.step) /\ Good(view.step) /\ Good(snap)
      /\ \A s \in Names : tcache[s] = "Completed" => task[s] = "Completed"
  BY Zenon DEF DepInv, Earned
<1>a. Good(Untracked) /\ Good(Status("new", Untracked).step)
      /\ Good(Status("Failed", Untracked).step)
  BY Zenon DEF Untracked, Status
<1> HIDE DEF Good
<1>b. Idle => Good(view'.step) /\ Good(snap')
  BY Zenon, <1>a DEF Idle
<1>1. CASE Skip
  BY Zenon, <1>0, <1>1 DEF Skip, pass
<1>2. CASE Reject
  BY Zenon, <1>0, <1>a, <1>2 DEF Reject, Update, pass
<1>3. CASE Start
  <2> DEFINE st == [s \in Names |-> IF s \in Main THEN "Pending" ELSE "none"]
  <2>1. Good(Status("Running", st).step)
    BY Zenon DEF Status, Good
  <2>2. Good(obj'.step)
    BY Zenon, <1>0, <1>3, <2>1 DEF Start, Update, Conflict
  <2> QED BY Zenon, <1>0, <1>3, <2>2 DEF Start, pass
<1>4. CASE Begin
  BY Zenon, <1>0, <1>4 DEF Begin
<1>5. CASE Step
  <2>1. Steps[at] \in Names
    BY Zenon, <1>5, Looked DEF Step, DepInv
  <2>2. Good(view'.step)
    BY Zenon, <1>5, <2>1, ViewStep DEF Step, Good
  <2> QED BY Zenon, <1>0, <1>5, <2>2 DEF Step
<1>6. CASE CreateFails
  BY Zenon, <1>0, <1>b, <1>6 DEF CreateFails
<1>7. CASE FinallyStep
  <2>1. Finally[at] \in Names /\ TypeOK /\ view.step \in [Names -> Phases]
    BY Zenon, <1>7, Looked, StatusParts DEF FinallyStep, DepInv, TypeOK
  <2>2. CASE SetStep(Finally[at], "Running")
    <3>1. view'.step = [view.step EXCEPT ![Finally[at]] = "Running"]
      BY Zenon, <2>1, <2>2, SetStepType DEF Phases
    <3>2. Good(view'.step)
      BY Zenon, <1>0, <2>1, <3>1 DEF Good
    <3> QED BY Zenon, <1>0, <1>7, <3>2 DEF FinallyStep
  <2>3. CASE UNCHANGED view
    BY Zenon, <1>0, <1>7, <2>3 DEF FinallyStep
  <2> QED BY Zenon, <1>7, <2>2, <2>3 DEF FinallyStep
<1>8. CASE Outcome
  <2> DEFINE st == IF RunFinally THEN Checked(view.step) ELSE view.step
  <2>1. Good(st)
    BY Zenon, <1>0 DEF Good, Checked, Result
  <2>2. view'.step = st
    BY Zenon, <1>8 DEF Outcome, Status
  <2> QED BY Zenon, <1>0, <1>8, <2>1, <2>2 DEF Outcome
<1>9. CASE Write
  <2>1. Good(obj'.step)
    BY Zenon, <1>0, <1>9 DEF Write, Update, Conflict
  <2> QED BY Zenon, <1>0, <1>b, <1>9, <2>1 DEF Write
<1>10. CASE Sync
  BY Zenon, <1>0, <1>10 DEF Sync, pass
<1>11. CASE Restart
  BY Zenon, <1>0, <1>b, <1>11 DEF Restart
<1>12. ASSUME NEW s \in Names, SyncTask(s) PROVE Goal
  <2>1. \A t \in Names : tcache'[t] = "Completed" => task[t] = "Completed"
    BY Zenon, <1>0, <1>12 DEF SyncTask, DepInv, TypeOK
  <2> QED BY Zenon, <1>0, <1>12, <2>1 DEF SyncTask, pass
<1>13. ASSUME NEW s \in Names, TaskReconcile(s) PROVE Goal
  BY Zenon, <1>0, <1>13 DEF TaskReconcile, TaskStart, TaskComplete, TaskTimeout, TaskGoes, pass
<1>14. CASE UNCHANGED vars
  BY Zenon, <1>0, <1>14 DEF vars, pass
<1> QED BY Zenon, <1>1, <1>2, <1>3, <1>4, <1>5, <1>6, <1>7, <1>8, <1>9, <1>10, <1>11, <1>12,
           <1>13, <1>14 DEF Next, Reconcile

\* DepInv holds initially.
LEMMA DepInit == Init => DepInv
<1>1. Init => TypeOK
  BY Zenon, TypeInit
<1>2. Init => /\ Earned(obj.step) /\ Earned(cache.step) /\ Earned(view.step)
              /\ Earned(snap)
              /\ \A s \in Names : tcache[s] = "Completed" => task[s] = "Completed"
  BY DEF Init, Earned, Untracked, Status
<1>3. Init => DependenciesFirst
  BY Zenon DEF Init, DependenciesFirst, Untracked, Names
<1> QED BY Zenon, <1>1, <1>2, <1>3 DEF DepInv

\* And every step preserves it.
LEMMA DepStep == DepInv /\ [Next]_vars => DepInv'
<1> SUFFICES ASSUME DepInv, [Next]_vars PROVE DepInv'
  BY Zenon
<1>1. TypeOK'
  BY Zenon, TypeStep DEF DepInv
<1>2. \A s \in Names : task[s] = "Completed" => task'[s] = "Completed"
  BY Zenon, TasksAdvance
<1>3. /\ Earned(obj.step)' /\ Earned(cache.step)' /\ Earned(view.step)'
      /\ Earned(snap)'
      /\ (\A s \in Names : tcache[s] = "Completed" => task[s] = "Completed")'
  BY Zenon, <1>2, EarnedStep DEF Earned
<1>4. DependenciesFirst'
  BY Zenon, DependenciesStep
<1> QED BY Zenon, <1>1, <1>3, <1>4 DEF DepInv

\* A task is created only when the tasks of all dependencies of its step have
\* completed, for every workflow, however far the caches lag and whatever fails.
THEOREM DependenciesCorrect == Spec => []DependenciesFirst
<1>1. DepInv => DependenciesFirst
  BY Zenon DEF DepInv
<1> QED BY <1>1, DepInit, DepStep, PTL DEF Spec

-----------------------------------------------------------------------------
(* What the status reports *)

TimedOutTask == \E t \in Main : task[t] = "TimedOut"
AllEnded(st) == \A s \in Main : st[s] \in Ended
SomeFailed(st) == \E t \in Main : st[t] = "Failed"

\* Phases that a status or a register may hold.  A failed step has a task behind it
\* that timed out.  A finally step is tracked only once every step has ended, or one
\* has failed: so a finally step that some dependsOn names does not mislead.
Phased(st) == /\ SomeFailed(st) => TimedOutTask
              /\ (\E f \in Last : st[f] # "none") => AllEnded(st) \/ SomeFailed(st)

\* A status of which OutcomeIsRight is true, and which Reconcile may start from.
Sound(o) == /\ Phased(o.step)
            /\ o.phase = "Running" => \A s \in Main : o.step[s] # "none"
            /\ o.phase = "Completed" => \A s \in Main : task[s] = "Completed"
            /\ o.phase = "Failed" => ~Sortable(deps) \/ TimedOutTask

\* Has the loop looked at the k-th step?
Passed(k) == pc = "finally" \/ k < at

\* What the loop knows of the steps it has looked at.  One that failed behind a
\* dependency does not raise anyFailed, but the failed dependency does.
LoopKnows == /\ view.phase = "Running"
             /\ \A s \in Main : snap[s] \in Ended => view.step[s] = snap[s]
             /\ anyFailed => SomeFailed(view.step)
             /\ \A k \in 1 .. Len(Steps) : Passed(k) =>
                  /\ allDone => view.step[Steps[k]] \in Ended
                  /\ view.step[Steps[k]] = "Failed" => anyFailed \/ SomeFailed(snap)
                  /\ snap[Steps[k]] = "Failed" => anyFailed

\* The first unmet dependency is one of them (TypeOK implies it, see FirstExists).
FirstIsAName == \A s \in Main : Unmet(s) # {} => FirstUnmet(s) \in Names

\* OutcomeIsRight is not inductive either: a terminal status is computed from phases
\* that may be stale, over several steps.
OutInv == /\ DepInv
          /\ Sound(obj) /\ Sound(cache) /\ Sound(view)
          /\ Phased(snap)
          /\ \A s \in Names : tcache[s] = "TimedOut" => task[s] = "TimedOut"
          /\ pc \in {"step", "finally"} => LoopKnows

\* The steps and the finally steps are names.
LEMMA MainNames == Main \subseteq Names /\ Last \subseteq Names
  BY Zenon DEF Names

\* A task that timed out or completed stays so.
LEMMA TimedOutStays ==
    ASSUME TypeOK, [Next]_vars
    PROVE  \A s \in Names : task[s] = "TimedOut" => task'[s] = "TimedOut"
<1> USE DEF TypeOK
<1>1. \/ UNCHANGED task
      \/ \E s : CreateTask(s)
      \/ \E s \in Names : TaskReconcile(s)
  BY Zenon DEF Next, Reconcile, Skip, Reject, Start, Begin, Step, CreateFails, FinallyStep,
         Outcome, Write, Sync, Restart, SyncTask, vars, StepEnded, StepSkipped,
         StepBlocked, StepCreate, StepCheck
<1>2. ASSUME NEW s, CreateTask(s)
      PROVE  \A t \in Names : task[t] = "TimedOut" => task'[t] = "TimedOut"
  BY Zenon, <1>2 DEF CreateTask
<1>3. ASSUME NEW s \in Names, TaskReconcile(s)
      PROVE  \A t \in Names : task[t] = "TimedOut" => task'[t] = "TimedOut"
  BY Zenon, <1>3 DEF TaskReconcile, TaskStart, TaskComplete, TaskTimeout, TaskGoes
<1> QED BY Zenon, <1>1, <1>2, <1>3

\* Sound and Phased are about the tasks and the graph only in ways that persist.
LEMMA SoundStays ==
    ASSUME OutInv, [Next]_vars
    PROVE  /\ TimedOutTask => TimedOutTask'
           /\ deps' = deps
           /\ \A s \in Names : task[s] = "Completed" => task'[s] = "Completed"
  BY Zenon, TimedOutStays, TasksAdvance, MainNames DEF OutInv, DepInv, TimedOutTask

\* What a step of the loop does to the phase of the step it looks at.
LEMMA LoopStep ==
    ASSUME OutInv, FirstIsAName, pc = "step", NEW s \in Main, s = Steps[at],
           \/ StepEnded(s) \/ StepSkipped(s) \/ StepBlocked(s)
           \/ StepCreate(s) \/ StepCheck(s)
    PROVE  /\ view'.phase = "Running"
           /\ \A t \in Names : t # s => view'.step[t] = view.step[t]
           /\ view.step[s] \in Ended => view'.step[s] = view.step[s]
           /\ anyFailed => anyFailed'
           /\ allDone' => allDone /\ view'.step[s] \in Ended
           /\ view'.step[s] # "none"
           /\ view'.step[s] = "Failed" => TimedOutTask
           /\ view'.step[s] = "Failed" => anyFailed' \/ SomeFailed(snap)
           /\ snap[s] = "Failed" => anyFailed'
           /\ anyFailed' => anyFailed \/ view'.step[s] = "Failed"
<1>0. /\ TypeOK /\ s \in Names /\ LoopKnows /\ view.step \in [Names -> Phases]
      /\ view.phase = "Running" /\ view.step[s] # "none" /\ snap \in [Names -> Phases]
      /\ snap[s] \in Ended => view.step[s] = snap[s]
      /\ anyFailed \in BOOLEAN /\ allDone \in BOOLEAN
      /\ SomeFailed(view.step) => TimedOutTask
      /\ SomeFailed(snap) => TimedOutTask
      /\ anyFailed => SomeFailed(view.step)
  BY ZenonT(30), StatusParts, MainNames DEF OutInv, DepInv, TypeOK, LoopKnows, Sound, Phased
<1>a. ASSUME NEW ph \in Phases, SetStep(s, ph)
      PROVE  /\ view'.phase = "Running" /\ view'.step[s] = ph
             /\ \A t \in Names : t # s => view'.step[t] = view.step[t]
  <2>1. view'.step = [view.step EXCEPT ![s] = ph]
    BY Zenon, <1>0, <1>a, SetStepType
  <2>2. view'.phase = "Running"
    BY Zenon, <1>0, <1>a DEF SetStep, TypeOK, StatusSet
  <2> QED BY Zenon, <1>0, <2>1, <2>2
<1>1. CASE StepEnded(s)
  <2>1. view.step[s] = "Failed" => SomeFailed(view.step)
    BY Zenon DEF SomeFailed
  <2> QED BY ZenonT(30), <1>0, <1>1, <2>1 DEF StepEnded
<1>2. CASE StepSkipped(s)
  <2>1. SetStep(s, "Failed") /\ "Failed" \in Phases
    BY Zenon, <1>2 DEF StepSkipped, Phases
  <2> QED BY Zenon, <1>0, <1>2, <1>a, <2>1 DEF StepSkipped
<1>3. CASE StepBlocked(s)
  <2>0. snap[s] \notin Ended /\ ~allDone' /\ anyFailed' = anyFailed /\ view.step[s] \notin Ended
    BY Zenon, <1>0, <1>3 DEF StepBlocked
  <2>1. CASE snap[FirstUnmet(s)] = "Failed"
    <3>1. FirstUnmet(s) \in Names
      BY Zenon, <1>3 DEF StepBlocked, FirstIsAName
    <3>2. SomeFailed(snap)
      <4>1. CASE FirstUnmet(s) \in Main
        BY Zenon, <2>1, <4>1 DEF SomeFailed
      <4>2. CASE FirstUnmet(s) \in Last
        BY Zenon, <2>0, <2>1, <4>2 DEF OutInv, Phased, AllEnded
      <4> QED BY Zenon, <3>1, <4>1, <4>2 DEF Names
    <3>3. SetStep(s, "Failed") /\ "Failed" \in Phases
      BY Zenon, <1>3, <2>1 DEF StepBlocked, Phases
    <3> QED BY Zenon, <1>0, <1>a, <2>0, <3>2, <3>3
  <2>2. CASE snap[FirstUnmet(s)] # "Failed"
    <3>1. view' = view
      BY Zenon, <1>3, <2>2 DEF StepBlocked
    <3> QED BY Zenon, <1>0, <2>0, <3>1
  <2> QED BY Zenon, <2>1, <2>2
<1>4. CASE StepCreate(s)
  <2>1. SetStep(s, "Running") /\ "Running" \in Phases /\ view.step[s] \notin Ended
    BY Zenon, <1>4 DEF StepCreate, Phases, Ready
  <2>2. ~allDone' /\ anyFailed' = anyFailed
    BY Zenon, <1>4 DEF StepCreate
  <2> QED BY Zenon, <1>0, <1>a, <2>1, <2>2
<1>5. CASE StepCheck(s)
  <2>0. view.step[s] = "Running" /\ snap[s] \notin Ended
    BY Zenon, <1>0, <1>5 DEF StepCheck
  <2>1. CASE HasResult(s)
    <3>1. /\ SetStep(s, Result(s)) /\ Result(s) \in {"Succeeded", "Failed"}
          /\ Result(s) \in Phases
          /\ anyFailed' = (anyFailed \/ Result(s) = "Failed") /\ allDone' = allDone
      BY Zenon, <1>5, <2>1 DEF StepCheck, Result, Phases
    <3>2. Result(s) = "Failed" => TimedOutTask
      BY Zenon, <1>0, <2>1 DEF Result, HasResult, OutInv, TimedOutTask
    <3> QED BY Zenon, <1>0, <1>a, <2>0, <3>1, <3>2
  <2>2. CASE ~HasResult(s)
    <3>1. view' = view /\ anyFailed' = anyFailed /\ ~allDone'
      BY Zenon, <1>5, <2>2 DEF StepCheck
    <3> QED BY Zenon, <1>0, <2>0, <3>1
  <2> QED BY Zenon, <2>1, <2>2
<1> QED BY ZenonT(30), <1>1, <1>2, <1>3, <1>4, <1>5

\* The status of a workflow that has not started is sound.
LEMMA NewSound == Sound(Status("new", Untracked)) /\ Phased(Untracked)
<1>1. Phased(Untracked)
  BY Zenon DEF Phased, SomeFailed, Untracked, Names
<1> QED BY Zenon, <1>1 DEF Sound, Status

\* One iteration of the loop over the steps keeps what the loop knows.
LEMMA LoopKept ==
    ASSUME OutInv, FirstIsAName, Step
    PROVE  Sound(view') /\ Phased(snap') /\ LoopKnows'
<1> DEFINE s == Steps[at]
<1>0. /\ pc = "step" /\ s \in Main /\ TypeOK /\ LoopKnows /\ Sound(view) /\ Phased(snap)
      /\ snap' = snap /\ at \in 1 .. Len(Steps) /\ Len(Steps) \in Nat /\ s \notin Last
  BY ZenonT(30), Looked, WorkflowAssumption DEF Step, OutInv, DepInv, TypeOK
<1>1. /\ view'.phase = "Running"
      /\ \A t \in Names : t # s => view'.step[t] = view.step[t]
      /\ view.step[s] \in Ended => view'.step[s] = view.step[s]
      /\ anyFailed => anyFailed'
      /\ allDone' => allDone /\ view'.step[s] \in Ended
      /\ view'.step[s] # "none"
      /\ view'.step[s] = "Failed" => TimedOutTask
      /\ view'.step[s] = "Failed" => anyFailed' \/ SomeFailed(snap)
      /\ snap[s] = "Failed" => anyFailed'
      /\ anyFailed' => anyFailed \/ view'.step[s] = "Failed"
  <2>1. \/ StepEnded(s) \/ StepSkipped(s) \/ StepBlocked(s)
        \/ StepCreate(s) \/ StepCheck(s)
    BY Zenon DEF Step
  <2> HIDE DEF s
  <2>2. s = Steps[at]
    BY Zenon DEF s
  <2> QED BY Zenon, <1>0, <2>1, <2>2, LoopStep
<1> HIDE DEF s
<1>2. \A t \in Names : view.step[t] \in Ended => view'.step[t] = view.step[t]
  BY Zenon, <1>1
<1>3. SomeFailed(view.step) => SomeFailed(view'.step)
  BY Zenon, <1>2, MainNames DEF SomeFailed
<1>4. Phased(view'.step)
  <2>1. SomeFailed(view'.step) => TimedOutTask
    BY Zenon, <1>0, <1>1, MainNames DEF SomeFailed, Sound, Phased
  <2>2. ASSUME NEW f \in Last, view'.step[f] # "none"
        PROVE  AllEnded(view'.step) \/ SomeFailed(view'.step)
    <3>1. view.step[f] # "none"
      BY Zenon, <1>0, <1>1, <2>2, MainNames
    <3>2. AllEnded(view.step) \/ SomeFailed(view.step)
      BY Zenon, <1>0, <3>1 DEF Sound, Phased
    <3>3. AllEnded(view.step) => AllEnded(view'.step)
      BY Zenon, <1>2, MainNames DEF AllEnded
    <3> QED BY Zenon, <1>3, <3>2, <3>3
  <2> QED BY Zenon, <2>1, <2>2 DEF Phased
<1>5. Sound(view')
  <2>1. \A t \in Main : view'.step[t] # "none"
    BY Zenon, <1>0, <1>1, MainNames DEF Sound, LoopKnows
  <2> QED BY Zenon, <1>1, <1>4, <2>1 DEF Sound
<1>6. \A t \in Main : snap[t] \in Ended => view'.step[t] = snap[t]
  BY Zenon, <1>0, <1>2, MainNames DEF LoopKnows
<1>7. anyFailed' => SomeFailed(view'.step)
  BY Zenon, <1>0, <1>1, <1>3 DEF LoopKnows, SomeFailed
<1>8. ASSUME NEW k \in 1 .. Len(Steps), Passed(k)'
      PROVE  /\ allDone' => view'.step[Steps[k]] \in Ended
             /\ view'.step[Steps[k]] = "Failed" => anyFailed' \/ SomeFailed(snap)
             /\ snap[Steps[k]] = "Failed" => anyFailed'
  <2>1. CASE Steps[k] = s
    BY Zenon, <1>1, <2>1
  <2>2. CASE Steps[k] # s
    <3>1. k < at
      <4>1. k # at
        BY Zenon, <2>2 DEF s
      <4>2. (pc' = "finally" => at = Len(Steps)) /\ (pc' # "finally" => at' = at + 1)
        BY Zenon, <1>0 DEF Step, Advance
      <4> QED BY <1>0, <1>8, <4>1, <4>2 DEF Passed
    <3>2. Steps[k] \in Names
      BY Zenon, WorkflowAssumption DEF Main, Names
    <3>3. view'.step[Steps[k]] = view.step[Steps[k]]
      BY Zenon, <1>1, <2>2, <3>2
    <3> QED BY Zenon, <1>0, <1>1, <3>1, <3>3 DEF LoopKnows, Passed
  <2> QED BY Zenon, <2>1, <2>2
<1>9. LoopKnows'
  <2>1. SomeFailed(snap') = SomeFailed(snap)
    BY Zenon, <1>0
  <2> QED BY Zenon, <1>0, <1>1, <1>6, <1>7, <1>8, <2>1 DEF LoopKnows, SomeFailed
<1> QED BY Zenon, <1>0, <1>5, <1>9

\* After the loop: when it is time for the finally steps, all steps have ended or one
\* failed; and if no failure was seen, none of the steps has failed.
LEMMA LoopDone ==
    ASSUME OutInv, pc = "finally"
    PROVE  /\ RunFinally => AllEnded(view.step) \/ SomeFailed(view.step)
           /\ allDone => AllEnded(view.step)
           /\ ~anyFailed => ~SomeFailed(view.step)
<1>0. LoopKnows /\ \A k \in 1 .. Len(Steps) : Passed(k)
  BY Zenon DEF OutInv, Passed
<1>1. \A s \in Main : \E k \in 1 .. Len(Steps) : s = Steps[k]
  BY Zenon, WorkflowAssumption DEF Main
<1>2. allDone => AllEnded(view.step)
  BY Zenon, <1>0, <1>1 DEF LoopKnows, AllEnded
<1>3. SomeFailed(snap) => anyFailed
  BY <1>0, <1>1 DEF LoopKnows, SomeFailed
<1>4. SomeFailed(view.step) => anyFailed
  BY Zenon, <1>0, <1>1, <1>3 DEF LoopKnows, SomeFailed
<1> QED BY Zenon, <1>0, <1>2, <1>4 DEF RunFinally, LoopKnows

\* A finally step is tracked only then.
LEMMA FinallyKept ==
    ASSUME OutInv, FinallyStep
    PROVE  Sound(view') /\ Phased(snap') /\ LoopKnows'
<1> DEFINE f == Finally[at]
<1>0. /\ pc = "finally" /\ RunFinally /\ f \in Last /\ f \in Names /\ TypeOK /\ LoopKnows
      /\ Sound(view) /\ Phased(snap) /\ snap' = snap /\ pc' = pc
      /\ anyFailed' = anyFailed /\ allDone' = allDone
      /\ view.step \in [Names -> Phases] /\ f \notin Main
  BY ZenonT(30), Looked, StatusParts, WorkflowAssumption
     DEF FinallyStep, OutInv, DepInv, TypeOK
<1>1. view'.phase = view.phase /\ \A s \in Main : view'.step[s] = view.step[s]
  <2>1. CASE UNCHANGED view
    BY Zenon, <2>1
  <2>2. CASE SetStep(f, "Running")
    <3>1. view'.step = [view.step EXCEPT ![f] = "Running"]
      BY Zenon, <1>0, <2>2, SetStepType DEF Phases
    <3>2. view'.phase = view.phase
      BY Zenon, <1>0, <2>2 DEF SetStep, TypeOK, StatusSet
    <3> QED BY Zenon, <1>0, <3>1, <3>2, MainNames
  <2> QED BY Zenon, <2>1, <2>2 DEF FinallyStep
<1>2. /\ SomeFailed(view'.step) = SomeFailed(view.step)
      /\ AllEnded(view'.step) = AllEnded(view.step)
  BY Zenon, <1>1 DEF SomeFailed, AllEnded
<1>3. Phased(view'.step)
  BY Zenon, <1>0, <1>2, LoopDone DEF Phased, Sound
<1>4. Sound(view')
  BY Zenon, <1>0, <1>1, <1>3 DEF Sound, LoopKnows
<1>5. LoopKnows'
  <2>1. \A k \in 1 .. Len(Steps) : Steps[k] \in Main /\ Passed(k) /\ Passed(k)'
    BY Zenon, <1>0, WorkflowAssumption DEF Main, Passed
  <2>2. view'.phase = "Running" /\ \A s \in Main : snap[s] \in Ended => view'.step[s] = snap[s]
    BY Zenon, <1>0, <1>1 DEF LoopKnows
  <2>3. anyFailed' => SomeFailed(view'.step)
    BY Zenon, <1>0, <1>2 DEF LoopKnows
  <2>4. ASSUME NEW k \in 1 .. Len(Steps)
        PROVE  /\ allDone' => view'.step[Steps[k]] \in Ended
               /\ view'.step[Steps[k]] = "Failed" => anyFailed' \/ SomeFailed(snap)
               /\ snap[Steps[k]] = "Failed" => anyFailed'
    BY Zenon, <1>0, <1>1, <2>1 DEF LoopKnows
  <2> QED BY Zenon, <1>0, <2>2, <2>3, <2>4 DEF LoopKnows, SomeFailed
<1> QED BY Zenon, <1>0, <1>4, <1>5

\* The status that a Reconcile ends with is sound, Completed and Failed included.
LEMMA OutcomeSound ==
    ASSUME OutInv, Outcome
    PROVE  Sound(view')
<1> DEFINE st == IF RunFinally THEN Checked(view.step) ELSE view.step
           ph == IF ~AllStepsDone(st) THEN view.phase
                 ELSE IF anyFailed THEN "Failed" ELSE "Completed"
<1>0. /\ pc = "finally" /\ TypeOK /\ LoopKnows /\ Sound(view)
      /\ view.step \in [Names -> Phases] /\ view.phase = "Running"
      /\ Earned(view.step) /\ anyFailed \in BOOLEAN
  BY ZenonT(30), StatusParts DEF Outcome, OutInv, DepInv, TypeOK, LoopKnows
<1>1. view'.phase = ph /\ view'.step = st
  BY Zenon DEF Outcome, Status
<1>2. \A s \in Names : view.step[s] # "Running" => st[s] = view.step[s]
  BY Zenon DEF Checked
<1>3. \A s \in Names : view.step[s] = "Running" => st[s] # "none"
  BY Zenon DEF Checked, Result
<1>4. \A s \in Names : st[s] = "Failed" => view.step[s] = "Failed" \/ task[s] = "TimedOut"
  BY Zenon DEF Checked, HasResult, Result, OutInv
<1> HIDE DEF st
<1>5. Phased(st)
  <2>1. SomeFailed(st) => TimedOutTask
    BY ZenonT(30), <1>0, <1>4, MainNames DEF SomeFailed, TimedOutTask, Sound, Phased
  <2>2. ASSUME NEW f \in Last, st[f] # "none"
        PROVE  AllEnded(st) \/ SomeFailed(st)
    <3>1. view.step[f] # "none"
      BY Zenon, <1>2, <2>2, MainNames
    <3>2. AllEnded(view.step) \/ SomeFailed(view.step)
      BY Zenon, <1>0, <3>1 DEF Sound, Phased
    <3> QED BY Zenon, <1>2, <3>2, MainNames DEF AllEnded, SomeFailed
  <2> QED BY Zenon, <2>1, <2>2 DEF Phased
<1>6. \A s \in Main : st[s] # "none"
  BY Zenon, <1>0, <1>2, <1>3, MainNames DEF Sound
<1>7. ASSUME AllStepsDone(st), ~anyFailed
      PROVE  \A s \in Main : task[s] = "Completed"
  <2>1. \A s \in Main : st[s] \in Ended
    BY Zenon, <1>6, <1>7, MainNames DEF AllStepsDone
  <2>2. \A s \in Main : view.step[s] \in Ended
    <3>1. CASE RunFinally
      BY Zenon, <1>7, <3>1, LoopDone, <1>0 DEF RunFinally, AllEnded
    <3>2. CASE ~RunFinally
      BY Zenon, <2>1, <3>2 DEF st
    <3> QED BY Zenon, <3>1, <3>2
  <2>3. \A s \in Main : view.step[s] # "Failed"
    BY Zenon, <1>0, <1>7, LoopDone DEF SomeFailed
  <2> QED BY Zenon, <1>0, <2>2, <2>3, MainNames DEF Earned
<1>8. anyFailed => TimedOutTask
  BY Zenon, <1>0 DEF LoopKnows, Sound, Phased
<1> QED BY Zenon, <1>0, <1>1, <1>5, <1>6, <1>7, <1>8 DEF Sound

\* Every status, cache and register is sound after the step, over the tasks before it.
LEMMA SoundStep ==
    ASSUME OutInv, FirstIsAName, [Next]_vars
    PROVE  /\ Sound(obj') /\ Sound(cache') /\ Sound(view') /\ Phased(snap')
           /\ \A s \in Names : tcache'[s] = "TimedOut" => task[s] = "TimedOut"
           /\ pc' \in {"step", "finally"} => LoopKnows'
<1> DEFINE Timed == \A s \in Names : tcache'[s] = "TimedOut" => task[s] = "TimedOut"
           Goal == /\ Sound(obj') /\ Sound(cache') /\ Sound(view') /\ Phased(snap')
                   /\ Timed
                   /\ pc' \in {"step", "finally"} => LoopKnows'
<1> SUFFICES Goal
  BY Zenon
<1>0. /\ Sound(obj) /\ Sound(cache) /\ Sound(view) /\ Phased(snap)
      /\ pc \in {"step", "finally"} => LoopKnows
      /\ tcache' = tcache => Timed
  BY Zenon DEF OutInv
<1>a. Idle => Sound(view') /\ Phased(snap') /\ pc' \notin {"step", "finally"}
  BY Zenon, NewSound DEF Idle
<1>b. UNCHANGED <<pc, pass>> => (LoopKnows => LoopKnows')
  BY DEF pass, LoopKnows, SomeFailed, Passed
<1>c. pc = "idle" => pc \notin {"step", "finally"}
  BY Zenon
<1> HIDE DEF Timed
<1>1. CASE Skip
  BY Zenon, <1>0, <1>1, <1>c DEF Skip, pass
<1>2. CASE Reject
  <2>1. ~Sortable(deps) => Sound(Status("Failed", Untracked))
    BY Zenon, NewSound DEF Sound, Status
  <2> QED BY Zenon, <1>0, <1>2, <1>c, <2>1 DEF Reject, Update, pass
<1>3. CASE Start
  <2> DEFINE st == [s \in Names |-> IF s \in Main THEN "Pending" ELSE "none"]
  <2>1. Sound(Status("Running", st))
    <3>1. \A f \in Last : st[f] = "none"
      BY Zenon, WorkflowAssumption, MainNames
    <3>2. \A s \in Main : st[s] = "Pending"
      BY Zenon, MainNames
    <3> HIDE DEF st
    <3> QED BY Zenon, <3>1, <3>2 DEF Sound, Status, Phased, SomeFailed
  <2>2. Sound(obj')
    BY Zenon, <1>0, <1>3, <2>1 DEF Start, Update, Conflict
  <2> QED BY Zenon, <1>0, <1>3, <1>c, <2>2 DEF Start, pass
<1>4. CASE Begin
  <2>1. LoopKnows'
    <3>1. \A k \in 1 .. Len(Steps) : ~Passed(k)'
      BY <1>4 DEF Begin, Passed
    <3>2. view' = cache /\ snap' = cache.step /\ cache.phase = "Running" /\ ~anyFailed'
      BY Zenon, <1>4 DEF Begin
    <3> QED BY Zenon, <3>1, <3>2 DEF LoopKnows
  <2>2. Sound(view') /\ Phased(snap')
    BY Zenon, <1>0, <1>4 DEF Begin, Sound
  <2> QED BY Zenon, <1>0, <1>4, <2>1, <2>2 DEF Begin
<1>5. CASE Step
  BY Zenon, <1>0, <1>5, LoopKept DEF Step
<1>6. CASE CreateFails
  BY Zenon, <1>0, <1>a, <1>6 DEF CreateFails
<1>7. CASE FinallyStep
  BY Zenon, <1>0, <1>7, FinallyKept DEF FinallyStep
<1>8. CASE Outcome
  BY Zenon, <1>0, <1>8, OutcomeSound DEF Outcome
<1>9. CASE Write
  <2>1. Sound(obj')
    BY Zenon, <1>0, <1>9 DEF Write, Update, Conflict
  <2> QED BY Zenon, <1>0, <1>a, <1>9, <2>1 DEF Write
<1>10. CASE Sync
  BY Zenon, <1>0, <1>b, <1>10 DEF Sync, pass
<1>11. CASE Restart
  <2>1. Timed
    BY Zenon, <1>11 DEF Restart, Timed
  <2> QED BY Zenon, <1>0, <1>a, <1>11, <2>1 DEF Restart
<1>12. ASSUME NEW s \in Names, SyncTask(s) PROVE Goal
  <2>1. Timed
    BY Zenon, <1>12 DEF SyncTask, OutInv, DepInv, TypeOK, Timed
  <2> QED BY Zenon, <1>0, <1>b, <1>12, <2>1 DEF SyncTask, pass
<1>13. ASSUME NEW s \in Names, TaskReconcile(s) PROVE Goal
  BY Zenon, <1>0, <1>b, <1>13 DEF TaskReconcile, TaskStart, TaskComplete, TaskTimeout,
                           TaskGoes, pass
<1>14. CASE UNCHANGED vars
  BY Zenon, <1>0, <1>b, <1>14 DEF vars, pass
<1> QED BY Zenon, <1>1, <1>2, <1>3, <1>4, <1>5, <1>6, <1>7, <1>8, <1>9, <1>10, <1>11, <1>12,
           <1>13, <1>14 DEF Next, Reconcile

WF == INSTANCE WellFoundedInduction
Less == {p \in Nat \X Nat : p[1] < p[2]}

\* A set of positions that is not empty has a smallest one: the order of Nat is well founded.
LEMMA LeastOf ==
    ASSUME NEW S, S \subseteq Nat, S # {}
    PROVE  \E k \in S : \A j \in S : k <= j
<1>1. WF!IsWellFoundedOn(Less, Nat)
  BY Zenon, WF!NatLessThanWellFounded DEF WF!OpToRel, Less
<1>2. PICK k \in S : \A j \in S : ~(<<j, k>> \in Less)
  BY Zenon, <1>1, WF!WFMin
<1>3. \A i, j \in Nat : i < j => <<i, j>> \in Less
  BY Zenon DEF Less
<1>4. \A j \in S : ~(j < k)
  BY Zenon, <1>2, <1>3
<1> QED BY <1>4

\* So a step with unmet dependencies has a first one, and it is a name.
LEMMA FirstExists == TypeOK => FirstIsAName
<1> SUFFICES ASSUME TypeOK, NEW s \in Main, Unmet(s) # {}
             PROVE  FirstUnmet(s) \in Names
  BY Zenon DEF FirstIsAName
<1>1. Unmet(s) \subseteq DOMAIN deps[s] /\ deps[s] \in Seq(Names)
  BY Zenon, GraphType DEF Unmet
<1>2. Unmet(s) \subseteq Nat
  BY <1>1
<1>3. \E k \in Unmet(s) : \A j \in Unmet(s) : k <= j
  BY Zenon, <1>2, LeastOf
<1>4. (CHOOSE k \in Unmet(s) : \A j \in Unmet(s) : k <= j) \in DOMAIN deps[s]
  BY Zenon, <1>1, <1>3
<1> QED BY Zenon, <1>4, GraphType DEF FirstUnmet

\* A step that Succeeded has a completed task, a workflow that is Completed has one
\* for every step, and one that is Failed was rejected by topoSort or has a task that
\* timed out: for every workflow, with stale caches, failing creates and restarts.
THEOREM OutcomeCorrect == Spec => []OutcomeIsRight
<1>1. Init => OutInv
  <2>1. Init => DepInv
    BY Zenon, DepInit
  <2>2. Init => Sound(obj) /\ Sound(cache) /\ Sound(view) /\ Phased(snap)
    BY Zenon, NewSound DEF Init
  <2>3. Init => /\ \A s \in Names : tcache[s] = "TimedOut" => task[s] = "TimedOut"
                /\ pc \notin {"step", "finally"}
    BY Zenon DEF Init
  <2> QED BY Zenon, <2>1, <2>2, <2>3 DEF OutInv
<1>2. OutInv /\ [Next]_vars => OutInv'
  <2> SUFFICES ASSUME OutInv, [Next]_vars PROVE OutInv'
    BY Zenon
  <2>0. FirstIsAName
    BY Zenon, FirstExists DEF OutInv, DepInv
  <2>1. DepInv'
    BY Zenon, DepStep DEF OutInv
  <2>2. /\ TimedOutTask => TimedOutTask'
        /\ deps' = deps
        /\ \A s \in Names : task[s] = "Completed" => task'[s] = "Completed"
        /\ \A s \in Names : task[s] = "TimedOut" => task'[s] = "TimedOut"
    BY Zenon, SoundStays, TimedOutStays DEF OutInv, DepInv
  <2>3. /\ Phased(obj'.step) => Phased(obj.step)'
        /\ Phased(cache'.step) => Phased(cache.step)'
        /\ Phased(view'.step) => Phased(view.step)'
        /\ Phased(snap') => Phased(snap)'
    BY Zenon, <2>2 DEF Phased, SomeFailed, AllEnded
  <2>4. /\ Sound(obj') => Sound(obj)'
        /\ Sound(cache') => Sound(cache)'
        /\ Sound(view') => Sound(view)'
    BY Zenon, <2>2, <2>3, MainNames DEF Sound
  <2>5. (\A s \in Names : tcache[s] = "TimedOut" => task[s] = "TimedOut")'
    BY Zenon, <2>0, <2>2, SoundStep
  <2>6. (pc \in {"step", "finally"} => LoopKnows)'
    BY Zenon, <2>0, SoundStep
  <2> QED BY SMTT(30), <2>0, <2>1, <2>3, <2>4, <2>5, <2>6, SoundStep DEF OutInv
<1>3. OutInv => OutcomeIsRight
  BY Zenon DEF OutInv, DepInv, Earned, Sound, TimedOutTask, OutcomeIsRight
<1> QED BY <1>1, <1>2, <1>3, PTL DEF Spec
=============================================================================
