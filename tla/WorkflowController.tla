------------------------- MODULE WorkflowController -------------------------
(***************************************************************************)
(* The operator's Workflow and Task reconcilers                            *)
(* (internal/operator/controller/workflow_controller.go, task_controller.go*)
(* and topoSort of dag.go) for one Workflow object.                        *)
(*                                                                         *)
(* The reconcilers read through the manager's informer cache, which lags   *)
(* behind the API server; a status update succeeds only if it is based on  *)
(* the latest version of the object.  The work queue runs at most one      *)
(* Reconcile of a key at a time.  A step has a task reference exactly when *)
(* its task was created in a pass that was recorded, that is when its      *)
(* phase is Running or was so, and the references are left out.            *)
(***************************************************************************)
EXTENDS Naturals, Sequences, FiniteSets

CONSTANTS Steps,     \* spec.steps: a sequence of distinct names
          Finally,   \* spec.finally: a sequence of other names
          Graphs,    \* the dependsOn lists that the steps may have
          Faults,    \* what may go wrong: "create", "restart"
          MaxFaults  \* how often

Main == {Steps[k] : k \in DOMAIN Steps}
Last == {Finally[k] : k \in DOMAIN Finally}
Names == Main \cup Last

ASSUME WorkflowAssumption ==
    /\ Len(Steps) \in Nat \ {0} /\ DOMAIN Steps = 1 .. Len(Steps)
    /\ Len(Finally) \in Nat /\ DOMAIN Finally = 1 .. Len(Finally)
    /\ Cardinality(Main) = Len(Steps) /\ Cardinality(Last) = Len(Finally)
    /\ Main \cap Last = {}
    /\ Graphs \subseteq [Main -> Seq(Names)]
    /\ Faults \subseteq {"create", "restart"}
    /\ MaxFaults \in Nat

VARIABLES deps,      \* dependsOn of every step
          failFast,
          obj,       \* the status of the Workflow in the API server
          cache,     \* and in the informer cache
          synced,    \* does the cache hold the latest version?
          task,      \* the phase of every Task in the API server
          tcache,    \* and in the informer cache
          queued,    \* is the Workflow in the work queue, or about to be?
          pc,        \* where Reconcile is
          at,        \* index of the step or finally step it looks at next
          snap,      \* stepPhase: the phases when this Reconcile began
          view,      \* the status it computes
          anyFailed, allDone, requeue,
          faults     \* how many faults there were

spec == <<deps, failFast>>
pass == <<at, snap, view, anyFailed, allDone, requeue>>
vars == <<spec, obj, cache, synced, task, tcache, queued, pc, pass, faults>>

Phases == {"none", "Pending", "Running", "Succeeded", "Failed"}
TaskPhases == {"none", "new", "Running", "Completed", "TimedOut"}
Terminal == {"Completed", "Failed"}
Ended == {"Succeeded", "Failed"}
Status(ph, st) == [phase |-> ph, step |-> st]
StatusSet == [phase : {"new", "Running"} \cup Terminal, step : [Names -> Phases]]
Untracked == [s \in Names |-> "none"]

-----------------------------------------------------------------------------
(* topoSort *)

\* Kahn's algorithm: what inDegree, queue and order are after k removals from
\* the queue.  A dependency that is no step of the workflow is never removed.
\* (A variant that does not count dependencies on unknown steps.)
InDegreeKnown(d) == [s \in Main |-> Cardinality({k \in DOMAIN d[s] : d[s][k] \in Main})]
InDegree(d) == [s \in Main |-> Len(d[s])]
Occurrences(d, n, s) == Cardinality({k \in DOMAIN d[s] : d[s][k] = n})
Lowered(d, deg, n) == [s \in Main |-> deg[s] - Occurrences(d, n, s)]
InOrder(S) == SelectSeq(Steps, LAMBDA s : s \in S)

Dequeued(d, k) ==
    LET n   == Head(k.queue)
        deg == Lowered(d, k.deg, n)
    IN  [deg   |-> deg,
         order |-> Append(k.order, n),
         queue |-> Tail(k.queue) \o
                   InOrder({s \in Main : deg[s] = 0 /\ k.deg[s] # 0})]

Kahn(d) ==
    LET K[k \in 0 .. Len(Steps)] ==
            IF k = 0
            THEN [deg |-> InDegree(d), order |-> <<>>,
                  queue |-> InOrder({s \in Main : InDegree(d)[s] = 0})]
            ELSE LET prev == K[k - 1]
                 IN  IF prev.queue = <<>> THEN prev ELSE Dequeued(d, prev)
    IN  K[Len(Steps)]

Sortable(d) == Len(Kahn(d).order) = Len(Steps)

-----------------------------------------------------------------------------
Init == /\ deps \in Graphs
        /\ failFast \in BOOLEAN
        /\ obj = Status("new", Untracked) /\ cache = obj /\ synced = TRUE
        /\ task = Untracked /\ tcache = Untracked
        /\ queued = TRUE
        /\ pc = "idle"
        /\ at = 1 /\ snap = Untracked /\ view = obj
        /\ anyFailed = FALSE /\ allDone = TRUE /\ requeue = FALSE
        /\ faults = 0

Fault(f) == /\ f \in Faults /\ faults < MaxFaults
            /\ faults' = faults + 1

\* The registers of a Reconcile that is not running.
Idle == /\ pc' = "idle" /\ at' = 1 /\ snap' = Untracked
        /\ view' = Status("new", Untracked)
        /\ anyFailed' = FALSE /\ allDone' = TRUE /\ requeue' = FALSE

\* Status().Update of an object that was read from the cache.
Update(s) == /\ synced
             /\ obj' = s
             /\ synced' = (s = obj)
Conflict == ~synced /\ UNCHANGED <<obj, synced>>

\* Reconcile of a Workflow whose phase is terminal does nothing.
Skip == /\ pc = "idle" /\ queued
        /\ cache.phase \in Terminal
        /\ queued' = FALSE
        /\ UNCHANGED <<spec, faults, obj, cache, synced, task, tcache, pc, pass>>

\* A workflow that topoSort rejects fails.  (The error of this update is dropped;
\* the cache is never behind here.)
Reject == /\ pc = "idle" /\ queued
          /\ cache.phase = "new" /\ ~Sortable(deps)
          /\ Update(Status("Failed", Untracked))
          /\ queued' = FALSE
          /\ UNCHANGED <<spec, faults, cache, task, tcache, pc, pass>>

\* Any other new workflow starts, with every step pending.
Start == /\ pc = "idle" /\ queued
         /\ cache.phase = "new" /\ Sortable(deps)
         /\ \/ Update(Status("Running", [s \in Names |->
                             IF s \in Main THEN "Pending" ELSE "none"]))
            \/ Conflict
         /\ queued' = TRUE
         /\ UNCHANGED <<spec, faults, cache, task, tcache, pc, pass>>

\* Reconcile of a running workflow begins.
Begin == /\ pc = "idle" /\ queued
         /\ cache.phase = "Running"
         /\ queued' = FALSE
         /\ pc' = "step" /\ at' = 1
         /\ snap' = cache.step /\ view' = cache
         /\ anyFailed' = FALSE /\ allDone' = TRUE /\ requeue' = FALSE
         /\ UNCHANGED <<spec, faults, obj, cache, synced, task, tcache>>

SetStep(s, ph) == view' = [view EXCEPT !.step[s] = ph]
Advance == /\ at' = IF at = Len(Steps) THEN 1 ELSE at + 1
           /\ pc' = IF at = Len(Steps) THEN "finally" ELSE "step"

\* The loop looks at a step that has ended.
StepEnded(s) ==
    /\ view.step[s] \in Ended
    /\ anyFailed' = (anyFailed \/ view.step[s] = "Failed")
    /\ UNCHANGED <<view, allDone, requeue, task>>

\* With failFast a step behind a failed one fails as well.
StepSkipped(s) ==
    /\ view.step[s] \notin Ended
    /\ failFast /\ anyFailed
    /\ SetStep(s, "Failed")
    /\ UNCHANGED <<anyFailed, allDone, requeue, task>>

\* A variant for which a dependency is met as soon as it runs.
UnmetUnstarted(s) ==
    {k \in DOMAIN deps[s] : snap[deps[s][k]] \notin {"Running", "Succeeded"}}

\* The positions of the dependencies that have not succeeded, and the first one.
Unmet(s) == {k \in DOMAIN deps[s] : snap[deps[s][k]] # "Succeeded"}
FirstUnmet(s) == deps[s][CHOOSE k \in Unmet(s) : \A j \in Unmet(s) : k <= j]

\* A variant that leaves a step pending behind a failed dependency.
StepBlockedWaits(s) ==
    /\ view.step[s] \notin Ended /\ ~(failFast /\ anyFailed)
    /\ Unmet(s) # {}
    /\ allDone' = FALSE
    /\ UNCHANGED <<view, anyFailed, requeue, task>>

\* A step waits for its dependencies, or fails if the first unmet one failed.
StepBlocked(s) ==
    /\ view.step[s] \notin Ended /\ ~(failFast /\ anyFailed)
    /\ Unmet(s) # {}
    /\ IF snap[FirstUnmet(s)] = "Failed"
       THEN SetStep(s, "Failed") ELSE UNCHANGED view
    /\ allDone' = FALSE
    /\ UNCHANGED <<anyFailed, requeue, task>>

Ready(s) == /\ view.step[s] \notin Ended /\ ~(failFast /\ anyFailed)
            /\ Unmet(s) = {}

CreateTask(s) == task' = [task EXCEPT ![s] = IF @ = "none" THEN "new" ELSE @]

\* A step that is ready gets its task; one that already exists will do.
StepCreate(s) ==
    /\ Ready(s) /\ view.step[s] = "Pending"
    /\ CreateTask(s)
    /\ SetStep(s, "Running")
    /\ allDone' = FALSE /\ requeue' = TRUE
    /\ UNCHANGED anyFailed

\* A variant that ignores a timeout.
ResultLenient(s) == "Succeeded"

\* The result of a task that has one.
Result(s) == IF tcache[s] = "Completed" THEN "Succeeded" ELSE "Failed"
HasResult(s) == tcache[s] \in {"Completed", "TimedOut"}

\* A step with a task takes over its result.
StepCheck(s) ==
    /\ Ready(s) /\ view.step[s] = "Running"
    /\ IF HasResult(s)
       THEN /\ SetStep(s, Result(s))
            /\ anyFailed' = (anyFailed \/ Result(s) = "Failed")
            /\ UNCHANGED <<allDone, requeue>>
       ELSE /\ allDone' = FALSE /\ requeue' = TRUE
            /\ UNCHANGED <<view, anyFailed>>
    /\ UNCHANGED task

\* One iteration of the loop over the steps.
Step == /\ pc = "step"
        /\ LET s == Steps[at]
           IN  \/ StepEnded(s) \/ StepSkipped(s) \/ StepBlocked(s)
               \/ StepCreate(s) \/ StepCheck(s)
        /\ Advance
        /\ UNCHANGED <<spec, faults, obj, cache, synced, tcache, queued, snap>>

\* A Create that fails ends the Reconcile with an error.
CreateFails == /\ pc = "step" /\ Fault("create")
               /\ Ready(Steps[at]) /\ view.step[Steps[at]] = "Pending"
               /\ Idle /\ queued' = TRUE
               /\ UNCHANGED <<spec, obj, cache, synced, task, tcache>>

RunFinally == allDone \/ (failFast /\ anyFailed)

\* runFinallySteps: a finally step not tracked yet gets its task; when the
\* Create fails it stays untracked.
FinallyStep ==
    /\ pc = "finally" /\ RunFinally /\ at <= Len(Finally)
    /\ LET s == Finally[at]
       IN  \/ /\ view.step[s] # "none"
              /\ UNCHANGED <<view, task, faults>>
           \/ /\ view.step[s] = "none"
              /\ CreateTask(s) /\ SetStep(s, "Running")
              /\ UNCHANGED faults
           \/ /\ view.step[s] = "none" /\ Fault("create")
              /\ UNCHANGED <<view, task>>
    /\ at' = at + 1
    /\ UNCHANGED <<spec, obj, cache, synced, tcache, queued, pc,
                   snap, anyFailed, allDone, requeue>>

\* What the check after the finally steps makes of the phases.
Checked(st) == [s \in Names |-> IF st[s] = "Running" /\ HasResult(s)
                                THEN Result(s) ELSE st[s]]
AllStepsDone(st) == \A s \in Names : st[s] \in Ended \cup {"none"}

\* The check after the finally steps, and the outcome.
Outcome ==
    /\ pc = "finally"
    /\ RunFinally => at > Len(Finally)
    /\ LET st   == IF RunFinally THEN Checked(view.step) ELSE view.step
           done == AllStepsDone(st)
       IN  /\ view' = Status(IF ~done THEN view.phase
                             ELSE IF anyFailed THEN "Failed" ELSE "Completed", st)
           /\ requeue' = /\ ~done
                         /\ requeue \/ \E s \in Names : RunFinally
                                                        /\ st[s] = "Running"
    /\ pc' = "write"
    /\ UNCHANGED <<spec, faults, obj, cache, synced, task, tcache, queued,
                   at, snap, anyFailed, allDone>>

\* The object is read again, and the computed status is written over it.
Write == /\ pc = "write"
         /\ \/ Update(view) /\ queued' = (queued \/ requeue)
            \/ Conflict /\ queued' = TRUE
         /\ Idle
         /\ UNCHANGED <<spec, faults, cache, task, tcache>>

-----------------------------------------------------------------------------
(* The informer caches, the Task reconciler, restarts of the operator *)

\* The watch delivers the latest version of the Workflow and enqueues it.
Sync == /\ ~synced
        /\ cache' = obj /\ synced' = TRUE
        /\ queued' = TRUE
        /\ UNCHANGED <<spec, faults, obj, task, tcache, pc, pass>>

\* The watch of the owned Tasks does the same.
SyncTask(s) == /\ tcache[s] # task[s]
               /\ tcache' = [tcache EXCEPT ![s] = task[s]]
               /\ queued' = TRUE
               /\ UNCHANGED <<spec, faults, obj, cache, synced, task, pc, pass>>

TaskGoes(s, from, to) ==
    /\ task[s] = from
    /\ task' = [task EXCEPT ![s] = to]
    /\ UNCHANGED <<spec, faults, obj, cache, synced, tcache, queued, pc, pass>>

TaskStart(s) == TaskGoes(s, "new", "Running")
TaskComplete(s) == TaskGoes(s, "Running", "Completed")
TaskTimeout(s) == TaskGoes(s, "Running", "TimedOut")

\* The operator dies and starts again: its caches are filled and every object
\* is enqueued.
Restart == /\ Fault("restart")
           /\ Idle /\ queued' = TRUE
           /\ cache' = obj /\ synced' = TRUE /\ tcache' = task
           /\ UNCHANGED <<spec, obj, task>>

Reconcile == Skip \/ Reject \/ Start \/ Begin \/ Step \/ CreateFails
             \/ FinallyStep \/ Outcome \/ Write
TaskReconcile(s) == TaskStart(s) \/ TaskComplete(s) \/ TaskTimeout(s)

Next == \/ Reconcile \/ Sync \/ Restart
        \/ \E s \in Names : SyncTask(s) \/ TaskReconcile(s)

Spec == Init /\ [][Next]_vars

\* The controllers' workers keep running and the watches keep delivering.
FairSpec == /\ Spec
            /\ WF_vars(Reconcile) /\ WF_vars(Sync)
            /\ \A s \in Names : WF_vars(SyncTask(s)) /\ WF_vars(TaskReconcile(s))

-----------------------------------------------------------------------------
(* Properties *)

\* Status, caches, tasks and registers are well typed.
TypeOK == /\ deps \in [Main -> Seq(Names)]
          /\ obj \in StatusSet /\ cache \in StatusSet /\ view \in StatusSet
          /\ synced \in BOOLEAN /\ queued \in BOOLEAN /\ failFast \in BOOLEAN
          /\ task \in [Names -> TaskPhases] /\ tcache \in [Names -> TaskPhases]
          /\ snap \in [Names -> Phases]
          /\ pc \in {"idle", "step", "finally", "write"}
          /\ at \in 1 .. IF pc = "step" THEN Len(Steps) ELSE Len(Finally) + 1
          /\ anyFailed \in BOOLEAN /\ allDone \in BOOLEAN /\ requeue \in BOOLEAN
          /\ faults \in 0 .. MaxFaults

\* Reference: no set of steps feeds itself, and every dependency is a step.
Acyclic == \A S \in SUBSET Main :
               S # {} => \E s \in S : \A k \in DOMAIN deps[s] :
                                          deps[s][k] \in Main \ S

\* topoSort accepts exactly the acyclic workflows, with every step behind its
\* dependencies, and a workflow it rejects never runs a task.
SortIsSound ==
    LET o == Kahn(deps).order
    IN  /\ Sortable(deps) <=> Acyclic
        /\ \A j \in DOMAIN o : \A k \in DOMAIN deps[o[j]] :
               \E i \in 1 .. j - 1 : o[i] = deps[o[j]][k]
        /\ ~Sortable(deps) => \A s \in Names : task[s] = "none"

\* The task of a step exists only if those of all its dependencies have completed,
\* however stale the status was that a Reconcile started from.
DependenciesFirst ==
    \A s \in Main : task[s] # "none" =>
        \A k \in DOMAIN deps[s] : task[deps[s][k]] = "Completed"

\* A step that Succeeded has a completed task, a workflow is Completed only if all of
\* them have, and Failed only if topoSort rejected it or a task timed out.
OutcomeIsRight ==
    /\ \A s \in Names : obj.step[s] = "Succeeded" => task[s] = "Completed"
    /\ obj.phase = "Completed" => \A s \in Main : task[s] = "Completed"
    /\ obj.phase = "Failed" => \/ ~Sortable(deps)
                               \/ \E s \in Main : task[s] = "TimedOut"

\* Every workflow ends and stays so.
WorkflowEnds == <>[](obj.phase \in Terminal)

\* "Finally lists steps that always run after the main steps complete."
FinallyAlwaysRuns ==
    obj.phase \in Terminal /\ Sortable(deps) => \A s \in Last : task[s] # "none"

-----------------------------------------------------------------------------
(* An instance for model checking *)

MCSteps == <<"a", "b", "c">>
MCFinally == <<"f">>

Lists == {<<>>, <<"a">>, <<"b">>, <<"c">>, <<"f">>,
          <<"a", "b">>, <<"b", "a">>, <<"a", "c">>, <<"c", "b">>}
Graph(x, y, z) == [a |-> x, b |-> y, c |-> z]

\* Chains along and against the order of declaration, a fork, joins whose lists are
\* in either order.
Shapes == {Graph(<<>>, <<"a">>, <<"b">>), Graph(<<"b">>, <<"c">>, <<>>),
           Graph(<<>>, <<"a">>, <<"a">>), Graph(<<>>, <<>>, <<"a", "b">>),
           Graph(<<>>, <<>>, <<"b", "a">>)}

\* These, graphs without a first step, and graphs with an unknown dependency.
MCGraphs ==
    Shapes \cup {Graph(t[1], t[2], t[3]) : t \in
                   {u \in Lists \X Lists \X Lists :
                       \/ <<>> \notin {u[1], u[2], u[3]}
                       \/ <<"f">> \in {u[1], u[2], u[3]}}}
=============================================================================
