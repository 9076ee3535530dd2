-------------------------- MODULE ScheduleController --------------------------
(***************************************************************************)
(* The Schedule controller of the operator (internal/operator/controller/  *)
(* schedule_controller.go): one worker reconciles one Schedule, creates a  *)
(* Task whenever the cron expression is due, and remembers what it did in  *)
(* the status subresource.  The cron expression fires at every multiple of *)
(* Period.  Reads go to the informer cache, so Get may return the version  *)
(* before the last write; a status write is refused when the object has    *)
(* changed since the worker's copy was read, and the controller ignores    *)
(* the refusal.                                                            *)
(***************************************************************************)
EXTENDS Integers, Sequences, FiniteSets

CONSTANTS
  Period,     \* the distance between two firings of the cron expression
  Deadline,   \* StartingDeadlineSeconds; -1 stands for nil
  Limit,      \* SuccessfulTasksHistoryLimit
  Retry,      \* the delay of a requeue after a failed creation
  MaxTime,    \* bound on the clock
  MaxFaults   \* bound on spec edits and restarts of the operator

VARIABLES
  now,     \* the clock, in seconds
  policy,  \* spec.concurrencyPolicy
  obj,     \* the Schedule as the API server has it
  prev,    \* the version the informer cache may still hold
  tasks,   \* the Tasks: name (creation second) -> phase
  timer,   \* when the work queue hands the Schedule out again; -1: no timer
  event,   \* a watch event for the Schedule is queued
  w,       \* the worker: pc, copy of the Schedule, now, fresh
  faults,  \* edits and restarts so far
  fired,   \* history: the reconcile times at which a Task was created
  blind    \* history: a status write was lost or a stale copy was acted on

vars == <<now, policy, obj, prev, tasks, timer, event, w, faults, fired, blind>>

Policies == {"Allow", "Forbid", "Replace"}
Phases == {"Running", "Completed"}
Objects == [suspend : BOOLEAN, valid : BOOLEAN, last : 0 .. MaxTime,
            refs : Seq(0 .. MaxTime), missed : 0 .. MaxTime, ready : {"none", "True", "False"}]

TypeOK ==
  /\ now \in 0 .. MaxTime /\ policy \in Policies /\ obj \in Objects /\ prev \in Objects
  /\ DOMAIN tasks \subseteq 0 .. MaxTime /\ \A t \in DOMAIN tasks : tasks[t] \in Phases
  /\ timer \in -1 .. MaxTime + Period + Retry /\ event \in BOOLEAN
  /\ w \in [pc : {"idle", "replace", "create", "failed", "created"}, copy : Objects,
            now : 0 .. MaxTime, fresh : BOOLEAN]
  /\ faults \in 0 .. MaxFaults /\ fired \in Seq(0 .. MaxTime) /\ blind \in BOOLEAN

\* cron.Schedule.Next: the first firing strictly after t.
NextRun(t) == (t \div Period + 1) * Period

New == [suspend |-> FALSE, valid |-> TRUE, last |-> 0, refs |-> <<>>, missed |-> 0, ready |-> "none"]
Idle == [pc |-> "idle", copy |-> New, now |-> 0, fresh |-> FALSE]

Init ==
  /\ now = 0 /\ policy \in Policies /\ obj = New
  /\ prev = obj /\ tasks = <<>> /\ timer = -1 /\ event = TRUE
  /\ w = Idle /\ faults = 0 /\ fired = <<>> /\ blind = FALSE

\* r.Status().Update(ctx, &schedule), its error ignored: the status fields of the
\* copy replace the stored ones, unless the copy is out of date.
StatusUpdate(copy) ==
  IF w.fresh
    THEN /\ obj' = [copy EXCEPT !.suspend = obj.suspend, !.valid = obj.valid]
         /\ prev' = obj /\ event' = (event \/ obj' # obj)
    ELSE UNCHANGED <<obj, prev, event>>

\* Is a run due for this copy, and is its starting deadline over?
Due(copy) == ~copy.suspend /\ copy.valid /\ now >= NextRun(copy.last)
Late(copy) == Deadline >= 0 /\ now > NextRun(copy.last) + Deadline

\* Reconcile returns with the requeue time at, having written the status of o if it
\* differs from the copy (and the copy is not out of date).
Return(copy, o, at) ==
  /\ w' = Idle /\ timer' = at
  /\ IF o # copy /\ copy = obj
       THEN obj' = o /\ prev' = obj /\ event' = TRUE
       ELSE UNCHANGED <<obj, prev>> /\ event' = FALSE
  /\ UNCHANGED blind

Suspended(copy) == copy.suspend /\ Return(copy, copy, -1)
Invalid(copy) ==
  ~copy.suspend /\ ~copy.valid /\ Return(copy, [copy EXCEPT !.ready = "False"], -1)
Scheduled(copy) ==
  /\ ~copy.suspend /\ copy.valid /\ ~Due(copy)
  /\ Return(copy, [copy EXCEPT !.ready = "True"], NextRun(copy.last))
Missed(copy) ==
  /\ Due(copy) /\ Late(copy)
  /\ Return(copy, [copy EXCEPT !.missed = @ + 1, !.last = now], NextRun(now))
Forbidden(copy) ==
  /\ Due(copy) /\ ~Late(copy) /\ policy = "Forbid" /\ copy.refs # <<>>
  /\ Return(copy, copy, NextRun(now))

\* Otherwise the worker goes on to create a Task.
Triggers(copy) ==
  /\ Due(copy) /\ ~Late(copy) /\ ~(policy = "Forbid" /\ copy.refs # <<>>)
  /\ w' = [pc |-> IF policy = "Replace" /\ copy.refs # <<>> THEN "replace" ELSE "create",
           copy |-> copy, now |-> now, fresh |-> copy = obj]
  /\ timer' = -1 /\ event' = FALSE /\ UNCHANGED <<obj, prev>>
  /\ blind' = (blind \/ copy # obj)

\* The worker takes the Schedule from the queue and reads it, from the cache.
Reconcile ==
  /\ w.pc = "idle" /\ (event \/ (timer >= 0 /\ timer <= now))
  /\ \E copy \in {obj, prev} :
       \/ Suspended(copy) \/ Invalid(copy) \/ Scheduled(copy)
       \/ Missed(copy) \/ Forbidden(copy) \/ Triggers(copy)
  /\ UNCHANGED <<now, policy, tasks, faults, fired>>

\* The tasks that status.activeTaskRefs of a Schedule names.
Listed(o) == {o.refs[i] : i \in 1 .. Len(o.refs)}

\* Replace: the tasks the copy lists are deleted, found or not, and the list is cleared.
ReplaceActive ==
  /\ w.pc = "replace"
  /\ tasks' = [t \in DOMAIN tasks \ Listed(w.copy) |-> tasks[t]]
  /\ w' = [w EXCEPT !.pc = "create", !.copy.refs = <<>>]
  /\ UNCHANGED <<now, policy, obj, prev, timer, event, faults, fired, blind>>

\* createTriggeredResource: the name carries the current second; a Task of that
\* name already there makes Create fail.
CreateTriggeredResource ==
  /\ w.pc = "create"
  /\ IF now \in DOMAIN tasks
       THEN /\ w' = [w EXCEPT !.pc = "failed"]
            /\ UNCHANGED <<tasks, fired>>
       ELSE /\ tasks' = [t \in DOMAIN tasks \cup {now} |-> IF t = now THEN "Running" ELSE tasks[t]]
            /\ fired' = Append(fired, w.now)
            /\ w' = [w EXCEPT !.pc = "created", !.copy.refs = Append(@, now)]
  /\ UNCHANGED <<now, policy, obj, prev, timer, event, faults, blind>>

TriggerFailed ==
  /\ w.pc = "failed"
  /\ StatusUpdate([w.copy EXCEPT !.ready = "False"])
  /\ timer' = now + Retry /\ w' = Idle
  /\ UNCHANGED <<now, policy, tasks, faults, fired, blind>>

\* The history limit cuts the list of active tasks to its last Limit names.
Kept(refs) == IF Len(refs) > Limit THEN SubSeq(refs, Len(refs) - Limit + 1, Len(refs)) ELSE refs

\* A controller that stamps the time the run was due leaves the slot open.
TriggeredAtDue ==
  /\ w.pc = "created"
  /\ StatusUpdate([w.copy EXCEPT !.refs = Kept(@), !.ready = "True"])
  /\ timer' = NextRun(w.now) /\ w' = Idle /\ blind' = (blind \/ ~w.fresh)
  /\ UNCHANGED <<now, policy, tasks, faults, fired>>

Triggered ==
  /\ w.pc = "created"
  /\ StatusUpdate([w.copy EXCEPT !.last = w.now, !.refs = Kept(@), !.ready = "True"])
  /\ timer' = NextRun(w.now) /\ w' = Idle /\ blind' = (blind \/ ~w.fresh)
  /\ UNCHANGED <<now, policy, tasks, faults, fired>>

\* A user edits the Schedule: suspends or resumes it, or breaks or mends its cron expression.
Edit ==
  /\ faults < MaxFaults /\ faults' = faults + 1
  /\ \E field \in {"suspend", "valid"} : obj' = [obj EXCEPT ![field] = ~@]
  /\ prev' = obj /\ event' = TRUE /\ w' = [w EXCEPT !.fresh = FALSE]
  /\ UNCHANGED <<now, policy, tasks, timer, fired, blind>>

\* The operator restarts: the worker's state is gone and every object is queued again.
Restart ==
  /\ w.pc # "idle" /\ faults < MaxFaults /\ faults' = faults + 1
  /\ w' = Idle /\ timer' = -1 /\ event' = TRUE /\ prev' = obj
  /\ blind' = (blind \/ w.pc = "created")
  /\ UNCHANGED <<now, policy, obj, tasks, fired>>

CacheSync ==
  /\ prev # obj /\ prev' = obj
  /\ UNCHANGED <<now, policy, obj, tasks, timer, event, w, faults, fired, blind>>

\* The Task controller finishes a Task.
TaskDone(t) ==
  /\ t \in DOMAIN tasks /\ tasks[t] = "Running"
  /\ tasks' = [tasks EXCEPT ![t] = "Completed"]
  /\ UNCHANGED <<now, policy, obj, prev, timer, event, w, faults, fired, blind>>

Tick ==
  /\ now < MaxTime /\ now' = now + 1
  /\ UNCHANGED <<policy, obj, prev, tasks, timer, event, w, faults, fired, blind>>

Next ==
  \/ Reconcile \/ ReplaceActive \/ CreateTriggeredResource \/ TriggerFailed \/ Triggered
  \/ Edit \/ Restart \/ CacheSync \/ Tick \/ \E t \in 0 .. MaxTime : TaskDone(t)

Spec == Init /\ [][Next]_vars

-----------------------------------------------------------------------------
\* One firing of the cron expression creates at most one Task: unless a status
\* write was lost or a stale copy was read, a firing lies between any two
\* creations, whatever edits and restarts come in between.
OncePerFiring ==
  blind \/ \A i \in 1 .. Len(fired) - 1 : NextRun(fired[i]) <= fired[i + 1]

\* With the Replace policy the tasks of earlier firings are gone when the next one
\* has been recorded: at most one Task is left running, as long as the history
\* limit keeps the name of the last one and no status write was lost.
ReplaceLeavesOne ==
  (policy = "Replace" /\ Limit > 0 /\ ~blind /\ w.pc = "idle")
    => Cardinality({t \in DOMAIN tasks : tasks[t] = "Running"}) <= 1

\* Both together: what the Schedule creates follows its firings.
FiringsAreServed == OncePerFiring /\ ReplaceLeavesOne
=============================================================================
