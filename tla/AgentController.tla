--------------------------- MODULE AgentController ----------------------------
(***************************************************************************)
(* The Agent controller (internal/operator/controller/agent_controller.go) *)
(* and the status helpers it uses (internal/operator/status/conditions.go):*)
(* one worker keeps the ConfigMap, the Deployment and the Service of one   *)
(* Agent at the Agent's current generation, reports it in the status, and  *)
(* deletes the Agent's Sessions and Tasks before it lets the Agent go.     *)
(* Each API call is a step; users and other controllers act in between.    *)
(***************************************************************************)
EXTENDS Integers, Sequences

CONSTANTS
  Sessions,   \* names of Sessions that may refer to the Agent
  Tasks,      \* names of Tasks that may refer to the Agent
  MaxGen,     \* bound on the Agent's generations
  MaxFaults   \* bound on failing API calls and restarts of the operator

VARIABLES
  agent,    \* exists, gen, refs (its references resolve), deleting, finalizer
  status,   \* ready (the Ready condition), observed generation, phase
  built,    \* the generation each owned resource was built from; 0: absent
  children, \* the Sessions and Tasks that refer to the Agent
  queued,   \* the Agent is in the work queue, or will be when a timer fires
  w,        \* the worker: pc, the generation it read, fresh, what it still deletes
  faults,   \* failures so far
  late      \* history: children cleanup did not see, created after its list or
            \* hidden by a list that failed

vars == <<agent, status, built, children, queued, w, faults, late>>

Children == Sessions \cup Tasks
Kinds == {"configmap", "deployment", "service"}
Idle == [pc |-> "idle", gen |-> 0, fresh |-> FALSE, left |-> {}, step |-> 1]
Pcs == Kinds \cup {"idle", "finalize", "validate", "ready", "report", "fail", "list", "delete", "release"}

TypeOK ==
  /\ agent \in [exists : BOOLEAN, gen : 1 .. MaxGen, refs : BOOLEAN, deleting : BOOLEAN, finalizer : BOOLEAN]
  /\ status \in [ready : {"none", "True", "False"}, observed : 0 .. MaxGen,
                 phase : {"none", "Ready", "Failed", "Pending", "Reconciling"}]
  /\ built \in [Kinds -> 0 .. MaxGen] /\ children \subseteq Children /\ queued \in BOOLEAN
  /\ w \in [pc : Pcs, gen : 0 .. MaxGen, fresh : BOOLEAN, left : SUBSET Children, step : 1 .. 2]
  /\ faults \in 0 .. MaxFaults /\ late \subseteq Children

Init ==
  /\ agent = [exists |-> TRUE, gen |-> 1, refs |-> FALSE, deleting |-> FALSE, finalizer |-> FALSE]
  /\ status = [ready |-> "none", observed |-> 0, phase |-> "none"]
  /\ built = [k \in Kinds |-> 0] /\ children = {} /\ queued = TRUE
  /\ w = Idle /\ faults = 0 /\ late = {}

\* An API call may fail; the bound keeps the number of failures finite.
Fails(fault) == faults' = faults + (IF fault THEN 1 ELSE 0) /\ faults' <= MaxFaults

\* DerivePhase, from the conditions an Agent can have.
DerivePhase(ready, reconciling) ==
  CASE ready = "True" -> "Ready"
    [] ready # "True" /\ reconciling -> "Reconciling"
    [] ready = "False" /\ ~reconciling -> "Failed"
    [] OTHER -> "Pending"

Reconcile ==
  /\ w.pc = "idle" /\ queued /\ agent.exists
  /\ queued' = FALSE
  /\ LET next == CASE agent.deleting /\ agent.finalizer -> "list"
                   [] agent.deleting /\ ~agent.finalizer -> "idle"
                   [] ~agent.deleting /\ ~agent.finalizer -> "finalize"
                   [] OTHER -> "validate"
     IN w' = IF next = "idle" THEN Idle
             ELSE [Idle EXCEPT !.pc = next, !.gen = agent.gen, !.fresh = TRUE]
  /\ UNCHANGED <<agent, status, built, children, faults, late>>

\* The finalizer is added and the reconcile ends: the update's own event brings the Agent back.
AddFinalizer ==
  /\ w.pc = "finalize"
  /\ agent' = IF w.fresh THEN [agent EXCEPT !.finalizer = TRUE] ELSE agent
  /\ queued' = TRUE /\ w' = Idle
  /\ UNCHANGED <<status, built, children, faults, late>>

\* validateReferences: every prompt, skill, tool binding, memory class, policy and
\* secret the spec names must be found.
ValidateReferences(fault) ==
  /\ w.pc = "validate" /\ Fails(fault)
  /\ w' = [w EXCEPT !.pc = IF fault \/ ~agent.refs THEN "fail" ELSE "configmap"]
  /\ UNCHANGED <<agent, status, built, children, queued, late>>

\* Create or update: the resource is built from the Agent as it was read, and
\* overwrites what is there.
CreateOrUpdate(kind, gen) == gen

Ensure(kind, next, fault) ==
  /\ w.pc = kind /\ Fails(fault)
  /\ w' = [w EXCEPT !.pc = IF fault THEN "fail" ELSE next]
  /\ built' = IF fault THEN built ELSE [built EXCEPT ![kind] = CreateOrUpdate(kind, w.gen)]
  /\ UNCHANGED <<agent, status, children, queued, late>>

EnsureSpecConfigMap(fault) == Ensure("configmap", "deployment", fault)
EnsureDeployment(fault) == Ensure("deployment", "service", fault)
EnsureService(fault) == Ensure("service", "ready", fault)

\* The Agent is fetched again before its status is written.
Refetch ==
  /\ w.pc = "ready"
  /\ w' = IF agent.exists THEN [w EXCEPT !.pc = "report", !.gen = agent.gen, !.fresh = TRUE] ELSE Idle
  /\ UNCHANGED <<agent, status, built, children, queued, faults, late>>

ReportReady ==
  /\ w.pc = "report"
  /\ status' = IF w.fresh /\ agent.exists
                 THEN [ready |-> "True", observed |-> w.gen, phase |-> DerivePhase("True", FALSE)]
                 ELSE status
  /\ queued' = (queued \/ ~w.fresh \/ status' # status) /\ w' = Idle
  /\ UNCHANGED <<agent, built, children, faults, late>>

\* setFailedStatus reads the Agent again, reports the failure and asks for a retry.
SetFailedStatus ==
  /\ w.pc = "fail"
  /\ status' = IF agent.exists
                 THEN [status EXCEPT !.ready = "False", !.phase = DerivePhase("False", FALSE)]
                 ELSE status
  /\ queued' = TRUE /\ w' = Idle
  /\ UNCHANGED <<agent, built, children, faults, late>>

\* cleanupOwnedResources takes the Sessions first (step 1), then the Tasks (step 2).
Listed == IF w.step = 1 THEN Sessions ELSE Tasks
Cleaned == [pc |-> IF w.step = 1 THEN "list" ELSE "release", gen |-> w.gen, fresh |-> w.fresh,
            left |-> {}, step |-> 2]

\* It lists them; a list that fails is skipped.
ListChildren(fault) ==
  /\ w.pc = "list" /\ Fails(fault)
  /\ LET seen == IF fault THEN {} ELSE children \cap Listed
     IN /\ w' = IF seen = {} THEN Cleaned ELSE [w EXCEPT !.left = seen, !.pc = "delete"]
        /\ late' = IF fault THEN late \cup (children \cap Listed) ELSE late \ seen
  /\ UNCHANGED <<agent, status, built, children, queued>>

\* A cleanup that goes on after a failed deletion loses the child it could not delete.
DeleteChildAnyway(c, fault) ==
  /\ w.pc = "delete" /\ c \in w.left /\ Fails(fault)
  /\ children' = IF fault THEN children ELSE children \ {c}
  /\ w' = IF w.left = {c} THEN Cleaned ELSE [w EXCEPT !.left = @ \ {c}]
  /\ UNCHANGED <<agent, status, built, queued, late>>

\* A cleanup that swallows the error ends without a retry.
DeleteChildGivesUp(c, fault) ==
  /\ w.pc = "delete" /\ c \in w.left /\ Fails(fault)
  /\ children' = IF fault THEN children ELSE children \ {c}
  /\ w' = IF fault THEN Idle ELSE IF w.left = {c} THEN Cleaned ELSE [w EXCEPT !.left = @ \ {c}]
  /\ UNCHANGED <<agent, status, built, queued, late>>

DeleteChild(c, fault) ==
  /\ w.pc = "delete" /\ c \in w.left /\ Fails(fault)
  /\ IF fault
       THEN w' = Idle /\ queued' = TRUE /\ UNCHANGED children
       ELSE /\ children' = children \ {c}
            /\ w' = IF w.left = {c} THEN Cleaned ELSE [w EXCEPT !.left = @ \ {c}]
            /\ UNCHANGED queued
  /\ UNCHANGED <<agent, status, built, late>>

\* The finalizer goes, and with it the Agent; garbage collection takes the owned resources.
RemoveFinalizer ==
  /\ w.pc = "release"
  /\ IF w.fresh
       THEN /\ agent' = [agent EXCEPT !.exists = FALSE, !.finalizer = FALSE]
            /\ built' = [k \in Kinds |-> 0] /\ UNCHANGED queued
       ELSE queued' = TRUE /\ UNCHANGED <<agent, built>>
  /\ w' = Idle
  /\ UNCHANGED <<status, children, faults, late>>

Restart ==
  /\ w.pc # "idle" /\ faults < MaxFaults /\ faults' = faults + 1
  /\ w' = Idle /\ queued' = TRUE
  /\ UNCHANGED <<agent, status, built, children, late>>

\* Users edit or delete the Agent, and create or delete what it refers to, which the
\* controller does not watch.
Edit ==
  /\ agent.exists /\ agent.gen < MaxGen
  /\ agent' = [agent EXCEPT !.gen = @ + 1]
  /\ queued' = TRUE /\ w' = [w EXCEPT !.fresh = FALSE]
  /\ UNCHANGED <<status, built, children, faults, late>>

Delete ==
  /\ agent.exists /\ ~agent.deleting
  /\ agent' = IF agent.finalizer THEN [agent EXCEPT !.deleting = TRUE]
              ELSE [agent EXCEPT !.exists = FALSE, !.deleting = TRUE]
  /\ built' = IF agent.finalizer THEN built ELSE [k \in Kinds |-> 0]
  /\ late' = IF agent.finalizer THEN late ELSE late \cup children
  /\ queued' = TRUE /\ w' = [w EXCEPT !.fresh = FALSE]
  /\ UNCHANGED <<status, children, faults>>

References ==
  /\ ~agent.refs /\ agent' = [agent EXCEPT !.refs = TRUE]
  /\ UNCHANGED <<status, built, children, queued, w, faults, late>>

CreateChild(c) ==
  /\ c \notin children /\ agent.exists /\ children' = children \cup {c}
  /\ late' = IF \/ w.pc = "release" \/ (w.pc = "delete" /\ c \in Listed)
                \/ (w.pc \in {"list", "delete"} /\ w.step = 2 /\ c \in Sessions)
               THEN late \cup {c} ELSE late
  /\ UNCHANGED <<agent, status, built, queued, w, faults>>

Work ==
  \/ Reconcile \/ AddFinalizer \/ Refetch \/ ReportReady \/ SetFailedStatus \/ RemoveFinalizer
  \/ \E fault \in BOOLEAN : \/ ValidateReferences(fault) \/ EnsureSpecConfigMap(fault)
                            \/ EnsureDeployment(fault) \/ EnsureService(fault) \/ ListChildren(fault)
                            \/ \E c \in Children : DeleteChild(c, fault)

Next ==
  \/ Work \/ Restart \/ Edit \/ Delete \/ References \/ \E c \in Children : CreateChild(c)

Fairness == WF_vars(Work)

Spec == Init /\ [][Next]_vars

-----------------------------------------------------------------------------
\* An Agent at rest is provisioned: when nothing is queued and the worker is idle,
\* an Agent that is not being deleted is Ready, and its ConfigMap, Deployment and
\* Service were built from its current generation, although the worker builds them
\* from one read of the Agent and reports the generation of a later one.
RestIsProvisioned ==
  (w.pc = "idle" /\ ~queued /\ agent.exists /\ ~agent.deleting)
    => /\ status.phase = "Ready" /\ status.observed = agent.gen
       /\ \A k \in Kinds : built[k] = agent.gen

\* An Agent is not let go before its Sessions and Tasks are deleted: those left
\* behind were created after the cleanup had made its list, or hidden by a list
\* that failed, which the cleanup takes for an empty one.
CleanedUp == ~agent.exists => children \subseteq late

\* An Agent that is deleted is eventually gone, under a fair worker and finitely
\* many failing calls.
DeletionEnds == agent.deleting ~> ~agent.exists
=============================================================================
