---------------------------- MODULE OperatorProofs ----------------------------
(***************************************************************************)
(* Theorems about the Agent, Session, StateStore and the validating        *)
(* controllers of the operator and about the rate limiter, for any number  *)
(* of objects, requests, faults and restarts.  Each component is an        *)
(* instance of its own module; the instances share variable names and no   *)
(* theorem is about two of them.                                           *)
(***************************************************************************)
EXTENDS Integers, TLAPS

CONSTANTS Sessions, Tasks, MaxGen, MaxFaults, TTL, MaxTime, Strays, Grace, MaxEdits, Kinds, Users
VARIABLES agent, w, faults, queued, status, built, children, late, now, sess, class, event, timer, active, store, edits,
  obj, refs, counted

-----------------------------------------------------------------------------
(* The Agent controller *)

Agt == INSTANCE AgentController

AgtWorkers == [pc : Agt!Pcs, gen : Nat, fresh : BOOLEAN, left : SUBSET Agt!Children, step : {1, 2}]

AgtType ==
  /\ agent \in [exists : BOOLEAN, gen : Nat, refs : BOOLEAN, deleting : BOOLEAN, finalizer : BOOLEAN]
  /\ status \in [ready : {"none", "True", "False"}, observed : Nat,
                 phase : {"none", "Ready", "Failed", "Pending", "Reconciling"}]
  /\ built \in [Agt!Kinds -> Nat] /\ children \subseteq Agt!Children /\ queued \in BOOLEAN
  /\ w \in AgtWorkers

\* Unless the Agent is in the queue, the worker knows its generation, the resources it
\* has passed are built from it, and at rest all is as reported.
Watched == ~queued /\ agent.exists /\ ~agent.deleting
FollowInv ==
  Watched =>
    /\ w.pc # "idle" => w.gen = agent.gen
    /\ w.pc \in {"deployment", "service", "ready", "report"} => built["configmap"] = agent.gen
    /\ w.pc \in {"service", "ready", "report"} => built["deployment"] = agent.gen
    /\ w.pc \in {"ready", "report"} => built["service"] = agent.gen
    /\ w.pc = "idle" => /\ status.phase = "Ready" /\ status.observed = agent.gen
                        /\ \A k \in Agt!Kinds : built[k] = agent.gen

\* Cleanup runs while the Agent is being deleted; what it has been through is deleted,
\* still on its list, or late.
CleanInv ==
  /\ w.pc \in {"list", "delete", "release"} => agent.exists /\ agent.deleting
  /\ w.pc = "list" /\ w.step = 2 => children \cap Sessions \subseteq late
  /\ w.pc = "delete" /\ w.step = 1 => children \cap Sessions \subseteq late \cup w.left
  /\ w.pc = "delete" /\ w.step = 2 => children \subseteq late \cup w.left
  /\ w.pc = "release" => children \subseteq late
  /\ Agt!CleanedUp

AgtInv == AgtType /\ FollowInv /\ CleanInv

\* A worker that is idle.
LEMMA AgtIdle == Agt!Idle \in AgtWorkers /\ Agt!Idle.pc = "idle"
BY Zenon DEF Agt!Idle, AgtWorkers, Agt!Pcs, Agt!Kinds

\* The reconcile ends and the Agent is in the queue again.
LEMMA AgtRetried ==
  ASSUME AgtInv, w' = Agt!Idle, queued', queued' \in BOOLEAN, UNCHANGED <<agent, built, children, late>>,
         status' \in [ready : {"none", "True", "False"}, observed : Nat,
                      phase : {"none", "Ready", "Failed", "Pending", "Reconciling"}]
  PROVE  AgtInv'
<1>1. AgtType'
  BY Zenon, AgtIdle DEF AgtInv, AgtType
<1>2. FollowInv' /\ CleanInv'
  BY Zenon, AgtIdle DEF AgtInv, FollowInv, Watched, CleanInv, Agt!CleanedUp
<1> QED BY Zenon, <1>1, <1>2 DEF AgtInv

\* The worker moves on to another step; children and what was built are as they were.
LEMMA AgtMoved ==
  ASSUME NEW pc \in Agt!Pcs, AgtInv, w' = [w EXCEPT !.pc = pc]
  PROVE  w' \in AgtWorkers /\ w'.pc = pc /\ w'.gen = w.gen /\ w'.left = w.left /\ w'.step = w.step
BY Zenon DEF AgtInv, AgtType, AgtWorkers

\* Every step of the worker, of users and of the operator keeps the invariant.
LEMMA AgtStep == AgtInv /\ [Agt!Next]_Agt!vars => AgtInv'
<1> SUFFICES ASSUME AgtInv, [Agt!Next]_Agt!vars PROVE AgtInv'
  BY Zenon
<1>0. /\ w \in AgtWorkers /\ agent.gen \in Nat /\ agent.exists \in BOOLEAN /\ agent.deleting \in BOOLEAN
      /\ agent.finalizer \in BOOLEAN
      /\ w.gen \in Nat /\ w.left \in SUBSET Agt!Children /\ w.step \in {1, 2} /\ w.pc \in Agt!Pcs
  BY Zenon DEF AgtInv, AgtType, AgtWorkers
<1>1. CASE Agt!Reconcile
  <2>1. w.pc = "idle" /\ agent.exists /\ queued' = FALSE /\ UNCHANGED <<agent, status, built, children, late>>
    BY Zenon, <1>1 DEF Agt!Reconcile
  <2>2. CASE agent.deleting /\ ~agent.finalizer /\ w' = Agt!Idle
    <3>1. AgtType'
      BY Zenon, <2>1, <2>2, AgtIdle DEF AgtInv, AgtType
    <3> QED BY Zenon, <2>1, <2>2, <3>1, AgtIdle DEF AgtInv, FollowInv, Watched, CleanInv, Agt!CleanedUp
  <2>3. ASSUME NEW next \in {"list", "finalize", "validate"}, next = "list" <=> agent.deleting,
               w' = [Agt!Idle EXCEPT !.pc = next, !.gen = agent.gen, !.fresh = TRUE]
        PROVE  AgtInv'
    <3>1. w' \in AgtWorkers /\ w'.pc = next /\ w'.gen = agent.gen /\ w'.step = 1
      BY Zenon, <1>0, <2>3 DEF Agt!Idle, AgtWorkers, Agt!Pcs, Agt!Kinds
    <3>2. AgtType'
      BY Zenon, <2>1, <3>1 DEF AgtInv, AgtType
    <3>3. FollowInv'
      BY Zenon, <2>1, <2>3, <3>1 DEF FollowInv, Watched
    <3>4. CleanInv'
      BY <2>1, <2>3, <3>1 DEF CleanInv, Agt!CleanedUp
    <3> QED BY Zenon, <3>2, <3>3, <3>4 DEF AgtInv
  <2> QED BY Zenon, <1>0, <1>1, <2>2, <2>3 DEF Agt!Reconcile
<1>2. CASE Agt!AddFinalizer
  <2>1. /\ w' = Agt!Idle /\ queued' = TRUE /\ UNCHANGED <<status, built, children, late>>
        /\ agent'.exists = agent.exists
        /\ agent' \in [exists : BOOLEAN, gen : Nat, refs : BOOLEAN, deleting : BOOLEAN, finalizer : BOOLEAN]
    BY Zenon, <1>2 DEF Agt!AddFinalizer, AgtInv, AgtType
  <2>2. AgtType'
    BY Zenon, <2>1, AgtIdle DEF AgtInv, AgtType
  <2> QED BY Zenon, <2>1, <2>2, AgtIdle DEF AgtInv, FollowInv, Watched, CleanInv, Agt!CleanedUp
<1>3. ASSUME NEW fault \in BOOLEAN, Agt!ValidateReferences(fault) PROVE AgtInv'
  <2>1. w.pc = "validate" /\ UNCHANGED <<agent, status, built, children, queued, late>>
    BY Zenon, <1>3 DEF Agt!ValidateReferences
  <2>2. PICK pc \in {"fail", "configmap"} : w' = [w EXCEPT !.pc = pc]
    BY Zenon, <1>3 DEF Agt!ValidateReferences
  <2>3. /\ w' \in AgtWorkers /\ w'.pc = pc /\ w'.gen = w.gen
    BY Zenon, <2>2, AgtMoved DEF Agt!Pcs, Agt!Kinds
  <2>4. AgtType'
    BY <2>1, <2>3 DEF AgtInv, AgtType
  <2> QED BY Zenon, <2>1, <2>3, <2>4 DEF AgtInv, FollowInv, Watched, CleanInv, Agt!CleanedUp
<1>4. ASSUME NEW kind \in Agt!Kinds, NEW next \in {"deployment", "service", "ready"}, NEW fault \in BOOLEAN,
             Agt!Ensure(kind, next, fault),
             next = (IF kind = "configmap" THEN "deployment" ELSE IF kind = "deployment" THEN "service" ELSE "ready")
      PROVE  AgtInv'
  <2>1. w.pc = kind /\ UNCHANGED <<agent, status, children, queued, late>>
    BY Zenon, <1>4 DEF Agt!Ensure
  <2>2. CASE w' = [w EXCEPT !.pc = "fail"] /\ built' = built
    <3>1. w' \in AgtWorkers /\ w'.pc = "fail" /\ w'.gen = w.gen
      BY Zenon, <2>2, AgtMoved DEF Agt!Pcs
    <3>2. AgtType'
      BY <2>1, <2>2, <3>1 DEF AgtInv, AgtType
    <3> QED BY Zenon, <2>1, <2>2, <3>1, <3>2 DEF AgtInv, FollowInv, Watched, CleanInv, Agt!CleanedUp, Agt!Kinds
  <2>3. CASE w' = [w EXCEPT !.pc = next] /\ built' = [built EXCEPT ![kind] = w.gen]
    <3>1. w' \in AgtWorkers /\ w'.pc = next /\ w'.gen = w.gen
      BY Zenon, <2>3, AgtMoved DEF Agt!Pcs, Agt!Kinds
    <3>2. /\ built' \in [Agt!Kinds -> Nat] /\ built'[kind] = w.gen
          /\ \A k \in Agt!Kinds : k # kind => built'[k] = built[k]
      BY Zenon, <1>0, <2>3 DEF AgtInv, AgtType
    <3>3. AgtType'
      BY <2>1, <3>1, <3>2 DEF AgtInv, AgtType
    <3>4. FollowInv'
      BY Zenon, <1>4, <2>1, <3>1, <3>2 DEF AgtInv, FollowInv, Watched, Agt!Kinds
    <3>5. CleanInv'
      BY Zenon, <2>1, <3>1 DEF AgtInv, CleanInv, Agt!CleanedUp
    <3> QED BY Zenon, <3>3, <3>4, <3>5 DEF AgtInv
  <2> QED BY Zenon, <1>4, <2>2, <2>3 DEF Agt!Ensure, Agt!CreateOrUpdate
<1>5. ASSUME NEW fault \in BOOLEAN,
             Agt!EnsureSpecConfigMap(fault) \/ Agt!EnsureDeployment(fault) \/ Agt!EnsureService(fault)
      PROVE  AgtInv'
  BY Zenon, <1>4, <1>5 DEF Agt!EnsureSpecConfigMap, Agt!EnsureDeployment, Agt!EnsureService, Agt!Kinds
<1>6. CASE Agt!Refetch
  <2>1. w.pc = "ready" /\ UNCHANGED <<agent, status, built, children, queued, late>>
    BY Zenon, <1>6 DEF Agt!Refetch
  <2>2. CASE ~agent.exists /\ w' = Agt!Idle
    <3>1. AgtType'
      BY Zenon, <2>1, <2>2, AgtIdle DEF AgtInv, AgtType
    <3> QED BY Zenon, <2>1, <2>2, <3>1, AgtIdle DEF AgtInv, FollowInv, Watched, CleanInv, Agt!CleanedUp
  <2>3. CASE w' = [w EXCEPT !.pc = "report", !.gen = agent.gen, !.fresh = TRUE]
    <3>1. w' \in AgtWorkers /\ w'.pc = "report" /\ w'.gen = agent.gen
      BY Zenon, <1>0, <2>3 DEF AgtWorkers, Agt!Pcs
    <3>2. AgtType'
      BY <2>1, <3>1 DEF AgtInv, AgtType
    <3> QED BY Zenon, <2>1, <3>1, <3>2 DEF AgtInv, FollowInv, Watched, CleanInv, Agt!CleanedUp
  <2> QED BY Zenon, <1>0, <1>6, <2>2, <2>3 DEF Agt!Refetch
<1>7. CASE Agt!ReportReady
  <2>1. w.pc = "report" /\ w' = Agt!Idle /\ UNCHANGED <<agent, built, children, late>>
    BY Zenon, <1>7 DEF Agt!ReportReady
  <2> DEFINE ready == [ready |-> "True", observed |-> w.gen, phase |-> "Ready"]
  <2>2. status' = (IF w.fresh /\ agent.exists THEN ready ELSE status)
        /\ queued' = (queued \/ ~w.fresh \/ status' # status)
    BY Zenon, <1>7 DEF Agt!ReportReady, Agt!DerivePhase
  <2>3. status' \in [ready : {"none", "True", "False"}, observed : Nat,
                     phase : {"none", "Ready", "Failed", "Pending", "Reconciling"}] /\ queued' \in BOOLEAN
    BY Zenon, <1>0, <2>2 DEF AgtInv, AgtType
  <2>4. CASE queued'
    BY Zenon, <2>1, <2>3, <2>4, AgtRetried
  <2>5. CASE ~queued' /\ ~agent.exists
    <3>1. AgtType'
      BY Zenon, <2>1, <2>3, AgtIdle DEF AgtInv, AgtType
    <3> QED BY Zenon, <2>1, <2>5, <3>1, AgtIdle DEF AgtInv, FollowInv, Watched, CleanInv, Agt!CleanedUp
  <2>6. CASE ~queued' /\ agent.exists
    <3>1. status' = ready /\ ~queued
      BY Zenon, <2>2, <2>6
    <3>2. AgtType'
      BY Zenon, <2>1, <2>3, AgtIdle DEF AgtInv, AgtType
    <3>3. FollowInv'
      BY Zenon, <2>1, <3>1, AgtIdle DEF AgtInv, FollowInv, Watched, Agt!Kinds
    <3> QED BY Zenon, <2>1, <3>2, <3>3, AgtIdle DEF AgtInv, CleanInv, Agt!CleanedUp
  <2> QED BY Zenon, <1>0, <2>4, <2>5, <2>6
<1>8. CASE Agt!SetFailedStatus
  <2>1. status' \in [ready : {"none", "True", "False"}, observed : Nat,
                     phase : {"none", "Ready", "Failed", "Pending", "Reconciling"}]
    BY Zenon, <1>8 DEF Agt!SetFailedStatus, Agt!DerivePhase, AgtInv, AgtType
  <2> QED BY Zenon, <1>8, <2>1, AgtRetried DEF Agt!SetFailedStatus
<1>9. ASSUME w.pc \in {"list", "delete"}, w' = Agt!Cleaned, UNCHANGED <<agent, status, built, queued>>,
             children' \subseteq children, agent.exists, agent.deleting,
             w.step = 1 => children' \cap Sessions \subseteq late', w.step = 2 => children' \subseteq late'
      PROVE  AgtInv'
  <2>1. w' \in AgtWorkers /\ (w.step = 1 => w'.pc = "list" /\ w'.step = 2) /\ (w.step = 2 => w'.pc = "release")
    BY <1>0, <1>9 DEF Agt!Cleaned, AgtWorkers, Agt!Pcs
  <2>2. AgtType'
    BY Zenon, <1>9, <2>1 DEF AgtInv, AgtType
  <2>3. FollowInv'
    BY Zenon, <1>9 DEF FollowInv, Watched
  <2>4. CleanInv'
    BY Zenon, <1>0, <1>9, <2>1 DEF CleanInv, Agt!CleanedUp
  <2> QED BY Zenon, <2>2, <2>3, <2>4 DEF AgtInv
<1>10. ASSUME NEW fault \in BOOLEAN, Agt!ListChildren(fault) PROVE AgtInv'
  <2> DEFINE seen == IF fault THEN {} ELSE children \cap Agt!Listed
  <2>1. /\ w.pc = "list" /\ UNCHANGED <<agent, status, built, children, queued>>
        /\ w' = IF seen = {} THEN Agt!Cleaned ELSE [w EXCEPT !.left = seen, !.pc = "delete"]
        /\ late' = IF fault THEN late \cup (children \cap Agt!Listed) ELSE late \ seen
    BY Zenon, <1>10 DEF Agt!ListChildren
  <2>2. /\ agent.exists /\ agent.deleting /\ (w.step = 2 => children \cap Sessions \subseteq late)
        /\ children \subseteq Sessions \cup Tasks /\ Agt!Listed = (IF w.step = 1 THEN Sessions ELSE Tasks)
    BY Zenon, <2>1 DEF AgtInv, AgtType, CleanInv, Agt!Children, Agt!Listed
  <2>3. CASE seen = {}
    <3>1. (w.step = 1 => children \cap Sessions \subseteq late') /\ (w.step = 2 => children \subseteq late')
      BY <1>0, <2>1, <2>2, <2>3
    <3> HIDE DEF seen
    <3> QED BY Zenon, <1>9, <2>1, <2>2, <2>3, <3>1
  <2>4. CASE seen # {}
    <3>1. /\ ~fault /\ seen \in SUBSET Agt!Children
          /\ w.step = 1 => children \cap Sessions \subseteq seen
          /\ w.step = 2 => children \subseteq late' \cup seen
      BY <1>0, <2>1, <2>2, <2>4 DEF Agt!Children
    <3> HIDE DEF seen
    <3>2. w' \in AgtWorkers /\ w'.pc = "delete" /\ w'.left = seen /\ w'.step = w.step
      BY Zenon, <1>0, <2>1, <2>4, <3>1 DEF AgtWorkers, Agt!Pcs
    <3>3. AgtType'
      BY <2>1, <3>2 DEF AgtInv, AgtType
    <3>4. FollowInv'
      BY Zenon, <2>1, <2>2 DEF FollowInv, Watched
    <3>5. CleanInv'
      BY Zenon, <2>1, <2>2, <3>1, <3>2 DEF CleanInv, Agt!CleanedUp
    <3> QED BY Zenon, <3>3, <3>4, <3>5 DEF AgtInv
  <2> QED BY Zenon, <2>3, <2>4
<1>11. ASSUME NEW c \in Agt!Children, NEW fault \in BOOLEAN, Agt!DeleteChild(c, fault) PROVE AgtInv'
  <2>1. w.pc = "delete" /\ c \in w.left /\ UNCHANGED <<agent, status, built, late>>
    BY Zenon, <1>11 DEF Agt!DeleteChild
  <2>2. /\ agent.exists /\ agent.deleting
        /\ w.step = 1 => children \cap Sessions \subseteq late \cup w.left
        /\ w.step = 2 => children \subseteq late \cup w.left
    BY Zenon, <2>1 DEF AgtInv, CleanInv
  <2>3. CASE w' = Agt!Idle /\ queued' = TRUE /\ children' = children
    BY Zenon, <2>1, <2>3, AgtRetried DEF AgtInv, AgtType
  <2>4. CASE children' = children \ {c} /\ w.left = {c} /\ w' = Agt!Cleaned /\ queued' = queued
    BY Zenon, <1>9, <2>1, <2>2, <2>4
  <2>5. CASE children' = children \ {c} /\ w' = [w EXCEPT !.left = @ \ {c}] /\ queued' = queued
    <3>1. w' \in AgtWorkers /\ w'.pc = "delete" /\ w'.left = w.left \ {c} /\ w'.step = w.step
      BY Zenon, <1>0, <2>1, <2>5 DEF AgtWorkers
    <3>2. AgtType'
      BY <2>1, <2>5, <3>1 DEF AgtInv, AgtType
    <3>3. FollowInv'
      BY Zenon, <2>1, <2>2, <2>5 DEF FollowInv, Watched
    <3>4. CleanInv'
      BY Zenon, <2>1, <2>2, <2>5, <3>1 DEF CleanInv, Agt!CleanedUp
    <3> QED BY Zenon, <3>2, <3>3, <3>4 DEF AgtInv
  <2> QED BY Zenon, <1>11, <2>3, <2>4, <2>5 DEF Agt!DeleteChild
<1>12. CASE Agt!RemoveFinalizer
  <2>1. w.pc = "release" /\ w' = Agt!Idle /\ UNCHANGED <<status, children, late>> /\ children \subseteq late
    BY Zenon, <1>12 DEF Agt!RemoveFinalizer, AgtInv, CleanInv
  <2>2. CASE queued' = TRUE /\ UNCHANGED <<agent, built>>
    BY Zenon, <2>1, <2>2, AgtRetried DEF AgtInv, AgtType
  <2>3. CASE /\ agent' = [agent EXCEPT !.exists = FALSE, !.finalizer = FALSE]
             /\ built' = [k \in Agt!Kinds |-> 0] /\ queued' = queued
    <3>1. ~agent'.exists
          /\ agent' \in [exists : BOOLEAN, gen : Nat, refs : BOOLEAN, deleting : BOOLEAN, finalizer : BOOLEAN]
      BY Zenon, <2>3 DEF AgtInv, AgtType
    <3>2. AgtType'
      BY Zenon, <2>1, <2>3, <3>1, AgtIdle DEF AgtInv, AgtType
    <3> QED BY Zenon, <2>1, <3>1, <3>2, AgtIdle DEF AgtInv, FollowInv, Watched, CleanInv, Agt!CleanedUp
  <2> QED BY Zenon, <1>12, <2>2, <2>3 DEF Agt!RemoveFinalizer
<1>13. CASE Agt!Restart
  BY Zenon, <1>13, AgtRetried DEF Agt!Restart, AgtInv, AgtType
<1>14. ASSUME w' = [w EXCEPT !.fresh = FALSE]
       PROVE  w' \in AgtWorkers /\ w'.pc = w.pc /\ w'.left = w.left /\ w'.step = w.step
  BY Zenon, <1>0, <1>14 DEF AgtWorkers
<1>15. CASE Agt!Edit
  <2>1. /\ agent'.exists = agent.exists /\ agent'.deleting = agent.deleting /\ queued' = TRUE
        /\ agent' \in [exists : BOOLEAN, gen : Nat, refs : BOOLEAN, deleting : BOOLEAN, finalizer : BOOLEAN]
        /\ UNCHANGED <<status, built, children, late>>
    <3>1. agent' = [agent EXCEPT !.gen = agent.gen + 1] /\ agent.gen + 1 \in Nat
      BY <1>0, <1>15 DEF Agt!Edit
    <3> QED BY Zenon, <1>15, <3>1 DEF Agt!Edit, AgtInv, AgtType
  <2>2. w' \in AgtWorkers /\ w'.pc = w.pc /\ w'.left = w.left /\ w'.step = w.step
    BY Zenon, <1>14, <1>15 DEF Agt!Edit
  <2>3. AgtType'
    BY Zenon, <2>1, <2>2 DEF AgtInv, AgtType
  <2>4. FollowInv' /\ CleanInv'
    BY Zenon, <2>1, <2>2 DEF AgtInv, FollowInv, Watched, CleanInv, Agt!CleanedUp
  <2> QED BY Zenon, <2>3, <2>4 DEF AgtInv
<1>16. CASE Agt!Delete
  <2>1. agent.exists /\ ~agent.deleting /\ queued' = TRUE /\ UNCHANGED <<status, children>>
    BY Zenon, <1>16 DEF Agt!Delete
  <2>2. w' \in AgtWorkers /\ w'.pc = w.pc /\ w'.left = w.left /\ w'.step = w.step
    BY Zenon, <1>14, <1>16 DEF Agt!Delete
  <2>3. w.pc \notin {"list", "delete", "release"}
    BY Zenon, <2>1 DEF AgtInv, CleanInv
  <2>4. /\ agent'.exists \/ children \subseteq late' 
        /\ agent' \in [exists : BOOLEAN, gen : Nat, refs : BOOLEAN, deleting : BOOLEAN, finalizer : BOOLEAN]
        /\ built' \in [Agt!Kinds -> Nat]
    <3>1. CASE agent.finalizer
      BY Zenon, <1>16, <2>1, <3>1 DEF Agt!Delete, AgtInv, AgtType
    <3>2. CASE ~agent.finalizer
      BY Zenon, <1>16, <2>1, <3>2 DEF Agt!Delete, AgtInv, AgtType
    <3> QED BY Zenon, <3>1, <3>2
  <2>5. AgtType'
    BY Zenon, <2>1, <2>2, <2>4 DEF AgtInv, AgtType
  <2>6. FollowInv' /\ CleanInv'
    BY Zenon, <2>1, <2>2, <2>3, <2>4 DEF FollowInv, Watched, CleanInv, Agt!CleanedUp
  <2> QED BY Zenon, <2>5, <2>6 DEF AgtInv
<1>17. CASE Agt!References
  <2>1. /\ agent'.exists = agent.exists /\ agent'.deleting = agent.deleting /\ agent'.gen = agent.gen
        /\ agent' \in [exists : BOOLEAN, gen : Nat, refs : BOOLEAN, deleting : BOOLEAN, finalizer : BOOLEAN]
        /\ UNCHANGED <<status, built, children, queued, w, late>>
    BY Zenon, <1>17 DEF Agt!References, AgtInv, AgtType
  <2>2. AgtType'
    BY Zenon, <2>1 DEF AgtInv, AgtType
  <2> QED BY <2>1, <2>2 DEF AgtInv, FollowInv, Watched, CleanInv, Agt!CleanedUp
<1>18. ASSUME NEW c \in Agt!Children, Agt!CreateChild(c) PROVE AgtInv'
  <2>1. agent.exists /\ children' = children \cup {c} /\ UNCHANGED <<agent, status, built, queued, w>>
    BY Zenon, <1>18 DEF Agt!CreateChild
  <2>2. /\ late \subseteq late'
        /\ w.pc = "list" /\ w.step = 2 /\ c \in Sessions => c \in late'
        /\ w.pc = "delete" /\ w.step = 1 /\ c \in Sessions => c \in late'
        /\ w.pc = "delete" /\ w.step = 2 => c \in late'
        /\ w.pc = "release" => c \in late'
    BY <1>18 DEF Agt!CreateChild, Agt!Listed, Agt!Children
  <2>3. AgtType' /\ FollowInv'
    BY <2>1 DEF AgtInv, AgtType, FollowInv, Watched
  <2>4. CleanInv'
    BY Zenon, <2>1, <2>2 DEF AgtInv, CleanInv, Agt!CleanedUp
  <2> QED BY Zenon, <2>3, <2>4 DEF AgtInv
<1>19. CASE UNCHANGED Agt!vars
  BY <1>19 DEF Agt!vars, AgtInv, AgtType, FollowInv, Watched, CleanInv, Agt!CleanedUp
<1> QED BY Zenon, <1>1, <1>2, <1>3, <1>5, <1>6, <1>7, <1>8, <1>10, <1>11, <1>12, <1>13, <1>15, <1>16, <1>17, <1>18, <1>19
        DEF Agt!Next, Agt!Work

\* For any number of edits, faults and restarts: an Agent at rest is Ready, and its
\* ConfigMap, Deployment and Service are built from its current generation; and an Agent
\* is not let go before the Sessions and Tasks its cleanup could see are deleted.
THEOREM AgentIsProvisioned == Agt!Spec => [](Agt!RestIsProvisioned /\ Agt!CleanedUp)
<1>1. Agt!Init => AgtInv
  <2> SUFFICES ASSUME Agt!Init PROVE AgtInv
    BY Zenon
  <2>1. AgtType
    BY Zenon, AgtIdle DEF Agt!Init, AgtType
  <2> QED BY Zenon, <2>1, AgtIdle DEF Agt!Init, AgtInv, FollowInv, Watched, CleanInv, Agt!CleanedUp
<1>2. AgtInv /\ [Agt!Next]_Agt!vars => AgtInv'
  BY Zenon, AgtStep
<1>3. AgtInv => Agt!RestIsProvisioned /\ Agt!CleanedUp
  BY Zenon DEF AgtInv, FollowInv, Watched, CleanInv, Agt!RestIsProvisioned
<1> QED BY <1>1, <1>2, <1>3, PTL DEF Agt!Spec

-----------------------------------------------------------------------------
(* The Session controller *)

Ses == INSTANCE SessionController

SesObjects == [phase : Ses!Phases, created : Int, last : Int, owner : BOOLEAN]
SesWorkers == [pc : {"idle", "agent", "class", "own", "ttl", "fail"}, copy : SesObjects, fresh : BOOLEAN]
SesType == now \in Nat /\ active \in Int /\ sess \in SesObjects /\ w \in SesWorkers

\* The stored stamp is the time of the last activity, and a copy that is still fresh
\* carries the stored stamp.
StampInv == active = sess.last /\ (w.fresh => w.copy.last = sess.last)

SesInv == SesType /\ StampInv

\* A worker that is idle.
LEMMA SesIdle == Ses!Idle \in SesWorkers /\ Ses!Idle.pc = "idle" /\ ~Ses!Idle.fresh
BY DEF Ses!Idle, SesWorkers, SesObjects, Ses!Phases

\* What a reconcile writes when it gets as far as the TTL.
LEMMA SesStamped ==
  ASSUME SesType, NEW p \in Ses!Phases, NEW o, o = Ses!Stamped(w.copy)
  PROVE  /\ [o EXCEPT !.phase = p] \in SesObjects /\ [o EXCEPT !.phase = p].phase = p
         /\ [o EXCEPT !.phase = p].last = o.last
         /\ o.last = (IF w.copy.last = -1 THEN now ELSE w.copy.last) /\ o.last \in Int
<1> DEFINE a == IF w.copy.created = -1 THEN now ELSE w.copy.created
           b == IF w.copy.last = -1 THEN now ELSE w.copy.last
<1>1. a \in Int /\ b \in Int /\ w.copy \in SesObjects
  BY DEF SesType, SesObjects, SesWorkers
<1>2. o = [w.copy EXCEPT !.created = a, !.last = b]
  BY Zenon DEF Ses!Stamped
<1> HIDE DEF a, b
<1>3. o \in SesObjects /\ o.last = b
  BY Zenon, <1>1, <1>2 DEF SesObjects
<1> QED BY Zenon, <1>1, <1>3 DEF SesObjects, b

\* Every step of the controller, of the users and of the clock keeps the stamps in order,
\* and a step that expires the Session does so after the TTL.
LEMMA SesStep == SesInv /\ [Ses!Next]_Ses!vars => SesInv' /\ (Ses!ExpiresIdle \/ UNCHANGED Ses!vars)
<1> SUFFICES ASSUME SesInv, [Ses!Next]_Ses!vars PROVE SesInv' /\ (Ses!ExpiresIdle \/ UNCHANGED Ses!vars)
  BY Zenon
<1> USE DEF SesInv, SesType, StampInv
<1>1. CASE Ses!Reconcile
  BY Zenon, <1>1, SesIdle DEF Ses!Reconcile, Ses!ExpiresIdle, SesWorkers
<1>2. ASSUME NEW fault \in BOOLEAN, Ses!GetAgent(fault) PROVE SesInv' /\ Ses!ExpiresIdle
  BY Zenon, <1>2, SesIdle DEF Ses!GetAgent, Ses!ExpiresIdle, SesWorkers
<1>3. CASE Ses!GetMemoryClass
  BY Zenon, <1>3 DEF Ses!GetMemoryClass, Ses!ExpiresIdle, SesWorkers
<1>4. CASE Ses!Fail
  BY Zenon, <1>4, SesIdle DEF Ses!Fail, Ses!ExpiresIdle, SesWorkers, SesObjects, Ses!Phases
<1>5. CASE Ses!SetOwner
  <2>1. CASE w' = [w EXCEPT !.pc = "ttl"] /\ UNCHANGED sess
    BY Zenon, <1>5, <2>1 DEF Ses!SetOwner, Ses!ExpiresIdle, SesWorkers
  <2>2. CASE w' = Ses!Idle /\ UNCHANGED sess
    BY Zenon, <1>5, <2>2, SesIdle DEF Ses!SetOwner, Ses!ExpiresIdle
  <2>3. CASE /\ sess' = [sess EXCEPT !.owner = TRUE] /\ w.fresh
             /\ w' = [w EXCEPT !.pc = "ttl", !.copy.owner = TRUE]
    <3>1. sess' \in SesObjects /\ sess'.last = sess.last /\ sess'.phase = sess.phase
      BY Zenon, <2>3 DEF SesObjects
    <3>2. [w.copy EXCEPT !.owner = TRUE] \in SesObjects /\ [w.copy EXCEPT !.owner = TRUE].last = w.copy.last
      BY Zenon DEF SesWorkers, SesObjects
    <3>3. w' \in SesWorkers /\ w'.copy = [w.copy EXCEPT !.owner = TRUE] /\ w'.fresh = w.fresh
      BY Zenon, <2>3, <3>2 DEF SesWorkers
    <3> QED BY Zenon, <1>5, <3>1, <3>2, <3>3 DEF Ses!SetOwner, Ses!ExpiresIdle
  <2> QED BY Zenon, <1>5, <2>1, <2>2, <2>3 DEF Ses!SetOwner
<1>6. CASE Ses!CheckTTL
  <2> DEFINE o == Ses!Stamped(w.copy)
             p == IF Ses!TooOld(o) THEN "Expired" ELSE "Active"
  <2>1. p \in Ses!Phases
    BY Zenon DEF Ses!Phases
  <2>2. sess' = (IF w.fresh THEN [o EXCEPT !.phase = p] ELSE sess) /\ w' = Ses!Idle /\ now' = now
        /\ active' = (IF w.fresh /\ active = -1 THEN o.last ELSE active)
    BY Zenon, <1>6 DEF Ses!CheckTTL
  <2>3. p = "Expired" => now - o.last > TTL
    BY Zenon DEF Ses!TooOld
  <2> HIDE DEF p
  <2>4. /\ [o EXCEPT !.phase = p] \in SesObjects /\ [o EXCEPT !.phase = p].phase = p
        /\ [o EXCEPT !.phase = p].last = o.last
        /\ o.last = (IF w.copy.last = -1 THEN now ELSE w.copy.last) /\ o.last \in Int
    BY Zenon, <2>1, SesStamped
  <2> HIDE DEF o
  <2> QED BY Zenon, <2>2, <2>3, <2>4, SesIdle DEF Ses!ExpiresIdle
<1>7. CASE Ses!Activity
  <2>1. sess' \in SesObjects /\ sess'.last = now /\ sess'.phase = sess.phase
    BY <1>7 DEF Ses!Activity, SesObjects
  <2>2. w' \in SesWorkers /\ ~w'.fresh
    BY Zenon, <1>7 DEF Ses!Activity, SesWorkers
  <2> QED BY <1>7, <2>1, <2>2 DEF Ses!Activity, Ses!ExpiresIdle
<1>8. CASE Ses!Change
  BY Zenon, <1>8 DEF Ses!Change, Ses!ExpiresIdle
<1>9. CASE Ses!Restart
  BY Zenon, <1>9, SesIdle DEF Ses!Restart, Ses!ExpiresIdle
<1>10. CASE Ses!Tick
  BY <1>10 DEF Ses!Tick, Ses!ExpiresIdle
<1>11. CASE UNCHANGED Ses!vars
  BY Zenon, <1>11 DEF Ses!vars
<1> QED BY Zenon, <1>1, <1>2, <1>3, <1>4, <1>5, <1>6, <1>7, <1>8, <1>9, <1>10, <1>11 DEF Ses!Next, Ses!Work

\* For every TTL: a Session expires only when nothing has happened in it for longer than
\* the TTL, whatever activity, edits and restarts race the reconcile that expires it.
THEOREM SessionExpiresIdle == Ses!Spec => [][Ses!ExpiresIdle]_Ses!vars
<1>1. Ses!Init => SesInv
  BY SesIdle DEF Ses!Init, SesInv, SesType, StampInv, SesObjects, Ses!Phases
<1>2. SesInv /\ [Ses!Next]_Ses!vars => SesInv' /\ [Ses!ExpiresIdle]_Ses!vars
  BY Zenon, SesStep
<1> QED BY <1>1, <1>2, PTL DEF Ses!Spec

-----------------------------------------------------------------------------
(* The StateStore controller *)

Sto == INSTANCE StateStoreController

StoEntry == [hash : Int, status : {"none", "applied", "failed", "orphaned"}, age : Int]
StoEntries == [Sto!FQNs -> StoEntry]
StoObjects == [exists : BOOLEAN, deleting : BOOLEAN, finalizer : BOOLEAN, entries : StoEntries,
               healthy : BOOLEAN, drifted : BOOLEAN, ready : BOOLEAN]
StoWorkers == [pc : {"idle", "finalize", "list", "refetch", "update", "clear", "remove"},
               seen : StoEntries, entries : StoEntries, drift : BOOLEAN, fresh : BOOLEAN]
StoType == store \in StoObjects /\ w \in StoWorkers

\* What the worker is about to write lacks only the entries it saw overdue, or did not
\* see; and it clears only a store that is being deleted.
Overdue(e) == e = Sto!NoEntry \/ (e.status = "orphaned" /\ e.age >= Grace)
SweepInv ==
  /\ w.pc = "clear" => store.deleting
  /\ w.pc \in {"refetch", "update"} =>
       \A f \in Sto!FQNs : w.entries[f] = Sto!NoEntry => Overdue(w.seen[f])

StoInv == StoType /\ SweepInv

\* No entry is an entry, and neither the empty store nor an idle worker has any.
LEMMA StoIdle ==
  /\ Sto!NoEntry \in StoEntry /\ Sto!Empty \in StoEntries
  /\ Sto!Idle \in StoWorkers /\ Sto!Idle.pc = "idle" /\ Sto!Idle.entries \in StoEntries
<1>1. Sto!NoEntry \in StoEntry
  BY DEF Sto!NoEntry, StoEntry
<1>2. Sto!Empty \in StoEntries
  BY Zenon, <1>1 DEF Sto!Empty, StoEntries
<1> QED BY Zenon, <1>1, <1>2 DEF Sto!Idle, StoWorkers

\* Time neither makes nor removes an entry, and what is overdue stays so.
LEMMA StoOlder ==
  ASSUME Grace \in Int, NEW es \in StoEntries
  PROVE  /\ Sto!Older(es) \in StoEntries
         /\ \A f \in Sto!FQNs : /\ Sto!Older(es)[f] = Sto!NoEntry => es[f] = Sto!NoEntry
                                /\ Overdue(es[f]) => Overdue(Sto!Older(es)[f])
<1> SUFFICES ASSUME NEW f \in Sto!FQNs
             PROVE  /\ Sto!Older(es)[f] \in StoEntry
                    /\ Sto!Older(es)[f] = Sto!NoEntry => es[f] = Sto!NoEntry
                    /\ Overdue(es[f]) => Overdue(Sto!Older(es)[f])
  BY Zenon DEF Sto!Older, StoEntries
<1>1. es[f] \in StoEntry
  BY Zenon DEF StoEntries
<1>2. Sto!Older(es)[f] = IF es[f].age \in 0 .. Grace - 1 THEN [es[f] EXCEPT !.age = es[f].age + 1] ELSE es[f]
  BY Zenon DEF Sto!Older
<1>3. CASE es[f].age \in 0 .. Grace - 1
  <2>1. /\ Sto!Older(es)[f] \in StoEntry /\ Sto!Older(es)[f].age = es[f].age + 1
    BY <1>1, <1>2, <1>3 DEF StoEntry
  <2>2. Sto!Older(es)[f] # Sto!NoEntry
    BY <1>3, <2>1 DEF Sto!NoEntry
  <2>3. ~Overdue(es[f])
    BY <1>3 DEF Overdue, Sto!NoEntry
  <2> QED BY Zenon, <2>1, <2>2, <2>3
<1> QED BY Zenon, <1>1, <1>2, <1>3

\* An entry that is marked keeps its hash.
LEMMA StoMarked ==
  ASSUME NEW e \in StoEntry, NEW s \in {"none", "applied", "failed", "orphaned"}, NEW a \in Int,
         NEW m, m = [e EXCEPT !.status = s, !.age = a]
  PROVE  m \in StoEntry /\ m.status = s
BY Zenon DEF StoEntry

\* The sweep drops only what is overdue.
LEMMA StoSwept ==
  ASSUME NEW e \in StoEntry, NEW f
  PROVE  Sto!Swept(e, f) \in StoEntry /\ (Sto!Swept(e, f) = Sto!NoEntry => Overdue(e))
<1> DEFINE adopted == [e EXCEPT !.status = "applied", !.age = -1]
           marked == [e EXCEPT !.status = "orphaned", !.age = 0]
<1>1. adopted \in StoEntry /\ adopted.status = "applied"
  <2>1. -1 \in Int /\ "applied" \in {"none", "applied", "failed", "orphaned"}
    OBVIOUS
  <2> QED BY <2>1, StoMarked, Zenon
<1>2. marked \in StoEntry /\ marked.status = "orphaned"
  <2>1. 0 \in Int /\ "orphaned" \in {"none", "applied", "failed", "orphaned"}
    OBVIOUS
  <2> QED BY <2>1, StoMarked, Zenon
<1>3. Sto!NoEntry.status = "none"
  BY Zenon DEF Sto!NoEntry
<1>4. \/ Sto!Swept(e, f) = Sto!NoEntry /\ Overdue(e)
      \/ Sto!Swept(e, f) = e /\ (e = Sto!NoEntry => Overdue(e))
      \/ Sto!Swept(e, f) = adopted \/ Sto!Swept(e, f) = marked
  BY Zenon DEF Sto!Swept, Overdue
<1> HIDE DEF adopted, marked
<1> QED BY Zenon, <1>1, <1>2, <1>3, <1>4, StoIdle

\* A step that leaves the entries as they are removes none.
LEMMA StoQuiet == store'.entries = store.entries => Sto!RemovesOverdue
BY Zenon DEF Sto!RemovesOverdue

\* A write of the object s is stored or refused.
LEMMA StoPut ==
  ASSUME StoInv, NEW s \in StoObjects, NEW next \in {"idle", "remove"}, Sto!Put(s, next),
         s.deleting = store.deleting
  PROVE  StoInv' /\ (store' = s \/ store' = store)
<1>1. store' \in StoObjects /\ (store' = s \/ store' = store)
  BY Zenon DEF Sto!Put, StoInv, StoType
<1>2. w' \in StoWorkers /\ w'.pc \in {"idle", "remove"}
  BY Zenon, StoIdle DEF Sto!Put, StoInv, StoType, StoWorkers
<1> QED BY Zenon, <1>1, <1>2 DEF StoInv, StoType, SweepInv

\* Every step keeps what the worker holds in order, and removes an entry only as promised.
LEMMA StoStep ==
  ASSUME Grace \in Int
  PROVE  StoInv /\ [Sto!Next]_Sto!vars => StoInv' /\ (Sto!RemovesOverdue \/ UNCHANGED Sto!vars)
<1> SUFFICES ASSUME StoInv, [Sto!Next]_Sto!vars PROVE StoInv' /\ (Sto!RemovesOverdue \/ UNCHANGED Sto!vars)
  BY Zenon
<1>0. store \in StoObjects /\ w \in StoWorkers
  BY Zenon DEF StoInv, StoType
<1>1. CASE Sto!Reconcile
  <2> DEFINE p == CASE store.deleting /\ store.finalizer -> "clear"
                    [] ~store.deleting /\ ~store.finalizer -> "finalize"
                    [] OTHER -> "list"
  <2>1. p \in {"clear", "finalize", "list"} /\ (p = "clear" => store.deleting)
    BY Zenon
  <2>2. w' = [Sto!Idle EXCEPT !.seen = store.entries, !.pc = p] /\ store' = store
    BY Zenon, <1>1 DEF Sto!Reconcile
  <2> HIDE DEF p
  <2>3. w' \in StoWorkers /\ w'.pc = p
    BY Zenon, <1>0, <2>1, <2>2, StoIdle DEF StoWorkers, StoObjects
  <2> QED BY Zenon, <1>0, <2>1, <2>2, <2>3, StoQuiet DEF StoInv, StoType, SweepInv
<1>2. CASE Sto!AddFinalizer
  <2> DEFINE s == [store EXCEPT !.finalizer = TRUE]
  <2>1. s \in StoObjects /\ s.entries = store.entries /\ s.deleting = store.deleting
    BY Zenon, <1>0 DEF StoObjects
  <2>2. Sto!Put(s, "idle")
    BY Zenon, <1>2 DEF Sto!AddFinalizer
  <2> HIDE DEF s
  <2> QED BY Zenon, <2>1, <2>2, StoPut, StoQuiet
<1>3. CASE Sto!ListAgents
  <2> DEFINE kept == [f \in Sto!FQNs |-> Sto!Swept(w.seen[f], f)]
             drift == Sto!Drifts(kept)
  <2>1. kept \in StoEntries /\ \A f \in Sto!FQNs : kept[f] = Sto!NoEntry => Overdue(w.seen[f])
    BY Zenon, <1>0, StoSwept DEF StoWorkers, StoEntries
  <2>2. drift \in BOOLEAN
    BY Zenon DEF Sto!Drifts
  <2>3. w' = [w EXCEPT !.pc = "refetch", !.entries = kept, !.drift = drift] /\ store' = store
    BY Zenon, <1>3 DEF Sto!ListAgents
  <2> HIDE DEF kept, drift
  <2>4. w' \in StoWorkers /\ w'.pc = "refetch" /\ w'.entries = kept /\ w'.seen = w.seen
    BY Zenon, <1>0, <2>1, <2>2, <2>3 DEF StoWorkers
  <2> QED BY Zenon, <1>0, <2>1, <2>3, <2>4, StoQuiet DEF StoInv, StoType, SweepInv
<1>4. CASE Sto!ListFails
  <2>1. store' \in StoObjects /\ store'.entries = store.entries
    BY Zenon, <1>0, <1>4 DEF Sto!ListFails, StoObjects
  <2> QED BY Zenon, <1>4, <2>1, StoIdle, StoQuiet DEF Sto!ListFails, StoInv, StoType, SweepInv
<1>5. CASE Sto!Refetch
  <2>1. w' \in StoWorkers /\ (w'.pc = "idle" \/ (w'.pc = "update" /\ w'.entries = w.entries /\ w'.seen = w.seen))
    BY Zenon, <1>0, <1>5, StoIdle DEF Sto!Refetch, StoWorkers
  <2> QED BY <1>0, <1>5, <2>1, StoQuiet DEF Sto!Refetch, StoInv, StoType, SweepInv
<1>6. CASE Sto!UpdateStatus
  <2> DEFINE ok == Sto!Healthy(w.entries, w.drift)
             s == [store EXCEPT !.entries = w.entries, !.drifted = w.drift, !.healthy = ok, !.ready = ok]
  <2>1. ok \in BOOLEAN
    BY Zenon DEF Sto!Healthy
  <2>2. Sto!Put(s, "idle")
    BY Zenon, <1>6 DEF Sto!UpdateStatus
  <2> HIDE DEF ok
  <2>3. s \in StoObjects /\ s.entries = w.entries /\ s.deleting = store.deleting
    BY Zenon, <1>0, <2>1 DEF StoObjects, StoWorkers
  <2> HIDE DEF s
  <2>4. StoInv' /\ (store' = s \/ store' = store)
    BY Zenon, <2>2, <2>3, StoPut
  <2>5. CASE store' = s
    BY Zenon, <1>6, <2>3, <2>4, <2>5 DEF Sto!UpdateStatus, Sto!RemovesOverdue, StoInv, SweepInv, Overdue
  <2> QED BY Zenon, <2>4, <2>5, StoQuiet
<1>7. CASE Sto!ClearEntries
  <2> DEFINE s == [store EXCEPT !.entries = Sto!Empty, !.healthy = FALSE]
  <2>1. s \in StoObjects /\ s.deleting = store.deleting /\ store.deleting
    BY Zenon, <1>0, <1>7, StoIdle DEF Sto!ClearEntries, StoObjects, StoInv, SweepInv
  <2>2. Sto!Put(s, "remove")
    BY Zenon, <1>7 DEF Sto!ClearEntries
  <2> HIDE DEF s
  <2>3. StoInv' /\ store'.deleting
    BY Zenon, <2>1, <2>2, StoPut
  <2> QED BY Zenon, <2>3 DEF Sto!RemovesOverdue
<1>8. CASE Sto!RemoveFinalizer
  <2> DEFINE s == [store EXCEPT !.finalizer = FALSE, !.exists = FALSE]
  <2>1. s \in StoObjects /\ s.entries = store.entries /\ s.deleting = store.deleting
    BY Zenon, <1>0 DEF StoObjects
  <2>2. Sto!Put(s, "idle")
    BY Zenon, <1>8 DEF Sto!RemoveFinalizer
  <2> HIDE DEF s
  <2> QED BY Zenon, <2>1, <2>2, StoPut, StoQuiet
<1>9. CASE Sto!Restart
  BY Zenon, <1>9, StoIdle, StoQuiet DEF Sto!Restart, StoInv, StoType, SweepInv
<1>10. ASSUME NEW f \in Sto!FQNs, NEW h \in 1 .. MaxGen, NEW t \in {"applied", "failed"}, Sto!WriteEntry(f, h, t)
       PROVE  StoInv' /\ Sto!RemovesOverdue
  <2> DEFINE e == [hash |-> h, status |-> t, age |-> -1]
             es == [store.entries EXCEPT ![f] = e]
  <2>1. e \in StoEntry /\ e # Sto!NoEntry
    BY DEF StoEntry, Sto!NoEntry
  <2>2. store' = [store EXCEPT !.entries = es] /\ w' = [w EXCEPT !.fresh = (w.pc = "idle")]
    BY Zenon, <1>10 DEF Sto!WriteEntry
  <2> HIDE DEF e
  <2>3. es \in StoEntries /\ \A g \in Sto!FQNs : es[g] = Sto!NoEntry => store.entries[g] = Sto!NoEntry
    BY Zenon, <1>0, <2>1 DEF StoEntries, StoObjects
  <2> HIDE DEF es
  <2>4. store' \in StoObjects /\ store'.entries = es /\ store'.deleting = store.deleting
    BY Zenon, <1>0, <2>2, <2>3 DEF StoObjects
  <2>5. w' \in StoWorkers /\ w'.pc = w.pc /\ w'.entries = w.entries /\ w'.seen = w.seen
    BY Zenon, <1>0, <2>2 DEF StoWorkers
  <2> QED BY Zenon, <2>3, <2>4, <2>5 DEF StoInv, StoType, SweepInv, Sto!RemovesOverdue
<1>11. ASSUME NEW a, Sto!SetAgent(a) PROVE StoInv' /\ Sto!RemovesOverdue
  BY Zenon, <1>11, StoQuiet DEF Sto!SetAgent, StoInv, StoType, SweepInv
<1>12. CASE Sto!Delete
  <2> DEFINE es == IF store.finalizer THEN store.entries ELSE Sto!Empty
  <2>1. es \in StoEntries
    BY Zenon, <1>0, StoIdle DEF StoObjects
  <2>2. /\ store' = [store EXCEPT !.deleting = TRUE, !.exists = store.finalizer, !.entries = es]
        /\ w' = [w EXCEPT !.fresh = (w.pc = "idle")]
    BY Zenon, <1>12 DEF Sto!Delete
  <2> HIDE DEF es
  <2>3. store' \in StoObjects /\ store'.deleting
    BY Zenon, <1>0, <2>1, <2>2 DEF StoObjects
  <2>4. w' \in StoWorkers /\ w'.pc = w.pc /\ w'.entries = w.entries /\ w'.seen = w.seen
    BY Zenon, <1>0, <2>2 DEF StoWorkers
  <2> QED BY Zenon, <2>3, <2>4 DEF StoInv, StoType, SweepInv, Sto!RemovesOverdue
<1>13. CASE Sto!Tick
  <2>1. /\ store' = [store EXCEPT !.entries = Sto!Older(store.entries)]
        /\ w' = [w EXCEPT !.entries = Sto!Older(w.entries), !.seen = Sto!Older(w.seen)]
    BY Zenon, <1>13 DEF Sto!Tick
  <2>2. store.entries \in StoEntries /\ w.entries \in StoEntries /\ w.seen \in StoEntries
    BY Zenon, <1>0 DEF StoObjects, StoWorkers
  <2>3. store' \in StoObjects /\ store'.entries = Sto!Older(store.entries) /\ store'.deleting = store.deleting
    BY Zenon, <1>0, <2>1, <2>2, StoOlder DEF StoObjects
  <2>4. w' \in StoWorkers /\ w'.pc = w.pc /\ w'.entries = Sto!Older(w.entries) /\ w'.seen = Sto!Older(w.seen)
    BY Zenon, <1>0, <2>1, <2>2, StoOlder DEF StoWorkers
  <2>5. SweepInv'
    BY <2>2, <2>3, <2>4, StoOlder DEF StoInv, SweepInv
  <2>6. Sto!RemovesOverdue
    BY Zenon, <2>2, <2>3, StoOlder DEF Sto!RemovesOverdue
  <2> QED BY Zenon, <2>3, <2>4, <2>5, <2>6 DEF StoInv, StoType
<1>14. CASE UNCHANGED Sto!vars
  BY Zenon, <1>14 DEF Sto!vars, StoInv, StoType, SweepInv
<1> QED BY <1>1, <1>2, <1>3, <1>4, <1>5, <1>6, <1>7, <1>8, <1>9, <1>10, <1>11, <1>12, <1>13, <1>14
        DEF Sto!Next, Sto!Work

\* For every grace period and any number of entries: a live store loses an entry only
\* because the reconcile had read it as an orphan whose grace period was over, or had not
\* read it at all, whoever writes, deletes or restarts between its reads and its write.
THEOREM StoreKeepsEntries == ASSUME Grace \in Int PROVE Sto!Spec => [][Sto!RemovesOverdue]_Sto!vars
<1>1. Sto!Init => StoInv
  <2> SUFFICES ASSUME Sto!Init PROVE StoInv
    BY Zenon
  <2>1. store \in StoObjects
    BY Zenon, StoIdle DEF Sto!Init, StoObjects
  <2> QED BY Zenon, <2>1, StoIdle DEF Sto!Init, StoInv, StoType, SweepInv
<1>2. StoInv /\ [Sto!Next]_Sto!vars => StoInv' /\ [Sto!RemovesOverdue]_Sto!vars
  BY Zenon, StoStep
<1> QED BY <1>1, <1>2, PTL DEF Sto!Spec

-----------------------------------------------------------------------------
(* The controllers that validate an object and count its users *)

Bnd == INSTANCE BindingControllers

FourKinds == Kinds \subseteq {"ToolBinding", "MemoryClass", "Policy", "ClusterPolicy"}

IsObject(o) == DOMAIN o = {"spec", "ready", "degraded", "phase", "count"}
IsWorker(x) == DOMAIN x = {"pc", "copy", "count", "fresh"}

BndType ==
  /\ obj = [k \in Kinds |-> obj[k]] /\ w = [k \in Kinds |-> w[k]] /\ counted = [k \in Kinds |-> counted[k]]
  /\ \A k \in Kinds : /\ IsObject(obj[k]) /\ IsWorker(w[k]) /\ IsObject(w[k].copy)
                      /\ w[k].fresh \in BOOLEAN

\* A worker whose copy is fresh holds the object as it is stored, with a valid spec; one
\* whose copy was outdated by an edit has its object in the queue; what it will report is
\* the last count; and an object at rest is reported truthfully.
Truthful(k) ==
  /\ obj[k].ready = (IF Bnd!ValidSpec(k, obj[k].spec) THEN "True" ELSE "False")
  /\ obj[k].ready = "True" => obj[k].count = counted[k]
BoundTo(k) ==
  /\ w[k].pc \in {"idle", "list", "report"}
  /\ w[k].pc # "idle" /\ w[k].fresh => w[k].copy = obj[k] /\ Bnd!ValidSpec(k, obj[k].spec)
  /\ w[k].pc # "idle" /\ ~w[k].fresh => k \in queued
  /\ w[k].pc = "report" => w[k].count = counted[k]
  /\ w[k].pc = "idle" /\ k \notin queued => Truthful(k)

BndInv == BndType /\ \A k \in Kinds : BoundTo(k)

\* What each controller writes for what it found: the spec is left alone, an invalid one
\* is reported as such, and a valid one with its count.
LEMMA BndStatus ==
  ASSUME FourKinds, NEW k \in Kinds, NEW o, IsObject(o), NEW found \in {"invalid", "unlisted", "valid"}, NEW n,
         NEW s, s = Bnd!StatusOf(k, o, found, n)
  PROVE  /\ IsObject(s) /\ s.spec = o.spec
         /\ found = "invalid" => s.ready = "False"
         /\ found = "valid" => s.ready = "True" /\ s.count = n
<1>1. CASE k = "ToolBinding"
  BY Zenon, <1>1 DEF Bnd!StatusOf, Bnd!ToolBindingStatus, Bnd!SetReady, Bnd!SetFailed, Bnd!SetDegraded, IsObject
<1>2. CASE k = "MemoryClass"
  BY Zenon, <1>2 DEF Bnd!StatusOf, Bnd!MemoryClassStatus, Bnd!SetReady, Bnd!SetFailed, IsObject
<1>3. CASE k = "Policy"
  BY Zenon, <1>3 DEF Bnd!StatusOf, Bnd!PolicyStatus, Bnd!SetReady, Bnd!SetFailed, IsObject
<1>4. CASE k = "ClusterPolicy"
  BY Zenon, <1>4 DEF Bnd!StatusOf, Bnd!ClusterPolicyStatus, Bnd!PolicyStatus, Bnd!SetReady, Bnd!SetFailed, IsObject
<1> QED BY Zenon, <1>1, <1>2, <1>3, <1>4 DEF FourKinds

\* An idle worker.
LEMMA BndIdle == \A o : IsWorker(Bnd!Idle(o)) /\ Bnd!Idle(o).pc = "idle" /\ Bnd!Idle(o).copy = o /\ ~Bnd!Idle(o).fresh
BY Zenon DEF Bnd!Idle, IsWorker

\* What a step on the object of kind k leaves alone is as it was.
LEMMA BndOthers ==
  ASSUME BndInv, NEW k \in Kinds, NEW o, NEW x, NEW n,
         obj' = [obj EXCEPT ![k] = o], w' = [w EXCEPT ![k] = x], counted' = [counted EXCEPT ![k] = n],
         \A j \in Kinds \ {k} : j \in queued' <=> j \in queued, IsObject(o), IsWorker(x), IsObject(x.copy), x.fresh \in BOOLEAN,
         BoundTo(k)'
  PROVE  BndInv'
<1>1. BndType'
  BY Zenon DEF BndInv, BndType
<1>2. ASSUME NEW j \in Kinds, j # k PROVE BoundTo(j)'
  <2>1. /\ obj'[j] = obj[j] /\ w'[j] = w[j] /\ counted'[j] = counted[j]
        /\ j \in queued' <=> j \in queued
    BY Zenon, <1>2 DEF BndInv, BndType
  <2> QED BY <2>1, <1>2 DEF BndInv, BoundTo, Truthful
<1> QED BY Zenon, <1>1, <1>2 DEF BndInv

\* Every step of a controller or a user leaves the objects at rest truthfully reported.
LEMMA BndStep == ASSUME FourKinds PROVE BndInv /\ [Bnd!Next]_Bnd!vars => BndInv'
<1> SUFFICES ASSUME BndInv, [Bnd!Next]_Bnd!vars PROVE BndInv'
  BY Zenon
<1>0. ASSUME NEW k \in Kinds
      PROVE  /\ IsObject(obj[k]) /\ IsWorker(w[k]) /\ IsObject(w[k].copy) /\ w[k].fresh \in BOOLEAN /\ BoundTo(k)
             /\ obj = [obj EXCEPT ![k] = obj[k]] /\ w = [w EXCEPT ![k] = w[k]]
             /\ counted = [counted EXCEPT ![k] = counted[k]]
             /\ \A o : [obj EXCEPT ![k] = o][k] = o /\ [w EXCEPT ![k] = o][k] = o /\ [counted EXCEPT ![k] = o][k] = o
  BY Zenon, <1>0 DEF BndInv, BndType
<1>1. ASSUME NEW k \in Kinds, Bnd!Reconcile(k) PROVE BndInv'
  <2>1. CASE Bnd!ValidSpec(k, obj[k].spec)
    <3> DEFINE x == [pc |-> "list", copy |-> obj[k], count |-> 0, fresh |-> TRUE]
    <3>1. IsWorker(x) /\ x.copy = obj[k] /\ x.fresh /\ x.fresh \in BOOLEAN /\ x.pc = "list"
      BY Zenon DEF IsWorker
    <3>2. /\ w' = [w EXCEPT ![k] = x] /\ queued' = queued \ {k} /\ obj' = [obj EXCEPT ![k] = obj[k]]
          /\ counted' = [counted EXCEPT ![k] = counted[k]]
      BY Zenon, <1>0, <1>1, <2>1 DEF Bnd!Reconcile
    <3> HIDE DEF x
    <3>3. BoundTo(k)'
      BY Zenon, <1>0, <2>1, <3>1, <3>2 DEF BoundTo
    <3> QED BY Zenon, <1>0, <3>1, <3>2, <3>3, BndOthers
  <2>2. CASE ~Bnd!ValidSpec(k, obj[k].spec)
    <3> DEFINE s == Bnd!StatusOf(k, obj[k], "invalid", 0)
    <3>1. IsObject(s) /\ s.spec = obj[k].spec /\ s.ready = "False"
      BY <1>0, BndStatus
    <3>2. /\ obj' = [obj EXCEPT ![k] = s] /\ w' = [w EXCEPT ![k] = w[k]]
          /\ counted' = [counted EXCEPT ![k] = counted[k]] /\ queued' \in {queued, queued \ {k}}
      BY Zenon, <1>0, <1>1, <2>2 DEF Bnd!Reconcile
    <3>3. w[k].pc = "idle"
      BY Zenon, <1>1 DEF Bnd!Reconcile
    <3> HIDE DEF s
    <3>4. BoundTo(k)'
      BY Zenon, <1>0, <2>2, <3>1, <3>2, <3>3 DEF BoundTo, Truthful
    <3> QED BY Zenon, <1>0, <3>1, <3>2, <3>4, BndOthers
  <2> QED BY Zenon, <2>1, <2>2
<1>2. ASSUME NEW k \in Kinds, Bnd!List(k) PROVE BndInv'
  <2> DEFINE x == [w[k] EXCEPT !.pc = "report", !.count = Bnd!Count(k)]
  <2>1. IsWorker(x) /\ x.copy = w[k].copy /\ x.fresh = w[k].fresh /\ x.pc = "report" /\ x.count = Bnd!Count(k)
    BY <1>0 DEF IsWorker
  <2>2. /\ w' = [w EXCEPT ![k] = x] /\ queued' = queued /\ obj' = [obj EXCEPT ![k] = obj[k]]
        /\ counted' = [counted EXCEPT ![k] = Bnd!Count(k)] /\ w[k].pc = "list"
    BY ZenonT(30), <1>0, <1>2 DEF Bnd!List
  <2> HIDE DEF x
  <2>3. BoundTo(k)'
    BY ZenonT(30), <1>0, <2>1, <2>2 DEF BoundTo
  <2> QED BY Zenon, <1>0, <2>1, <2>2, <2>3, BndOthers
<1>3. ASSUME NEW k \in Kinds, Bnd!ListFails(k) PROVE BndInv'
  <2> DEFINE o == IF w[k].fresh THEN Bnd!StatusOf(k, w[k].copy, "unlisted", 0) ELSE obj[k]
             x == Bnd!Idle(o)
  <2>1. IsObject(o)
    BY <1>0, BndStatus
  <2>2. /\ obj' = [obj EXCEPT ![k] = o] /\ queued' = queued \cup {k}
        /\ counted' = [counted EXCEPT ![k] = counted[k]] /\ w' = [w EXCEPT ![k] = Bnd!Idle(obj'[k])]
    BY Zenon, <1>0, <1>3 DEF Bnd!ListFails
  <2> HIDE DEF o
  <2>3. obj'[k] = o
    BY Zenon, <1>0, <2>2
  <2>4. w' = [w EXCEPT ![k] = x] /\ IsWorker(x) /\ x.copy = o /\ ~x.fresh /\ x.pc = "idle"
    BY <2>2, <2>3, BndIdle, Zenon
  <2>5. x.fresh \in BOOLEAN
    BY Zenon DEF Bnd!Idle
  <2> HIDE DEF x
  <2>6. BoundTo(k)'
    BY SMTT(30), <1>0, <2>2, <2>4 DEF BoundTo
  <2> QED BY Zenon, <1>0, <2>1, <2>2, <2>4, <2>5, <2>6, BndOthers
<1>4. ASSUME NEW k \in Kinds, Bnd!Report(k) PROVE BndInv'
  <2> DEFINE s == Bnd!StatusOf(k, w[k].copy, "valid", w[k].count)
             o == IF w[k].fresh THEN s ELSE obj[k]
             x == Bnd!Idle(o)
  <2>1. IsObject(s) /\ s.spec = w[k].copy.spec /\ s.ready = "True" /\ s.count = w[k].count
    BY <1>0, BndStatus
  <2> HIDE DEF s
  <2>2. /\ obj' = [obj EXCEPT ![k] = o] /\ counted' = [counted EXCEPT ![k] = counted[k]]
        /\ queued' \in {queued, queued \cup {k}} /\ (~w[k].fresh => k \in queued') /\ w[k].pc = "report"
    BY Zenon, <1>0, <1>4 DEF Bnd!Report, Bnd!Update, s
  <2>3. w' = [w EXCEPT ![k] = x] /\ IsWorker(x) /\ x.copy = o /\ ~x.fresh /\ x.pc = "idle"
    BY Zenon, <1>0, <1>4, <2>2, BndIdle DEF Bnd!Report
  <2>4. x.fresh \in BOOLEAN
    BY Zenon DEF Bnd!Idle
  <2> HIDE DEF x
  <2>5. IsObject(o) /\ (w[k].fresh => /\ o.spec = obj[k].spec /\ o.ready = "True" /\ o.count = counted[k]
                                      /\ Bnd!ValidSpec(k, obj[k].spec))
    BY Zenon, <1>0, <2>1, <2>2 DEF BoundTo
  <2> HIDE DEF o
  <2>6. obj'[k] = o /\ w'[k] = x /\ counted'[k] = counted[k]
    BY <1>0, <2>2, <2>3
  <2>7. BoundTo(k)'
    BY Zenon, <2>2, <2>3, <2>5, <2>6 DEF BoundTo, Truthful
  <2> QED BY Zenon, <1>0, <2>2, <2>3, <2>4, <2>5, <2>7, BndOthers
<1>5. ASSUME NEW k \in Kinds, Bnd!Edit(k) PROVE BndInv'
  <2>1. PICK t : obj' = [obj EXCEPT ![k].spec = t]
    BY Zenon, <1>5 DEF Bnd!Edit
  <2> DEFINE o == [obj[k] EXCEPT !.spec = t]
             x == [w[k] EXCEPT !.fresh = FALSE]
  <2>2. IsObject(o) /\ IsWorker(x) /\ x.copy = w[k].copy /\ ~x.fresh /\ x.pc = w[k].pc /\ x.count = w[k].count
    BY <1>0 DEF IsObject, IsWorker
  <2>3. x.fresh \in BOOLEAN
    BY <1>0 DEF IsWorker
  <2>4. /\ obj' = [obj EXCEPT ![k] = o] /\ w' = [w EXCEPT ![k] = x] /\ queued' = queued \cup {k}
        /\ counted' = [counted EXCEPT ![k] = counted[k]]
    BY Zenon, <1>0, <1>5, <2>1 DEF Bnd!Edit
  <2> HIDE DEF o, x
  <2>5. BoundTo(k)'
    BY SMTT(30), <1>0, <2>2, <2>4 DEF BoundTo
  <2> QED BY Zenon, <1>0, <2>2, <2>3, <2>4, <2>5, BndOthers
<1>6. ASSUME NEW u \in Users, Bnd!Refer(u) PROVE BndInv'
  BY <1>6 DEF Bnd!Refer, BndInv, BndType, BoundTo, Truthful
<1>7. CASE UNCHANGED Bnd!vars
  BY <1>7 DEF Bnd!vars, BndInv, BndType, BoundTo, Truthful
<1> QED BY Zenon, <1>1, <1>2, <1>3, <1>4, <1>5, <1>6, <1>7 DEF Bnd!Next

\* For any objects, users, edits and failing lists: an object that is neither queued nor
\* being reconciled says in its Ready condition whether its current spec is valid, and a
\* valid one carries the count of the last listing.
THEOREM ReportsAreTruthful == ASSUME FourKinds PROVE Bnd!Spec => []Bnd!RestIsTruthful
<1>1. Bnd!Init => BndInv
  <2> SUFFICES ASSUME Bnd!Init PROVE BndInv
    BY Zenon
  <2>1. obj = [k \in Kinds |-> obj[k]] /\ \A k \in Kinds : IsObject(obj[k])
    BY Zenon DEF Bnd!Init, IsObject
  <2>2. \A k \in Kinds : w[k] = Bnd!Idle(obj[k])
    BY Zenon DEF Bnd!Init
  <2>3. \A k \in Kinds : Bnd!Idle(obj[k]).fresh \in BOOLEAN
    BY Zenon DEF Bnd!Idle
  <2>4. BndType
    BY Zenon, <2>1, <2>2, <2>3, BndIdle DEF Bnd!Init, BndType
  <2> QED BY <2>2, <2>4, BndIdle DEF Bnd!Init, BndInv, BoundTo
<1>2. BndInv /\ [Bnd!Next]_Bnd!vars => BndInv'
  BY Zenon, BndStep
<1>3. BndInv => Bnd!RestIsTruthful
  BY DEF BndInv, BoundTo, Truthful, Bnd!RestIsTruthful
<1> QED BY <1>1, <1>2, <1>3, PTL DEF Bnd!Spec

-----------------------------------------------------------------------------
(* The rate limiter *)

CONSTANTS Workers, Keys, Rate, Burst, MaxEntries, MaxBuckets
VARIABLES buckets, heap, call, squeezed
Limiter == INSTANCE RateLimiter
FST == INSTANCE FiniteSetTheorems

LimiterConstants == Rate \in Nat /\ Burst \in Nat /\ MaxEntries \in Nat /\ MaxBuckets \in Nat

LimitKeys == Keys \cup {Limiter!Idle.key}
LimitCalls == [pc : {"idle", "create", "take"}, key : LimitKeys, ref : Nat]
LimitBucket ==
  [key : LimitKeys, tokens : Nat, lastRefill : Nat, lastAccess : Nat, born : Nat, taken : Nat, orphan : Nat]

\* A bucket was made and refilled in the past, and has given out no more than its burst
\* and what was refilled.
FairBucket(b) ==
  /\ b \in LimitBucket /\ b.born <= b.lastRefill /\ b.lastRefill <= now
  /\ b.taken + b.orphan + b.tokens <= Burst + Rate * (b.lastRefill - b.born)

\* The map and the calls under way refer to buckets, evicted or not.
HeapInv ==
  /\ now \in Nat /\ DOMAIN heap \subseteq Nat /\ \A r \in DOMAIN heap : FairBucket(heap[r])
  /\ \A k \in DOMAIN buckets : buckets[k] \in DOMAIN heap
  /\ call \in [Workers -> LimitCalls]
  /\ \A v \in Workers : call[v].pc = "take" => call[v].ref \in DOMAIN heap

\* The map is finite and within its bound.
MapInv == FST!IsFiniteSet(DOMAIN buckets) /\ FST!Cardinality(DOMAIN buckets) <= MaxEntries

\* The tokens of a bucket after the refill.
LEMMA RefillAmount ==
  ASSUME LimiterConstants, now \in Nat, NEW b, FairBucket(b)
  PROVE  /\ Limiter!Refilled(b) \in Nat
         /\ Limiter!Refilled(b) <= b.tokens + Rate * (now - b.lastRefill)
<1> DEFINE t == b.tokens + Rate * (now - b.lastRefill)
           m == Limiter!Min({t, Burst})
<1>1. Rate * (now - b.lastRefill) \in Nat
  BY DEF LimiterConstants, FairBucket, LimitBucket
<1>2. t \in Nat /\ Burst \in Nat
  BY <1>1 DEF LimiterConstants, FairBucket, LimitBucket
<1>3. Limiter!Refilled(b) = m
  BY DEF Limiter!Refilled
<1> HIDE DEF t
<1>4. \E x \in {t, Burst} : \A y \in {t, Burst} : x <= y
  <2>1. CASE t <= Burst
    BY <1>2, <2>1
  <2>2. CASE Burst <= t
    BY <1>2, <2>2
  <2> QED BY <1>2, <2>1, <2>2
<1>5. m \in {t, Burst} /\ \A y \in {t, Burst} : m <= y
  BY Zenon, <1>4 DEF Limiter!Min
<1> HIDE DEF m
<1> QED BY <1>2, <1>3, <1>5 DEF t

\* What a refill and the token taken after it leave in a bucket is fair.
LEMMA RefillIsFair ==
  ASSUME LimiterConstants, now \in Nat, NEW b, FairBucket(b), NEW g \in {0, 1}, g <= Limiter!Refilled(b),
         NEW x \in Nat, NEW y \in Nat, x + y = b.taken + b.orphan + g
  PROVE  FairBucket([b EXCEPT !.tokens = Limiter!Refilled(b) - g, !.lastRefill = now, !.lastAccess = now,
                              !.taken = x, !.orphan = y])
<1> DEFINE q == Limiter!Refilled(b)
           n == q - g
           e == [b EXCEPT !.tokens = n, !.lastRefill = now, !.lastAccess = now, !.taken = x, !.orphan = y]
<1>1. q \in Nat /\ q <= b.tokens + Rate * (now - b.lastRefill)
  BY RefillAmount
<1> HIDE DEF q
<1>2. n \in Nat /\ n + g = q
  BY <1>1 DEF q
<1> HIDE DEF n
<1>3. b \in LimitBucket
  BY DEF FairBucket
<1>4. /\ e \in LimitBucket /\ e.born = b.born /\ e.lastRefill = now
      /\ e.taken = x /\ e.orphan = y /\ e.tokens = n
  BY <1>2, <1>3 DEF LimitBucket
<1>5. /\ b.born \in Nat /\ b.lastRefill \in Nat /\ b.taken \in Nat /\ b.orphan \in Nat /\ b.tokens \in Nat
      /\ b.born <= b.lastRefill /\ b.lastRefill <= now
      /\ b.taken + b.orphan + b.tokens <= Burst + Rate * (b.lastRefill - b.born)
  BY <1>3 DEF FairBucket, LimitBucket
<1>6. Rate * (now - b.lastRefill) + Rate * (b.lastRefill - b.born) = Rate * (now - b.born)
  BY <1>5 DEF LimiterConstants
<1> DEFINE p1 == Rate * (now - b.lastRefill)
           p2 == Rate * (b.lastRefill - b.born)
           p3 == Rate * (now - b.born)
<1>7. p1 \in Int /\ p2 \in Int /\ p3 \in Int /\ p1 + p2 = p3 /\ Burst \in Nat
  BY <1>5, <1>6 DEF LimiterConstants
<1>8. q <= b.tokens + p1 /\ b.taken + b.orphan + b.tokens <= Burst + p2
  BY <1>1, <1>5
<1> HIDE DEF p1, p2, p3
<1>9. x + y + n <= Burst + p3
  BY <1>1, <1>2, <1>5, <1>7, <1>8
<1>10. e.taken + e.orphan + e.tokens <= Burst + Rate * (e.lastRefill - e.born)
  BY <1>4, <1>9 DEF p3
<1>11. e.born <= e.lastRefill /\ e.lastRefill <= now
  BY <1>4, <1>5
<1> HIDE DEF e
<1>12. FairBucket(e)
  BY Zenon, <1>4, <1>10, <1>11 DEF FairBucket
<1> QED BY <1>12 DEF e, n, q

\* Allow's third lock section takes from the bucket its pointer leads to.
LEMMA LimiterTakes ==
  ASSUME LimiterConstants, HeapInv, NEW v \in Workers, Limiter!Take(v)
  PROVE  HeapInv'
<1> DEFINE r == call[v].ref
           b == heap[r]
           g == IF Limiter!Refilled(b) >= 1 THEN 1 ELSE 0
           x == b.taken + (IF Limiter!Mapped(r) THEN g ELSE 0)
           y == b.orphan + (IF Limiter!Mapped(r) THEN 0 ELSE g)
           e == [b EXCEPT !.tokens = Limiter!Refilled(b) - g, !.lastRefill = now, !.lastAccess = now,
                          !.taken = x, !.orphan = y]
<1>1. /\ call[v].pc = "take" /\ heap' = [heap EXCEPT ![r] = e] /\ call' = [call EXCEPT ![v] = Limiter!Idle]
      /\ now' = now /\ buckets' = buckets
  BY Zenon DEF Limiter!Take
<1>2. r \in DOMAIN heap /\ FairBucket(b) /\ now \in Nat
  BY <1>1 DEF HeapInv
<1>3. Limiter!Refilled(b) \in Nat
  BY <1>2, RefillAmount
<1>4. g \in {0, 1} /\ g <= Limiter!Refilled(b)
  BY <1>3
<1>5. b.taken \in Nat /\ b.orphan \in Nat
  BY <1>2 DEF FairBucket, LimitBucket
<1> HIDE DEF g, b
<1>6. x \in Nat /\ y \in Nat /\ x + y = b.taken + b.orphan + g
  BY <1>4, <1>5
<1> HIDE DEF x, y
<1>7. FairBucket(e)
  BY <1>2, <1>4, <1>6, RefillIsFair
<1> HIDE DEF e, r
<1>8. DOMAIN heap' = DOMAIN heap /\ \A s \in DOMAIN heap : heap'[s] = IF s = r THEN e ELSE heap[s]
  BY <1>1
<1>9. \A s \in DOMAIN heap' : FairBucket(heap'[s])
  BY <1>2, <1>7, <1>8 DEF HeapInv
<1>10. \A s \in DOMAIN heap' : FairBucket(heap[s])'
  BY <1>1, <1>9 DEF FairBucket
<1>11. Limiter!Idle \in LimitCalls /\ Limiter!Idle.pc = "idle"
  BY DEF Limiter!Idle, LimitCalls, LimitKeys
<1>12. call' \in [Workers -> LimitCalls] /\ \A u \in Workers : call'[u].pc = "take" => call'[u] = call[u]
  BY <1>1, <1>11 DEF HeapInv
<1> QED BY <1>1, <1>8, <1>10, <1>12 DEF HeapInv

\* Allow's first lock section, evictStale and time.
LEMMA LimiterLooks ==
  ASSUME LimiterConstants, HeapInv,
         (\E v \in Workers, k \in Keys : Limiter!Find(v, k)) \/ Limiter!EvictStale \/ Limiter!Pass
  PROVE  HeapInv'
<1>1. heap' = heap /\ now' \in Nat /\ now <= now' /\ DOMAIN buckets' \subseteq DOMAIN buckets
      /\ \A k \in DOMAIN buckets' : buckets'[k] = buckets[k]
  BY DEF Limiter!Find, Limiter!EvictStale, Limiter!Pass, HeapInv
<1>2. \A r \in DOMAIN heap : FairBucket(heap[r])'
  BY <1>1 DEF HeapInv, FairBucket, LimitBucket
<1>3. call' \in [Workers -> LimitCalls] /\ \A v \in Workers : call'[v].pc = "take" => call'[v].ref \in DOMAIN heap
  <2>1. CASE call' = call
    BY <2>1 DEF HeapInv
  <2>2. ASSUME NEW v \in Workers, NEW k \in Keys, Limiter!Find(v, k)
        PROVE  call' \in [Workers -> LimitCalls] /\ \A u \in Workers : call'[u].pc = "take" => call'[u].ref \in DOMAIN heap
    <3>1. PICK c : /\ call' = [call EXCEPT ![v] = c]
                   /\ c = IF k \in DOMAIN buckets THEN [pc |-> "take", key |-> k, ref |-> buckets[k]]
                          ELSE [pc |-> "create", key |-> k, ref |-> 0]
      BY Zenon, <2>2 DEF Limiter!Find
    <3>2. c \in LimitCalls /\ (c.pc = "take" => c.ref \in DOMAIN heap)
      BY <3>1 DEF LimitCalls, LimitKeys, HeapInv
    <3> QED BY <3>1, <3>2 DEF HeapInv
  <2> QED BY <2>1, <2>2 DEF Limiter!EvictStale, Limiter!Pass
<1> QED BY <1>1, <1>2, <1>3 DEF HeapInv

\* A bucket as Allow makes it.
LEMMA FreshIsFair ==
  ASSUME LimiterConstants, now \in Nat, NEW k \in LimitKeys
  PROVE  FairBucket([key |-> k, tokens |-> Burst, lastRefill |-> now, lastAccess |-> now,
                     born |-> now, taken |-> 0, orphan |-> 0])
BY DEF FairBucket, LimitBucket, LimiterConstants

\* Allow's second lock section finds the bucket, or makes one and may evict others.
LEMMA LimiterCreates ==
  ASSUME LimiterConstants, HeapInv, NEW v \in Workers, Limiter!Create(v)
  PROVE  HeapInv'
<1> DEFINE k == call[v].key
           r == Limiter!Cardinality(DOMAIN heap) + 1
           fresh == [key |-> k, tokens |-> Burst, lastRefill |-> now, lastAccess |-> now,
                     born |-> now, taken |-> 0, orphan |-> 0]
           map == [j \in DOMAIN buckets \cup {k} |-> IF j = k THEN r ELSE buckets[j]]
           objs == [q \in DOMAIN heap \cup {r} |-> IF q = r THEN fresh ELSE heap[q]]
<1>1. now' = now /\ k \in LimitKeys /\ now \in Nat /\ call \in [Workers -> LimitCalls]
  BY DEF Limiter!Create, HeapInv, LimitCalls
<1>2. CASE /\ k \in DOMAIN buckets /\ call' = [call EXCEPT ![v].pc = "take", ![v].ref = buckets[k]]
           /\ heap' = heap /\ buckets' = buckets
  <2>1. buckets[k] \in DOMAIN heap /\ buckets[k] \in Nat
    BY <1>2 DEF HeapInv
  <2> DEFINE c == [call[v] EXCEPT !.pc = "take", !.ref = buckets[k]]
  <2>2. c \in LimitCalls /\ c.ref = buckets[k]
    BY <1>1, <2>1 DEF LimitCalls
  <2>3. call' = [call EXCEPT ![v] = c]
    BY <1>1, <1>2
  <2> HIDE DEF c
  <2>4. call' \in [Workers -> LimitCalls] /\ \A u \in Workers : call'[u].pc = "take" => call'[u].ref \in DOMAIN heap
    BY <2>1, <2>2, <2>3 DEF HeapInv
  <2> QED BY <1>1, <1>2, <2>4 DEF HeapInv, FairBucket
<1>3. CASE /\ r \in Nat /\ call' = [call EXCEPT ![v].pc = "take", ![v].ref = r] /\ heap' = objs
           /\ \E V : buckets' = [j \in DOMAIN map \ V |-> map[j]]
  <2>1. FairBucket(fresh)
    BY <1>1, FreshIsFair
  <2> DEFINE c == [call[v] EXCEPT !.pc = "take", !.ref = r]
  <2> HIDE DEF r, fresh
  <2>2. c \in LimitCalls /\ c.ref = r
    BY <1>1, <1>3 DEF LimitCalls
  <2>3. call' = [call EXCEPT ![v] = c]
    BY Zenon, <1>1, <1>3
  <2> HIDE DEF c
  <2>4. DOMAIN heap' = DOMAIN heap \cup {r} /\ DOMAIN heap' \subseteq Nat
    BY <1>3 DEF HeapInv
  <2>5. \A s \in DOMAIN heap' : FairBucket(heap'[s])
    BY <1>3, <2>1, <2>4 DEF HeapInv
  <2>6. \A s \in DOMAIN heap' : FairBucket(heap[s])'
    BY <1>1, <2>5 DEF FairBucket
  <2>7. call' \in [Workers -> LimitCalls] /\ \A u \in Workers : call'[u].pc = "take" => call'[u].ref \in DOMAIN heap'
    BY <2>2, <2>3, <2>4 DEF HeapInv
  <2>8. \A j \in DOMAIN buckets' : buckets'[j] \in DOMAIN heap'
    BY <1>3, <2>4 DEF HeapInv
  <2> QED BY <1>1, <2>4, <2>6, <2>7, <2>8 DEF HeapInv
<1>4. \/ /\ k \in DOMAIN buckets /\ call' = [call EXCEPT ![v].pc = "take", ![v].ref = buckets[k]]
         /\ heap' = heap /\ buckets' = buckets
      \/ /\ r \in Limiter!Refs /\ call' = [call EXCEPT ![v].pc = "take", ![v].ref = r] /\ heap' = objs
         /\ \E V : buckets' = [j \in DOMAIN map \ V |-> map[j]]
  BY Zenon DEF Limiter!Create
<1>5. Limiter!Refs \subseteq Nat
  BY DEF Limiter!Refs, LimiterConstants
<1> HIDE DEF k, r, fresh, map, objs
<1> QED BY <1>2, <1>3, <1>4, <1>5

\* The map stays within its bound: what a new bucket makes too many is evicted.
LEMMA MapStep ==
  ASSUME LimiterConstants, MapInv, Limiter!Next
  PROVE  MapInv'
<1>0. \A S : Limiter!Cardinality(S) = FST!Cardinality(S)
  BY DEF FST!Cardinality, Limiter!Cardinality
<1>1. ASSUME DOMAIN buckets' \subseteq DOMAIN buckets PROVE MapInv'
  <2> DEFINE S == DOMAIN buckets
             T == DOMAIN buckets'
  <2>1. FST!IsFiniteSet(S) /\ T \in SUBSET S /\ FST!Cardinality(S) <= MaxEntries
    BY <1>1 DEF MapInv
  <2> HIDE DEF S, T
  <2>2. FST!IsFiniteSet(T) /\ FST!Cardinality(T) <= FST!Cardinality(S)
    BY Zenon, <2>1, FST!FS_Subset
  <2>3. FST!Cardinality(T) \in Nat /\ FST!Cardinality(S) \in Nat
    BY Zenon, <2>1, <2>2, FST!FS_CardinalityType
  <2>4. FST!Cardinality(T) <= MaxEntries
    BY <2>1, <2>2, <2>3 DEF LimiterConstants
  <2> QED BY <2>2, <2>4 DEF MapInv, T
<1>2. ASSUME NEW k, NEW V \in SUBSET (DOMAIN buckets \cup {k}), DOMAIN buckets' = (DOMAIN buckets \cup {k}) \ V,
             Limiter!Cardinality(V) = Limiter!Excess(Limiter!Cardinality(DOMAIN buckets \cup {k}))
      PROVE  MapInv'
  <2> DEFINE S == DOMAIN buckets
             D == S \cup {k}
             T == DOMAIN buckets'
  <2>1. FST!IsFiniteSet(S) /\ V \in SUBSET D /\ T = D \ V /\ D \cap V = V
    BY <1>2 DEF MapInv
  <2>2. FST!Cardinality(V) = Limiter!Excess(FST!Cardinality(D))
    <3>1. Limiter!Cardinality(V) = FST!Cardinality(V) /\ Limiter!Cardinality(D) = FST!Cardinality(D)
      BY Zenon, <1>0
    <3> QED BY <1>2, <3>1
  <2>3. FST!IsFiniteSet(D)
    BY Zenon, <2>1, FST!FS_AddElement
  <2> HIDE DEF D, T
  <2>4. FST!IsFiniteSet(T) /\ FST!Cardinality(T) = FST!Cardinality(D) - FST!Cardinality(V)
    <3>1. FST!IsFiniteSet(D \ V) /\ FST!Cardinality(D \ V) = FST!Cardinality(D) - FST!Cardinality(D \cap V)
      BY Zenon, <2>3, FST!FS_Difference
    <3> QED BY Zenon, <2>1, <3>1
  <2>5. FST!Cardinality(D) \in Nat
    BY Zenon, <2>3, FST!FS_CardinalityType
  <2>6. FST!Cardinality(T) <= MaxEntries
    BY <2>2, <2>4, <2>5 DEF Limiter!Excess, LimiterConstants
  <2> QED BY <2>4, <2>6 DEF MapInv, T
<1>3. ASSUME NEW v \in Workers, Limiter!Create(v) PROVE MapInv'
  <2> DEFINE k == call[v].key
             D == DOMAIN buckets \cup {k}
  <2>1. ASSUME NEW map, NEW objs, NEW V, DOMAIN map = D, buckets' = [j \in DOMAIN map \ V |-> map[j]],
               V \in Limiter!Oldest(map, objs, Limiter!Excess(Limiter!Cardinality(DOMAIN map)))
        PROVE  MapInv'
    <3>1. V \in SUBSET D /\ Limiter!Cardinality(V) = Limiter!Excess(Limiter!Cardinality(D))
      BY Zenon, <2>1 DEF Limiter!Oldest
    <3>2. DOMAIN buckets' = D \ V
      BY <2>1
    <3> QED BY <1>2, <3>1, <3>2
  <2> DEFINE r == Limiter!Cardinality(DOMAIN heap) + 1
             map == [j \in D |-> IF j = k THEN r ELSE buckets[j]]
             fresh == [key |-> k, tokens |-> Burst, lastRefill |-> now, lastAccess |-> now,
                       born |-> now, taken |-> 0, orphan |-> 0]
             objs == [q \in DOMAIN heap \cup {r} |-> IF q = r THEN fresh ELSE heap[q]]
             Victims == Limiter!Oldest(map, objs, Limiter!Excess(Limiter!Cardinality(DOMAIN map)))
  <2>2. buckets' = buckets \/ \E V \in Victims : buckets' = [j \in DOMAIN map \ V |-> map[j]]
    BY Zenon, <1>3 DEF Limiter!Create
  <2>3. DOMAIN map = D
    OBVIOUS
  <2>4. CASE buckets' = buckets
    BY <1>1, <2>4
  <2>5. CASE \E V \in Victims : buckets' = [j \in DOMAIN map \ V |-> map[j]]
    <3> HIDE DEF map, objs
    <3>1. PICK V \in Victims : buckets' = [j \in DOMAIN map \ V |-> map[j]]
      BY Zenon, <2>5
    <3> QED BY Zenon, <2>1, <2>3, <3>1
  <2> QED BY Zenon, <2>2, <2>4, <2>5
<1>4. ASSUME NEW v \in Workers, Limiter!Take(v) \/ \E k \in Keys : Limiter!Find(v, k) PROVE MapInv'
  BY <1>1, <1>4 DEF Limiter!Take, Limiter!Find
<1>5. ASSUME Limiter!EvictStale \/ Limiter!Pass PROVE MapInv'
  BY <1>1, <1>5 DEF Limiter!EvictStale, Limiter!Pass
<1> QED BY <1>3, <1>4, <1>5 DEF Limiter!Next

\* However many requests race for a bucket, and though the map may evict it between the
\* lock sections of Allow: no bucket gives out more than its burst and what time has
\* refilled, and the map never holds more buckets than the policy allows.
THEOREM LimiterIsFair ==
  ASSUME LimiterConstants
  PROVE  Limiter!Spec => [](Limiter!BucketIsFair /\ Limiter!MapIsBounded)
<1> DEFINE Inv == HeapInv /\ MapInv
<1>1. ASSUME Limiter!Init PROVE Inv
  <2>1. now = 0 /\ DOMAIN buckets = {} /\ DOMAIN heap = {} /\ call = [v \in Workers |-> Limiter!Idle]
    BY <1>1 DEF Limiter!Init
  <2>2. Limiter!Idle \in LimitCalls /\ Limiter!Idle.pc = "idle"
    BY DEF Limiter!Idle, LimitCalls, LimitKeys
  <2>3. HeapInv
    BY <2>1, <2>2 DEF HeapInv
  <2>4. FST!IsFiniteSet({}) /\ FST!Cardinality({}) = 0
    BY Zenon, FST!FS_EmptySet
  <2>5. MapInv
    BY <2>1, <2>4 DEF MapInv, LimiterConstants
  <2> QED BY <2>3, <2>5
<1>2. ASSUME Inv, [Limiter!Next]_Limiter!vars PROVE Inv'
  <2>1. CASE UNCHANGED Limiter!vars
    <3>1. UNCHANGED <<now, buckets, heap, call>>
      BY <2>1 DEF Limiter!vars
    <3> QED BY <1>2, <3>1 DEF HeapInv, MapInv, FairBucket
  <2>2. CASE Limiter!Next
    <3>1. MapInv'
      BY <1>2, <2>2, MapStep
    <3>2. HeapInv'
      BY <1>2, <2>2, LimiterTakes, LimiterCreates, LimiterLooks DEF Limiter!Next
    <3> QED BY <3>1, <3>2
  <2> QED BY <1>2, <2>1, <2>2
<1>3. ASSUME Inv PROVE Limiter!BucketIsFair /\ Limiter!MapIsBounded
  <2>1. \A S : Limiter!Cardinality(S) = FST!Cardinality(S)
    BY DEF FST!Cardinality, Limiter!Cardinality
  <2>2. Limiter!MapIsBounded
    BY Zenon, <1>3, <2>1 DEF MapInv, Limiter!MapIsBounded
  <2>3. Limiter!BucketIsFair
    BY Zenon, <1>3 DEF HeapInv, FairBucket, Limiter!BucketIsFair
  <2> QED BY <2>2, <2>3
<1> QED BY <1>1, <1>2, <1>3, PTL DEF Limiter!Spec
=============================================================================
