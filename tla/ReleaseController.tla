-------------------------- MODULE ReleaseController ---------------------------
(***************************************************************************)
(* The Release controller (internal/operator/controller/                   *)
(* release_controller.go): one worker captures the Agent's spec into each  *)
(* new Release, supersedes the Agent's other Releases, and promotes a      *)
(* Release by writing its snapshot back into the Agent.  Each API call is  *)
(* a step.  A write with an outdated copy is refused; an error returned to *)
(* the work queue is retried.                                              *)
(***************************************************************************)
EXTENDS Integers, FiniteSets

CONSTANTS
  Releases,   \* the Releases of one Agent, numbered in the order of creation
  MaxSpec,    \* bound on the Agent's spec versions
  MaxFaults   \* bound on failed API calls and restarts of the operator

VARIABLES
  rel,      \* the stored Releases: version valid, owner, snap, promote, phase, by
  agent,    \* the Agent: exists, spec version
  queue,    \* the Releases in the work queue
  w,        \* the worker: pc, name, copy, agentCopy, left (to supersede)
  stale,    \* objects written since the worker read them
  faults,   \* failures so far
  applied,  \* history: how often each Release wrote its snapshot into the Agent
  retried   \* history: Releases whose promotion was applied and then not recorded

vars == <<rel, agent, queue, w, stale, faults, applied, retried>>

TheAgent == 0
Phases == {"none", "Created", "Promoted", "Superseded", "Failed"}
Absent == [valid |-> TRUE, owner |-> FALSE, snap |-> 0, promote |-> FALSE, phase |-> "none", by |-> 0,
           exists |-> FALSE]
Objects == [exists : BOOLEAN, valid : BOOLEAN, owner : BOOLEAN, snap : 0 .. MaxSpec,
            promote : BOOLEAN, phase : Phases, by : {0} \cup Releases]
Idle == [pc |-> "idle", name |-> 0, copy |-> Absent, spec |-> 0, left |-> {}]

TypeOK ==
  /\ rel \in [Releases -> Objects]
  /\ agent \in [exists : BOOLEAN, spec : 1 .. MaxSpec]
  /\ queue \subseteq Releases /\ faults \in 0 .. MaxFaults
  /\ w.pc \in {"idle", "agent", "own", "snap", "list", "supersede", "create", "promote", "promoted"}
  /\ w.name \in {0} \cup Releases /\ w.copy \in Objects /\ w.left \subseteq Releases
  /\ stale \subseteq Releases \cup {TheAgent}
  /\ applied \in [Releases -> Nat] /\ retried \subseteq Releases

Init ==
  /\ rel = [r \in Releases |-> Absent] /\ agent = [exists |-> FALSE, spec |-> 1]
  /\ queue = {} /\ w = Idle /\ stale = {} /\ faults = 0
  /\ applied = [r \in Releases |-> 0] /\ retried = {}

Ghosts == <<applied, retried>>

\* An error returned from Reconcile puts the Release back into the queue.
Retry == queue' = queue \cup {w.name} /\ w' = Idle

\* The worker stores its copy of the Release; a fresh copy wins, the watch event
\* queues the Release, and the worker goes on with what is stored.
Store(o, next) ==
  /\ w.name \notin stale
  /\ rel' = [rel EXCEPT ![w.name] = o]
  /\ queue' = IF o = rel[w.name] THEN queue ELSE queue \cup {w.name}
  /\ w' = [next EXCEPT !.copy = IF next.pc = "idle" THEN Absent ELSE o]

\* A failing status write whose error is ignored: the reconcile ends either way.
StoreOrDrop(o) ==
  IF w.name \in stale THEN w' = Idle /\ UNCHANGED <<rel, queue>> ELSE Store(o, Idle)

\* Reconcile starts: terminal Releases are left alone, a bad version fails.
Reconcile(r) ==
  /\ w.pc = "idle" /\ r \in queue
  /\ stale' = {}
  /\ CASE rel[r].phase = "Superseded" ->
            queue' = queue \ {r} /\ UNCHANGED <<rel, w>>
       [] rel[r].phase # "Superseded" /\ ~rel[r].valid /\ rel[r].phase # "Failed" ->
            rel' = [rel EXCEPT ![r].phase = "Failed"] /\ UNCHANGED <<queue, w>>
       [] rel[r].phase # "Superseded" /\ ~rel[r].valid /\ rel[r].phase = "Failed" ->
            queue' = queue \ {r} /\ UNCHANGED <<rel, w>>
       [] OTHER ->
            /\ queue' = queue \ {r} /\ UNCHANGED rel
            /\ w' = [Idle EXCEPT !.pc = "agent", !.name = r, !.copy = rel[r]]
  /\ UNCHANGED <<agent, faults, Ghosts>>

\* What the Release needs next, once the Agent is read and the Release is owned.
Stage(o) ==
  CASE o.phase = "none" /\ o.snap = 0 -> "snap"
    [] o.phase = "none" /\ o.snap # 0 -> "list"
    [] o.phase = "Created" /\ o.promote -> "promote"
    [] OTHER -> "idle"

\* The Agent is fetched; any error, not only its absence, fails the Release for good.
GetAgent(fault) ==
  /\ w.pc = "agent"
  /\ faults' = faults + (IF fault THEN 1 ELSE 0) /\ faults' <= MaxFaults
  /\ IF fault \/ ~agent.exists
       THEN /\ StoreOrDrop([w.copy EXCEPT !.phase = "Failed"])
            /\ UNCHANGED stale
       ELSE /\ w' = IF ~w.copy.owner THEN [w EXCEPT !.pc = "own", !.spec = agent.spec]
                    ELSE IF Stage(w.copy) = "idle" THEN Idle
                    ELSE [w EXCEPT !.pc = Stage(w.copy), !.spec = agent.spec]
            /\ stale' = stale \ {TheAgent} /\ UNCHANGED <<rel, queue>>
  /\ UNCHANGED <<agent, Ghosts>>

\* The owner reference is set and the Release fetched again.
SetOwner ==
  /\ w.pc = "own"
  /\ IF w.name \in stale
       THEN Retry /\ UNCHANGED rel
       ELSE LET o == [rel[w.name] EXCEPT !.owner = TRUE]
            IN Store(o, IF Stage(o) = "idle" THEN Idle ELSE [w EXCEPT !.pc = Stage(o)])
  /\ UNCHANGED <<agent, stale, faults, Ghosts>>

\* The Agent's spec, as read at the start of the reconcile, becomes the snapshot.
Capture ==
  /\ w.pc = "snap"
  /\ IF w.name \in stale
       THEN Retry /\ UNCHANGED rel
       ELSE Store([rel[w.name] EXCEPT !.snap = w.spec], [w EXCEPT !.pc = "list"])
  /\ UNCHANGED <<agent, stale, faults, Ghosts>>

\* supersedePreviousReleases lists every other Release of the Agent that is not
\* superseded yet, newer ones and failed ones included.
ListOthers ==
  /\ w.pc = "list"
  /\ LET others == {r \in Releases \ {w.name} : rel[r].exists /\ rel[r].phase # "Superseded"}
     IN w' = [w EXCEPT !.left = others, !.pc = IF others = {} THEN "create" ELSE "supersede"]
  /\ stale' = stale \cap {w.name, TheAgent}
  /\ UNCHANGED <<rel, agent, queue, faults, Ghosts>>

\* A loop that ignores a failing update goes on to the next Release.
SupersedeCareless(r) ==
  /\ w.pc = "supersede" /\ r \in w.left
  /\ w' = [w EXCEPT !.left = @ \ {r}, !.pc = IF w.left = {r} THEN "create" ELSE "supersede"]
  /\ IF r \in stale
       THEN UNCHANGED <<rel, queue>>
       ELSE /\ rel' = [rel EXCEPT ![r].phase = "Superseded", ![r].by = w.name]
            /\ queue' = queue \cup {r}
  /\ UNCHANGED <<agent, stale, faults, Ghosts>>

Supersede(r) ==
  /\ w.pc = "supersede" /\ r \in w.left
  /\ IF r \in stale
       THEN Retry /\ UNCHANGED rel
       ELSE /\ rel' = [rel EXCEPT ![r].phase = "Superseded", ![r].by = w.name]
            /\ queue' = queue \cup {r}
            /\ w' = [w EXCEPT !.left = @ \ {r}, !.pc = IF w.left = {r} THEN "create" ELSE "supersede"]
  /\ UNCHANGED <<agent, stale, faults, Ghosts>>

SetCreated ==
  /\ w.pc = "create"
  /\ IF w.name \in stale
       THEN Retry /\ UNCHANGED rel
       ELSE Store([w.copy EXCEPT !.phase = "Created"], Idle)
  /\ UNCHANGED <<agent, stale, faults, Ghosts>>

\* applySnapshotToAgent: a missing snapshot or a refused write of the Agent fails the Release.
ApplySnapshot ==
  /\ w.pc = "promote"
  /\ IF w.copy.snap = 0 \/ TheAgent \in stale
       THEN StoreOrDrop([w.copy EXCEPT !.phase = "Failed"]) /\ UNCHANGED <<agent, applied>>
       ELSE /\ agent' = [agent EXCEPT !.spec = w.copy.snap]
            /\ applied' = [applied EXCEPT ![w.name] = @ + 1]
            /\ w' = [w EXCEPT !.pc = "promoted"] /\ UNCHANGED <<rel, queue>>
  /\ UNCHANGED <<stale, faults, retried>>

SetPromoted ==
  /\ w.pc = "promoted"
  /\ IF w.name \in stale
       THEN Retry /\ retried' = retried \cup {w.name} /\ UNCHANGED rel
       ELSE Store([w.copy EXCEPT !.phase = "Promoted"], Idle) /\ UNCHANGED retried
  /\ UNCHANGED <<agent, stale, faults, applied>>

\* The operator restarts: the worker is gone and every Release is queued.
Restart ==
  /\ w.pc # "idle" /\ faults < MaxFaults /\ faults' = faults + 1
  /\ retried' = retried \cup (IF w.pc = "promoted" THEN {w.name} ELSE {})
  /\ w' = Idle /\ queue' = {r \in Releases : rel[r].exists} /\ stale' = {}
  /\ UNCHANGED <<rel, agent, applied>>

\* Users create the Agent and the Releases, in order, edit the Agent and ask for a promotion.
CreateAgent ==
  /\ ~agent.exists /\ agent' = [agent EXCEPT !.exists = TRUE]
  /\ UNCHANGED <<rel, queue, w, stale, faults, Ghosts>>

EditAgent ==
  /\ agent.exists /\ agent.spec < MaxSpec /\ agent' = [agent EXCEPT !.spec = @ + 1]
  /\ stale' = stale \cup {TheAgent}
  /\ UNCHANGED <<rel, queue, w, faults, Ghosts>>

CreateRelease(r, valid) ==
  /\ ~rel[r].exists /\ \A q \in Releases : q < r => rel[q].exists
  /\ rel' = [rel EXCEPT ![r].exists = TRUE, ![r].valid = valid]
  /\ queue' = queue \cup {r}
  /\ UNCHANGED <<agent, w, stale, faults, Ghosts>>

Promote(r) ==
  /\ rel[r].exists /\ ~rel[r].promote
  /\ rel' = [rel EXCEPT ![r].promote = TRUE]
  /\ queue' = queue \cup {r} /\ stale' = stale \cup {r}
  /\ UNCHANGED <<agent, w, faults, Ghosts>>

Work ==
  \/ \E r \in Releases : Reconcile(r) \/ Supersede(r)
  \/ \E fault \in BOOLEAN : GetAgent(fault)
  \/ SetOwner \/ Capture \/ ListOthers \/ SetCreated \/ ApplySnapshot \/ SetPromoted

Next ==
  \/ Work \/ Restart \/ CreateAgent \/ EditAgent
  \/ \E r \in Releases : Promote(r) \/ \E valid \in BOOLEAN : CreateRelease(r, valid)

\* A running worker goes on, and the work queue is first in, first out: no Release
\* in it waits for ever.
Fairness == WF_vars(Work) /\ \A r \in Releases : SF_vars(Reconcile(r))

Spec == Init /\ [][Next]_vars

-----------------------------------------------------------------------------
\* At most one Release of the Agent is current (Created or Promoted), at every
\* moment of a reconcile and through restarts and refused writes: the others are
\* superseded before the new one is marked Created.
OneCurrent == Cardinality({r \in Releases : rel[r].phase \in {"Created", "Promoted"}}) <= 1

\* A promotion overwrites the Agent's spec once: a second time only when the
\* Promoted phase could not be recorded the first time.
AppliedOnce == \A r \in Releases : applied[r] > 1 => r \in retried

\* Under a fair worker, a Release that exists is sooner or later given a phase.
EveryReleaseSettles == \A r \in Releases : rel[r].exists ~> rel[r].phase # "none"
=============================================================================
