-------------------------- MODULE BindingControllers --------------------------
(***************************************************************************)
(* The controllers that validate an object and count who refers to it:     *)
(* ToolBinding, MemoryClass, Policy and ClusterPolicy                      *)
(* (internal/operator/controller/*_controller.go), with the conditions     *)
(* they set (internal/operator/status/conditions.go).  Each has one worker *)
(* and one object; the workers run concurrently with each other and with   *)
(* users who edit the objects and the Agents and Sessions that refer to    *)
(* them.  The controllers watch their own kind only.                       *)
(***************************************************************************)
EXTENDS Integers, FiniteSets

CONSTANTS
  Kinds,      \* which of the four kinds take part
  Users,      \* the Agents (for a MemoryClass: the Sessions) that may refer to an object
  MaxEdits,   \* bound on edits of the objects
  MaxFaults   \* bound on failing list calls

VARIABLES
  obj,      \* per kind: spec, conditions, phase, count
  refs,     \* per user: how it refers to the object ("tool", "skill", both or not at all)
  queued,   \* the kinds in their work queues, or with a retry timer running
  w,        \* per kind, the worker: pc, copy, count
  edits, faults,
  counted   \* history: per kind, the number of references when they were last listed

vars == <<obj, refs, queued, w, edits, faults, counted>>

\* validateToolSpec, and the check of the type before it.
ValidToolSpec(s) == s.type \in {"command", "mcp", "http"} /\ s.block /\ s.fields

\* validateSpec of the MemoryClass controller.
ValidMemorySpec(s) ==
  /\ s.strategy \in {"sliding_window", "summarization", "summary", "full"}
  /\ s.backend \in {"unset", "in-memory", "redis"} /\ s.max >= 0 /\ s.ttl

\* validatePolicySpec, shared by Policy and ClusterPolicy.
ValidPolicySpec(s) == s.cost \in {"none", "ok"} /\ s.rpm >= 0 /\ s.filters /\ ~s.overlap

\* The specs of each kind: a declared type, and which parts are there and well formed.
Specs(k) == CASE k = "ToolBinding" -> {[type |-> "command", block |-> TRUE, fields |-> TRUE],
                                      [type |-> "http", block |-> TRUE, fields |-> FALSE],
                                      [type |-> "ftp", block |-> TRUE, fields |-> TRUE]}
              [] k = "MemoryClass" -> {[strategy |-> "full", backend |-> "unset", max |-> 0, ttl |-> TRUE],
                                       [strategy |-> "full", backend |-> "odd", max |-> 1, ttl |-> TRUE]}
              [] OTHER -> {[cost |-> "ok", rpm |-> 1, filters |-> TRUE, overlap |-> FALSE],
                           [cost |-> "none", rpm |-> 0, filters |-> TRUE, overlap |-> TRUE]}
ValidSpec(k, s) == CASE k = "ToolBinding" -> ValidToolSpec(s)
                     [] k = "MemoryClass" -> ValidMemorySpec(s)
                     [] OTHER -> ValidPolicySpec(s)

Idle(o) == [pc |-> "idle", copy |-> o, count |-> 0, fresh |-> FALSE]

TypeOK ==
  /\ DOMAIN obj = Kinds /\ DOMAIN w = Kinds
  /\ \A k \in Kinds :
       /\ obj[k].spec \in Specs(k) /\ obj[k].ready \in {"none", "True", "False"}
       /\ obj[k].degraded \in BOOLEAN /\ obj[k].phase \in {"none", "Available", "Unavailable", "Degraded"}
       /\ obj[k].count \in 0 .. 2 * Cardinality(Users)
       /\ w[k].pc \in {"idle", "list", "report"} /\ w[k].fresh \in BOOLEAN
  /\ refs \in [Users -> SUBSET {"tool", "skill"}] /\ queued \subseteq Kinds
  /\ edits \in 0 .. MaxEdits /\ faults \in 0 .. MaxFaults

Init ==
  /\ obj \in {o \in [Kinds -> [spec : UNION {Specs(k) : k \in Kinds}, ready : {"none"}, degraded : {FALSE},
                               phase : {"none"}, count : {0}]] : \A k \in Kinds : o[k].spec \in Specs(k)}
  /\ refs = [u \in Users |-> {}] /\ queued = Kinds
  /\ w = [k \in Kinds |-> Idle(obj[k])]
  /\ edits = 0 /\ faults = 0 /\ counted = [k \in Kinds |-> 0]

\* SetReady and SetFailed set the Ready condition; neither touches Degraded.
SetReady(o) == [o EXCEPT !.ready = "True"]
SetFailed(o) == [o EXCEPT !.ready = "False"]
SetDegraded(o) == [o EXCEPT !.degraded = TRUE]

\* What each controller writes to the status of its object: an invalid spec is
\* reported, so is a list that failed (a MemoryClass is then left as it is), and
\* otherwise the object is ready and carries the count n.
ToolBindingStatus(o, found, n) ==
  CASE found = "invalid"  -> [SetFailed(o) EXCEPT !.phase = "Unavailable"]
    [] found = "unlisted" -> [SetFailed(SetDegraded(o)) EXCEPT !.phase = "Degraded", !.count = 0]
    [] found = "valid"    -> [SetReady(o) EXCEPT !.phase = "Available", !.count = n]
MemoryClassStatus(o, found, n) ==
  CASE found = "invalid"  -> SetFailed(o)
    [] found = "unlisted" -> o
    [] found = "valid"    -> [SetReady(o) EXCEPT !.count = n]
PolicyStatus(o, found, n) ==
  IF found = "valid" THEN [SetReady(o) EXCEPT !.count = n] ELSE SetFailed(o)
ClusterPolicyStatus(o, found, n) == PolicyStatus(o, found, n)

StatusOf(k, o, found, n) ==
  CASE k = "ToolBinding"   -> ToolBindingStatus(o, found, n)
    [] k = "MemoryClass"   -> MemoryClassStatus(o, found, n)
    [] k = "Policy"        -> PolicyStatus(o, found, n)
    [] k = "ClusterPolicy" -> ClusterPolicyStatus(o, found, n)

\* r.Status().Update: a fresh copy is stored, and its event queues the object if it
\* changed; an outdated copy is refused.
Update(k, o) ==
  IF w[k].fresh
    THEN /\ obj' = [obj EXCEPT ![k] = o]
         /\ queued' = IF o = obj[k] THEN queued ELSE queued \cup {k}
    ELSE /\ UNCHANGED obj /\ queued' = queued \cup {k}

\* Reconcile: the object is read and validated; an invalid one is reported and left,
\* but a MemoryClass is looked at again after 30 seconds.
Reconcile(k) ==
  /\ w[k].pc = "idle" /\ k \in queued
  /\ LET failed == StatusOf(k, obj[k], "invalid", 0)
     IN IF ValidSpec(k, obj[k].spec)
          THEN /\ w' = [w EXCEPT ![k] = [pc |-> "list", copy |-> obj[k], count |-> 0, fresh |-> TRUE]]
               /\ queued' = queued \ {k} /\ UNCHANGED obj
          ELSE /\ obj' = [obj EXCEPT ![k] = failed]
               /\ queued' = IF failed = obj[k] /\ k # "MemoryClass" THEN queued \ {k} ELSE queued
               /\ UNCHANGED w
  /\ UNCHANGED <<refs, edits, faults, counted>>

\* countBoundAgents: a reference by tool and one by skill count one each.
CountBoundAgents == Cardinality({b \in Users \X {"tool", "skill"} : b[2] \in refs[b[1]]})

\* The Sessions of a MemoryClass, and the Agents a selector matches.
SessionCount == Cardinality({u \in Users : refs[u] # {}})
CountAffectedAgents == Cardinality({u \in Users : refs[u] # {}})
CountAffectedAgentsClusterWide == Cardinality({u \in Users : refs[u] # {}})

Count(k) ==
  CASE k = "ToolBinding"   -> CountBoundAgents
    [] k = "MemoryClass"   -> SessionCount
    [] k = "Policy"        -> CountAffectedAgents
    [] k = "ClusterPolicy" -> CountAffectedAgentsClusterWide

List(k) ==
  /\ w[k].pc = "list"
  /\ w' = [w EXCEPT ![k].pc = "report", ![k].count = Count(k)]
  /\ counted' = [counted EXCEPT ![k] = Count(k)]
  /\ UNCHANGED <<obj, refs, queued, edits, faults>>

\* A failed list that is reported but not tried again.
ListFailsQuietly(k) ==
  /\ w[k].pc = "list" /\ faults < MaxFaults /\ faults' = faults + 1
  /\ obj' = IF w[k].fresh THEN [obj EXCEPT ![k] = SetFailed(w[k].copy)] ELSE obj
  /\ w' = [w EXCEPT ![k] = Idle(obj'[k])]
  /\ UNCHANGED <<refs, queued, edits, counted>>

\* A list that fails: the ToolBinding turns Degraded, a policy is reported as failed, a
\* MemoryClass is left as it is; all of them are tried again.
ListFails(k) ==
  /\ w[k].pc = "list" /\ faults < MaxFaults /\ faults' = faults + 1
  /\ obj' = IF w[k].fresh THEN [obj EXCEPT ![k] = StatusOf(k, w[k].copy, "unlisted", 0)] ELSE obj
  /\ queued' = queued \cup {k} /\ w' = [w EXCEPT ![k] = Idle(obj'[k])]
  /\ UNCHANGED <<refs, edits, counted>>

Report(k) ==
  /\ w[k].pc = "report"
  /\ Update(k, StatusOf(k, w[k].copy, "valid", w[k].count))
  /\ w' = [w EXCEPT ![k] = Idle(obj'[k])]
  /\ UNCHANGED <<refs, edits, faults, counted>>

\* Users edit the object, and Agents and Sessions come, go and change their references.
Edit(k) ==
  /\ edits < MaxEdits /\ edits' = edits + 1
  /\ \E s \in Specs(k) \ {obj[k].spec} : obj' = [obj EXCEPT ![k].spec = s]
  /\ queued' = queued \cup {k} /\ w' = [w EXCEPT ![k].fresh = FALSE]
  /\ UNCHANGED <<refs, faults, counted>>

Refer(u) ==
  /\ \E r \in SUBSET {"tool", "skill"} \ {refs[u]} : refs' = [refs EXCEPT ![u] = r]
  /\ UNCHANGED <<obj, queued, w, edits, faults, counted>>

Next ==
  \/ \E k \in Kinds : Reconcile(k) \/ List(k) \/ ListFails(k) \/ Report(k) \/ Edit(k)
  \/ \E u \in Users : Refer(u)

Spec == Init /\ [][Next]_vars

-----------------------------------------------------------------------------
\* An object at rest is reported truthfully: when it is neither queued nor being
\* reconciled, its Ready condition says whether its current spec is valid, and a
\* valid one carries the count of the last listing, through edits that race the
\* status write and lists that fail.
RestIsTruthful ==
  \A k \in Kinds : (w[k].pc = "idle" /\ k \notin queued)
    => /\ obj[k].ready = (IF ValidSpec(k, obj[k].spec) THEN "True" ELSE "False")
       /\ obj[k].ready = "True" => obj[k].count = counted[k]
=============================================================================
