--------------------------- MODULE SessionController --------------------------
(***************************************************************************)
(* The Session controller (internal/operator/controller/                   *)
(* session_controller.go): one worker keeps the phase of one Session: it   *)
(* fails while its Agent or its MemoryClass is missing, is Active while    *)
(* both are there, and is Expired, for good, when a reconcile finds it     *)
(* idle for longer than the MemoryClass allows.                            *)
(***************************************************************************)
EXTENDS Integers

CONSTANTS
  TTL,        \* the time to live the MemoryClass gives
  MaxTime,    \* bound on the clock
  MaxFaults   \* bound on failing calls, edits and restarts

VARIABLES
  now,
  sess,     \* the stored Session: phase, created, last activity (-1: not set), owner
  agent,    \* the Agent exists
  class,    \* the MemoryClass: "none" (no reference), "missing", "free" (no TTL), "timed"
  event,    \* a watch event for the Session is queued
  timer,    \* the queue will hand the Session out again after a delay
  w,        \* the worker: pc and its copy of the Session; fresh
  faults,
  active    \* history: the true time of the last activity

vars == <<now, sess, agent, class, event, timer, w, faults, active>>

Phases == {"none", "Active", "Failed", "Expired", "Terminated"}
Sessions == [phase : Phases, created : -1 .. MaxTime, last : -1 .. MaxTime, owner : BOOLEAN]
Idle == [pc |-> "idle", copy |-> [phase |-> "none", created |-> -1, last |-> -1, owner |-> FALSE], fresh |-> FALSE]

TypeOK ==
  /\ now \in 0 .. MaxTime /\ sess \in Sessions /\ agent \in BOOLEAN
  /\ class \in {"none", "missing", "free", "timed"} /\ event \in BOOLEAN
  /\ timer \in BOOLEAN /\ faults \in 0 .. MaxFaults /\ active \in -1 .. MaxTime
  /\ w \in [pc : {"idle", "agent", "class", "own", "ttl", "fail"}, copy : Sessions, fresh : BOOLEAN]

Init ==
  /\ now = 0 /\ sess = [phase |-> "none", created |-> -1, last |-> -1, owner |-> FALSE]
  /\ agent \in BOOLEAN /\ class \in {"none", "missing", "free", "timed"}
  /\ event = TRUE /\ timer = FALSE /\ w = Idle /\ faults = 0 /\ active = -1

\* The worker reads the Session; terminal phases end the reconcile.
Reconcile ==
  /\ w.pc = "idle" /\ (event \/ timer)
  /\ event' = FALSE /\ timer' = FALSE
  /\ w' = IF sess.phase \in {"Expired", "Terminated"} THEN Idle
          ELSE [pc |-> "agent", copy |-> sess, fresh |-> TRUE]
  /\ UNCHANGED <<now, sess, agent, class, faults, active>>

\* A read that fails otherwise than by absence is returned and retried.
GetAgent(fault) ==
  /\ w.pc = "agent"
  /\ faults' = faults + (IF fault THEN 1 ELSE 0) /\ faults' <= MaxFaults
  /\ w' = IF fault THEN Idle ELSE [w EXCEPT !.pc = IF agent THEN "class" ELSE "fail"]
  /\ event' = (event \/ fault)
  /\ UNCHANGED <<now, sess, agent, class, timer, active>>

GetMemoryClass ==
  /\ w.pc = "class"
  /\ w' = [w EXCEPT !.pc = IF class = "missing" THEN "fail" ELSE "own"]
  /\ UNCHANGED <<now, sess, agent, class, event, timer, faults, active>>

\* A missing reference: the failure is reported, a refused write ignored, and the
\* Session is looked at again after a delay.
Fail ==
  /\ w.pc = "fail"
  /\ sess' = IF w.fresh THEN [w.copy EXCEPT !.phase = "Failed"] ELSE sess
  /\ event' = (event \/ sess' # sess) /\ timer' = TRUE /\ w' = Idle
  /\ UNCHANGED <<now, agent, class, faults, active>>

\* The owner reference to the Agent is stored if it is not there yet.
SetOwner ==
  /\ w.pc = "own"
  /\ IF w.copy.owner
       THEN w' = [w EXCEPT !.pc = "ttl"] /\ UNCHANGED <<sess, event>>
       ELSE IF w.fresh
              THEN /\ sess' = [sess EXCEPT !.owner = TRUE] /\ event' = TRUE
                   /\ w' = [w EXCEPT !.pc = "ttl", !.copy.owner = TRUE]
              ELSE w' = Idle /\ event' = TRUE /\ UNCHANGED sess
  /\ UNCHANGED <<now, agent, class, timer, faults, active>>

Stamped(o) ==
  [o EXCEPT !.created = IF @ = -1 THEN now ELSE @, !.last = IF @ = -1 THEN now ELSE @]

\* The MemoryClass is read once more; only one that is there and has a TTL expires a Session.
TooOld(o) == class = "timed" /\ now - o.last > TTL

CheckTTL ==
  /\ w.pc = "ttl"
  /\ LET o == Stamped(w.copy)
         next == [o EXCEPT !.phase = IF TooOld(o) THEN "Expired" ELSE "Active"]
     IN /\ sess' = IF w.fresh THEN next ELSE sess
        /\ active' = IF w.fresh /\ active = -1 THEN o.last ELSE active
        /\ event' = (event \/ ~w.fresh \/ sess' # sess)
  /\ w' = Idle
  /\ UNCHANGED <<now, agent, class, timer, faults>>

\* Something is said in the Session: its status is stamped by whoever serves it.
Activity ==
  /\ sess.phase = "Active" /\ sess.last < now
  /\ sess' = [sess EXCEPT !.last = now] /\ active' = now /\ event' = TRUE
  /\ w' = [w EXCEPT !.fresh = FALSE]
  /\ UNCHANGED <<now, agent, class, timer, faults>>

\* The Agent or the MemoryClass is created or deleted, its TTL set or dropped; the
\* controller watches neither.
Change ==
  /\ faults < MaxFaults /\ faults' = faults + 1
  /\ \/ agent' = ~agent /\ UNCHANGED class
     \/ class # "none" /\ class' \in {"missing", "free", "timed"} \ {class} /\ UNCHANGED agent
  /\ UNCHANGED <<now, sess, event, timer, w, active>>

Restart ==
  /\ w.pc # "idle" /\ faults < MaxFaults /\ faults' = faults + 1
  /\ w' = Idle /\ event' = TRUE /\ timer' = FALSE
  /\ UNCHANGED <<now, sess, agent, class, active>>

Tick ==
  /\ now < MaxTime /\ now' = now + 1
  /\ UNCHANGED <<sess, agent, class, event, timer, w, faults, active>>

Work == Reconcile \/ GetMemoryClass \/ Fail \/ SetOwner \/ CheckTTL \/ \E fault \in BOOLEAN : GetAgent(fault)

Next == Work \/ Activity \/ Change \/ Restart \/ Tick

\* The worker goes on, and the delay of a retry ends.
Fairness == WF_vars(Work)

Spec == Init /\ [][Next]_vars

-----------------------------------------------------------------------------
\* A Session expires only when nothing has happened in it for longer than the TTL,
\* also when activity races the reconcile that expires it.
ExpiresIdle ==
  (sess.phase # "Expired" /\ sess'.phase = "Expired") => now - active' > TTL

\* A Session whose Agent and MemoryClass are there, and stay there, does not remain
\* Failed: the retry timer brings it back although the controller watches neither.
FailedRecovers ==
  sess.phase = "Failed" ~> (sess.phase # "Failed" \/ ~agent \/ class = "missing")
=============================================================================
