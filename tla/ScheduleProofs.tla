--------------------------- MODULE ScheduleProofs ---------------------------
(***************************************************************************)
(* Schedules and policies of the operator, for all periods, deadlines,     *)
(* limits, clocks and policies: what a Schedule creates follows the        *)
(* firings of its cron expression, and merging policies permits what all   *)
(* of them permit.                                                         *)
(***************************************************************************)
EXTENDS Integers, Sequences, TLAPS

CONSTANTS Period, Deadline, Limit, Retry, MaxTime, MaxFaults
VARIABLES now, policy, obj, prev, tasks, timer, event, w, faults, fired, blind

Sch == INSTANCE ScheduleController

SchConstants == /\ Period \in Nat \ {0} /\ Deadline \in Int
                /\ Limit \in Nat /\ Retry \in Nat /\ MaxTime \in Nat

SchObjects == [suspend : BOOLEAN, valid : BOOLEAN, last : Nat, refs : Seq(Nat),
               missed : Nat, ready : {"none", "True", "False"}]
SchPc == {"idle", "replace", "create", "failed", "created"}

\* The types the arguments below need; missed and the clock are not bounded here.
SchType == /\ now \in Nat /\ obj \in SchObjects /\ prev \in SchObjects
           /\ DOMAIN tasks \subseteq Nat
           /\ w \in [pc : SchPc, copy : SchObjects, now : Nat, fresh : BOOLEAN]
           /\ fired \in Seq(Nat) /\ blind \in BOOLEAN

\* A worker on its way to creating a Task has a copy of the last run that is current,
\* and the next run after it is due.
SchDue == ~blind /\ w.pc # "idle" =>
              w.copy.last = obj.last /\ Sch!NextRun(obj.last) <= w.now

\* The last creation is the run in progress, the run recorded, or one with a firing
\* between it and the run recorded (a missed deadline records a run without creating).
SchRecorded ==
    ~blind /\ fired # <<>> =>
        LET f == fired[Len(fired)]
        IN  IF w.pc = "created" THEN w.now = f
            ELSE obj.last = f \/ Sch!NextRun(f) <= obj.last

OnceInv == SchType /\ SchDue /\ SchRecorded /\ Sch!OncePerFiring

\* The next run is later.
LEMMA NextRunLater ==
    ASSUME SchConstants, NEW t \in Nat
    PROVE  Sch!NextRun(t) \in Nat /\ t < Sch!NextRun(t)
  BY DEF SchConstants, Sch!NextRun

\* The records that the reconciler builds.
LEMMA SchNew == Sch!New \in SchObjects /\ Sch!New.last = 0 /\ Sch!New.refs = <<>>
  BY DEF Sch!New, SchObjects

\* An idle worker has the types below.
LEMMA SchIdle == /\ Sch!Idle \in [pc : SchPc, copy : SchObjects, now : Nat, fresh : BOOLEAN]
                 /\ Sch!Idle.pc = "idle"
  BY Zenon, SchNew DEF Sch!Idle, SchPc

\* A Reconcile that ends at once, or goes on to create a Task.
LEMMA SchReconcile ==
    ASSUME SchConstants, SchType, Sch!Reconcile
    PROVE  /\ w.pc = "idle" /\ UNCHANGED <<now, policy, tasks, fired>>
           /\ prev' \in SchObjects
           /\ \/ /\ w' = Sch!Idle /\ blind' = blind
                 /\ obj' \in SchObjects /\ obj'.refs = obj.refs
                 /\ obj'.last = obj.last \/ (obj'.last = now /\ Sch!NextRun(obj.last) <= now)
              \/ /\ obj' = obj
                 /\ \E copy \in SchObjects :
                      /\ Sch!NextRun(copy.last) <= now
                      /\ w' = [pc |-> IF policy = "Replace" /\ copy.refs # <<>>
                                      THEN "replace" ELSE "create",
                               copy |-> copy, now |-> now, fresh |-> copy = obj]
                      /\ blind' = (blind \/ copy # obj)
<1>1. PICK copy \in {obj, prev} :
          \/ Sch!Suspended(copy) \/ Sch!Invalid(copy) \/ Sch!Scheduled(copy)
          \/ Sch!Missed(copy) \/ Sch!Forbidden(copy) \/ Sch!Triggers(copy)
  BY Zenon DEF Sch!Reconcile
<1>0. /\ copy \in SchObjects /\ obj \in SchObjects /\ prev \in SchObjects /\ now \in Nat
      /\ w.pc = "idle" /\ UNCHANGED <<now, policy, tasks, fired>>
  BY Zenon, <1>1 DEF Sch!Reconcile, SchType
<1> DEFINE Ends == /\ w' = Sch!Idle /\ blind' = blind
                   /\ obj' \in SchObjects /\ prev' \in SchObjects /\ obj'.refs = obj.refs
                   /\ obj'.last = obj.last \/ (obj'.last = now /\ Sch!NextRun(obj.last) <= now)
<1>2. ASSUME NEW o \in SchObjects, NEW at, Sch!Return(copy, o, at), o.refs = copy.refs,
             o.last = copy.last \/ (o.last = now /\ Sch!NextRun(copy.last) <= now)
      PROVE  Ends
  <2>1. CASE o # copy /\ copy = obj
    BY Zenon, <1>0, <1>2, <2>1 DEF Sch!Return
  <2>2. CASE ~(o # copy /\ copy = obj)
    BY Zenon, <1>0, <1>2, <2>2 DEF Sch!Return
  <2> QED BY Zenon, <2>1, <2>2
<1>3. CASE Sch!Suspended(copy) \/ Sch!Forbidden(copy)
  BY Zenon, <1>0, <1>2, <1>3 DEF Sch!Suspended, Sch!Forbidden
<1>4. CASE Sch!Invalid(copy) \/ Sch!Scheduled(copy)
  <2>1. ASSUME NEW r \in {"True", "False"}
        PROVE  /\ [copy EXCEPT !.ready = r] \in SchObjects
               /\ [copy EXCEPT !.ready = r].refs = copy.refs
               /\ [copy EXCEPT !.ready = r].last = copy.last
    BY Zenon, <1>0 DEF SchObjects
  <2> QED BY Zenon, <1>0, <1>2, <1>4, <2>1 DEF Sch!Invalid, Sch!Scheduled
<1>5. CASE Sch!Missed(copy)
  <2> DEFINE o == [copy EXCEPT !.missed = @ + 1, !.last = now]
  <2>1. o \in SchObjects /\ o.refs = copy.refs /\ o.last = now
    <3> HIDE DEF o
    <3>1. o = [copy EXCEPT !.missed = @ + 1, !.last = now]
      BY Zenon DEF o
    <3>2. DOMAIN copy = {"suspend", "valid", "last", "refs", "missed", "ready"}
      BY Zenon, <1>0 DEF SchObjects
    <3>3. o = [k \in DOMAIN copy |-> o[k]]
      BY Zenon, <3>1
    <3>4. o.refs = copy.refs /\ o.suspend = copy.suspend /\ o.valid = copy.valid
      BY Zenon, <3>1, <3>2
    <3>5. o.last = now /\ o.missed = copy.missed + 1 /\ o.ready = copy.ready
      BY Zenon, <3>1, <3>2
    <3>6. copy.missed + 1 \in Nat
      BY <1>0 DEF SchObjects
    <3> QED BY Zenon, <1>0, <3>2, <3>3, <3>4, <3>5, <3>6 DEF SchObjects
  <2>2. Sch!Return(copy, o, Sch!NextRun(now)) /\ Sch!NextRun(copy.last) <= now
    <3>1. Sch!NextRun(copy.last) \in Nat
      BY Zenon, <1>0, NextRunLater DEF SchObjects
    <3> QED BY Zenon, <1>0, <1>5, <3>1 DEF Sch!Missed, Sch!Due
  <2> HIDE DEF o
  <2> QED BY Zenon, <1>0, <1>2, <2>1, <2>2
<1>6. CASE Sch!Triggers(copy)
  <2>1. Sch!NextRun(copy.last) <= now
    <3>1. Sch!NextRun(copy.last) \in Nat
      BY Zenon, <1>0, NextRunLater DEF SchObjects
    <3> QED BY Zenon, <1>0, <1>6, <3>1 DEF Sch!Triggers, Sch!Due
  <2> QED BY Zenon, <1>0, <1>6, <2>1 DEF Sch!Triggers
<1> QED BY Zenon, <1>0, <1>1, <1>3, <1>4, <1>5, <1>6

\* What a status write stores, if it is not refused.
LEMMA SchWritten ==
    ASSUME SchType, NEW c \in SchObjects, Sch!StatusUpdate(c)
    PROVE  /\ obj' \in SchObjects /\ prev' \in SchObjects
           /\ w.fresh => obj'.last = c.last /\ obj'.refs = c.refs
           /\ ~w.fresh => obj' = obj
<1>1. CASE ~w.fresh
  BY Zenon, <1>1 DEF Sch!StatusUpdate, SchType
<1>2. CASE w.fresh
  <2>1. obj' = [c EXCEPT !.suspend = obj.suspend, !.valid = obj.valid] /\ prev' = obj
    BY Zenon, <1>2 DEF Sch!StatusUpdate
  <2>2. DOMAIN c = {"suspend", "valid", "last", "refs", "missed", "ready"}
    BY Zenon DEF SchObjects
  <2>3. obj' = [k \in DOMAIN c |-> obj'[k]]
    BY Zenon, <2>1
  <2>4. obj'.refs = c.refs /\ obj'.last = c.last /\ obj'.missed = c.missed /\ obj'.ready = c.ready
    BY Zenon, <2>1, <2>2
  <2>5. obj'.suspend = obj.suspend /\ obj'.valid = obj.valid
    BY Zenon, <2>1, <2>2
  <2> QED BY Zenon, <1>2, <2>1, <2>2, <2>3, <2>4, <2>5 DEF SchObjects, SchType
<1> QED BY Zenon, <1>1, <1>2

\* The history limit returns a list, and leaves a single name alone unless it is 0.
LEMMA SchKept ==
    ASSUME SchConstants, NEW r \in Seq(Nat)
    PROVE  Sch!Kept(r) \in Seq(Nat) /\ (Limit > 0 /\ Len(r) = 1 => Sch!Kept(r) = r)
<1>1. Limit \in Nat /\ Len(r) \in Nat
  BY DEF SchConstants
<1>2. ASSUME Len(r) > Limit
      PROVE  SubSeq(r, Len(r) - Limit + 1, Len(r)) \in Seq(Nat)
  <2> DEFINE i == Len(r) - Limit + 1
  <2>1. i \in 1 .. Len(r) + 1
    BY <1>1, <1>2
  <2> HIDE DEF i
  <2>2. \A k \in i .. Len(r) : r[k] \in Nat
    BY <2>1
  <2>3. SubSeq(r, i, Len(r)) \in Seq(Nat)
    BY <1>1, <2>1, <2>2
  <2> QED BY Zenon, <2>3 DEF i
<1>3. Limit > 0 /\ Len(r) = 1 => ~(Len(r) > Limit)
  BY <1>1
<1> QED BY Zenon, <1>2, <1>3 DEF Sch!Kept

SchRecords(o, c, t) == o = [c EXCEPT !.last = t, !.refs = Sch!Kept(@), !.ready = "True"]

\* The status that Triggered records: the time of the run and the names kept.
LEMMA SchReady ==
    ASSUME SchConstants, NEW c \in SchObjects, NEW t \in Nat,
           NEW o, SchRecords(o, c, t)
    PROVE  o \in SchObjects /\ o.last = t /\ o.refs = Sch!Kept(c.refs)
<1>1. DOMAIN c = {"suspend", "valid", "last", "refs", "missed", "ready"} /\ c.refs \in Seq(Nat)
  BY Zenon DEF SchObjects
<1>0. o = [c EXCEPT !.last = t, !.refs = Sch!Kept(c.refs), !.ready = "True"]
  BY Zenon DEF SchRecords
<1>2. o = [k \in DOMAIN c |-> o[k]]
  BY Zenon, <1>0
<1>3. o.suspend = c.suspend /\ o.valid = c.valid /\ o.missed = c.missed
  BY Zenon, <1>0, <1>1
<1>4. o.last = t /\ o.ready = "True"
  BY Zenon, <1>0, <1>1
<1>5. o.refs = Sch!Kept(c.refs)
  BY Zenon, <1>0, <1>1
<1>6. Sch!Kept(c.refs) \in Seq(Nat)
  BY Zenon, <1>1, SchKept
<1> QED BY Zenon, <1>1, <1>2, <1>3, <1>4, <1>5, <1>6 DEF SchObjects

\* The worker's record, with a new pc and new references in its copy.
SchMoves(p, r) == w' = [w EXCEPT !.pc = p, !.copy.refs = r]

\* A worker that moves on with a changed list of names keeps the rest.
LEMMA SchWorker ==
    ASSUME SchType, NEW p \in SchPc, NEW r \in Seq(Nat),
           SchMoves(p, r)
    PROVE  /\ w' \in [pc : SchPc, copy : SchObjects, now : Nat, fresh : BOOLEAN]
           /\ w'.pc = p /\ w'.now = w.now /\ w'.fresh = w.fresh
           /\ w'.copy.last = w.copy.last /\ w'.copy.refs = r
<1>1. DOMAIN w = {"pc", "copy", "now", "fresh"} /\ w.copy \in SchObjects
  BY Zenon DEF SchType
<1>0. w' = [w EXCEPT !.pc = p, !.copy.refs = r]
  BY Zenon DEF SchMoves
<1>2. w' = [k \in DOMAIN w |-> w'[k]]
  BY Zenon, <1>0
<1>3. w'.pc = p /\ w'.now = w.now /\ w'.fresh = w.fresh
  BY Zenon, <1>0, <1>1
<1>4. w'.copy = [w.copy EXCEPT !.refs = r]
  BY Zenon, <1>0, <1>1
<1>5. /\ [w.copy EXCEPT !.refs = r] \in SchObjects
      /\ [w.copy EXCEPT !.refs = r].last = w.copy.last
      /\ [w.copy EXCEPT !.refs = r].refs = r
  BY Zenon, <1>1 DEF SchObjects
<1> QED BY Zenon, <1>1, <1>2, <1>3, <1>4, <1>5 DEF SchType

\* What the steps other than Reconcile do.
LEMMA SchReplace ==
    ASSUME SchType, Sch!ReplaceActive
    PROVE  /\ SchType' /\ w.pc = "replace" /\ w'.pc = "create"
           /\ UNCHANGED <<now, policy, obj, fired, blind>>
           /\ w'.now = w.now /\ w'.copy.last = w.copy.last /\ w'.copy.refs = <<>>
<1>1. SchMoves("create", <<>>) /\ <<>> \in Seq(Nat) /\ "create" \in SchPc
  BY DEF Sch!ReplaceActive, SchPc, SchMoves
<1>2. /\ w' \in [pc : SchPc, copy : SchObjects, now : Nat, fresh : BOOLEAN]
      /\ w'.pc = "create" /\ w'.now = w.now
      /\ w'.copy.last = w.copy.last /\ w'.copy.refs = <<>>
  BY Zenon, <1>1, SchWorker
<1>3. DOMAIN tasks' \subseteq Nat
  BY Zenon DEF Sch!ReplaceActive, SchType
<1> QED BY Zenon, <1>2, <1>3 DEF Sch!ReplaceActive, SchType

\* createTriggeredResource fails and changes nothing, or creates the Task of this second.
LEMMA SchCreate ==
    ASSUME SchType, Sch!CreateTriggeredResource
    PROVE  /\ SchType' /\ w.pc = "create" /\ UNCHANGED <<now, policy, obj, blind>>
           /\ w'.now = w.now /\ w'.copy.last = w.copy.last
           /\ \/ w'.pc = "failed" /\ w'.copy = w.copy /\ UNCHANGED <<tasks, fired>>
              \/ /\ w'.pc = "created" /\ w'.copy.refs = Append(w.copy.refs, now)
                 /\ fired' = Append(fired, w.now)
                 /\ tasks' = [t \in DOMAIN tasks \cup {now} |->
                                IF t = now THEN "Running" ELSE tasks[t]]
<1>0. /\ w.pc = "create" /\ UNCHANGED <<now, policy, obj, prev, blind>>
      /\ w.copy.refs \in Seq(Nat) /\ now \in Nat /\ w.now \in Nat
  BY Zenon DEF Sch!CreateTriggeredResource, SchType, SchObjects
<1>1. CASE now \in DOMAIN tasks
  <2>1. w' = [w EXCEPT !.pc = "failed"] /\ UNCHANGED <<tasks, fired>>
    BY Zenon, <1>1 DEF Sch!CreateTriggeredResource
  <2>2. /\ w' \in [pc : SchPc, copy : SchObjects, now : Nat, fresh : BOOLEAN]
        /\ w'.pc = "failed" /\ w'.now = w.now /\ w'.copy = w.copy
    BY Zenon, <2>1 DEF SchType, SchPc
  <2> QED BY Zenon, <1>0, <2>1, <2>2 DEF SchType
<1>2. CASE now \notin DOMAIN tasks
  <2>1. /\ tasks' = [t \in DOMAIN tasks \cup {now} |-> IF t = now THEN "Running" ELSE tasks[t]]
        /\ fired' = Append(fired, w.now)
        /\ w' = [w EXCEPT !.pc = "created", !.copy.refs = Append(@, now)]
    BY Zenon, <1>2 DEF Sch!CreateTriggeredResource
  <2>2. SchMoves("created", Append(w.copy.refs, now))
    BY Zenon, <2>1 DEF SchType, SchMoves
  <2>3. Append(w.copy.refs, now) \in Seq(Nat) /\ "created" \in SchPc
    BY <1>0 DEF SchPc
  <2>4. /\ w' \in [pc : SchPc, copy : SchObjects, now : Nat, fresh : BOOLEAN]
        /\ w'.pc = "created" /\ w'.now = w.now
        /\ w'.copy.last = w.copy.last /\ w'.copy.refs = Append(w.copy.refs, now)
    BY Zenon, <2>2, <2>3, SchWorker
  <2>5. fired' \in Seq(Nat) /\ DOMAIN tasks' \subseteq Nat
    BY <1>0, <2>1 DEF SchType
  <2> QED BY Zenon, <1>0, <2>1, <2>4, <2>5 DEF SchType
<1> QED BY Zenon, <1>1, <1>2

\* A successful run ends by recording its time and its Task, if the write is accepted.
LEMMA SchTrigger ==
    ASSUME SchConstants, SchType, Sch!Triggered
    PROVE  /\ SchType' /\ w.pc = "created" /\ w' = Sch!Idle
           /\ UNCHANGED <<now, policy, tasks, fired>> /\ blind' = (blind \/ ~w.fresh)
           /\ w.fresh => obj'.last = w.now /\ obj'.refs = Sch!Kept(w.copy.refs)
<1> DEFINE o == [w.copy EXCEPT !.last = w.now, !.refs = Sch!Kept(@), !.ready = "True"]
<1>0. /\ w.pc = "created" /\ w' = Sch!Idle /\ UNCHANGED <<now, policy, tasks, fired>>
      /\ blind' = (blind \/ ~w.fresh) /\ Sch!StatusUpdate(o)
  BY Zenon DEF Sch!Triggered
<1>1. SchRecords(o, w.copy, w.now)
  BY Zenon DEF SchRecords
<1> HIDE DEF o
<1>3. o \in SchObjects /\ o.last = w.now /\ o.refs = Sch!Kept(w.copy.refs)
  BY Zenon, <1>1, SchReady DEF SchType
<1>2. /\ obj' \in SchObjects /\ prev' \in SchObjects
      /\ w.fresh => obj'.last = o.last /\ obj'.refs = o.refs
  BY Zenon, <1>0, <1>3, SchWritten
<1> QED BY Zenon, <1>0, <1>2, <1>3, SchIdle DEF SchType

\* A failed creation ends by writing the status of the copy, or nothing.
LEMMA SchFail ==
    ASSUME SchType, Sch!TriggerFailed
    PROVE  /\ SchType' /\ w.pc = "failed" /\ w' = Sch!Idle
           /\ UNCHANGED <<now, policy, tasks, fired, blind>>
           /\ obj' = obj \/ (obj'.last = w.copy.last /\ obj'.refs = w.copy.refs)
<1> DEFINE o == [w.copy EXCEPT !.ready = "False"]
<1>0. /\ w.pc = "failed" /\ w' = Sch!Idle /\ UNCHANGED <<now, policy, tasks, fired, blind>>
      /\ Sch!StatusUpdate(o)
  BY Zenon DEF Sch!TriggerFailed
<1>1. o \in SchObjects /\ o.last = w.copy.last /\ o.refs = w.copy.refs
  BY Zenon DEF SchType, SchObjects
<1> HIDE DEF o
<1>2. /\ obj' \in SchObjects /\ prev' \in SchObjects
      /\ obj' = obj \/ (obj'.last = o.last /\ obj'.refs = o.refs)
  BY Zenon, <1>0, <1>1, SchWritten DEF SchType
<1> QED BY Zenon, <1>0, <1>1, <1>2, SchIdle DEF SchType

\* An edit leaves the status alone, and a restart forgets the worker.
LEMMA SchEdit ==
    ASSUME SchType, Sch!Edit
    PROVE  /\ SchType' /\ UNCHANGED <<now, policy, tasks, fired, blind>>
           /\ obj'.last = obj.last /\ obj'.refs = obj.refs
           /\ w'.pc = w.pc /\ w'.copy = w.copy /\ w'.now = w.now
<1>1. PICK field \in {"suspend", "valid"} : obj' = [obj EXCEPT ![field] = ~@]
  BY Zenon DEF Sch!Edit
<1>2. obj' \in SchObjects /\ obj'.last = obj.last /\ obj'.refs = obj.refs
  BY Zenon, <1>1 DEF SchType, SchObjects
<1>3. w' = [w EXCEPT !.fresh = FALSE]
  BY Zenon DEF Sch!Edit
<1>4. /\ w' \in [pc : SchPc, copy : SchObjects, now : Nat, fresh : BOOLEAN]
      /\ w'.pc = w.pc /\ w'.copy = w.copy /\ w'.now = w.now
  BY Zenon, <1>3 DEF SchType
<1> QED BY Zenon, <1>2, <1>4 DEF SchType, Sch!Edit

\* The types are kept by every step.
LEMMA SchTypeStep ==
    ASSUME SchConstants, SchType, [Sch!Next]_Sch!vars
    PROVE  SchType'
<1>1. CASE Sch!Reconcile
  <2>1. CASE w' = Sch!Idle /\ blind' = blind /\ obj' \in SchObjects
    BY Zenon, <1>1, <2>1, SchReconcile, SchIdle DEF SchType
  <2>2. ASSUME obj' = obj, NEW copy \in SchObjects,
               w' = [pc |-> IF policy = "Replace" /\ copy.refs # <<>>
                            THEN "replace" ELSE "create",
                     copy |-> copy, now |-> now, fresh |-> copy = obj],
               blind' = (blind \/ copy # obj)
        PROVE  SchType'
    <3>1. w' \in [pc : SchPc, copy : SchObjects, now : Nat, fresh : BOOLEAN]
      BY Zenon, <2>2 DEF SchType, SchPc
    <3> QED BY Zenon, <1>1, <2>2, <3>1, SchReconcile DEF SchType
  <2> QED BY Zenon, <1>1, <2>1, <2>2, SchReconcile
<1>2. CASE Sch!ReplaceActive
  BY Zenon, <1>2, SchReplace
<1>3. CASE Sch!CreateTriggeredResource
  BY Zenon, <1>3, SchCreate
<1>4. CASE Sch!TriggerFailed
  BY Zenon, <1>4, SchFail
<1>5. CASE Sch!Triggered
  BY Zenon, <1>5, SchTrigger
<1>6. CASE Sch!Edit
  BY Zenon, <1>6, SchEdit
<1>7. CASE Sch!Restart
  BY Zenon, <1>7, SchIdle DEF Sch!Restart, SchType
<1>8. CASE Sch!CacheSync
  BY Zenon, <1>8 DEF Sch!CacheSync, SchType
<1>9. CASE Sch!Tick
  BY <1>9 DEF Sch!Tick, SchType
<1>10. ASSUME NEW t \in 0 .. MaxTime, Sch!TaskDone(t) PROVE SchType'
  BY Zenon, <1>10 DEF Sch!TaskDone, SchType
<1>11. CASE UNCHANGED Sch!vars
  BY Zenon, <1>11 DEF Sch!vars, SchType
<1> QED BY Zenon, <1>1, <1>2, <1>3, <1>4, <1>5, <1>6, <1>7, <1>8, <1>9, <1>10, <1>11 DEF Sch!Next

\* A step that creates no Task and records no run keeps the rest.
LEMMA OnceKept ==
    ASSUME OnceInv, fired' = fired, blind' = blind, obj'.last = obj.last,
           w'.pc = "idle" \/ (w'.pc = w.pc /\ w'.copy = w.copy /\ w'.now = w.now),
           blind \/ w.pc # "created" \/ w'.pc = "created"
    PROVE  SchDue' /\ SchRecorded' /\ Sch!OncePerFiring'
<1>1. SchDue'
  BY Zenon DEF OnceInv, SchDue, Sch!NextRun
<1>2. SchRecorded'
  BY Zenon DEF OnceInv, SchRecorded, Sch!NextRun
<1>3. Sch!OncePerFiring'
  BY Zenon DEF OnceInv, Sch!OncePerFiring, Sch!NextRun
<1> QED BY Zenon, <1>1, <1>2, <1>3

\* Every step keeps the invariant behind OncePerFiring.
LEMMA OnceStep ==
    ASSUME SchConstants, OnceInv, [Sch!Next]_Sch!vars
    PROVE  OnceInv'
<1> DEFINE Goal == SchDue' /\ SchRecorded' /\ Sch!OncePerFiring'
<1>0. SchType /\ SchType' /\ SchDue /\ SchRecorded /\ Sch!OncePerFiring
  BY Zenon, SchTypeStep DEF OnceInv
<1> SUFFICES Goal
  BY Zenon, <1>0 DEF OnceInv
<1>1. CASE Sch!Reconcile
  <2>0. w.pc = "idle" /\ fired' = fired /\ now \in Nat /\ fired \in Seq(Nat) /\ obj.last \in Nat
    BY Zenon, <1>0, <1>1, SchReconcile DEF SchType, SchObjects
  <2>1. CASE w' = Sch!Idle /\ blind' = blind /\ obj'.last = obj.last
    BY Zenon, <2>0, <2>1, SchIdle, OnceKept
  <2>2. CASE w' = Sch!Idle /\ blind' = blind /\ obj'.last = now /\ Sch!NextRun(obj.last) <= now
    <3>1. SchDue' /\ Sch!OncePerFiring'
      BY Zenon, <1>0, <2>0, <2>2, SchIdle DEF SchDue, Sch!OncePerFiring
    <3>2. ASSUME ~blind, fired # <<>>
          PROVE  Sch!NextRun(fired[Len(fired)]) <= now
      <4> DEFINE f == fired[Len(fired)]
      <4>1. f \in Nat /\ (obj.last = f \/ Sch!NextRun(f) <= obj.last)
        BY <1>0, <2>0, <3>2 DEF SchRecorded
      <4>2. Sch!NextRun(f) \in Nat /\ Sch!NextRun(obj.last) \in Nat /\ obj.last < Sch!NextRun(obj.last)
        BY Zenon, <2>0, <4>1, NextRunLater
      <4> HIDE DEF f
      <4>3. Sch!NextRun(f) <= now
        BY <2>0, <2>2, <4>1, <4>2
      <4> QED BY Zenon, <4>3 DEF f
    <3>3. SchRecorded'
      BY Zenon, <2>0, <2>2, <3>2, SchIdle DEF SchRecorded
    <3> QED BY Zenon, <3>1, <3>3
  <2>3. ASSUME obj' = obj, NEW copy \in SchObjects, Sch!NextRun(copy.last) <= now,
               w' = [pc |-> IF policy = "Replace" /\ copy.refs # <<>>
                            THEN "replace" ELSE "create",
                     copy |-> copy, now |-> now, fresh |-> copy = obj],
               blind' = (blind \/ copy # obj)
        PROVE  Goal
    <3>1. w'.pc # "created" /\ w'.now = now /\ w'.copy = copy
      BY Zenon, <2>3
    <3>2. SchDue'
      BY Zenon, <2>3, <3>1 DEF SchDue
    <3>3. SchRecorded' /\ Sch!OncePerFiring'
      BY Zenon, <1>0, <2>0, <2>3, <3>1 DEF SchRecorded, Sch!OncePerFiring
    <3> QED BY Zenon, <3>2, <3>3
  <2> QED BY <1>0, <1>1, <2>1, <2>2, <2>3, SchReconcile
<1>2. CASE Sch!ReplaceActive
  <2>1. /\ w.pc = "replace" /\ w'.pc = "create" /\ UNCHANGED <<obj, fired, blind>>
        /\ w'.now = w.now /\ w'.copy.last = w.copy.last
    BY Zenon, <1>0, <1>2, SchReplace
  <2> QED BY Zenon, <1>0, <2>1 DEF SchDue, SchRecorded, Sch!OncePerFiring
<1>3. CASE Sch!CreateTriggeredResource
  <2>0. /\ w.pc = "create" /\ UNCHANGED <<obj, blind>> /\ w'.now = w.now
        /\ w'.copy.last = w.copy.last
        /\ \/ w'.pc = "failed" /\ fired' = fired
           \/ w'.pc = "created" /\ fired' = Append(fired, w.now)
    BY Zenon, <1>0, <1>3, SchCreate
  <2>1. SchDue'
    BY Zenon, <1>0, <2>0 DEF SchDue
  <2>2. CASE w'.pc = "failed" /\ fired' = fired
    BY Zenon, <1>0, <2>0, <2>1, <2>2 DEF SchRecorded, Sch!OncePerFiring
  <2>3. CASE w'.pc = "created" /\ fired' = Append(fired, w.now)
    <3>0. fired \in Seq(Nat) /\ w.now \in Nat /\ obj.last \in Nat
      BY Zenon, <1>0 DEF SchType, SchObjects
    <3>1. /\ Len(fired') = Len(fired) + 1 /\ fired'[Len(fired')] = w.now
          /\ \A i \in 1 .. Len(fired) : fired'[i] = fired[i]
      BY <2>3, <3>0
    <3>2. SchRecorded'
      BY Zenon, <2>0, <2>3, <3>1 DEF SchRecorded
    <3>3. ASSUME ~blind, fired # <<>>
          PROVE  Sch!NextRun(fired[Len(fired)]) <= w.now
      <4> DEFINE f == fired[Len(fired)]
      <4>1. f \in Nat /\ (obj.last = f \/ Sch!NextRun(f) <= obj.last)
        BY <1>0, <2>0, <3>0, <3>3 DEF SchRecorded
      <4>2. Sch!NextRun(f) \in Nat /\ Sch!NextRun(obj.last) \in Nat /\ obj.last < Sch!NextRun(obj.last)
        BY Zenon, <3>0, <4>1, NextRunLater
      <4>3. Sch!NextRun(obj.last) <= w.now
        BY Zenon, <1>0, <2>0, <3>3 DEF SchDue
      <4> HIDE DEF f
      <4>4. Sch!NextRun(f) <= w.now
        BY <3>0, <4>1, <4>2, <4>3
      <4> QED BY Zenon, <4>4 DEF f
    <3>4. ASSUME ~blind, NEW i \in 1 .. Len(fired') - 1
          PROVE  Sch!NextRun(fired'[i]) <= fired'[i + 1]
      <4>1. i \in 1 .. Len(fired) /\ Len(fired) \in Nat /\ fired # <<>>
        BY <3>0, <3>1
      <4>2. CASE i = Len(fired)
        BY Zenon, <3>1, <3>3, <3>4, <4>1, <4>2
      <4>3. CASE i # Len(fired)
        <5>1. i \in 1 .. Len(fired) - 1 /\ i + 1 \in 1 .. Len(fired)
          BY <4>1, <4>3
        <5> QED BY Zenon, <1>0, <3>1, <3>4, <4>1, <5>1 DEF Sch!OncePerFiring
      <4> QED BY Zenon, <4>2, <4>3
    <3>5. Sch!OncePerFiring'
      BY Zenon, <2>0, <3>4 DEF Sch!OncePerFiring, Sch!NextRun
    <3> QED BY Zenon, <2>1, <3>2, <3>5
  <2> QED BY Zenon, <2>0, <2>2, <2>3
<1>4. CASE Sch!TriggerFailed
  <2>1. /\ w.pc = "failed" /\ w' = Sch!Idle /\ UNCHANGED <<fired, blind>>
        /\ obj' = obj \/ obj'.last = w.copy.last
    BY Zenon, <1>0, <1>4, SchFail
  <2>2. blind \/ obj'.last = obj.last
    BY Zenon, <1>0, <2>1 DEF SchDue
  <2>3. CASE blind
    BY Zenon, <2>1, <2>3 DEF SchDue, SchRecorded, Sch!OncePerFiring
  <2> QED BY Zenon, <2>1, <2>2, <2>3, SchIdle, OnceKept
<1>5. CASE Sch!Triggered
  <2>1. /\ w.pc = "created" /\ w' = Sch!Idle /\ fired' = fired
        /\ blind' = (blind \/ ~w.fresh) /\ (w.fresh => obj'.last = w.now)
    BY Zenon, <1>0, <1>5, SchTrigger
  <2> QED BY Zenon, <1>0, <2>1, SchIdle DEF SchDue, SchRecorded, Sch!OncePerFiring
<1>6. CASE Sch!Edit
  BY Zenon, <1>0, <1>6, SchEdit, OnceKept
<1>7. CASE Sch!Restart
  <2>1. /\ w' = Sch!Idle /\ UNCHANGED <<obj, fired>> /\ blind' = (blind \/ w.pc = "created")
    BY Zenon, <1>7 DEF Sch!Restart
  <2> QED BY Zenon, <1>0, <2>1, SchIdle DEF SchDue, SchRecorded, Sch!OncePerFiring
<1>8. CASE Sch!CacheSync
  BY Zenon, <1>8, OnceKept DEF Sch!CacheSync
<1>9. CASE Sch!Tick
  BY Zenon, <1>9, OnceKept DEF Sch!Tick
<1>10. ASSUME NEW t \in 0 .. MaxTime, Sch!TaskDone(t) PROVE Goal
  BY Zenon, <1>10, OnceKept DEF Sch!TaskDone
<1>11. CASE UNCHANGED Sch!vars
  BY Zenon, <1>11, OnceKept DEF Sch!vars
<1> QED BY Zenon, <1>1, <1>2, <1>3, <1>4, <1>5, <1>6, <1>7, <1>8, <1>9, <1>10, <1>11 DEF Sch!Next

-----------------------------------------------------------------------------
(* The Replace policy *)

SchRunning == {t \in DOMAIN tasks : tasks[t] = "Running"}

\* Which tasks may be running while the worker replaces them: at rest those that the
\* status names, one at most; none from the deletion on; then the one just created.
Replacing == /\ Len(obj.refs) <= 1
             /\ w.pc \in {"idle", "replace"} => SchRunning \subseteq Sch!Listed(obj)
             /\ w.pc = "replace" => w.copy.refs = obj.refs
             /\ w.pc \in {"create", "failed"} => SchRunning = {} /\ w.copy.refs = <<>>
             /\ w.pc = "created" => /\ Len(w.copy.refs) = 1
                                    /\ SchRunning \subseteq {w.copy.refs[1]}

Strict == policy = "Replace" /\ Limit > 0 /\ ~blind

RepInv == SchType /\ (Strict => Replacing)

\* The tasks a list of none and of one name refers to.
LEMMA ListedOne ==
    ASSUME NEW r \in Seq(Nat), NEW o, o.refs = r
    PROVE  /\ Len(r) = 0 => Sch!Listed(o) = {}
           /\ Len(r) = 1 => Sch!Listed(o) = {r[1]}
  BY DEF Sch!Listed

\* A step that changes neither the references nor the worker, and starts no Task.
LEMMA RepKept ==
    ASSUME RepInv, Strict, obj'.refs = obj.refs, w'.pc = w.pc, w'.copy = w.copy,
           SchRunning' \subseteq SchRunning
    PROVE  Replacing'
  BY DEF RepInv, Replacing, Sch!Listed

\* Every step keeps the invariant behind ReplaceLeavesOne.
LEMMA RepStep ==
    ASSUME SchConstants, RepInv, [Sch!Next]_Sch!vars
    PROVE  RepInv'
<1>0. SchType /\ SchType' /\ (Strict => Replacing)
  BY Zenon, SchTypeStep DEF RepInv
<1> SUFFICES ASSUME Strict' PROVE Replacing'
  BY Zenon, <1>0 DEF RepInv
<1>a. obj.refs \in Seq(Nat) /\ w.copy.refs \in Seq(Nat) /\ obj'.refs \in Seq(Nat)
  BY Zenon, <1>0 DEF SchType, SchObjects
<1>1. CASE Sch!Reconcile
  <2>0. w.pc = "idle" /\ SchRunning' = SchRunning /\ policy' = policy
    BY Zenon, <1>0, <1>1, SchReconcile DEF SchRunning
  <2>1. CASE w' = Sch!Idle /\ blind' = blind /\ obj'.refs = obj.refs
    <3>1. Replacing
      BY Zenon, <1>0, <2>0, <2>1 DEF Strict
    <3> QED BY <2>0, <2>1, <3>1, SchIdle DEF Replacing, Sch!Listed
  <2>2. ASSUME obj' = obj, NEW copy \in SchObjects,
               w' = [pc |-> IF policy = "Replace" /\ copy.refs # <<>>
                            THEN "replace" ELSE "create",
                     copy |-> copy, now |-> now, fresh |-> copy = obj],
               blind' = (blind \/ copy # obj)
        PROVE  Replacing'
    <3>1. Strict /\ copy = obj
      BY Zenon, <2>0, <2>2 DEF Strict
    <3>2. w'.pc = (IF obj.refs # <<>> THEN "replace" ELSE "create") /\ w'.copy = obj
      BY Zenon, <2>2, <3>1 DEF Strict
    <3>3. Len(obj.refs) <= 1 /\ SchRunning \subseteq Sch!Listed(obj)
      BY Zenon, <1>0, <2>0, <3>1 DEF Replacing
    <3>4. obj.refs = <<>> => SchRunning = {}
      BY Zenon, <1>a, <3>3, ListedOne
    <3>5. Sch!Listed(obj)' = Sch!Listed(obj)
      BY Zenon, <2>2 DEF Sch!Listed
    <3> QED BY Zenon, <2>0, <2>2, <3>2, <3>3, <3>4, <3>5 DEF Replacing
  <2> QED BY Zenon, <1>0, <1>1, <2>1, <2>2, SchReconcile
<1>2. CASE Sch!ReplaceActive
  <2>1. /\ w.pc = "replace" /\ w'.pc = "create" /\ UNCHANGED <<policy, obj, blind>>
        /\ w'.copy.refs = <<>> /\ tasks' = [t \in DOMAIN tasks \ Sch!Listed(w.copy) |-> tasks[t]]
    BY Zenon, <1>0, <1>2, SchReplace DEF Sch!ReplaceActive
  <2>2. Replacing
    BY Zenon, <1>0, <2>1 DEF Strict
  <2>3. Sch!Listed(w.copy) = Sch!Listed(obj)
    BY <2>1, <2>2 DEF Replacing, Sch!Listed
  <2>4. SchRunning' = {}
    BY Zenon, <2>1, <2>2, <2>3 DEF Replacing, SchRunning
  <2> QED BY Zenon, <2>1, <2>2, <2>4 DEF Replacing
<1>3. CASE Sch!CreateTriggeredResource
  <2>0. w.pc = "create" /\ UNCHANGED <<now, policy, obj, blind>>
    BY Zenon, <1>0, <1>3, SchCreate
  <2>1. Len(obj.refs) <= 1 /\ SchRunning = {} /\ w.copy.refs = <<>>
    BY Zenon, <1>0, <2>0 DEF Strict, Replacing
  <2>2. CASE w'.pc = "failed" /\ w'.copy = w.copy /\ UNCHANGED tasks
    BY Zenon, <2>0, <2>1, <2>2 DEF Replacing, SchRunning
  <2>3. CASE /\ w'.pc = "created" /\ w'.copy.refs = Append(w.copy.refs, now)
             /\ tasks' = [t \in DOMAIN tasks \cup {now} |-> IF t = now THEN "Running" ELSE tasks[t]]
    <3>1. SchRunning' \subseteq {now}
      BY Zenon, <2>1, <2>3 DEF SchRunning
    <3>2. Len(w'.copy.refs) = 1 /\ w'.copy.refs[1] = now
      BY <2>1, <2>3
    <3> QED BY Zenon, <2>0, <2>1, <2>3, <3>1, <3>2 DEF Replacing
  <2> QED BY Zenon, <1>0, <1>3, <2>2, <2>3, SchCreate
<1>4. CASE Sch!TriggerFailed
  <2>1. /\ w.pc = "failed" /\ w' = Sch!Idle /\ UNCHANGED <<policy, tasks, blind>>
        /\ obj' = obj \/ obj'.refs = w.copy.refs
    BY Zenon, <1>0, <1>4, SchFail
  <2>2. Len(obj.refs) <= 1 /\ SchRunning = {} /\ w.copy.refs = <<>>
    BY Zenon, <1>0, <2>1 DEF Strict, Replacing
  <2>3. SchRunning' = {} /\ Len(obj'.refs) <= 1
    BY <2>1, <2>2 DEF SchRunning
  <2> QED BY Zenon, <2>1, <2>3, SchIdle DEF Replacing
<1>5. CASE Sch!Triggered
  <2>1. /\ w.pc = "created" /\ w' = Sch!Idle /\ UNCHANGED <<policy, tasks>>
        /\ blind' = (blind \/ ~w.fresh) /\ (w.fresh => obj'.refs = Sch!Kept(w.copy.refs))
    BY Zenon, <1>0, <1>5, SchTrigger
  <2>2. Strict /\ obj'.refs = Sch!Kept(w.copy.refs)
    BY Zenon, <2>1 DEF Strict, SchType
  <2>3. Len(w.copy.refs) = 1 /\ SchRunning \subseteq {w.copy.refs[1]}
    BY Zenon, <1>0, <2>1, <2>2 DEF Replacing
  <2>4. obj'.refs = w.copy.refs
    BY <1>a, <2>2, <2>3, SchKept DEF Strict
  <2>5. Sch!Listed(obj)' = {w.copy.refs[1]}
    BY <2>3, <2>4, <1>a DEF Sch!Listed
  <2>6. SchRunning' = SchRunning
    BY Zenon, <2>1 DEF SchRunning
  <2>7. Len(obj'.refs) <= 1 /\ w'.pc = "idle" /\ SchRunning' \subseteq Sch!Listed(obj)'
    <3>0. Len(obj'.refs) = 1
      BY Zenon, <2>3, <2>4
    <3>1. Len(obj'.refs) <= 1
      BY <3>0
    <3>2. w'.pc = "idle"
      BY Zenon, <2>1, SchIdle
    <3>3. SchRunning' \subseteq Sch!Listed(obj)'
      BY Zenon, <2>3, <2>5, <2>6
    <3> QED BY Zenon, <3>1, <3>2, <3>3
  <2> QED BY Zenon, <2>7 DEF Replacing
<1>6. CASE Sch!Edit
  <2>1. Strict /\ SchRunning' = SchRunning
    BY <1>0, <1>6, SchEdit DEF Strict, SchRunning
  <2> QED BY Zenon, <1>0, <1>6, <2>1, SchEdit, RepKept
<1>7. CASE Sch!Restart
  <2>1. w' = Sch!Idle /\ UNCHANGED <<policy, obj, tasks>> /\ blind' = (blind \/ w.pc = "created")
    BY Zenon, <1>7 DEF Sch!Restart
  <2>2. Replacing /\ w.pc # "created" /\ w.pc \in SchPc
    BY Zenon, <1>0, <2>1 DEF Strict, SchType
  <2>3. SchRunning \subseteq Sch!Listed(obj)
    BY Zenon, <2>2 DEF Replacing, SchPc
  <2>4. SchRunning' = SchRunning /\ Sch!Listed(obj)' = Sch!Listed(obj)
    BY Zenon, <2>1 DEF SchRunning, Sch!Listed
  <2> QED BY Zenon, <2>1, <2>2, <2>3, <2>4, SchIdle DEF Replacing
<1>8. CASE Sch!CacheSync \/ Sch!Tick \/ UNCHANGED Sch!vars
  <2>1. UNCHANGED <<policy, obj, tasks, w, blind>>
    BY Zenon, <1>8 DEF Sch!CacheSync, Sch!Tick, Sch!vars
  <2>2. Strict /\ SchRunning' = SchRunning
    BY Zenon, <2>1 DEF Strict, SchRunning
  <2> QED BY Zenon, <2>1, <2>2, RepKept
<1>9. ASSUME NEW t \in 0 .. MaxTime, Sch!TaskDone(t) PROVE Replacing'
  <2>1. UNCHANGED <<policy, obj, w, blind>> /\ tasks' = [tasks EXCEPT ![t] = "Completed"]
    BY Zenon, <1>9 DEF Sch!TaskDone
  <2>2. Strict /\ SchRunning' \subseteq SchRunning
    BY Zenon, <2>1 DEF Strict, SchRunning
  <2> QED BY Zenon, <2>1, <2>2, RepKept
<1> QED BY Zenon, <1>1, <1>2, <1>3, <1>4, <1>5, <1>6, <1>7, <1>8, <1>9 DEF Sch!Next

\* Nothing runs, or one Task.
INSTANCE FiniteSets
INSTANCE FiniteSetTheorems

\* With the invariant, no more than the one Task that the status lists is running.
LEMMA RepOne == SchConstants /\ RepInv => Sch!ReplaceLeavesOne
<1> SUFFICES ASSUME RepInv, Strict, w.pc = "idle"
             PROVE  Sch!Cardinality(SchRunning) <= 1
  BY Zenon DEF Sch!ReplaceLeavesOne, Strict, SchRunning
<1>1. SchRunning \subseteq Sch!Listed(obj) /\ Len(obj.refs) <= 1 /\ obj.refs \in Seq(Nat)
  BY Zenon DEF RepInv, Replacing, SchType, SchObjects
<1>2. \E x \in Nat : SchRunning \subseteq {x}
  <2>1. Len(obj.refs) \in Nat
    BY <1>1
  <2>2. CASE Len(obj.refs) = 0
    BY Zenon, <1>1, <2>2, ListedOne
  <2>3. CASE Len(obj.refs) = 1
    BY <1>1, <2>3, ListedOne
  <2>4. Len(obj.refs) = 0 \/ Len(obj.refs) = 1
    <3> DEFINE n == Len(obj.refs)
    <3>1. n \in Nat /\ n <= 1
      BY Zenon, <1>1, <2>1
    <3> HIDE DEF n
    <3>2. n = 0 \/ n = 1
      BY <3>1
    <3> QED BY Zenon, <3>2 DEF n
  <2> QED BY <2>2, <2>3, <2>4
<1>3. Cardinality(SchRunning) <= 1
  <2>1. PICK x \in Nat : SchRunning \subseteq {x}
    BY <1>2
  <2>2. IsFiniteSet({x}) /\ Cardinality({x}) = 1
    BY Zenon, FS_Singleton
  <2>3. Cardinality(SchRunning) <= Cardinality({x})
    BY Zenon, <2>1, <2>2, FS_Subset
  <2> QED BY <2>2, <2>3
<1>4. Sch!Cardinality(SchRunning) = Cardinality(SchRunning)
  BY Zenon DEF Sch!Cardinality, Cardinality
<1> QED BY <1>3, <1>4

\* A firing of the cron expression creates one Task at most, and Replace leaves one
\* running at most, unless a status write was lost or a stale copy was acted on: for
\* all periods, deadlines and limits, with edits, restarts and creates that fail.
THEOREM ScheduleServesFirings ==
    ASSUME SchConstants
    PROVE  Sch!Spec => []Sch!FiringsAreServed
<1>1. Sch!Init => OnceInv /\ RepInv
  <2> SUFFICES ASSUME Sch!Init PROVE OnceInv /\ RepInv
    BY Zenon
  <2>1. SchType /\ w.pc = "idle" /\ obj.refs = <<>> /\ SchRunning = {} /\ fired = <<>>
    <3>1. fired = <<>> /\ obj = Sch!New /\ prev = Sch!New /\ w = Sch!Idle
      BY Zenon DEF Sch!Init
    <3>3. DOMAIN tasks = {}
      <4>1. tasks = <<>> /\ <<>> \in Seq(Nat) /\ Len(<<>>) = 0
        BY DEF Sch!Init
      <4>2. DOMAIN tasks = 1 .. 0
        BY <4>1
      <4> QED BY <4>2
    <3>2. now \in Nat /\ <<>> \in Seq(Nat)
      BY DEF Sch!Init
    <3>4. blind \in BOOLEAN
      BY Zenon DEF Sch!Init
    <3> QED BY <3>1, <3>2, <3>3, <3>4, SchNew, SchIdle DEF SchType, SchRunning
  <2>2. OnceInv
    BY <2>1 DEF OnceInv, SchDue, SchRecorded, Sch!OncePerFiring
  <2>3. RepInv
    BY <2>1 DEF RepInv, Replacing
  <2> QED BY <2>2, <2>3
<1>2. OnceInv /\ [Sch!Next]_Sch!vars => OnceInv'
  BY Zenon, OnceStep
<1>3. RepInv /\ [Sch!Next]_Sch!vars => RepInv'
  BY RepStep
<1>4. OnceInv /\ RepInv => Sch!FiringsAreServed
  BY Zenon, RepOne DEF OnceInv, Sch!FiringsAreServed
<1> QED BY <1>1, <1>2, <1>3, <1>4, PTL DEF Sch!Spec

-----------------------------------------------------------------------------
(* Merging policies *)

CONSTANTS Names, MaxCost, MaxPolicies
VARIABLES aspect, policies

Pol == INSTANCE Policies

\* Every set of natural numbers has a smallest one (proved last).
HasLeast == \A S \in SUBSET Nat : S # {} => \E k \in S : \A j \in S : k <= j

\* Smallest names the smallest number.
LEMMA SmallestIs ==
    ASSUME HasLeast, NEW S, S \subseteq Nat, S # {}
    PROVE  Pol!Smallest(S) \in S /\ \A y \in S : Pol!Smallest(S) <= y
<1>1. \E k \in S : \A j \in S : k <= j
  BY Zenon DEF HasLeast
<1> QED BY Zenon, <1>1 DEF Pol!Smallest

\* What the arguments below use of a policy: its numbers.
PolNumbers(p) == p.cost \in Nat \cup {-1, -2} /\ p.rpm \in Int /\ p.tpm \in Int

\* The members of a list of none and of one policy.
LEMMA MembersOf ==
    ASSUME NEW P, NEW ps \in Seq(P)
    PROVE  /\ Pol!Members(ps) \subseteq P
           /\ Len(ps) = 0 => Pol!Members(ps) = {}
           /\ Len(ps) = 1 => Pol!Members(ps) = {ps[1]}
           /\ Len(ps) # 0 => Pol!Members(ps) # {}
BY DEF Pol!Members

\* An intersection of lists, read as a restriction, lets through what every list
\* lets through (mergeAllowedModels), when the lists have a name in common.
LEMMA IntersectionPermits ==
    ASSUME NEW A, Pol!Overlap(A), NEW x
    PROVE  LET m == Pol!Intersection(A \ {{}})
           IN  (m = {} \/ x \in m) <=> \A s \in A : s = {} \/ x \in s
<1>1. CASE A \ {{}} = {}
  BY <1>1 DEF Pol!Intersection
<1>2. CASE A \ {{}} # {}
  BY Zenon, <1>2 DEF Pol!Intersection, Pol!Overlap
<1> QED BY Zenon, <1>1, <1>2

\* The lowest positive value bounds what every positive value bounds (mergeRateLimits).
LEMMA LowestBounds ==
    ASSUME HasLeast, NEW V, V \subseteq Int, NEW x \in Nat
    PROVE  (Pol!Lowest(V) <= 0 \/ x <= Pol!Lowest(V)) <=> \A v \in V : v <= 0 \/ x <= v
<1> DEFINE positive == {v \in V : v > 0}
<1>1. CASE positive = {}
  BY <1>1 DEF Pol!Lowest
<1>2. CASE positive # {}
  <2>0. \A v \in Int : v > 0 => v \in Nat
    OBVIOUS
  <2>1. positive \subseteq Nat
    BY Zenon, <2>0
  <2>2. /\ Pol!Smallest(positive) \in positive
        /\ \A y \in positive : Pol!Smallest(positive) <= y
    <3> HIDE DEF positive
    <3> QED BY Zenon, <1>2, <2>1, SmallestIs
  <2>3. Pol!Lowest(V) = Pol!Smallest(positive)
    BY <1>2 DEF Pol!Lowest
  <2>4. \A v \in V : v > 0 => v \in positive
    OBVIOUS
  <2>5. \A v \in positive : v \in V /\ v \in Int /\ v > 0
    OBVIOUS
  <2> HIDE DEF positive
  <2>6. PICK k \in positive : k = Pol!Lowest(V) /\ \A y \in positive : k <= y
    BY Zenon, <2>2, <2>3
  <2>7. k \in V /\ k \in Int /\ k > 0 /\ \A v \in V : v > 0 => k <= v
    BY Zenon, <2>4, <2>5, <2>6
  <2>8. (k <= 0 \/ x <= k) <=> \A v \in V : v <= 0 \/ x <= v
    BY <2>7
  <2> QED BY Zenon, <2>6, <2>8
<1> QED BY <1>1, <1>2

\* The lowest budget that parses bounds what every budget that parses bounds
\* (mergeCostBudgets).
LEMMA CostBounds ==
    ASSUME HasLeast, NEW C, C \subseteq Nat \cup {-1, -2}, NEW x \in Nat
    PROVE  LET costs == C \ {-1, -2}
               m == IF costs = {} THEN -1 ELSE Pol!Smallest(costs)
           IN  (m < 0 \/ x <= m) <=> \A c \in C : c < 0 \/ x <= c
<1> DEFINE costs == C \ {-1, -2}
           m == IF costs = {} THEN -1 ELSE Pol!Smallest(costs)
<1> SUFFICES (m < 0 \/ x <= m) <=> \A c \in C : c < 0 \/ x <= c
  OBVIOUS
<1>1. \A c \in C : c \notin costs => c < 0
  OBVIOUS
<1>2. \A c \in costs : c \in C /\ c \in Nat
  OBVIOUS
<1> HIDE DEF costs
<1>3. CASE costs = {}
  BY <1>1, <1>3
<1>4. CASE costs # {}
  <2>1. m \in costs /\ \A y \in costs : m <= y
    BY <1>2, <1>4, SmallestIs
  <2> HIDE DEF m
  <2>2. m \in C /\ m \in Nat /\ \A c \in C : c < 0 \/ m <= c
    BY Zenon, <1>1, <1>2, <2>1
  <2>3. \A c \in C : c \in Int
    OBVIOUS
  <2> QED BY <2>2, <2>3
<1> QED BY Zenon, <1>3, <1>4

\* Merging the lists of models of two policies or more.
LEMMA ModelsMeet ==
    ASSUME NEW ps, Pol!Overlap({p.allowed : p \in Pol!Members(ps)}), NEW x
    PROVE  Pol!Permits(Pol!MergeAllowedModels(ps), Pol!MergeDeniedModels(ps), x)
             <=> \A p \in Pol!Members(ps) : Pol!Permits(p.allowed, p.denied, x)
<1> DEFINE A == {p.allowed : p \in Pol!Members(ps)}
           m == Pol!Intersection(A \ {{}})
<1>1. (m = {} \/ x \in m) <=> \A s \in A : s = {} \/ x \in s
  <2> HIDE DEF A
  <2>1. Pol!Overlap(A)
    BY DEF A
  <2> QED BY Zenon, <2>1, IntersectionPermits
<1>2. (\A s \in A : s = {} \/ x \in s)
        <=> \A p \in Pol!Members(ps) : p.allowed = {} \/ x \in p.allowed
  BY Zenon
<1>3. x \notin Pol!MergeDeniedModels(ps) <=> \A p \in Pol!Members(ps) : x \notin p.denied
  BY Zenon DEF Pol!MergeDeniedModels
<1>4. m = Pol!MergeAllowedModels(ps)
  BY Zenon DEF Pol!MergeAllowedModels
<1> HIDE DEF m, A
<1> QED BY Zenon, <1>1, <1>2, <1>3, <1>4 DEF Pol!Permits

\* Merging the tool restrictions: the policies without restrictions, which
\* mergeToolRestrictions passes over, let every tool through.
LEMMA ToolsMeet ==
    ASSUME NEW ps, Pol!Overlap({p.tools.allowed : p \in Pol!Members(ps)}), NEW x
    PROVE  Pol!Permits(Pol!MergeToolRestrictions(ps).allowed, Pol!MergeToolRestrictions(ps).denied, x)
             <=> \A p \in Pol!Members(ps) : Pol!Permits(p.tools.allowed, p.tools.denied, x)
<1> DEFINE A == {p.tools.allowed : p \in Pol!Members(ps)}
           none == Pol!Nothing.tools
           ts == {p.tools : p \in Pol!Members(ps)} \ {none}
           m == Pol!Intersection({t.allowed : t \in ts} \ {{}})
           d == UNION {t.denied : t \in ts}
<1>0. none.allowed = {} /\ none.denied = {}
  BY DEF Pol!Nothing
<1>1. m = Pol!MergeToolRestrictions(ps).allowed /\ d = Pol!MergeToolRestrictions(ps).denied
  BY DEF Pol!MergeToolRestrictions
<1> HIDE DEF none
<1>2. {t.allowed : t \in ts} \ {{}} = A \ {{}}
  BY Zenon, <1>0
<1>3. x \notin d <=> \A p \in Pol!Members(ps) : x \notin p.tools.denied
  BY Zenon, <1>0
<1>4. (m = {} \/ x \in m) <=> \A s \in A : s = {} \/ x \in s
  <2>1. Pol!Overlap(A) /\ m = Pol!Intersection(A \ {{}})
    BY Zenon, <1>2
  <2> HIDE DEF A, m
  <2> QED BY Zenon, <2>1, IntersectionPermits
<1>5. (\A s \in A : s = {} \/ x \in s)
        <=> \A p \in Pol!Members(ps) : p.tools.allowed = {} \/ x \in p.tools.allowed
  BY Zenon
<1> HIDE DEF m, d, A, ts
<1> QED BY ZenonT(30), <1>1, <1>3, <1>4, <1>5 DEF Pol!Permits

\* Merging the limits of two policies or more.
LEMMA LimitsMeet ==
    ASSUME HasLeast, NEW ps, \A p \in Pol!Members(ps) : PolNumbers(p), NEW x \in Nat
    PROVE  LET m == [cost |-> Pol!MergeCostBudgets(ps), rpm |-> Pol!MergeRateLimits(ps).rpm,
                     tpm |-> Pol!MergeRateLimits(ps).tpm]
           IN  Pol!Within(m, x) <=> \A p \in Pol!Members(ps) : Pol!Within(p, x)
<1> DEFINE C == {p.cost : p \in Pol!Members(ps)}
           R == {p.rpm : p \in Pol!Members(ps)}
           T == {p.tpm : p \in Pol!Members(ps)}
           m == [cost |-> Pol!MergeCostBudgets(ps), rpm |-> Pol!MergeRateLimits(ps).rpm,
                 tpm |-> Pol!MergeRateLimits(ps).tpm]
<1>1. C \subseteq Nat \cup {-1, -2} /\ R \subseteq Int /\ T \subseteq Int
  BY DEF PolNumbers
<1>2. (m.cost < 0 \/ x <= m.cost) <=> \A c \in C : c < 0 \/ x <= c
  <2> DEFINE costs == C \ {-1, -2}
  <2>1. m.cost = IF costs = {} THEN -1 ELSE Pol!Smallest(costs)
    BY DEF Pol!MergeCostBudgets, Pol!NoCost, Pol!Unparsed
  <2> HIDE DEF C, m
  <2>2. LET k == IF costs = {} THEN -1 ELSE Pol!Smallest(costs)
        IN  (k < 0 \/ x <= k) <=> \A c \in C : c < 0 \/ x <= c
    BY Zenon, <1>1, CostBounds
  <2> HIDE DEF costs
  <2> QED BY Zenon, <2>1, <2>2
<1>3. (m.rpm <= 0 \/ x <= m.rpm) <=> \A v \in R : v <= 0 \/ x <= v
  <2>1. m.rpm = Pol!Lowest(R)
    BY DEF Pol!MergeRateLimits
  <2> HIDE DEF R, m
  <2>2. (Pol!Lowest(R) <= 0 \/ x <= Pol!Lowest(R)) <=> \A v \in R : v <= 0 \/ x <= v
    BY Zenon, <1>1, LowestBounds
  <2> QED BY <2>1, <2>2
<1>4. (m.tpm <= 0 \/ x <= m.tpm) <=> \A v \in T : v <= 0 \/ x <= v
  <2>1. m.tpm = Pol!Lowest(T)
    BY Zenon DEF Pol!MergeRateLimits
  <2> HIDE DEF T, m
  <2>2. (Pol!Lowest(T) <= 0 \/ x <= Pol!Lowest(T)) <=> \A v \in T : v <= 0 \/ x <= v
    BY Zenon, <1>1, LowestBounds
  <2> QED BY <2>1, <2>2
<1>5. (\A p \in Pol!Members(ps) : Pol!Within(p, x))
        <=> /\ \A c \in C : c < 0 \/ x <= c
            /\ \A v \in R : v <= 0 \/ x <= v
            /\ \A v \in T : v <= 0 \/ x <= v
  BY Zenon DEF Pol!Within
<1>6. Pol!Within(m, x) <=> \A p \in Pol!Members(ps) : Pol!Within(p, x)
  <2> HIDE DEF C, R, T, m
  <2> QED BY Zenon, <1>2, <1>3, <1>4, <1>5 DEF Pol!Within
<1> QED BY Zenon, <1>6

\* The policies enumerated have numbers for limits.
LEMMA PolTyped ==
    ASSUME Pol!TypeOK, MaxCost \in Nat
    PROVE  \A p \in Pol!Members(policies) : PolNumbers(p)
<1>1. ASSUME NEW p \in Pol!About(aspect) PROVE PolNumbers(p)
  <2>0. aspect \in {"costs", "rates", "models", "tools"}
    BY DEF Pol!TypeOK, Pol!Aspects
  <2>1. CASE aspect = "costs"
    <3>1. PICK c \in {-1, -2} \cup (0 .. MaxCost) : p = [Pol!Nothing EXCEPT !.cost = c]
      BY <2>1 DEF Pol!About, Pol!NoCost, Pol!Unparsed
    <3> QED BY <3>1 DEF Pol!Nothing, PolNumbers
  <2>2. CASE aspect = "rates"
    <3>1. PICK v \in (-1 .. MaxCost) \X (-1 .. MaxCost) :
              p = [Pol!Nothing EXCEPT !.rpm = v[1], !.tpm = v[2]]
      BY Zenon, <2>2 DEF Pol!About
    <3> QED BY <3>1 DEF Pol!Nothing, Pol!NoCost, PolNumbers
  <2>3. CASE aspect = "models"
    <3>1. PICK s \in (SUBSET Names) \X (SUBSET Names) :
              p = [Pol!Nothing EXCEPT !.allowed = s[1], !.denied = s[2], !.filters = s[2]]
      BY Zenon, <2>3 DEF Pol!About
    <3> QED BY <3>1 DEF Pol!Nothing, Pol!NoCost, PolNumbers
  <2>4. CASE aspect = "tools"
    <3>1. \E t : p = [Pol!Nothing EXCEPT !.tools = t]
      BY Zenon, <2>4 DEF Pol!About
    <3> QED BY <3>1 DEF Pol!Nothing, Pol!NoCost, PolNumbers
  <2> QED BY ZenonT(30), <2>0, <2>1, <2>2, <2>3, <2>4
<1> QED BY <1>1, MembersOf DEF Pol!TypeOK

\* The lists of names: MergeIsMeet follows from the types, by the number of policies.
LEMMA NamesMeet == ASSUME Pol!TypeOK PROVE Pol!MergeIsMeet
<1> DEFINE m == Pol!MergePolicies(policies)
           ps == Pol!Members(policies)
<1>0. policies \in Seq(Pol!About(aspect))
  BY DEF Pol!TypeOK
<1>1. CASE Len(policies) = 0
  <2>0. ps = {} /\ m = Pol!Nothing
    BY Zenon, <1>0, <1>1, MembersOf DEF Pol!MergePolicies
  <2>1. ps = {} /\ m.allowed = {} /\ m.denied = {} /\ m.tools.allowed = {} /\ m.tools.denied = {}
    <3> HIDE DEF m, ps
    <3> QED BY <2>0 DEF Pol!Nothing
  <2> HIDE DEF m, ps
  <2>2. \A x \in Names : /\ Pol!Permits(m.allowed, m.denied, x)
                         /\ Pol!Permits(m.tools.allowed, m.tools.denied, x)
    BY <2>1 DEF Pol!Permits
  <2> QED BY Zenon, <2>1, <2>2 DEF Pol!MergeIsMeet, m, ps
<1>2. CASE Len(policies) = 1
  <2>1. ps = {policies[1]} /\ m = policies[1]
    BY <1>0, <1>2, MembersOf DEF Pol!MergePolicies
  <2> HIDE DEF m, ps
  <2> QED BY Zenon, <2>1 DEF Pol!MergeIsMeet, m, ps
<1>3. CASE Len(policies) \notin {0, 1}
  <2>1. /\ m.allowed = Pol!MergeAllowedModels(policies) /\ m.denied = Pol!MergeDeniedModels(policies)
        /\ m.tools = Pol!MergeToolRestrictions(policies)
    BY <1>3 DEF Pol!MergePolicies
  <2> HIDE DEF m
  <2>2. Pol!Overlap({p.allowed : p \in ps}) =>
          \A x \in Names : Pol!Permits(m.allowed, m.denied, x)
                             <=> \A p \in ps : Pol!Permits(p.allowed, p.denied, x)
    BY Zenon, <2>1, ModelsMeet
  <2>3. Pol!Overlap({p.tools.allowed : p \in ps}) =>
          \A x \in Names : Pol!Permits(m.tools.allowed, m.tools.denied, x)
                             <=> \A p \in ps : Pol!Permits(p.tools.allowed, p.tools.denied, x)
    BY Zenon, <2>1, ToolsMeet
  <2> QED BY Zenon, <2>2, <2>3 DEF Pol!MergeIsMeet, m
<1> QED BY Zenon, <1>1, <1>2, <1>3

\* The limits: LimitsAreMet follows in the same way.
LEMMA LimitsBound == ASSUME HasLeast, Pol!TypeOK, MaxCost \in Nat PROVE Pol!LimitsAreMet
<1> SUFFICES ASSUME NEW x \in 0 .. MaxCost + 1
             PROVE  Pol!Within(Pol!MergePolicies(policies), x)
                      <=> \A p \in Pol!Members(policies) : Pol!Within(p, x)
  BY Zenon DEF Pol!LimitsAreMet
<1> DEFINE m == Pol!MergePolicies(policies)
           ps == Pol!Members(policies)
<1>0. policies \in Seq(Pol!About(aspect)) /\ x \in Nat
  BY DEF Pol!TypeOK
<1>1. CASE Len(policies) = 0
  <2>0. ps = {} /\ m = Pol!Nothing
    BY Zenon, <1>0, <1>1, MembersOf DEF Pol!MergePolicies
  <2>1. ps = {} /\ m.cost < 0 /\ m.rpm <= 0 /\ m.tpm <= 0
    <3> HIDE DEF m, ps
    <3> QED BY <2>0 DEF Pol!Nothing, Pol!NoCost
  <2> HIDE DEF m, ps
  <2>2. Pol!Within(m, x) /\ \A p \in ps : Pol!Within(p, x)
    BY Zenon, <2>1 DEF Pol!Within
  <2> QED BY Zenon, <2>2 DEF m, ps
<1>2. CASE Len(policies) = 1
  <2>1. ps = {policies[1]} /\ m = policies[1]
    BY <1>0, <1>2, MembersOf DEF Pol!MergePolicies
  <2> HIDE DEF m, ps
  <2>2. Pol!Within(m, x) <=> \A p \in ps : Pol!Within(p, x)
    BY Zenon, <2>1
  <2> QED BY Zenon, <2>2 DEF m, ps
<1>3. CASE Len(policies) \notin {0, 1}
  <2> DEFINE l == [cost |-> Pol!MergeCostBudgets(policies), rpm |-> Pol!MergeRateLimits(policies).rpm,
                   tpm |-> Pol!MergeRateLimits(policies).tpm]
  <2>1. m.cost = l.cost /\ m.rpm = l.rpm /\ m.tpm = l.tpm
    BY <1>3 DEF Pol!MergePolicies
  <2>2. Pol!Within(l, x) <=> \A p \in ps : Pol!Within(p, x)
    BY <1>0, PolTyped, LimitsMeet
  <2> HIDE DEF m, ps, l
  <2>3. Pol!Within(m, x) <=> Pol!Within(l, x)
    BY Zenon, <2>1 DEF Pol!Within
  <2> QED BY ZenonT(30), <2>2, <2>3 DEF m, ps
<1> QED BY Zenon, <1>1, <1>2, <1>3

WF == INSTANCE WellFoundedInduction
PolLess == {p \in Nat \X Nat : p[1] < p[2]}

\* The order of the natural numbers is well founded.
LEMMA LeastOfNat == HasLeast
<1> SUFFICES ASSUME NEW S \in SUBSET Nat, S # {}
             PROVE  \E k \in S : \A j \in S : k <= j
  BY DEF HasLeast
<1>1. WF!IsWellFoundedOn(PolLess, Nat)
  BY Zenon, WF!NatLessThanWellFounded DEF WF!OpToRel, PolLess
<1>2. PICK k \in S : \A j \in S : ~(<<j, k>> \in PolLess)
  BY Zenon, <1>1, WF!WFMin
<1>3. \A i, j \in Nat : i < j => <<i, j>> \in PolLess
  BY DEF PolLess
<1>4. \A j \in S : ~(j < k)
  BY Zenon, <1>2, <1>3
<1> QED BY <1>4

\* Whatever policies are merged, in whatever number: the merged policy lets a model
\* or a tool through exactly when every policy does, as long as the lists of allowed
\* names have one in common, and a cost or a rate is within its limits exactly when it
\* is within the limits of every policy (MergePolicies).
THEOREM MergePermitsWhatAllPermit ==
    ASSUME MaxCost \in Nat
    PROVE  Pol!Spec => [](Pol!MergeIsMeet /\ Pol!LimitsAreMet)
<1>1. Pol!Init => Pol!TypeOK
  BY DEF Pol!Init, Pol!TypeOK
<1>2. Pol!TypeOK /\ [Pol!Next]_Pol!vars => Pol!TypeOK'
  BY DEF Pol!TypeOK, Pol!Next, Pol!Add, Pol!vars
<1>3. Pol!TypeOK => Pol!MergeIsMeet /\ Pol!LimitsAreMet
  BY Zenon, NamesMeet, LimitsBound, LeastOfNat
<1> QED BY <1>1, <1>2, <1>3, PTL DEF Pol!Spec
=============================================================================
