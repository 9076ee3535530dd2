-------------------------- MODULE EvalRunController ---------------------------
(***************************************************************************)
(* The EvalRun controller (internal/operator/controller/                   *)
(* evalrun_controller.go): an EvalRun goes from Pending through Running to *)
(* Completed; in Running, a goroutine per test case runs under a semaphore *)
(* of size Parallelism and writes its slot of the result slice, and the    *)
(* reconcile waits for all of them before it computes the summary.  The    *)
(* agent's output is a sequence of letters, matched as matchOutput does.   *)
(***************************************************************************)
EXTENDS Integers, Sequences, FiniteSets

CONSTANTS
  Cases,        \* the test cases: a sequence of [input, expected, match]
  Parallelism,  \* spec.parallelism; 0 or less stands for 1
  MaxFaults     \* bound on refused status writes and restarts

VARIABLES
  run,      \* the stored EvalRun: phase, results, summary
  agent,    \* the referenced Agent exists
  queued,   \* the EvalRun is in the work queue
  w,        \* the worker: pc, the next case to start, the semaphore's use, results
  gos,      \* per case, its goroutine: none, running, matched or done
  faults

vars == <<run, agent, queued, w, gos, faults>>

N == Len(Cases)
Size == IF Parallelism <= 0 THEN 1 ELSE Parallelism
NoResult == "none"
Idle == [pc |-> "idle", next |-> 1, sem |-> 0, results |-> [i \in 1 .. N |-> NoResult]]
NoSummary == [total |-> 0, passed |-> 0, failed |-> 0, tokens |-> 0]

TypeOK ==
  /\ run.phase \in {"none", "Running", "Completed", "Failed"}
  /\ run.results \in [1 .. N -> {NoResult, "passed", "failed"}]
  /\ agent \in BOOLEAN /\ queued \in BOOLEAN /\ faults \in 0 .. MaxFaults
  /\ w.pc \in {"idle", "agent", "start", "launch", "wait", "complete"}
  /\ w.next \in 1 .. N + 1 /\ w.sem <= Size
  /\ gos \in [1 .. N -> {"none", "running", "matched", "done"}]

Init ==
  /\ run = [phase |-> "none", results |-> [i \in 1 .. N |-> NoResult], summary |-> NoSummary]
  /\ agent \in BOOLEAN /\ queued = TRUE /\ w = Idle
  /\ gos = [i \in 1 .. N |-> "none"] /\ faults = 0

\* matchOutput: no expectation passes; exact compares; everything else, an unknown
\* match type included, looks for the expected text inside the output.  (A regular
\* expression without metacharacters does the same; others are not modelled.)
MatchOutput(actual, expected, match) ==
  CASE expected = <<>> -> TRUE
    [] expected # <<>> /\ match = "exact" -> actual = expected
    [] OTHER -> \E i \in 0 .. Len(actual) - Len(expected) :
                  SubSeq(actual, i + 1, i + Len(expected)) = expected

\* runTestCase: the simulated agent answers with its input.
Verdict(i) ==
  IF MatchOutput(Cases[i].input, Cases[i].expected, Cases[i].match) THEN "passed" ELSE "failed"

\* computeSummary
Tokens ==
  LET sum[i \in 0 .. N] == IF i = 0 THEN 0 ELSE sum[i - 1] + 2 * Len(Cases[i].input) IN sum[N]
Summary(results) ==
  [total |-> N, passed |-> Cardinality({i \in 1 .. N : results[i] = "passed"}),
   failed |-> Cardinality({i \in 1 .. N : results[i] # "passed"}),
   tokens |-> Tokens]

Reconcile ==
  /\ w.pc = "idle" /\ queued /\ queued' = FALSE
  /\ w' = IF run.phase \in {"Completed", "Failed"} THEN w ELSE [Idle EXCEPT !.pc = "agent"]
  /\ UNCHANGED <<run, agent, gos, faults>>

\* Any error of the read counts as a missing Agent and fails the EvalRun for good.
GetAgent ==
  /\ w.pc = "agent"
  /\ IF ~agent
       THEN /\ run' = [run EXCEPT !.phase = "Failed"] /\ queued' = TRUE /\ w' = Idle
       ELSE /\ w' = [w EXCEPT !.pc = IF run.phase = "Running" THEN "launch" ELSE "start"]
            /\ UNCHANGED <<run, queued>>
  /\ UNCHANGED <<agent, gos, faults>>

\* Pending becomes Running; the reconcile ends and asks to be called again.
Start ==
  /\ w.pc = "start"
  /\ run' = [run EXCEPT !.phase = "Running"] /\ queued' = TRUE /\ w' = Idle
  /\ UNCHANGED <<agent, gos, faults>>

\* executeTestCases: the loop takes a semaphore slot before it starts the next goroutine.
Launch ==
  /\ w.pc = "launch"
  /\ IF w.next > N
       THEN w' = [w EXCEPT !.pc = "wait"] /\ UNCHANGED gos
       ELSE /\ w.sem < Size
            /\ w' = [w EXCEPT !.next = @ + 1, !.sem = @ + 1]
            /\ gos' = [gos EXCEPT ![w.next] = "running"]
  /\ UNCHANGED <<run, agent, queued, faults>>

RunTestCase(i) ==
  /\ gos[i] = "running"
  /\ gos' = [gos EXCEPT ![i] = "matched"]
  /\ w' = [w EXCEPT !.results[i] = Verdict(i)]
  /\ UNCHANGED <<run, agent, queued, faults>>

\* The deferred calls of the goroutine, last one first: the slot is given back, then wg.Done.
Release(i) ==
  /\ gos[i] = "matched"
  /\ gos' = [gos EXCEPT ![i] = "done"] /\ w' = [w EXCEPT !.sem = @ - 1]
  /\ UNCHANGED <<run, agent, queued, faults>>

\* A wait that only looks for goroutines still running.
AllDoneEarly == \E i \in 1 .. N : gos[i] = "done"

AllDone == \A i \in 1 .. N : gos[i] = "done"

Wait ==
  /\ w.pc = "wait" /\ (N = 0 \/ AllDone)
  /\ w' = [w EXCEPT !.pc = "complete"] /\ gos' = [i \in 1 .. N |-> "none"]
  /\ UNCHANGED <<run, agent, queued, faults>>

\* The results and their summary are written in one status update; refused, the
\* reconcile is tried again from the start and runs every test case once more.
Complete(refused) ==
  /\ w.pc = "complete" /\ w' = Idle /\ queued' = TRUE
  /\ faults' = faults + (IF refused THEN 1 ELSE 0) /\ faults' <= MaxFaults
  /\ run' = IF refused THEN run
            ELSE [phase |-> "Completed", results |-> w.results, summary |-> Summary(w.results)]
  /\ UNCHANGED <<agent, gos>>

Restart ==
  /\ w.pc # "idle" /\ faults < MaxFaults /\ faults' = faults + 1
  /\ w' = Idle /\ gos' = [i \in 1 .. N |-> "none"] /\ queued' = TRUE
  /\ UNCHANGED <<run, agent>>

Work ==
  \/ Reconcile \/ GetAgent \/ Start \/ Launch \/ Wait
  \/ \E refused \in BOOLEAN : Complete(refused)
  \/ \E i \in 1 .. N : RunTestCase(i) \/ Release(i)

Next == Work \/ Restart

Fairness == WF_vars(Work)

Spec == Init /\ [][Next]_vars

-----------------------------------------------------------------------------
\* No more than the configured number of test cases are executing at once.
ParallelismBounded == Cardinality({i \in 1 .. N : gos[i] \in {"running", "matched"}}) <= Size

\* A completed EvalRun reports every test case: each slot of the results holds the
\* verdict of its own case, whatever order the goroutines finished in and however
\* often the run was repeated, and the summary adds up.
CompletedIsWhole ==
  run.phase = "Completed" =>
    /\ \A i \in 1 .. N : run.results[i] = Verdict(i)
    /\ run.summary.passed + run.summary.failed = run.summary.total
    /\ run.summary.passed = Cardinality({i \in 1 .. N : Verdict(i) = "passed"})

\* An EvalRun comes to an end: Completed, or Failed when its Agent is missing.
EvalRunEnds == <>(run.phase = IF agent THEN "Completed" ELSE "Failed")
=============================================================================
