------------------------------- MODULE MCLive -------------------------------
(***************************************************************************)
(* The components that promise to get somewhere.  LiveSpec is about the    *)
(* state lock, conversations, the model clients and the pipeline executor, *)
(* OperatorSpec about five controllers of the operator.  The components    *)
(* share no state, so each behaviour runs one of them, named by `part':    *)
(* the lock and the controllers on their own variables, the others on as   *)
(* many of r1, r2, ... as they have.                                       *)
(***************************************************************************)
EXTENDS StateLock, Integers, Sequences

VARIABLES
  part, r1, r2, r3, r4, r5, r6, r7, r8, r9, r10, r11, r12,
  rel, relAgent, relQueue, relWorker, relStale, relFaults, applied, retried,
  agent, status, built, children, agentQueued, agentWorker, agentFaults, late,
  run, runAgent, runQueued, runWorker, gos, runFaults,
  now, sess, sessAgent, class, sessEvent, sessTimer, sessWorker, sessFaults, active,
  store, storeAgent, storeWorker, storeEdits, storeFaults
regs == <<r1, r2, r3, r4, r5, r6, r7, r8, r9, r10, r11, r12>>
ten == <<r1, r2, r3, r4, r5, r6, r7, r8, r9, r10>>
nine == <<r1, r2, r3, r4, r5, r6, r7, r8, r9>>

\* Pipelines of three steps: chains, forks, joins, a dependency given twice, one
\* that is unknown, a step that waits for itself and a cycle.
MCPipelines ==
  {[a |-> x, b |-> y, c |-> z] :
     x \in {<<>>, <<"c">>, <<"a">>}, y \in {<<>>, <<"a">>, <<"a", "a">>, <<"?">>},
     z \in {<<>>, <<"a">>, <<"a", "b">>, <<"b", "a">>, <<"b">>}}

Talk == INSTANCE Conversations WITH
  Workers <- {"w1", "w2"}, MaxMessages <- 2, Threshold <- 2, MaxSessions <- 1, Expiry <- 1,
  MaxTime <- 2, MaxIds <- 2, MaxExchanges <- 1,
  kind <- r1, clock <- r2, store <- r3, mem <- r4, lru <- r5, req <- r6, issued <- r7,
  asked <- r8, saved <- r9, shared <- r10

Stream == INSTANCE LLMClients WITH
  Chains <- {<<"openai">>, <<"anthropic">>, <<"openai", "anthropic">>, <<"openai", "openai">>,
             <<"anthropic", "openai">>},
  Answers <- {<<"text", "noise", "text">>, <<"text", "call", "call">>, <<>>, <<"call", "text", "call">>},
  Cap <- 1,
  chain <- r1, answer <- r2, stream <- r3, split <- r4, at <- r5, failed <- r6, prod <- r7,
  chan <- r8, cons <- r9

Pipe == INSTANCE PipelineExecutor WITH
  Steps <- {"a", "b", "c"}, Pipelines <- MCPipelines,
  depends <- r1, own <- r2, built <- r3, order <- r4, at <- r5, snapshot <- r6, step <- r7,
  input <- r8, outputs <- r9, cancelled <- r10, status <- r11, tokens <- r12

Unused(n) ==
  /\ n < 1 => r1 = 0 /\ r2 = 0 /\ r3 = 0 /\ r4 = 0 /\ r5 = 0 /\ r6 = 0 /\ r7 = 0 /\ r8 = 0 /\ r9 = 0
  /\ n < 10 => r10 = 0
  /\ n < 12 => r11 = 0 /\ r12 = 0
\* exact, regexp, contains and no expectation; two of the four pass.
MCCases == <<[input |-> <<1>>, expected |-> <<1>>, match |-> "exact"],
             [input |-> <<1, 2>>, expected |-> <<2>>, match |-> "regexp"],
             [input |-> <<1>>, expected |-> <<2>>, match |-> "contains"],
             [input |-> <<1>>, expected |-> <<>>, match |-> "exact"]>>

Rel == INSTANCE ReleaseController WITH
  Releases <- {1, 2}, MaxSpec <- 2, MaxFaults <- 2, agent <- relAgent, queue <- relQueue,
  w <- relWorker, stale <- relStale, faults <- relFaults

Agent == INSTANCE AgentController WITH
  Sessions <- {"s1"}, Tasks <- {"t1"}, MaxGen <- 3, MaxFaults <- 2,
  queued <- agentQueued, w <- agentWorker, faults <- agentFaults

EvalRun == INSTANCE EvalRunController WITH
  Cases <- MCCases, Parallelism <- 2, MaxFaults <- 2, agent <- runAgent,
  queued <- runQueued, w <- runWorker, faults <- runFaults

Session == INSTANCE SessionController WITH
  TTL <- 1, MaxTime <- 5, MaxFaults <- 2, agent <- sessAgent, event <- sessEvent,
  timer <- sessTimer, w <- sessWorker, faults <- sessFaults

StateStore == INSTANCE StateStoreController WITH
  Strays <- {"stray"}, Grace <- 1, MaxGen <- 2, MaxEdits <- 2, MaxFaults <- 2,
  agent <- storeAgent, w <- storeWorker, edits <- storeEdits, faults <- storeFaults

relVars == <<rel, relAgent, relQueue, relWorker, relStale, relFaults, applied, retried>>
agentVars == <<agent, status, built, children, agentQueued, agentWorker, agentFaults, late>>
runVars == <<run, runAgent, runQueued, runWorker, gos, runFaults>>
sessVars == <<now, sess, sessAgent, class, sessEvent, sessTimer, sessWorker, sessFaults, active>>
storeVars == <<store, storeAgent, storeWorker, storeEdits, storeFaults>>
operatorVars == <<relVars, agentVars, runVars, sessVars, storeVars>>

Controllers == Rel!Init /\ Agent!Init /\ EvalRun!Init /\ Session!Init /\ StateStore!Init

Idle(n) ==
  /\ UNCHANGED <<part, vars, operatorVars>>
  /\ n < 10 => UNCHANGED r10
  /\ n < 12 => UNCHANGED <<r11, r12>>

LiveInit ==
  /\ Init /\ Controllers /\ runAgent /\ sessAgent /\ class = "none"
  /\ \/ part = "lock" /\ Unused(0)
     \/ part = "talk" /\ Talk!Init /\ Unused(10)
     \/ part = "stream" /\ Stream!Init /\ Unused(9)
     \/ part = "pipe" /\ Pipe!Init /\ Unused(12)

LiveNext ==
  \/ part = "lock" /\ Next /\ UNCHANGED <<part, regs, operatorVars>>
  \/ part = "talk" /\ Talk!Next /\ Idle(10)
  \/ part = "stream" /\ Stream!Next /\ Idle(9)
  \/ part = "pipe" /\ Pipe!Next /\ Idle(12)

\* The fairness each component's module states, for the one that runs.
LiveFairness ==
  /\ \A p \in Procs : WF_vars(part = "lock" /\ Step(p)) /\ WF_vars(part = "lock" /\ Expire(p))
  /\ \A w \in {"w1", "w2"} : WF_ten(part = "talk" /\ Talk!Serve(w))
  /\ WF_ten(part = "talk" /\ Talk!Evict)
  /\ WF_nine(part = "stream" /\ Stream!Producer) /\ WF_nine(part = "stream" /\ Stream!Consumer)
  /\ WF_regs(part = "pipe" /\ Pipe!Work)

LiveSpec == LiveInit /\ [][LiveNext]_<<part, vars, regs, operatorVars>> /\ LiveFairness

-----------------------------------------------------------------------------
\* A controller that does not take part starts in one state only.
OperatorInit ==
  /\ part \in {"release", "agent", "evalrun", "session", "statestore"}
  /\ Init /\ Unused(0) /\ Controllers
  /\ part # "evalrun" => runAgent
  /\ part # "session" => sessAgent /\ class = "none"

Still == UNCHANGED <<part, vars, regs>>

OperatorNext ==
  \/ /\ part = "release" /\ Rel!Next
     /\ Still /\ UNCHANGED <<agentVars, runVars, sessVars, storeVars>>
  \/ /\ part = "agent" /\ Agent!Next
     /\ Still /\ UNCHANGED <<relVars, runVars, sessVars, storeVars>>
  \/ /\ part = "evalrun" /\ EvalRun!Next
     /\ Still /\ UNCHANGED <<relVars, agentVars, sessVars, storeVars>>
  \/ /\ part = "session" /\ Session!Next
     /\ Still /\ UNCHANGED <<relVars, agentVars, runVars, storeVars>>
  \/ /\ part = "statestore" /\ StateStore!Next
     /\ Still /\ UNCHANGED <<relVars, agentVars, runVars, sessVars>>

\* The fairness each component's module states, for the one that runs.
OperatorFairness ==
  /\ WF_relVars(part = "release" /\ Rel!Work)
  /\ \A r \in {1, 2} : SF_relVars(part = "release" /\ Rel!Reconcile(r))
  /\ WF_agentVars(part = "agent" /\ Agent!Work)
  /\ WF_runVars(part = "evalrun" /\ EvalRun!Work)
  /\ WF_sessVars(part = "session" /\ Session!Work)
  /\ WF_storeVars(part = "statestore" /\ StateStore!Work)
  /\ WF_storeVars(part = "statestore" /\ StateStore!Tick)

OperatorSpec == OperatorInit /\ [][OperatorNext]_<<part, vars, regs, operatorVars>> /\ OperatorFairness

-----------------------------------------------------------------------------
(* Each component's module states its properties in full (LockReturns is that *)
(* of StateLock); their safety is checked in MCComponents.                    *)

\* Expired sessions leave the store (the eviction loop).
ExpiredGo == []<>(part = "talk" => Talk!NoneOverdue)

\* A stream ends for the caller and for its producer, which is not left waiting for a
\* reader that has gone (ChatStream), and a pipeline that was accepted comes to an end
\* (Execute), however often connections break and contexts are cancelled.
WorkEnds ==
  /\ <>(part = "stream" => Stream!Ended)
  /\ <>(part = "pipe" => Pipe!Ended)

\* A Release that exists is sooner or later given a phase, an Agent that is deleted is
\* eventually gone, and an EvalRun comes to an end, though writes are refused, calls
\* fail and the operator restarts (ReleaseReconciler, AgentReconciler, EvalRunReconciler).
WorkIsFinished ==
  /\ part = "release" => Rel!EveryReleaseSettles
  /\ part = "agent" => Agent!DeletionEnds
  /\ part = "evalrun" => EvalRun!EvalRunEnds

\* A Session with all it needs does not remain Failed although the controller watches
\* neither Agents nor memory classes (SessionReconciler); what a StateStore reports comes
\* to agree with its entries, and an entry no Agent refers to does not stay for ever
\* (StateStoreReconciler).
StatusSettles ==
  /\ part = "session" => Session!FailedRecovers
  /\ part = "statestore" => StateStore!HealthSettles /\ StateStore!OrphansGo
=============================================================================
