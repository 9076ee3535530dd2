--------------------------- MODULE PipelineExecutor ---------------------------
(***************************************************************************)
(* internal/pipeline: BuildDAG sorts the steps into layers with Kahn's     *)
(* algorithm; Execute runs a layer at a time, the steps of a layer in      *)
(* goroutines of their own that share the result under a mutex.  The first *)
(* failure cancels the context; the caller may cancel it too.  Tokens are  *)
(* one per completed step.                                                 *)
(***************************************************************************)
EXTENDS Naturals, Sequences, FiniteSets, FiniteSetsExt

CONSTANTS
  Steps,      \* step names
  Pipelines   \* dependencies tried: functions from Steps to sequences over Steps \cup {"?"}

VARIABLES
  depends, own,   \* the pipeline: DependsOn, and the steps with an Input of their own
  built,          \* BuildDAG's verdict: "" before it, "ok" or an error
  order,          \* dag.Order
  at,             \* the layer running
  snapshot,       \* the steps whose output this layer sees
  step,           \* per step: "none", "started", "completed", "failed"
  input,          \* what a started step was given
  outputs,        \* stepOutputs: the steps with an output
  cancelled,      \* is the context done?
  status,         \* result.Status, "" while running
  tokens          \* result.TotalTokens

vars == <<depends, own, built, order, at, snapshot, step, input, outputs, cancelled, status, tokens>>
dagVars == <<depends, own, built, order>>

Statuses == {"", "completed", "failed", "cancelled"}

TypeOK ==
  /\ built \in {"", "ok", "unknown", "self", "cycle"}
  /\ step \in [Steps -> {"none", "started", "completed", "failed"}]
  /\ outputs \subseteq Steps /\ snapshot \subseteq Steps
  /\ status \in Statuses /\ tokens \in 0 .. Cardinality(Steps)

Init ==
  /\ depends \in Pipelines /\ own \in SUBSET Steps
  /\ built = "" /\ order = <<>> /\ at = 0 /\ snapshot = {}
  /\ step = [s \in Steps |-> "none"] /\ input = [s \in Steps |-> ""]
  /\ outputs = {} /\ cancelled = FALSE /\ status = "" /\ tokens = 0

Deps(s) == {depends[s][i] : i \in 1 .. Len(depends[s])}

\* Kahn's algorithm: counts of incoming edges, a queue that is one layer.  An edge
\* given twice is counted twice and taken off twice.
Incoming0 == [s \in Steps |-> Len(depends[s])]
Edges(d, s) == Cardinality({i \in 1 .. Len(depends[s]) : depends[s][i] = d})
After(layer, incoming) ==
  [s \in Steps |-> incoming[s] - MapThenSumSet(LAMBDA d : Edges(d, s), layer)]

NextLayer(layer, incoming) ==
  {s \in Steps : incoming[s] > 0 /\ After(layer, incoming)[s] = 0}

Layers ==
  LET Kahn[n \in 0 .. Cardinality(Steps)] ==
        IF n = 0 THEN [layers |-> <<>>, queue |-> {s \in Steps : Incoming0[s] = 0}, incoming |-> Incoming0]
        ELSE LET k == Kahn[n - 1] IN
             IF k.queue = {} THEN k
             ELSE [layers |-> Append(k.layers, k.queue),
                   queue |-> NextLayer(k.queue, k.incoming),
                   incoming |-> After(k.queue, k.incoming)]
  IN Kahn[Cardinality(Steps)].layers

Processed(layers) == UNION {layers[i] : i \in 1 .. Len(layers)}

\* BuildDAG: unknown and own dependencies are refused, then cycles
BuildDAG ==
  /\ built = ""
  /\ built' = IF \E s \in Steps : Deps(s) \ Steps # {} THEN "unknown"
              ELSE IF \E s \in Steps : s \in Deps(s) THEN "self"
              ELSE IF Processed(Layers) # Steps THEN "cycle" ELSE "ok"
  /\ order' = IF built' = "ok" THEN Layers ELSE <<>>
  /\ UNCHANGED <<depends, own, at, snapshot, step, input, outputs, cancelled, status, tokens>>

\* A loop that copies the outputs once.
NextOneStale ==
  /\ built = "ok" /\ status = ""
  /\ at > 0 => \A s \in order[at] : step[s] \in {"completed", "failed"}
  /\ IF at > 0 /\ (\E s \in order[at] : step[s] = "failed") THEN status' = "failed" /\ UNCHANGED <<at, snapshot>>
     ELSE IF at = Len(order) THEN status' = "completed" /\ UNCHANGED <<at, snapshot>>
     ELSE IF cancelled THEN status' = "cancelled" /\ UNCHANGED <<at, snapshot>>
     ELSE at' = at + 1 /\ snapshot' = (IF at = 0 THEN outputs ELSE snapshot) /\ UNCHANGED status
  /\ UNCHANGED <<dagVars, step, input, outputs, cancelled, tokens>>

\* The head of Execute's loop; outputs are copied for the goroutines of a layer
NextOne ==
  /\ built = "ok" /\ status = ""
  /\ at > 0 => \A s \in order[at] : step[s] \in {"completed", "failed"}
  /\ IF at > 0 /\ (\E s \in order[at] : step[s] = "failed") THEN status' = "failed" /\ UNCHANGED <<at, snapshot>>
     ELSE IF at = Len(order) THEN status' = "completed" /\ UNCHANGED <<at, snapshot>>
     ELSE IF cancelled THEN status' = "cancelled" /\ UNCHANGED <<at, snapshot>>
     ELSE at' = at + 1 /\ snapshot' = outputs /\ UNCHANGED status
  /\ UNCHANGED <<dagVars, step, input, outputs, cancelled, tokens>>

Running(s) == built = "ok" /\ status = "" /\ at > 0 /\ s \in order[at]

\* executeStep up to Invoke: its own input, the output of its first dependency, or
\* the trigger's
Start(s) ==
  /\ Running(s) /\ step[s] = "none"
  /\ step' = [step EXCEPT ![s] = "started"]
  /\ input' = [input EXCEPT ![s] =
       IF s \in own THEN "own"
       ELSE IF depends[s] # <<>> /\ depends[s][1] \in snapshot THEN depends[s][1] ELSE "trigger"]
  /\ UNCHANGED <<dagVars, at, snapshot, outputs, cancelled, status, tokens>>

\* The answer of Invoke and the section under the mutex.  A step whose context was
\* cancelled may still complete.
Finish(s, fails) ==
  /\ Running(s) /\ step[s] = "started"
  /\ step' = [step EXCEPT ![s] = IF fails THEN "failed" ELSE "completed"]
  /\ outputs' = IF fails THEN outputs ELSE outputs \cup {s}
  /\ tokens' = IF fails THEN tokens ELSE tokens + 1
  /\ cancelled' = (cancelled \/ fails)
  /\ UNCHANGED <<dagVars, at, snapshot, input, status>>

\* The caller gives up.
Cancel ==
  /\ built = "ok" /\ status = "" /\ ~cancelled /\ cancelled' = TRUE
  /\ UNCHANGED <<dagVars, at, snapshot, step, input, outputs, status, tokens>>

Work == BuildDAG \/ NextOne \/ \E s \in Steps : Start(s) \/ \E fails \in BOOLEAN : Finish(s, fails)

Next == Work \/ Cancel

\* Agents answer or fail.
Fairness == WF_vars(Work)
Spec == Init /\ [][Next]_vars

-----------------------------------------------------------------------------
\* A step begins only when all it depends on have completed, and one without an
\* input of its own is given the output of its first dependency: the layers, the
\* snapshot and the wait for a whole layer together make it so.
DependenciesFirst ==
  \A s \in Steps : step[s] # "none" =>
    /\ \A d \in Deps(s) : step[d] = "completed"
    /\ s \notin own => input[s] = IF depends[s] = <<>> THEN "trigger" ELSE depends[s][1]

\* BuildDAG accepts exactly the pipelines in which the steps can be put in an order.
BuildsWhatIsSound ==
  built # "" =>
    (built = "ok" <=> \A s \in Steps : Deps(s) \subseteq Steps /\
       \A A \in SUBSET Steps \ {{}} : \E t \in A : Deps(t) \cap A = {})

\* The result tells what happened: completed is every step, a failure is some step,
\* none is left running behind it, and the tokens are those of the completed steps.
OutcomeIsRight ==
  /\ status = "completed" => \A s \in Steps : step[s] = "completed"
  /\ (status = "failed") => \E s \in Steps : step[s] = "failed"
  /\ status # "" => \A s \in Steps : step[s] # "started"
  /\ tokens = Cardinality({s \in Steps : step[s] = "completed"})

\* Every pipeline that was accepted comes to an end.
Ended == built \notin {"", "ok"} \/ status # ""
=============================================================================
