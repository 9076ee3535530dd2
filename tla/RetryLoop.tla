------------------------------ MODULE RetryLoop ------------------------------
(***************************************************************************)
(* internal/validation: an agent's output is checked against rules; while  *)
(* a rule of severity error fails and has retries left, the agent is asked *)
(* again.  An output is the set of rules it fails; expressions that do not *)
(* evaluate, or not to a boolean, fail too.                                *)
(***************************************************************************)
EXTENDS Naturals, FiniteSets, FiniteSetsExt

CONSTANTS
  Rules,        \* rule names
  Retries,      \* values of max_retries tried (0 is not given)
  ConfigMax     \* values of RetryConfig.MaxRetries tried

VARIABLES
  severity, max,   \* the rules
  configMax,
  output,          \* the rules the current output fails
  retryCount,
  calls,           \* invocations made by the loop
  pc               \* "check", "invoke", or the outcome: "passed", "exhausted", "failed"

vars == <<severity, max, configMax, output, retryCount, calls, pc>>

\* A limit that is not given is the configuration's, or 3.
Limit(r) == IF max[r] > 0 THEN max[r] ELSE IF configMax > 0 THEN configMax ELSE 3

TypeOK ==
  /\ output \subseteq Rules /\ pc \in {"check", "invoke", "passed", "exhausted", "failed"}
  /\ \A r \in Rules : retryCount[r] \in 0 .. Limit(r)

Init ==
  /\ severity \in [Rules -> {"error", "warning"}] /\ max \in [Rules -> Retries]
  /\ configMax \in ConfigMax /\ output \in SUBSET Rules
  /\ retryCount = [r \in Rules |-> 0] /\ calls = 0 /\ pc = "check"

\* FailedErrorRules over Validate's result
FailedErrorRules == {r \in output : severity[r] = "error"}

\* A loop that gives up when one of the failing rules has no retries left.
CheckHasty ==
  /\ pc = "check"
  /\ LET left == {r \in FailedErrorRules : retryCount[r] < Limit(r)} IN
     /\ pc' = IF FailedErrorRules = {} THEN "passed" ELSE IF left # FailedErrorRules THEN "exhausted" ELSE "invoke"
     /\ retryCount' = [r \in Rules |-> IF r \in left THEN retryCount[r] + 1 ELSE retryCount[r]]
  /\ UNCHANGED <<severity, max, configMax, output, calls>>

\* Validate, and the decision whether to ask again: every failing rule with retries
\* left uses one
Check ==
  /\ pc = "check"
  /\ LET left == {r \in FailedErrorRules : retryCount[r] < Limit(r)} IN
     /\ pc' = IF FailedErrorRules = {} THEN "passed" ELSE IF left = {} THEN "exhausted" ELSE "invoke"
     /\ retryCount' = [r \in Rules |-> IF r \in left THEN retryCount[r] + 1 ELSE retryCount[r]]
  /\ UNCHANGED <<severity, max, configMax, output, calls>>

\* The agent is asked again; its answer fails any rules, or there is none.
Invoke(fails) ==
  /\ pc = "invoke" /\ calls' = calls + 1
  /\ IF fails THEN pc' = "failed" /\ UNCHANGED output
     ELSE pc' = "check" /\ output' \in SUBSET Rules
  /\ UNCHANGED <<severity, max, configMax, retryCount>>

Next == Check \/ \E fails \in BOOLEAN : Invoke(fails)
Fairness == WF_vars(Next)
Spec == Init /\ [][Next]_vars

-----------------------------------------------------------------------------
ErrorRules == {r \in Rules : severity[r] = "error"}

\* The agent is asked again no more often than the rules allow together, whichever
\* rules take turns failing: each round uses up a retry of some rule.
RetriesBounded == calls <= MapThenSumSet(Limit, ErrorRules)

\* The loop gives up only when each rule that still fails has been retried as often
\* as it may, and returns an output without an error only if no error rule fails.
GivesUpLast ==
  /\ pc = "exhausted" => \A r \in FailedErrorRules : retryCount[r] = Limit(r)
  /\ pc = "passed" => FailedErrorRules = {}
=============================================================================
