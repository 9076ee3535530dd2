------------------------------ MODULE AgentLoops ------------------------------
(***************************************************************************)
(* One invocation of an agent under each strategy of internal/loop: react, *)
(* reflexion, plan-and-execute, router and map-reduce, which runs one      *)
(* react loop per chunk of the input at the same time.  The model answers  *)
(* anything: tool calls or none, any stop reason, more or fewer tokens, an *)
(* error.  A conversation keeps the shape of its messages:                 *)
(*   -1 a user's text, -2 a tool's result, n >= 0 the model with n calls.  *)
(***************************************************************************)
EXTENDS Integers, Sequences, Folds

CONSTANTS
  Chunks,     \* number of chunks of the input of map-reduce
  MaxTurns,   \* Invocation.MaxTurns
  MaxTokens,  \* Invocation.MaxTokens, asked for with every call
  Budgets,    \* the token budgets tried; 0 is no budget
  MaxCalls,   \* most tool calls in one answer
  MaxUse      \* most tokens one call uses

VARIABLES
  strategy,
  budget,   \* Invocation.TokenBudget
  run,      \* run 0 is the invocation itself, the others are the chunks' react loops
  spent,    \* history: tokens used by all calls of the invocation
  cancelled \* map-reduce's context is cancelled

vars == <<strategy, budget, run, spent, cancelled>>

Strategies == {"react", "reflexion", "plan", "router", "mapreduce"}
Runs == 0 .. Chunks
User == -1
Result == -2
Replies == {r \in [calls : 0 .. MaxCalls, tooluse : BOOLEAN, tokens : 1 .. MaxUse, good : BOOLEAN] :
              r.calls = 0 => ~r.tooluse}
Ended == {"idle", "done", "failed"}

\* used: the run's TokenTracker; before: tokens of the router's classification
NewRun(pc) == [pc |-> pc, msgs |-> <<User>>, used |-> 0, before |-> 0, turn |-> 0, steps |-> 0]

TypeOK ==
  /\ strategy \in Strategies /\ budget \in Budgets /\ spent \in Nat /\ cancelled \in BOOLEAN
  /\ \A c \in Runs : /\ run[c].msgs \in Seq(-2 .. MaxCalls)
                     /\ run[c].used + run[c].before <= spent
                     /\ run[c].turn <= MaxTurns /\ run[c].steps <= MaxTurns

Init ==
  /\ strategy \in Strategies /\ budget \in Budgets
  /\ run = [c \in Runs |->
              NewRun(IF c # 0 THEN IF strategy = "mapreduce" THEN "check" ELSE "idle"
                     ELSE CASE strategy = "react" -> "check"
                            [] strategy = "reflexion" -> "first"
                            [] strategy = "plan" -> "plan"
                            [] strategy = "router" -> "classify"
                            [] strategy = "mapreduce" -> "map")]
  /\ spent = 0 /\ cancelled = FALSE

\* TokenTracker.CheckBudget(maxTokens)
Fits(u) == budget <= 0 \/ u + MaxTokens <= budget

\* A successful call to the model: TokenTracker.Add, and the history of it.
Called(c, r, s) ==
  /\ run' = [run EXCEPT ![c] = [s EXCEPT !.used = @ + r.tokens]]
  /\ spent' = spent + r.tokens
  /\ UNCHANGED <<strategy, budget, cancelled>>

Step(c, s) == run' = [run EXCEPT ![c] = s] /\ UNCHANGED <<strategy, budget, spent, cancelled>>

\* The messages after the tools of an answer have run, all of them at once and
\* their results in the order of the calls (Registry.ExecuteConcurrent).
Answered(msgs, n) == msgs \o [i \in 1 .. n |-> Result]

-----------------------------------------------------------------------------
(* ReActStrategy.Execute *)

\* The top of the loop; the turn is counted before the budget is looked at.
ReactCheck(c) ==
  /\ run[c].pc = "check"
  /\ Step(c, IF run[c].turn = MaxTurns THEN [run[c] EXCEPT !.pc = "done"]
             ELSE [run[c] EXCEPT !.turn = @ + 1, !.pc = IF Fits(run[c].used) THEN "chat" ELSE "done"])

ReactChat(c, r) ==
  /\ run[c].pc = "chat"
  /\ Called(c, r, IF r.calls = 0 \/ ~r.tooluse THEN [run[c] EXCEPT !.pc = "done"]
                  ELSE [run[c] EXCEPT !.pc = "tools", !.msgs = Append(@, r.calls)])

ReactTools(c) ==
  /\ run[c].pc = "tools"
  /\ LET n == run[c].msgs[Len(run[c].msgs)]
     IN  Step(c, [run[c] EXCEPT !.pc = "check", !.msgs = Answered(@, n)])

-----------------------------------------------------------------------------
(* ReflexionStrategy.Execute *)

First(r) ==
  /\ run[0].pc = "first"
  /\ Called(0, r, IF r.calls = 0 \/ ~r.tooluse THEN [run[0] EXCEPT !.pc = "reflect"]
                  ELSE [run[0] EXCEPT !.pc = "second", !.msgs = Answered(Append(@, r.calls), r.calls)])

\* The answer after the tools; calls in it are not run any more.
Second(r) == run[0].pc = "second" /\ Called(0, r, [run[0] EXCEPT !.pc = "reflect"])

\* The iteration ends with the turns or with the budget.
Reflect ==
  /\ run[0].pc = "reflect"
  /\ Step(0, IF run[0].turn = MaxTurns - 1 \/ ~Fits(run[0].used) THEN [run[0] EXCEPT !.pc = "done"]
             ELSE [run[0] EXCEPT !.pc = "critique", !.turn = @ + 1])

Critique(r) ==
  /\ run[0].pc = "critique"
  /\ Called(0, r, [run[0] EXCEPT !.pc = IF r.good THEN "done" ELSE "improve"])

Improve(r) == run[0].pc = "improve" /\ Called(0, r, [run[0] EXCEPT !.pc = "reflect"])

-----------------------------------------------------------------------------
(* PlanExecuteStrategy.Execute *)

\* The plan, made before any look at the budget, has some number of steps.
Plan(r, n) ==
  /\ run[0].pc = "plan"
  /\ Called(0, r, [run[0] EXCEPT !.pc = "step", !.msgs = <<User, 0>>, !.steps = IF n = 0 THEN 1 ELSE n])

PlanStep ==
  /\ run[0].pc = "step"
  /\ Step(0, IF run[0].turn = run[0].steps \/ run[0].turn >= MaxTurns - 1 \/ ~Fits(run[0].used)
             THEN [run[0] EXCEPT !.pc = "done"]
             ELSE [run[0] EXCEPT !.pc = "execute", !.turn = @ + 1, !.msgs = Append(@, User)])

\* The answer is kept with its calls; they are run only if it stopped for them.
ExecuteStep(r) ==
  /\ run[0].pc = "execute"
  /\ Called(0, r, IF r.calls > 0 /\ r.tooluse
                  THEN [run[0] EXCEPT !.pc = "step", !.msgs = Answered(Append(@, r.calls), r.calls)]
                  ELSE [run[0] EXCEPT !.pc = "step", !.msgs = Append(@, r.calls)])

-----------------------------------------------------------------------------
(* RouterStrategy.Execute, with no invoker set: react with a tracker of its own *)

Classify(r) ==
  /\ run[0].pc = "classify"
  /\ run' = [run EXCEPT ![0] = [@ EXCEPT !.pc = "check", !.before = r.tokens]]
  /\ spent' = spent + r.tokens
  /\ UNCHANGED <<strategy, budget, cancelled>>

-----------------------------------------------------------------------------
(* MapReduceStrategy.Execute *)

\* Counting the tokens of one chunk for all of them.
CollectFew ==
  /\ run[0].pc = "map" /\ \A c \in 1 .. Chunks : run[c].pc \in Ended
  /\ Step(0, IF \E c \in 1 .. Chunks : run[c].pc = "failed" THEN [run[0] EXCEPT !.pc = "failed"]
             ELSE [run[0] EXCEPT !.pc = "reduce", !.used = run[Chunks].used])

\* All goroutines have ended: the first error is returned, or the tokens are added.
Collect ==
  /\ run[0].pc = "map" /\ \A c \in 1 .. Chunks : run[c].pc \in Ended
  /\ Step(0, IF \E c \in 1 .. Chunks : run[c].pc = "failed" THEN [run[0] EXCEPT !.pc = "failed"]
             ELSE [run[0] EXCEPT !.pc = "reduce",
                                 !.used = MapThenFoldSet(LAMBDA u, sum : u + sum, 0, LAMBDA c : run[c].used,
                                                         LAMBDA S : CHOOSE c \in S : TRUE, 1 .. Chunks)])

Reduce(r) == run[0].pc = "reduce" /\ Called(0, r, [run[0] EXCEPT !.pc = "done"])

-----------------------------------------------------------------------------
\* A call fails.  Reflexion keeps what it has; every other call ends its run with
\* an error, which in a chunk cancels the context of all of them.
ChatFails(c) ==
  /\ run[c].pc \in {"chat", "first", "second", "critique", "improve", "plan", "execute", "classify", "reduce"}
  /\ run' = [run EXCEPT ![c].pc = IF @ \in {"critique", "improve"} THEN "done" ELSE "failed"]
  /\ cancelled' = (cancelled \/ c # 0)
  /\ UNCHANGED <<strategy, budget, spent>>

Next ==
  \/ Reflect \/ PlanStep \/ Collect
  \/ \E c \in Runs : ReactCheck(c) \/ ReactTools(c) \/ ChatFails(c)
  \/ \E r \in Replies :
       \/ \E c \in Runs : ReactChat(c, r)
       \/ First(r) \/ Second(r) \/ Critique(r) \/ Improve(r)
       \/ \E n \in 0 .. MaxTurns : Plan(r, n)
       \/ ExecuteStep(r) \/ Classify(r) \/ Reduce(r)

Spec == Init /\ [][Next]_vars

-----------------------------------------------------------------------------
\* Every tool call in a conversation sent to the model is answered: a message with n
\* calls is followed by exactly n results before anything else is said, which the
\* providers demand.  One case is left out: a step of a plan whose answer has calls
\* but stopped for another reason (MaxTokens) keeps the calls and never runs them.
CallsAreAnswered ==
  \A c \in Runs : LET m == run[c].msgs IN
    run[c].pc # "tools" /\ strategy # "plan" =>
      \A i \in 1 .. Len(m) :
        /\ m[i] > 0 => Len(m) >= i + m[i] /\ \A j \in i + 1 .. i + m[i] : m[j] = Result
        /\ m[i] = Result => \E k \in 1 .. i - 1 : m[k] >= i - k

\* An invocation that ends well reports every token its calls have used, over all
\* concurrent chunks, improvements, tool rounds and the router's classification.
TokensAreCounted == run[0].pc = "done" => run[0].used + run[0].before = spent

\* What an invocation can spend under a token budget.  A checked call leaves at most
\* one call's use above the budget less MaxTokens; reflexion makes two calls per
\* check; the router's classification and the reduction are not checked at all, and
\* each chunk has the whole budget to itself.
Allowance(n) == (IF budget > MaxTokens THEN budget - MaxTokens ELSE 0) + n * MaxUse
BudgetHolds ==
  budget > 0 =>
    /\ strategy \in {"react", "plan"} => spent <= Allowance(1)
    /\ strategy \in {"reflexion", "router"} => spent <= Allowance(2)
    /\ strategy = "mapreduce" => spent <= Chunks * Allowance(1) + MaxUse
=============================================================================
