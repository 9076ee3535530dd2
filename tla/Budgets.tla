------------------------------ MODULE Budgets ------------------------------
(***************************************************************************)
(* Spending budgets: internal/cost/tracker.go as handleInvoke of internal/ *)
(* runtime/server.go uses it.  A request checks the budget, runs, and only *)
(* then records what it cost, so several may pass the check on the same    *)
(* balance.  Money is counted in whole units, time in ticks; a budget's    *)
(* period is a number of ticks (daily and monthly in the code) and resets  *)
(* fall on its multiples, as nextReset rounds down to the day or month.    *)
(***************************************************************************)
EXTENDS Naturals, FiniteSets, Sequences

CONSTANTS Workers,   \* requests in flight, all for one agent
          Limits,    \* LimitDollars of the agent's budget entries, in order
          Periods,   \* their periods
          MaxCost,   \* the most one invocation costs; a model without a price costs 0
          MaxTime, MaxTotal    \* bounds of the exploration

VARIABLES
  now,
  entries,  \* budgets[agent]: the BudgetEntry of each period
  total,    \* costs[agent]
  inv,      \* the invocation each worker runs
  warned,   \* history: warnings given in the current period, per entry
  resetOn   \* history: when each entry was last reset

vars == <<now, entries, total, inv, warned, resetOn>>

Entry == [used : Nat, resetAt : 0 .. (2 * MaxTime + 2), paused : BOOLEAN, warnedAt : BOOLEAN]

TypeOK ==
  /\ now \in 0 .. MaxTime
  /\ entries \in [DOMAIN Limits -> Entry]
  /\ total \in 0 .. (MaxTotal + Cardinality(Workers) * MaxCost)
  /\ inv \in [Workers -> [pc : {"idle", "run", "record", "warn"}, cost : 0 .. MaxCost]]
  /\ warned \in [DOMAIN Limits -> Nat] /\ resetOn \in [DOMAIN Limits -> 0 .. MaxTime]

\* nextReset: the start of the period after the one t lies in.
NextReset(t, i) == ((t \div Periods[i]) + 1) * Periods[i]

Init ==
  /\ now = 0 /\ total = 0
  /\ entries = [i \in DOMAIN Limits |-> [used |-> 0, resetAt |-> Periods[i], paused |-> FALSE, warnedAt |-> FALSE]]
  /\ inv = [w \in Workers |-> [pc |-> "idle", cost |-> 0]]
  /\ warned = [i \in DOMAIN Limits |-> 0] /\ resetOn = [i \in DOMAIN Limits |-> 0]

----------------------------------------------------------------------------
Due(i) == now > entries[i].resetAt

\* A limit that is exactly used up does not stop the agent.
SpentOver(i) == ~Due(i) /\ (entries[i].paused \/ entries[i].used > Limits[i] + MaxCost)

Spent(i) == ~Due(i) /\ (entries[i].paused \/ entries[i].used >= Limits[i])

\* A new period of entry i.
Refill(i) == [used |-> 0, resetAt |-> NextReset(now, i), paused |-> FALSE, warnedAt |-> FALSE]

\* The entries CheckBudget's loop has passed when it returns: all of them, or
\* those before the first that is exceeded.
Passed == {i \in DOMAIN Limits : \A j \in 1 .. i : ~Spent(j)}

\* CheckBudget, one lock section: entries whose period is over are reset, until
\* one that is exceeded pauses the agent and refuses the request.
CheckBudget(w) ==
  /\ inv[w].pc = "idle" /\ total <= MaxTotal
  /\ entries' = [i \in DOMAIN Limits |->
       IF i \in Passed /\ Due(i)
         THEN Refill(i)
       ELSE IF Spent(i) /\ \A j \in 1 .. (i - 1) : j \in Passed
         THEN [entries[i] EXCEPT !.paused = TRUE]
       ELSE entries[i]]
  /\ warned' = [i \in DOMAIN Limits |-> IF i \in Passed /\ Due(i) THEN 0 ELSE warned[i]]
  /\ resetOn' = [i \in DOMAIN Limits |-> IF i \in Passed /\ Due(i) THEN now ELSE resetOn[i]]
  /\ inv' = [inv EXCEPT ![w].pc = IF Passed = DOMAIN Limits THEN "run" ELSE "idle"]
  /\ UNCHANGED <<now, total>>

\* strategy.Execute: an error is answered at once and costs nothing here.
Run(w) ==
  /\ inv[w].pc = "run"
  /\ \/ \E c \in 0 .. MaxCost : inv' = [inv EXCEPT ![w] = [pc |-> "record", cost |-> c]]
     \/ inv' = [inv EXCEPT ![w].pc = "idle"]
  /\ UNCHANGED <<now, entries, total, warned, resetOn>>

\* RecordUsage adds the cost to the agent and to every one of its budgets.
RecordUsage(w) ==
  /\ inv[w].pc = "record"
  /\ total' = total + inv[w].cost
  /\ entries' = [i \in DOMAIN Limits |-> [entries[i] EXCEPT !.used = @ + inv[w].cost]]
  /\ inv' = [inv EXCEPT ![w] = [pc |-> "warn", cost |-> 0]]
  /\ UNCHANGED <<now, warned, resetOn>>

\* An entry CheckWarnings would warn about: four fifths used, not yet warned.
Warns(i) == 5 * entries[i].used >= 4 * Limits[i] /\ ~entries[i].warnedAt /\ ~entries[i].paused

\* CheckWarnings warns about the first such entry, if any.
CheckWarnings(w) ==
  /\ inv[w].pc = "warn"
  /\ inv' = [inv EXCEPT ![w].pc = "idle"]
  /\ LET first == {i \in DOMAIN Limits : Warns(i) /\ \A j \in 1 .. (i - 1) : ~Warns(j)} IN
       /\ entries' = [i \in DOMAIN Limits |->
                        IF i \in first THEN [entries[i] EXCEPT !.warnedAt = TRUE] ELSE entries[i]]
       /\ warned' = [i \in DOMAIN Limits |-> IF i \in first THEN warned[i] + 1 ELSE warned[i]]
  /\ UNCHANGED <<now, total, resetOn>>

\* Reset clears the accumulated costs and leaves the budgets alone.
Reset == total > 0 /\ total' = 0 /\ UNCHANGED <<now, entries, inv, warned, resetOn>>

Pass == now < MaxTime /\ now' = now + 1 /\ UNCHANGED <<entries, total, inv, warned, resetOn>>

Next ==
  \/ \E w \in Workers : CheckBudget(w) \/ Run(w) \/ RecordUsage(w) \/ CheckWarnings(w)
  \/ Reset
  \/ Pass

Spec == Init /\ [][Next]_vars

----------------------------------------------------------------------------
InFlight == Cardinality({w \in Workers : inv[w].pc \in {"run", "record"}})

\* No budget is overrun by more than what the requests already admitted can cost:
\* each saw every balance below its limit when it was admitted.
OverrunBounded ==
  \A i \in DOMAIN Limits :
    Limits[i] > 0 => entries[i].used + InFlight * MaxCost < Limits[i] + Cardinality(Workers) * MaxCost

\* An agent is paused only on a budget that is really spent, and stays so until
\* that budget's reset: a pause never outlives the reason for it.
PausedIsSpent == \A i \in DOMAIN Limits : entries[i].paused => entries[i].used >= Limits[i]

\* Each budget warns at most once in a period, however many requests finish.
WarnedOnce == \A i \in DOMAIN Limits : warned[i] <= 1

\* A budget is refilled at most once per period, also after a long silence in
\* which several of its resets were missed.
ResetIsDue ==
  \A i \in DOMAIN Limits : entries'[i].resetAt # entries[i].resetAt =>
    now \div Periods[i] > resetOn[i] \div Periods[i]
=============================================================================
