------------------------------- MODULE Policies -------------------------------
(***************************************************************************)
(* Merging policies (internal/operator/controller/policy_merge.go).  A     *)
(* policy is a record; an absent list is an empty set, an absent budget is *)
(* NoCost and an absent rate limit is 0, which is how the merge reads      *)
(* them.  The state is the list of policies collected so far; Add appends  *)
(* one.                                                                    *)
(***************************************************************************)
EXTENDS Integers, Sequences

CONSTANTS
  Names,        \* names of models, tools and content filters
  MaxCost,      \* bound on budgets and rate limits
  MaxPolicies   \* bound on the number of policies merged

VARIABLES
  aspect,    \* what the policies of this behaviour speak about
  policies   \* the policies collected so far

vars == <<aspect, policies>>

NoCost == -1      \* costBudget is nil
Unparsed == -2    \* maxDailyCost is no number

Nothing == [cost |-> NoCost, rpm |-> 0, tpm |-> 0, allowed |-> {}, denied |-> {},
            filters |-> {}, tools |-> [set |-> FALSE, allowed |-> {}, denied |-> {}]]

Aspects == {"costs", "rates", "models", "tools"}

\* The policies that say something about one aspect.
About(a) ==
  CASE a = "costs" -> {[Nothing EXCEPT !.cost = c] : c \in {NoCost, Unparsed} \cup (0 .. MaxCost)}
    [] a = "rates" -> {[Nothing EXCEPT !.rpm = v[1], !.tpm = v[2]] : v \in (-1 .. MaxCost) \X (-1 .. MaxCost)}
    [] a = "models" -> {[Nothing EXCEPT !.allowed = s[1], !.denied = s[2], !.filters = s[2]] :
                          s \in (SUBSET Names) \X (SUBSET Names)}
    [] a = "tools" -> {[Nothing EXCEPT !.tools = t] :
                         t \in [set : {TRUE}, allowed : SUBSET Names, denied : SUBSET Names]
                               \cup {Nothing.tools}}

TypeOK == aspect \in Aspects /\ policies \in Seq(About(aspect))

Members(ps) == {ps[i] : i \in 1 .. Len(ps)}
Smallest(S) == CHOOSE x \in S : \A y \in S : x <= y

\* mergeCostBudgets: the lowest budget that parses.
MergeCostBudgets(ps) ==
  LET costs == {p.cost : p \in Members(ps)} \ {NoCost, Unparsed}
  IN IF costs = {} THEN NoCost ELSE Smallest(costs)

\* A merge that collects the lists instead of intersecting them.
MergeAllowedUnion(ps) == UNION {p.allowed : p \in Members(ps)}

\* mergeAllowedModels: the lists that are given are intersected; an empty result is
\* an empty list, which reads as no list.
Intersection(sets) ==
  IF sets = {} THEN {} ELSE {x \in UNION sets : \A s \in sets : x \in s}
MergeAllowedModels(ps) == Intersection({p.allowed : p \in Members(ps)} \ {{}})

MergeDeniedModels(ps) == UNION {p.denied : p \in Members(ps)}

\* mergeRateLimits: the lowest positive value; 0 when no policy sets one.
Lowest(values) ==
  LET positive == {v \in values : v > 0} IN IF positive = {} THEN 0 ELSE Smallest(positive)
MergeRateLimits(ps) ==
  [rpm |-> Lowest({p.rpm : p \in Members(ps)}), tpm |-> Lowest({p.tpm : p \in Members(ps)})]

MergeContentFilters(ps) == UNION {p.filters : p \in Members(ps)}

\* mergeToolRestrictions: restrictions that are nil take no part.
MergeToolRestrictions(ps) ==
  LET ts == {p.tools : p \in Members(ps)} \ {Nothing.tools}
  IN [set |-> ts # {}, allowed |-> Intersection({t.allowed : t \in ts} \ {{}}),
      denied |-> UNION {t.denied : t \in ts}]

\* MergePolicies: nothing and a single policy are returned as they are.
MergePolicies(ps) ==
  IF Len(ps) = 0 THEN Nothing
  ELSE IF Len(ps) = 1 THEN ps[1]
  ELSE [cost |-> MergeCostBudgets(ps), rpm |-> MergeRateLimits(ps).rpm, tpm |-> MergeRateLimits(ps).tpm,
        allowed |-> MergeAllowedModels(ps), denied |-> MergeDeniedModels(ps),
        filters |-> MergeContentFilters(ps), tools |-> MergeToolRestrictions(ps)]

Init == aspect \in Aspects /\ policies = <<>>

Add(p) == Len(policies) < MaxPolicies /\ policies' = Append(policies, p) /\ UNCHANGED aspect

Next == \E p \in About(aspect) : Add(p)

Spec == Init /\ [][Next]_vars

-----------------------------------------------------------------------------
\* What a policy lets through: an empty list of allowed names allows every name.
Permits(allowed, denied, x) == (allowed = {} \/ x \in allowed) /\ x \notin denied

\* No two policies give lists of allowed names with nothing in common.
Overlap(sets) == sets \ {{}} = {} \/ Intersection(sets \ {{}}) # {}

\* The merged policy lets a model or a tool through exactly when every policy does,
\* as long as the lists of allowed names have one in common.
MergeIsMeet ==
  LET m == MergePolicies(policies)
      ps == Members(policies)
  IN /\ Overlap({p.allowed : p \in ps}) =>
          \A x \in Names : Permits(m.allowed, m.denied, x)
                             <=> \A p \in ps : Permits(p.allowed, p.denied, x)
     /\ Overlap({p.tools.allowed : p \in ps}) =>
          \A x \in Names : Permits(m.tools.allowed, m.tools.denied, x)
                             <=> \A p \in ps : Permits(p.tools.allowed, p.tools.denied, x)

\* A cost, or a number of requests per minute, is within the merged limits exactly
\* when it is within the limits of every policy: one that does not parse or is not
\* positive limits nothing.
Within(p, x) == (p.cost < 0 \/ x <= p.cost) /\ (p.rpm <= 0 \/ x <= p.rpm) /\ (p.tpm <= 0 \/ x <= p.tpm)

LimitsAreMet ==
  \A x \in 0 .. MaxCost + 1 :
    Within(MergePolicies(policies), x) <=> \A p \in Members(policies) : Within(p, x)
=============================================================================
