---------------------------- MODULE RateLimiter ----------------------------
(***************************************************************************)
(* The per-agent token bucket limiter, internal/auth/ratelimit.go, behind  *)
(* the rateLimitMiddleware of internal/runtime/server.go.  Allow finds its *)
(* bucket in one lock section, creates it in a second one and takes the    *)
(* token in a third: the pointer it holds may by then point to a bucket    *)
(* the map has evicted.  Buckets are therefore objects of a heap, and the  *)
(* map holds references.  Time is counted in ticks and Rate is the number  *)
(* of tokens a tick refills.                                               *)
(***************************************************************************)
EXTENDS Naturals, FiniteSets, FiniteSetsExt

CONSTANTS Workers,     \* goroutines serving requests
          Keys,        \* rate limit keys (agent names)
          Rate, Burst, \* RateLimitConfig
          MaxEntries, TTL, \* eviction.Policy
          MaxTime, MaxBuckets  \* bounds of the exploration

\* EvictionIsFree needs a TTL in which an idle bucket fills up, as it does with
\* the defaults (10 minutes, 10 per second, burst 20).
IdleFills == TTL * Rate >= Burst

VARIABLES
  now,      \* time.Now()
  buckets,  \* RateLimiter.buckets: key -> bucket
  heap,     \* the bucket objects allocated so far
  call,     \* the Allow call of each worker: where it is, its key, its pointer
  squeezed  \* history: keys whose bucket went because the map was full

vars == <<now, buckets, heap, call, squeezed>>

Refs == 1 .. MaxBuckets
Idle == [pc |-> "idle", key |-> CHOOSE k \in Keys : TRUE, ref |-> 0]

\* tokens, lastRefill and lastAccess are the code's; born, taken and orphan are
\* history: when it was made, tokens taken through the map and past the map.
Bucket == [key : Keys, tokens : 0 .. Burst, lastRefill : 0 .. MaxTime, lastAccess : 0 .. MaxTime,
           born : 0 .. MaxTime, taken : Nat, orphan : Nat]

TypeOK ==
  /\ now \in 0 .. MaxTime
  /\ DOMAIN heap = 1 .. Cardinality(DOMAIN heap) /\ \A r \in DOMAIN heap : heap[r] \in Bucket
  /\ DOMAIN buckets \subseteq Keys
  /\ \A k \in DOMAIN buckets : buckets[k] \in DOMAIN heap /\ heap[buckets[k]].key = k
  /\ call \in [Workers -> [pc : {"idle", "create", "take"}, key : Keys, ref : 0 .. MaxBuckets]]
  /\ squeezed \subseteq Keys

Init ==
  /\ now = 0 /\ buckets = <<>> /\ heap = <<>>
  /\ call = [w \in Workers |-> Idle] /\ squeezed = {}

----------------------------------------------------------------------------
Mapped(r) == \E k \in DOMAIN buckets : buckets[k] = r

\* Allow, first lock section: look the bucket up under the read lock.
Find(w, k) ==
  /\ call[w].pc = "idle"
  /\ call' = [call EXCEPT ![w] =
       IF k \in DOMAIN buckets THEN [pc |-> "take", key |-> k, ref |-> buckets[k]]
                               ELSE [pc |-> "create", key |-> k, ref |-> 0]]
  /\ UNCHANGED <<now, buckets, heap, squeezed>>

\* evictOldestLocked: any n keys no other of which was accessed earlier (the
\* order of equal times is the sort's and the map's).
Oldest(map, objs, n) ==
  {V \in SUBSET DOMAIN map : /\ Cardinality(V) = n
                             /\ \A v \in V, u \in DOMAIN map \ V :
                                  objs[map[v]].lastAccess <= objs[map[u]].lastAccess}

\* How many buckets the creation of one more makes too many.
Excess(n) == IF n > MaxEntries THEN n - MaxEntries ELSE 0

\* Allow, second lock section: create the bucket unless someone else just did.
Create(w) ==
  /\ call[w].pc = "create"
  /\ LET k == call[w].key
         r == Cardinality(DOMAIN heap) + 1
         fresh == [key |-> k, tokens |-> Burst, lastRefill |-> now, lastAccess |-> now,
                   born |-> now, taken |-> 0, orphan |-> 0]
         map == [j \in DOMAIN buckets \cup {k} |-> IF j = k THEN r ELSE buckets[j]]
         objs == [q \in DOMAIN heap \cup {r} |-> IF q = r THEN fresh ELSE heap[q]]
     IN \/ /\ k \in DOMAIN buckets
           /\ call' = [call EXCEPT ![w].pc = "take", ![w].ref = buckets[k]]
           /\ UNCHANGED <<buckets, heap, squeezed>>
        \/ /\ k \notin DOMAIN buckets /\ r \in Refs
           /\ \E V \in Oldest(map, objs, Excess(Cardinality(DOMAIN map))) :
                /\ buckets' = [j \in DOMAIN map \ V |-> map[j]]
                /\ squeezed' = squeezed \cup V
           /\ heap' = objs
           /\ call' = [call EXCEPT ![w].pc = "take", ![w].ref = r]
  /\ UNCHANGED now

\* The bucket's tokens after the refill of Allow's third lock section.
Refilled(b) == Min({b.tokens + Rate * (now - b.lastRefill), Burst})

\* lastRefill not moved on: the same elapsed time refills the bucket again.
TakeAgain(w) ==
  /\ call[w].pc = "take"
  /\ LET r == call[w].ref
         b == heap[r]
         g == IF Refilled(b) >= 1 THEN 1 ELSE 0
     IN heap' = [heap EXCEPT ![r] =
          [b EXCEPT !.tokens = Refilled(b) - g, !.lastAccess = now,
                    !.taken = @ + (IF Mapped(r) THEN g ELSE 0),
                    !.orphan = @ + (IF Mapped(r) THEN 0 ELSE g)]]
  /\ call' = [call EXCEPT ![w] = Idle]
  /\ UNCHANGED <<now, buckets, squeezed>>

\* Allow, third lock section: refill and take a token from the bucket the
\* pointer leads to, evicted or not.
Take(w) ==
  /\ call[w].pc = "take"
  /\ LET r == call[w].ref
         b == heap[r]
         ok == Refilled(b) >= 1
         g == IF ok THEN 1 ELSE 0
     IN heap' = [heap EXCEPT ![r] =
          [b EXCEPT !.tokens = Refilled(b) - g, !.lastRefill = now, !.lastAccess = now,
                    !.taken = @ + (IF Mapped(r) THEN g ELSE 0),
                    !.orphan = @ + (IF Mapped(r) THEN 0 ELSE g)]]
  /\ call' = [call EXCEPT ![w] = Idle]
  /\ UNCHANGED <<now, buckets, squeezed>>

\* A bucket evictStale removes: not accessed for longer than the TTL.
Stale(b) == b.lastAccess + TTL < now

\* evictStale, run by the ticker of Start.
EvictStale ==
  /\ \E k \in DOMAIN buckets : Stale(heap[buckets[k]])
  /\ buckets' = [k \in {j \in DOMAIN buckets : ~Stale(heap[buckets[j]])} |-> buckets[k]]
  /\ UNCHANGED <<now, heap, call, squeezed>>

Pass ==
  /\ now < MaxTime /\ now' = now + 1
  /\ UNCHANGED <<buckets, heap, call, squeezed>>

Next ==
  \/ \E w \in Workers : (\E k \in Keys : Find(w, k)) \/ Create(w) \/ Take(w)
  \/ EvictStale
  \/ Pass

Spec == Init /\ [][Next]_vars

----------------------------------------------------------------------------
\* The limiter never holds more buckets than its policy allows, although every
\* new key adds one.
MapIsBounded == Cardinality(DOMAIN buckets) <= MaxEntries

\* No bucket gives out more than its burst and what time has refilled, through
\* the map or past it, and whichever requests raced for it.
BucketIsFair ==
  \A r \in DOMAIN heap :
    heap[r].taken + heap[r].orphan + heap[r].tokens <= Burst + Rate * (heap[r].lastRefill - heap[r].born)

\* Evicting an idle bucket gives nothing away: all the buckets a key ever had,
\* one after the other, together grant no more than one bucket would have, as
\* long as the map was never full and counting what was taken through the map.
EvictionIsFree ==
  IdleFills => \A k \in Keys \ squeezed :
    MapThenSumSet(LAMBDA r : heap[r].taken, {r \in DOMAIN heap : heap[r].key = k}) <= Burst + Rate * now
=============================================================================
