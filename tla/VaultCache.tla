------------------------------ MODULE VaultCache ------------------------------
(***************************************************************************)
(* internal/secrets/vault.go: a resolver that caches secrets.  A look-up   *)
(* under the read lock, a request to Vault without any lock, and a store   *)
(* under the write lock: requests for one secret overlap, and an answer    *)
(* may be stored after a later one.  Time is a clock of ticks; the HTTP    *)
(* client gives up after Timeout ticks.                                    *)
(***************************************************************************)
EXTENDS Naturals

CONSTANTS
  Workers, Keys,
  TTL,        \* CacheTTL (5 minutes)
  Timeout,    \* the HTTP client's timeout (10 seconds)
  MaxTime     \* bound: the clock

VARIABLES
  now,
  vault,    \* per secret: the time its current value was written, 0 at first
  cache,    \* per secret: value, expires; ended: when the value stopped being current
  worker    \* pc, key, since; value: fetched; ended as above

vars == <<now, vault, cache, worker>>

Never == MaxTime + TTL + 1   \* not ended yet

Empty == [value |-> 0, ended |-> Never, expires |-> 0]
Idle == [pc |-> "idle", key |-> "none", since |-> 0, value |-> 0, ended |-> Never]

TypeOK ==
  /\ now \in 0 .. MaxTime /\ vault \in [Keys -> 0 .. MaxTime]
  /\ \A k \in Keys : cache[k].expires \in 0 .. MaxTime + TTL
  /\ \A w \in Workers : worker[w].pc \in {"idle", "fetch", "store", "got"}

Init ==
  /\ now = 1 /\ vault = [k \in Keys |-> 0] /\ cache = [k \in Keys |-> Empty]
  /\ worker = [w \in Workers |-> Idle]

\* A look-up that asks only whether the secret was ever cached.
FreshForever(k) == cache[k].expires > 0
Fresh(k) == now < cache[k].expires

\* Resolve up to the request
Lookup(w, k) ==
  /\ worker[w].pc \in {"idle", "got"}
  /\ worker' = [worker EXCEPT ![w] =
       IF Fresh(k)
         THEN [pc |-> "got", key |-> k, since |-> 0, value |-> cache[k].value, ended |-> cache[k].ended]
         ELSE [pc |-> "fetch", key |-> k, since |-> now, value |-> 0, ended |-> Never]]
  /\ UNCHANGED <<now, vault, cache>>

\* fetch: the value Vault had at some time during the request, or an error (no
\* answer, a bad status, a missing key, a value that is not a string)
Fetch(w, fails) ==
  /\ worker[w].pc = "fetch"
  /\ worker' = [worker EXCEPT ![w] =
       IF fails THEN Idle ELSE [@ EXCEPT !.pc = "store", !.value = vault[worker[w].key]]]
  /\ UNCHANGED <<now, vault, cache>>

Store(w) ==
  /\ worker[w].pc = "store"
  /\ cache' = [cache EXCEPT ![worker[w].key] =
       [value |-> worker[w].value, ended |-> worker[w].ended, expires |-> now + TTL]]
  /\ worker' = [worker EXCEPT ![w].pc = "got"]
  /\ UNCHANGED <<now, vault>>

\* Vault gets a new value: the copies of the old one are out of date from now on.
Rotate(k) ==
  LET Ended(r) == IF r.value = vault[k] /\ r.ended = Never THEN [r EXCEPT !.ended = now] ELSE r IN
  /\ vault[k] < now /\ vault' = [vault EXCEPT ![k] = now]
  /\ cache' = [cache EXCEPT ![k] = Ended(@)]
  /\ worker' = [w \in Workers |-> IF worker[w].key = k /\ worker[w].pc \in {"store", "got"}
                                    THEN Ended(worker[w]) ELSE worker[w]]
  /\ UNCHANGED now

\* An answer that takes longer than Timeout is an error; an answer is stored at once.
\* A caller is done with its secret by the next tick.
Tick ==
  /\ now < MaxTime
  /\ \A w \in Workers : worker[w].pc \in {"fetch", "store"} => now < worker[w].since + Timeout
  /\ now' = now + 1
  /\ worker' = [w \in Workers |-> IF worker[w].pc = "got" THEN Idle ELSE worker[w]]
  /\ UNCHANGED <<vault, cache>>

Next ==
  \/ \E w \in Workers :
       \/ \E k \in Keys : Lookup(w, k)
       \/ \E fails \in BOOLEAN : Fetch(w, fails)
       \/ Store(w)
  \/ \E k \in Keys : Rotate(k)
  \/ Tick

Spec == Init /\ [][Next]_vars

-----------------------------------------------------------------------------
\* A secret handed out was the current one at some time in the last
\* TTL + Timeout, though answers may be stored out of order and an old one over a
\* newer one: the lifetime counts from the store, not from the answer.
StalenessBounded ==
  \A w \in Workers : worker[w].pc = "got" => now <= worker[w].ended + TTL + Timeout
=============================================================================
