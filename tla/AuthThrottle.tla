--------------------------- MODULE AuthThrottle ----------------------------
(***************************************************************************)
(* The authentication throttle: internal/auth/middleware.go with the       *)
(* authFailures table of internal/auth/ratelimit.go.  A request checks the *)
(* block in one lock section and reports its outcome in another, so        *)
(* requests of one address overtake each other in between.                 *)
(***************************************************************************)
EXTENDS Naturals, FiniteSets, Sequences

CONSTANTS Workers,      \* requests in flight
          Clients,      \* client addresses
          MaxFailures, Window, Block, EvictAfter,  \* authMaxFailures ... authEvictInterval
          EvictSize,    \* table size beyond which stale entries are evicted (1000)
          MaxTime       \* bound of the exploration

VARIABLES
  now,
  table,    \* authFailures: address -> [failures, windowStart, blockedUntil]
  check,    \* the request each worker serves: {} or the address it passed the check for
  failed    \* history: times of the failures of an address, in order, since its last
            \* success or the end of its last block

vars == <<now, table, check, failed>>

Entry == [failures : 0 .. (MaxFailures + Cardinality(Workers)), windowStart : 0 .. MaxTime,
          blockedUntil : 0 .. (MaxTime + Block)]

TypeOK ==
  /\ now \in 0 .. MaxTime
  /\ DOMAIN table \subseteq Clients /\ \A c \in DOMAIN table : table[c] \in Entry
  /\ check \in [Workers -> {{}} \cup {{c} : c \in Clients}]
  /\ failed \in [Clients -> Seq(0 .. MaxTime)]

\* The clock starts at 1, so that 0 is the zero time.
Init == now = 1 /\ table = <<>> /\ check = [w \in Workers |-> {}] /\ failed = [c \in Clients |-> <<>>]

----------------------------------------------------------------------------
Blocked(c) == c \in DOMAIN table /\ now < table[c].blockedUntil

\* IsAuthBlocked: a blocked address is refused; a block that is over is forgotten.
CheckBlock(w, c) ==
  /\ check[w] = {} /\ ~Blocked(c)
  /\ check' = [check EXCEPT ![w] = {c}]
  /\ IF c \in DOMAIN table /\ table[c].blockedUntil # 0
       THEN /\ table' = [d \in DOMAIN table \ {c} |-> table[d]]
            /\ failed' = [failed EXCEPT ![c] = <<>>]
       ELSE UNCHANGED <<table, failed>>
  /\ UNCHANGED now

\* evictStaleAuthEntries
StaleEntry(e) == (e.blockedUntil # 0 /\ now > e.blockedUntil) \/ now - e.windowStart > EvictAfter

\* The entry AuthFailure leaves for an address whose entry was e: the window
\* restarts when it is over, and the last failure allowed sets the block.
Failed(e) ==
  LET w == IF now - e.windowStart > Window THEN [e EXCEPT !.failures = 0, !.windowStart = now] ELSE e
      f == [w EXCEPT !.failures = @ + 1]
  IN IF f.failures >= MaxFailures THEN [f EXCEPT !.blockedUntil = now + Block] ELSE f

\* AuthFailure, with the eviction it runs when the table is large and the
\* address was not blocked.
AuthFailure(w, c) ==
  /\ check[w] = {c} /\ check' = [check EXCEPT ![w] = {}]
  /\ LET e == IF c \in DOMAIN table THEN table[c]
              ELSE [failures |-> 0, windowStart |-> now, blockedUntil |-> 0]
         t == [d \in DOMAIN table \cup {c} |-> IF d = c THEN Failed(e) ELSE table[d]]
         evict == Failed(e).failures < MaxFailures /\ Cardinality(DOMAIN t) > EvictSize
     IN table' = [d \in {x \in DOMAIN t : evict => ~StaleEntry(t[x])} |-> t[d]]
  /\ failed' = [failed EXCEPT ![c] = Append(@, now)]
  /\ UNCHANGED now

\* AuthSuccess clears the failures of the address.
AuthSuccess(w, c) ==
  /\ check[w] = {c} /\ check' = [check EXCEPT ![w] = {}]
  /\ table' = [d \in DOMAIN table \ {c} |-> table[d]]
  /\ failed' = [failed EXCEPT ![c] = <<>>]
  /\ UNCHANGED now

Pass == now < MaxTime /\ now' = now + 1 /\ UNCHANGED <<table, check, failed>>

Next ==
  \/ \E w \in Workers, c \in Clients : CheckBlock(w, c) \/ AuthFailure(w, c) \/ AuthSuccess(w, c)
  \/ Pass

Spec == Init /\ [][Next]_vars

----------------------------------------------------------------------------
\* "10 failures/min": an address is blocked only after MaxFailures failures that
\* lie within one window, with no success and no served block in between.
BlockIsEarned ==
  \A c \in Clients : Blocked(c) =>
    \E i, j \in DOMAIN failed[c] : j - i + 1 >= MaxFailures /\ failed[c][j] - failed[c][i] <= Window

\* "5-min block": a block ends early only by the success of a request that was
\* admitted before it began; neither the window nor the eviction of stale
\* entries lifts it.
UnblocksOnSuccess ==
  \A c \in Clients : (Blocked(c) /\ c \notin DOMAIN table') =>
    \E w \in Workers : check[w] = {c} /\ check'[w] = {}
=============================================================================
