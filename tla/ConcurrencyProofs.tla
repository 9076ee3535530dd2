-------------------------- MODULE ConcurrencyProofs --------------------------
(***************************************************************************)
(* What the components that several workers or processes share promise:    *)
(* the cache of secrets, the pool of MCP connections, the lock of the      *)
(* local backend, the throttle of authentication and the development       *)
(* server with what it watches, for every number of workers, keys,         *)
(* servers, addresses, edits and time.  Each is an instance of its own     *)
(* module; no theorem is about two of them.                                *)
(***************************************************************************)
EXTENDS Integers, Sequences, TLAPS

CONSTANTS Workers, Keys, Servers, TTL, Timeout, MaxTime, MaxConns, MaxCloses,
          Procs, NoProc, Inodes, NoFile, MayCrash, MayAge

VARIABLES now, vault, cache, worker,
          clients, conn, flight, closer, closes, found,
          path, owner, info, fd, pc, expired

-----------------------------------------------------------------------------
(* The cache of secrets *)

Vault == INSTANCE VaultCache

VaultType ==
  /\ now \in 0 .. MaxTime /\ vault \in [Keys -> Nat]
  /\ cache \in [Keys -> [value : Nat, ended : Nat, expires : Nat]]
  /\ worker \in [Workers -> [pc : {"idle", "fetch", "store", "got"}, key : Keys \cup {"none"},
                             since : Nat, value : Nat, ended : Nat]]

\* What is cached expires TTL after its store at the latest, and the store came
\* within Timeout of a time at which the value was current.
CacheAge(c) == c.expires <= now + TTL /\ c.expires <= c.ended + TTL + Timeout

\* A request under way has not run into its timeout, and what it got was current
\* after its start.
FetchAge(r) == r.pc \in {"fetch", "store"} =>
  r.key \in Keys /\ r.since <= now /\ now <= r.since + Timeout /\ r.since <= r.ended

VaultInv ==
  /\ VaultType
  /\ \A k \in Keys : CacheAge(cache[k])
  /\ \A w \in Workers : FetchAge(worker[w])
  /\ Vault!StalenessBounded

\* The durations are numbers, and the clock has started.
Durations == TTL \in Nat /\ Timeout \in Nat /\ MaxTime \in Nat \ {0}

\* Looking up, asking Vault, storing its answer, a new value and a tick of the clock
\* keep the invariant.
LEMMA VaultStep == Durations /\ VaultInv /\ [Vault!Next]_Vault!vars => VaultInv'
<1> SUFFICES ASSUME Durations, VaultInv, [Vault!Next]_Vault!vars PROVE VaultInv'
  BY Zenon
<1> USE DEF Durations, VaultInv, VaultType, CacheAge, FetchAge, Vault!StalenessBounded
<1>1. ASSUME NEW w \in Workers, NEW k \in Keys, Vault!Lookup(w, k) PROVE VaultInv'
  <2>1. CASE Vault!Fresh(k)
    <3>1. now <= cache[k].ended + TTL + Timeout
      BY <2>1 DEF Vault!Fresh
    <3> QED BY Zenon, <1>1, <2>1, <3>1 DEF Vault!Lookup
  <2>2. CASE ~Vault!Fresh(k)
    BY <1>1, <2>2 DEF Vault!Lookup, Vault!Never
  <2> QED BY Zenon, <2>1, <2>2
<1>2. ASSUME NEW w \in Workers, NEW fails \in BOOLEAN, Vault!Fetch(w, fails) PROVE VaultInv'
  <2>1. CASE fails
    BY <1>2, <2>1 DEF Vault!Fetch, Vault!Idle, Vault!Never
  <2>2. CASE ~fails
    <3>1. worker[w].key \in Keys /\ vault[worker[w].key] \in Nat
      BY Zenon, <1>2 DEF Vault!Fetch
    <3>2. /\ worker'[w] \in [pc : {"store"}, key : Keys, since : Nat, value : Nat, ended : Nat]
          /\ worker'[w].key = worker[w].key /\ worker'[w].since = worker[w].since
          /\ worker'[w].ended = worker[w].ended
      BY Zenon, <1>2, <2>2, <3>1 DEF Vault!Fetch
    <3> QED BY <1>2, <3>1, <3>2 DEF Vault!Fetch
  <2> QED BY Zenon, <2>1, <2>2
<1>3. ASSUME NEW w \in Workers, Vault!Store(w) PROVE VaultInv'
  BY <1>3 DEF Vault!Store
<1>4. ASSUME NEW k \in Keys, Vault!Rotate(k) PROVE VaultInv'
  <2>1. \A j \in Keys :
          /\ cache'[j] \in [value : Nat, ended : Nat, expires : Nat]
          /\ cache'[j].expires = cache[j].expires
          /\ cache'[j].ended = cache[j].ended \/ cache'[j].ended = now
    BY <1>4 DEF Vault!Rotate
  <2>2. \A w \in Workers :
          /\ worker'[w] \in [pc : {"idle", "fetch", "store", "got"}, key : Keys \cup {"none"},
                             since : Nat, value : Nat, ended : Nat]
          /\ worker'[w].pc = worker[w].pc /\ worker'[w].key = worker[w].key
          /\ worker'[w].since = worker[w].since
          /\ worker'[w].ended = worker[w].ended \/ worker'[w].ended = now
    BY <1>4 DEF Vault!Rotate
  <2>3. VaultType'
    BY <1>4, <2>1, <2>2 DEF Vault!Rotate
  <2> QED BY <1>4, <2>1, <2>2, <2>3 DEF Vault!Rotate
<1>5. ASSUME Vault!Tick PROVE VaultInv'
  BY <1>5 DEF Vault!Tick, Vault!Idle, Vault!Never
<1>6. CASE UNCHANGED Vault!vars
  BY Zenon, <1>6 DEF Vault!vars
<1> QED BY Zenon, <1>1, <1>2, <1>3, <1>4, <1>5, <1>6 DEF Vault!Next

\* A secret that Resolve hands out was current within the TTL and the time of one
\* request, although requests overlap and answers are stored out of order.
THEOREM SecretsAreCurrent ==
  ASSUME Durations
  PROVE  Vault!Spec => []Vault!StalenessBounded
<1>1. Vault!Init => VaultInv
  <2> SUFFICES ASSUME Vault!Init PROVE VaultInv
    BY Zenon
  <2> USE DEF Durations, Vault!Init, Vault!Empty, Vault!Idle, Vault!Never
  <2>1. VaultType
    BY DEF VaultType
  <2> QED BY <2>1 DEF VaultInv, CacheAge, FetchAge, Vault!StalenessBounded
<1>2. VaultInv /\ [Vault!Next]_Vault!vars => VaultInv'
  BY Zenon, VaultStep
<1>3. VaultInv => Vault!StalenessBounded
  BY Zenon DEF VaultInv
<1> QED BY <1>1, <1>2, <1>3, PTL DEF Vault!Spec

-----------------------------------------------------------------------------
(* The pool of MCP connections *)

Pool == INSTANCE MCPPool

Conns == [server : Servers, state : {"open", "dead", "closed"}]
PoolWorkers == [pc : {"idle", "join", "wait", "again", "connect", "store"},
                server : Servers \cup {"none"}, client : Nat]

PoolType ==
  /\ clients \in [Servers -> Nat] /\ conn \in Seq(Conns)
  /\ flight \in [Servers -> Workers \cup {"none"}]
  /\ worker \in [Workers -> PoolWorkers]
  /\ closer \in [pc : {"idle", "range", "delete"}, at : Servers \cup {"none"}, left : SUBSET Servers]

\* A client in the map is a connection to its server.
MapInv == \A s \in Servers : clients[s] # 0 => clients[s] \in 1 .. Len(conn) /\ conn[clients[s]].server = s

\* Who runs the singleflight call for a server is the one in flight; once it has
\* looked again, the map has no client for the server until it stores its own.
FlightInv ==
  \A w \in Workers :
    /\ worker[w].pc # "idle" => worker[w].server \in Servers
    /\ worker[w].pc \in {"again", "connect", "store"} => flight[worker[w].server] = w
    /\ worker[w].pc \in {"connect", "store"} => clients[worker[w].server] = 0
    /\ worker[w].pc = "store" => /\ worker[w].client \in 1 .. Len(conn)
                                 /\ conn[worker[w].client].server = worker[w].server

\* What Close is about to delete from the map it has closed.
CloserInv ==
  closer.pc = "delete" => /\ closer.at \in Servers /\ clients[closer.at] # 0
                          /\ conn[clients[closer.at]].state = "closed"

\* NothingLeaks, with its sets spelt out.
KeptInv ==
  \A i \in 1 .. Len(conn) : conn[i].state # "closed" =>
    \/ \E s \in Servers : clients[s] = i
    \/ \E w \in Workers : worker[w].pc = "store" /\ worker[w].client = i

PoolInv == PoolType /\ MapInv /\ FlightInv /\ CloserInv /\ KeptInv

\* One connection at most per server follows: it is the one in the map, or that of
\* the one worker in flight, and not both.
LEMMA PoolIsOne ==
  ASSUME "none" \notin Workers, PoolInv
  PROVE  Pool!OneConnection
<1> SUFFICES ASSUME NEW i \in 1 .. Len(conn), NEW j \in 1 .. Len(conn), conn[i].server = conn[j].server,
                    conn[i].state # "closed", conn[j].state # "closed"
             PROVE  i = j
  BY Zenon DEF Pool!OneConnection
<1> DEFINE s == conn[i].server
<1>1. ASSUME NEW k \in 1 .. Len(conn), conn[k].server = s, conn[k].state # "closed"
      PROVE  \/ k = clients[s] /\ \A w \in Workers : worker[w].pc = "store" => worker[w].server # s
             \/ \E w \in Workers : worker[w].pc = "store" /\ worker[w].server = s
                                   /\ worker[w].client = k /\ flight[s] = w /\ clients[s] = 0
  <2>1. CASE \E t \in Servers : k = clients[t]
    BY <1>1, <2>1 DEF PoolInv, PoolType, MapInv, FlightInv
  <2>2. CASE \E w \in Workers : worker[w].pc = "store" /\ worker[w].client = k
    BY <1>1, <2>2 DEF PoolInv, PoolType, MapInv, FlightInv
  <2> QED BY Zenon, <1>1, <2>1, <2>2 DEF PoolInv, KeptInv
<1> QED BY <1>1

\* Who lands leaves the flight with its passengers, and the rest as it was.
LEMMA Landed ==
  ASSUME PoolInv, NEW w \in Workers, worker[w].server \in Servers, NEW c \in Nat, Pool!Land(w, c)
  PROVE  /\ flight' \in [Servers -> Workers \cup {"none"}] /\ worker' \in [Workers -> PoolWorkers]
         /\ worker'[w].pc = "idle"
         /\ \A s \in Servers : s # worker[w].server => flight'[s] = flight[s]
         /\ \A v \in Workers : worker'[v].pc = "idle" \/ (v # w /\ worker'[v] = worker[v])
         /\ \A v \in Workers : worker[v].pc = "store" /\ v # w => worker'[v] = worker[v]
BY Zenon DEF Pool!Land, PoolInv, PoolType, PoolWorkers

\* A worker that moves on keeps its server and its client, and moves alone.
LEMMA Moved ==
  ASSUME PoolType, NEW w \in Workers, NEW l \in {"idle", "join", "wait", "again", "connect", "store"},
         Pool!Go(w, l)
  PROVE  /\ worker' \in [Workers -> PoolWorkers] /\ worker'[w].pc = l
         /\ worker'[w].server = worker[w].server /\ worker'[w].client = worker[w].client
         /\ \A v \in Workers : v # w => worker'[v] = worker[v]
<1>1. /\ worker'[w].pc = l /\ worker'[w].server = worker[w].server /\ worker'[w].client = worker[w].client
      /\ worker'[w] \in PoolWorkers /\ \A v \in Workers : v # w => worker'[v] = worker[v]
  BY Zenon DEF Pool!Go, PoolType, PoolWorkers
<1> QED BY Zenon, <1>1 DEF Pool!Go, PoolType

\* A connection that changes state keeps its server, and changes alone.
LEMMA Changed ==
  ASSUME PoolType, NEW i \in 1 .. Len(conn), NEW state \in {"open", "dead", "closed"},
         conn' = [conn EXCEPT ![i].state = state]
  PROVE  /\ conn' \in Seq(Conns) /\ Len(conn') = Len(conn)
         /\ conn'[i].state = state /\ conn'[i].server = conn[i].server
         /\ \A j \in 1 .. Len(conn) : j # i => conn'[j] = conn[j]
<1>1. conn \in Seq(Conns) /\ conn[i] \in Conns
  BY DEF PoolType
<1> DEFINE c == [conn[i] EXCEPT !.state = state]
<1>2. c \in Conns /\ c.state = state /\ c.server = conn[i].server
  BY Zenon, <1>1 DEF Conns
<1>3. conn' = [conn EXCEPT ![i] = c]
  BY Zenon
<1> HIDE DEF c
<1> QED BY <1>1, <1>2, <1>3

\* Every step of the workers, of Close and of the servers keeps the invariant.
LEMMA PoolStep == "none" \notin Workers /\ PoolInv /\ [Pool!Next]_Pool!vars => PoolInv'
<1> SUFFICES ASSUME "none" \notin Workers, PoolInv, [Pool!Next]_Pool!vars PROVE PoolInv'
  BY Zenon
<1> USE DEF PoolInv
<1>1. ASSUME NEW w \in Workers, NEW s \in Servers, Pool!Connect(w, s) PROVE PoolInv'
  <2>1. PoolType' /\ worker'[w].pc \in {"idle", "join"} /\ worker'[w].server = s
    BY Zenon, <1>1 DEF Pool!Connect, PoolType, PoolWorkers
  <2>2. worker[w].pc = "idle" /\ \A v \in Workers : v # w => worker'[v] = worker[v]
    BY Zenon, <1>1 DEF Pool!Connect, PoolType
  <2>3. MapInv' /\ CloserInv'
    BY Zenon, <1>1 DEF Pool!Connect, MapInv, CloserInv
  <2>4. FlightInv' /\ KeptInv'
    BY <1>1, <2>1, <2>2 DEF Pool!Connect, FlightInv, KeptInv
  <2> QED BY Zenon, <2>1, <2>3, <2>4
<1>2. ASSUME NEW w \in Workers, Pool!Join(w) PROVE PoolInv'
  <2> DEFINE s == worker[w].server
  <2>0. worker[w].pc = "join" /\ s \in Servers /\ UNCHANGED <<clients, conn, closer>>
    BY Zenon, <1>2 DEF Pool!Join, FlightInv
  <2>1. CASE flight[s] = "none" /\ flight' = [flight EXCEPT ![s] = w] /\ Pool!Go(w, "again")
    <3>1. PoolType'
      BY Zenon, <2>0, <2>1, Moved DEF PoolType
    <3>2. MapInv' /\ CloserInv' /\ KeptInv'
      BY <2>0, <2>1, Moved DEF MapInv, CloserInv, KeptInv
    <3>3. FlightInv'
      BY <2>0, <2>1, Moved DEF FlightInv, PoolType
    <3> QED BY Zenon, <3>1, <3>2, <3>3
  <2>2. CASE Pool!Go(w, "wait") /\ flight' = flight
    <3>1. PoolType'
      BY Zenon, <2>0, <2>2, Moved DEF PoolType
    <3>2. MapInv' /\ CloserInv' /\ KeptInv'
      BY <2>0, <2>2, Moved DEF MapInv, CloserInv, KeptInv
    <3>3. FlightInv'
      BY <2>0, <2>2, Moved DEF FlightInv
    <3> QED BY Zenon, <3>1, <3>2, <3>3
  <2> QED BY Zenon, <1>2, <2>1, <2>2 DEF Pool!Join
<1>3. ASSUME NEW w \in Workers, Pool!LookAgain(w) PROVE PoolInv'
  <2>0. worker[w].pc = "again" /\ worker[w].server \in Servers /\ UNCHANGED <<clients, conn, closer>>
    BY Zenon, <1>3 DEF Pool!LookAgain, FlightInv
  <2>1. CASE clients[worker[w].server] # 0
    <3>1. Pool!Land(w, clients[worker[w].server]) /\ clients[worker[w].server] \in Nat
      BY Zenon, <1>3, <2>0, <2>1 DEF Pool!LookAgain, PoolType
    <3>2. PoolType'
      BY Zenon, <2>0, <3>1, Landed DEF PoolType
    <3>3. MapInv' /\ CloserInv'
      BY Zenon, <2>0, <3>1 DEF MapInv, CloserInv
    <3>4. FlightInv'
      BY <2>0, <3>1, Landed DEF FlightInv, PoolType
    <3>5. KeptInv'
      BY <2>0, <3>1, Landed DEF KeptInv
    <3> QED BY Zenon, <3>2, <3>3, <3>4, <3>5
  <2>2. CASE clients[worker[w].server] = 0
    <3>1. Pool!Go(w, "connect") /\ flight' = flight
      BY Zenon, <1>3, <2>2 DEF Pool!LookAgain
    <3>2. PoolType'
      BY Zenon, <2>0, <3>1, Moved DEF PoolType
    <3>3. MapInv' /\ CloserInv' /\ KeptInv'
      BY <2>0, <3>1, Moved DEF MapInv, CloserInv, KeptInv
    <3>4. FlightInv'
      BY <2>0, <2>2, <3>1, Moved DEF FlightInv
    <3> QED BY Zenon, <3>2, <3>3, <3>4
  <2> QED BY Zenon, <2>1, <2>2
<1>4. ASSUME NEW w \in Workers, NEW fails \in BOOLEAN, Pool!Dial(w, fails) PROVE PoolInv'
  <2>0. worker[w].pc = "connect" /\ worker[w].server \in Servers /\ UNCHANGED <<clients, closer>>
    BY Zenon, <1>4 DEF Pool!Dial, FlightInv
  <2>1. CASE fails
    <3>1. Pool!Land(w, 0) /\ conn' = conn
      BY Zenon, <1>4, <2>1 DEF Pool!Dial
    <3>2. PoolType'
      BY Zenon, <2>0, <3>1, Landed DEF PoolType
    <3>3. MapInv' /\ CloserInv'
      BY Zenon, <2>0, <3>1 DEF MapInv, CloserInv
    <3>4. FlightInv'
      BY <2>0, <3>1, Landed DEF FlightInv, PoolType
    <3>5. KeptInv'
      BY <2>0, <3>1, Landed DEF KeptInv
    <3> QED BY Zenon, <3>2, <3>3, <3>4, <3>5
  <2>2. CASE ~fails
    <3> DEFINE c == [server |-> worker[w].server, state |-> "open"]
    <3>1. conn' = Append(conn, c) /\ flight' = flight
          /\ worker' = [worker EXCEPT ![w] =
               [pc |-> "store", server |-> worker[w].server, client |-> Len(conn) + 1]]
      BY Zenon, <1>4, <2>2 DEF Pool!Dial
    <3>2. c \in Conns /\ Len(conn) \in Nat
      BY <2>0 DEF Conns, PoolType
    <3>3. /\ Len(conn') = Len(conn) + 1 /\ conn'[Len(conn) + 1] = c /\ conn' \in Seq(Conns)
          /\ \A i \in 1 .. Len(conn) : conn'[i] = conn[i]
      BY <3>1, <3>2 DEF PoolType
    <3>4. /\ worker'[w].pc = "store" /\ worker'[w].client = Len(conn) + 1
          /\ worker'[w].server = worker[w].server /\ worker'[w] \in PoolWorkers
          /\ \A v \in Workers : v # w => worker'[v] = worker[v]
      BY <3>1, <3>2 DEF PoolType, PoolWorkers
    <3>5. PoolType'
      BY Zenon, <2>0, <3>1, <3>3, <3>4 DEF PoolType
    <3>6. MapInv'
      BY <2>0, <3>2, <3>3 DEF MapInv, PoolType
    <3>7. FlightInv'
      BY <2>0, <3>1, <3>2, <3>3, <3>4 DEF FlightInv, PoolType
    <3>8. CloserInv'
      BY Zenon, <2>0, <3>3 DEF CloserInv, MapInv
    <3>9. KeptInv'
      <4> SUFFICES ASSUME NEW i \in 1 .. Len(conn'), conn'[i].state # "closed"
                   PROVE  \/ \E s \in Servers : clients'[s] = i
                          \/ \E v \in Workers : worker'[v].pc = "store" /\ worker'[v].client = i
        BY Zenon DEF KeptInv
      <4>1. CASE i = Len(conn) + 1
        BY Zenon, <3>4, <4>1
      <4>2. CASE i \in 1 .. Len(conn)
        BY <2>0, <3>3, <3>4, <4>2 DEF KeptInv
      <4> QED BY <3>2, <3>3, <4>1, <4>2
    <3> QED BY Zenon, <3>5, <3>6, <3>7, <3>8, <3>9
  <2> QED BY Zenon, <2>1, <2>2
<1>5. ASSUME NEW w \in Workers, Pool!Store(w) PROVE PoolInv'
  <2>1. /\ worker[w].pc = "store" /\ worker[w].server \in Servers /\ worker[w].client \in Nat
        /\ flight[worker[w].server] = w /\ clients[worker[w].server] = 0
        /\ clients' = [clients EXCEPT ![worker[w].server] = worker[w].client]
        /\ Pool!Land(w, worker[w].client) /\ UNCHANGED <<conn, closer>>
    BY <1>5 DEF Pool!Store, FlightInv
  <2>2. PoolType'
    BY Zenon, <2>1, Landed DEF PoolType
  <2>3. MapInv'
    BY Zenon, <2>1 DEF PoolType, MapInv, FlightInv
  <2>4. FlightInv'
    BY <2>1, Landed DEF PoolType, FlightInv
  <2>5. CloserInv'
    BY Zenon, <2>1 DEF PoolType, CloserInv
  <2>6. KeptInv'
    <3> SUFFICES ASSUME NEW i \in 1 .. Len(conn), conn[i].state # "closed"
                 PROVE  \/ \E s \in Servers : clients'[s] = i
                        \/ \E v \in Workers : worker'[v].pc = "store" /\ worker'[v].client = i
      BY Zenon, <2>1 DEF KeptInv
    <3>1. CASE \E s \in Servers : clients[s] = i
      BY <2>1, <3>1 DEF PoolType
    <3>2. CASE \E v \in Workers : worker[v].pc = "store" /\ worker[v].client = i
      <4>1. PICK v \in Workers : worker[v].pc = "store" /\ worker[v].client = i
        BY Zenon, <3>2
      <4>2. CASE v = w
        BY Zenon, <2>1, <4>1, <4>2 DEF PoolType
      <4>3. CASE v # w
        BY <2>1, <4>1, <4>3, Landed
      <4> QED BY Zenon, <4>2, <4>3
    <3> QED BY Zenon, <3>1, <3>2 DEF KeptInv
  <2> QED BY Zenon, <2>2, <2>3, <2>4, <2>5, <2>6
<1>6. ASSUME NEW i \in 1 .. MaxConns, Pool!ContextEnds(i) PROVE PoolInv'
  <2>1. /\ i \in 1 .. Len(conn) /\ conn[i].state = "open" /\ UNCHANGED <<clients, flight, worker, closer>>
        /\ conn' = [conn EXCEPT ![i].state = "dead"]
    BY Zenon, <1>6 DEF Pool!ContextEnds
  <2>2. /\ conn' \in Seq(Conns) /\ Len(conn') = Len(conn)
        /\ \A j \in 1 .. Len(conn) : /\ conn'[j].server = conn[j].server
                                     /\ conn'[j].state = "closed" <=> conn[j].state = "closed"
    BY Zenon, <2>1, Changed
  <2>3. PoolType'
    BY Zenon, <2>1, <2>2 DEF PoolType
  <2>4. MapInv' /\ FlightInv'
    BY <2>1, <2>2 DEF MapInv, FlightInv
  <2>5. CloserInv' /\ KeptInv'
    BY <2>1, <2>2 DEF MapInv, CloserInv, KeptInv
  <2> QED BY Zenon, <2>3, <2>4, <2>5
<1>7. CASE Pool!Discover
  <2>1. UNCHANGED <<clients, conn, flight, worker, closer>>
    BY Zenon, <1>7 DEF Pool!Discover
  <2> QED BY <2>1 DEF PoolType, MapInv, FlightInv, CloserInv, KeptInv
<1>8. CASE Pool!CloseStart
  BY <1>8 DEF Pool!CloseStart, PoolType, MapInv, FlightInv, CloserInv, KeptInv
<1>9. ASSUME NEW s \in Servers, Pool!CloseOne(s) PROVE PoolInv'
  <2>0. closer.pc = "range" /\ UNCHANGED <<clients, flight, worker>>
    BY Zenon, <1>9 DEF Pool!CloseOne
  <2>1. CASE clients[s] = 0
    <3>1. closer' = [closer EXCEPT !.left = @ \ {s}] /\ conn' = conn
      BY Zenon, <1>9, <2>1 DEF Pool!CloseOne
    <3>2. PoolType'
      BY Zenon, <2>0, <3>1 DEF PoolType
    <3>3. MapInv' /\ FlightInv' /\ KeptInv'
      BY Zenon, <2>0, <3>1 DEF MapInv, FlightInv, KeptInv
    <3>4. CloserInv'
      BY Zenon, <2>0, <3>1 DEF CloserInv, PoolType
    <3> QED BY Zenon, <3>2, <3>3, <3>4
  <2>2. CASE clients[s] # 0
    <3>1. /\ conn' = [conn EXCEPT ![clients[s]].state = "closed"]
          /\ closer' = [pc |-> "delete", at |-> s, left |-> closer.left \ {s}]
      BY Zenon, <1>9, <2>2 DEF Pool!CloseOne
    <3>2. /\ conn' \in Seq(Conns) /\ Len(conn') = Len(conn) /\ conn'[clients[s]].state = "closed"
          /\ \A j \in 1 .. Len(conn) : /\ conn'[j].server = conn[j].server
                                       /\ conn'[j].state # "closed" => conn[j].state # "closed"
      BY ZenonT(30), <2>2, <3>1, Changed DEF MapInv
    <3>3. PoolType'
      BY Zenon, <2>0, <3>1, <3>2 DEF PoolType
    <3>4. MapInv' /\ FlightInv'
      BY <2>0, <3>2 DEF MapInv, FlightInv
    <3>5. CloserInv' /\ KeptInv'
      BY <2>0, <2>2, <3>1, <3>2 DEF CloserInv, KeptInv
    <3> QED BY Zenon, <3>3, <3>4, <3>5
  <2> QED BY Zenon, <2>1, <2>2
<1>10. CASE Pool!DeleteOne
  <2>1. /\ closer.at \in Servers /\ clients' = [clients EXCEPT ![closer.at] = 0]
        /\ closer' = [closer EXCEPT !.pc = "range"] /\ UNCHANGED <<conn, flight, worker>>
        /\ conn[clients[closer.at]].state = "closed"
    BY Zenon, <1>10 DEF Pool!DeleteOne, CloserInv
  <2>2. PoolType' /\ closer'.pc = "range"
    BY Zenon, <2>1 DEF PoolType
  <2>3. MapInv' /\ FlightInv'
    BY Zenon, <2>1 DEF PoolType, MapInv, FlightInv
  <2>4. CloserInv' /\ KeptInv'
    BY SMTT(30), <2>1, <2>2 DEF PoolType, CloserInv, KeptInv
  <2> QED BY Zenon, <2>2, <2>3, <2>4
<1>11. CASE Pool!CloseEnd
  <2>1. closer' = [closer EXCEPT !.pc = "idle"] /\ UNCHANGED <<clients, conn, flight, worker>>
    BY Zenon, <1>11 DEF Pool!CloseEnd
  <2>2. PoolType' /\ closer'.pc = "idle"
    BY Zenon, <2>1 DEF PoolType
  <2> QED BY <2>1, <2>2 DEF MapInv, FlightInv, CloserInv, KeptInv
<1>12. CASE UNCHANGED Pool!vars
  BY <1>12 DEF Pool!vars, PoolType, MapInv, FlightInv, CloserInv, KeptInv
<1> QED BY Zenon, <1>1, <1>2, <1>3, <1>4, <1>5, <1>6, <1>7, <1>8, <1>9, <1>10, <1>11, <1>12 DEF Pool!Next

\* A server has one connection at most that was not closed, and none that was not closed
\* is lost, whatever callers race and whatever Close does between their steps
\* (Pool.Connect, Close).
THEOREM PoolKeepsOne ==
  ASSUME "none" \notin Workers
  PROVE  Pool!Spec => [](Pool!OneConnection /\ Pool!NothingLeaks)
<1>1. Pool!Init => PoolInv
  BY DEF Pool!Init, PoolInv, PoolType, PoolWorkers, MapInv, FlightInv, CloserInv, KeptInv
<1>2. PoolInv /\ [Pool!Next]_Pool!vars => PoolInv'
  BY Zenon, PoolStep
<1>3. PoolInv => Pool!OneConnection /\ Pool!NothingLeaks
  BY Zenon, PoolIsOne DEF PoolInv, KeptInv, Pool!NothingLeaks, Pool!InPool, Pool!InHand
<1> QED BY <1>1, <1>2, <1>3, PTL DEF Pool!Spec

-----------------------------------------------------------------------------
(* The lock of the local backend: it excludes two processes from each other,  *)
(* whatever is killed on the way, as long as no critical section outlasts the *)
(* stale threshold.  (The run LockThree shows how three break it.)            *)

Lock == INSTANCE StateLock

\* What StateLock assumes of its constants.
LockConstants == /\ NoProc \notin Procs /\ NoFile \notin Inodes
                 /\ MayCrash \in BOOLEAN /\ MayAge \in BOOLEAN

\* Two processes at most, no critical section older than StaleThreshold, and an
\* inode for the path besides the one a process has open.
Pairwise == /\ \A p, q, r \in Procs : p = q \/ q = r \/ p = r
            /\ \E i, j \in Inodes : i # j
            /\ ~MayAge

\* A process that holds the lock or may still obtain it.
Contends(p) == pc[p] \in {"idle", "open", "flock", "inspect", "wait", "poll", "stamp", "cs"}

\* While a process may still compete, what the other one has open is the file at
\* the path: a path is removed only by who has finished, or when the other is dead.
PathInv == \A p, q \in Procs : p # q /\ fd[p] # NoFile /\ Contends(q) => path = fd[p]

\* The lock is broken only when the other process is dead.
BreakInv == \A p, q \in Procs : p # q /\ pc[p] = "break" => pc[q] = "dead"

\* A holder has the flock of the inode it has open.
FlockInv == \A p \in Procs : Lock!Holds(p) => owner[fd[p]] = p

\* No stamp is old.
YoungInv == \A i \in Inodes : ~info[i].aged

LockInv == Lock!TypeOK /\ PathInv /\ BreakInv /\ FlockInv /\ YoungInv /\ Lock!NoLeakedLock /\ Lock!MutualExclusion

\* A create finds an inode that neither the path nor a descriptor refers to.
LEMMA FreshInode ==
    ASSUME LockConstants, Pairwise, Lock!TypeOK, NEW p \in Procs, fd[p] = NoFile, path = NoFile
    PROVE  /\ (CHOOSE i \in Inodes : Lock!Unreferenced(i)) \in Inodes
           /\ Lock!Unreferenced(CHOOSE i \in Inodes : Lock!Unreferenced(i))
<1>1. \E i \in Inodes : Lock!Unreferenced(i)
  <2>1. PICK i \in Inodes, j \in Inodes : i # j
    BY Zenon DEF Pairwise
  <2>2. CASE \E q \in Procs : fd[q] = i
    <3>1. \A q \in Procs : fd[q] # j
      BY Zenon, <2>1, <2>2 DEF LockConstants, Pairwise
    <3> QED BY Zenon, <3>1 DEF LockConstants, Lock!Unreferenced
  <2>3. CASE ~\E q \in Procs : fd[q] = i
    BY Zenon, <2>3 DEF LockConstants, Lock!Unreferenced
  <2> QED BY Zenon, <2>2, <2>3
<1> QED BY Zenon, <1>1

\* Opening the lock file, as the first attempt or as a poll.
LEMMA OpenStep ==
    ASSUME LockConstants, Pairwise, LockInv, NEW p \in Procs, pc[p] \in {"open", "wait"},
           NEW l \in {"flock", "poll"}, Lock!OpenFile(p, l)
    PROVE  LockInv'
<1>a. fd[p] = NoFile
  BY Zenon DEF LockInv, Lock!TypeOK
<1>1. CASE path # NoFile
  <2>1. /\ fd' = [fd EXCEPT ![p] = path] /\ pc' = [pc EXCEPT ![p] = l]
        /\ UNCHANGED <<path, owner, info, expired>>
    BY Zenon, <1>1 DEF Lock!OpenFile, Lock!Goto
  <2>2. Lock!TypeOK'
    BY Zenon, <1>1, <2>1 DEF LockConstants, LockInv, Lock!TypeOK, Lock!PCs
  <2>3. PathInv'
    BY Zenon, <1>a, <2>1 DEF LockInv, Lock!TypeOK, PathInv, Contends
  <2>4. BreakInv' /\ YoungInv'
    BY Zenon, <2>1 DEF LockInv, Lock!TypeOK, BreakInv, YoungInv
  <2>5. FlockInv' /\ Lock!NoLeakedLock' /\ Lock!MutualExclusion'
    BY <2>1 DEF LockInv, Lock!TypeOK, FlockInv, Lock!NoLeakedLock, Lock!MutualExclusion, Lock!Holds
  <2> QED BY Zenon, <2>2, <2>3, <2>4, <2>5 DEF LockInv
<1>2. CASE path = NoFile
  <2> DEFINE i == CHOOSE i \in Inodes : Lock!Unreferenced(i)
  <2>0. i \in Inodes /\ i # NoFile /\ \A q \in Procs : fd[q] # i
    BY Zenon, <1>a, <1>2, FreshInode DEF LockConstants, LockInv, Lock!Unreferenced
  <2>1. /\ path' = i /\ fd' = [fd EXCEPT ![p] = i] /\ pc' = [pc EXCEPT ![p] = l]
        /\ owner' = [owner EXCEPT ![i] = NoProc] /\ info' = [info EXCEPT ![i] = Lock!NoInfo]
        /\ UNCHANGED expired
    BY Zenon, <1>2 DEF Lock!OpenFile, Lock!Goto
  <2> HIDE DEF i
  <2>2. Lock!TypeOK'
    BY Zenon, <2>0, <2>1 DEF LockConstants, LockInv, Lock!TypeOK, Lock!PCs, Lock!NoInfo
  <2>3. PathInv'
    BY <1>a, <1>2, <2>0, <2>1 DEF LockInv, Lock!TypeOK, PathInv, Contends
  <2>4. BreakInv' /\ YoungInv'
    BY Zenon, <2>0, <2>1 DEF LockInv, Lock!TypeOK, BreakInv, YoungInv, Lock!NoInfo
  <2>5. FlockInv' /\ Lock!NoLeakedLock' /\ Lock!MutualExclusion'
    BY <2>0, <2>1 DEF LockInv, Lock!TypeOK, FlockInv, Lock!NoLeakedLock, Lock!MutualExclusion, Lock!Holds
  <2> QED BY Zenon, <2>2, <2>3, <2>4, <2>5 DEF LockInv
<1> QED BY Zenon, <1>1, <1>2

\* The flock is obtained: had the other process the lock, both would have the file
\* at the path open, and with it the same flock.
LEMMA AcquireStep ==
    ASSUME LockConstants, LockInv, NEW p \in Procs, Lock!Acquire(p)
    PROVE  LockInv'
<1>1. /\ pc[p] \in {"flock", "poll"} /\ pc' = [pc EXCEPT ![p] = "stamp"] /\ owner[fd[p]] = NoProc
      /\ owner' = [owner EXCEPT ![fd[p]] = p] /\ UNCHANGED <<path, info, fd, expired>>
  BY Zenon DEF Lock!Acquire, Lock!Goto
<1>2. fd[p] \in Inodes /\ fd[p] # NoFile
  BY Zenon, <1>1 DEF LockInv, Lock!TypeOK
<1>3. \A q \in Procs : ~Lock!Holds(q)
  <2> SUFFICES ASSUME NEW q \in Procs, Lock!Holds(q) PROVE FALSE
    BY Zenon
  <2>1. p # q /\ Contends(p) /\ Contends(q) /\ fd[q] # NoFile
    BY Zenon, <1>1 DEF Lock!Holds, Contends, LockInv, Lock!TypeOK
  <2>2. fd[p] = fd[q]
    BY Zenon, <1>2, <2>1 DEF LockInv, PathInv
  <2> QED BY Zenon, <1>1, <2>2 DEF LockConstants, LockInv, FlockInv
<1>4. Lock!TypeOK'
  BY Zenon, <1>1, <1>2 DEF LockInv, Lock!TypeOK, Lock!PCs
<1>5. PathInv'
  BY <1>1 DEF LockInv, Lock!TypeOK, PathInv, Contends
<1>6. BreakInv' /\ YoungInv'
  BY Zenon, <1>1 DEF LockInv, Lock!TypeOK, BreakInv, YoungInv
<1>7. FlockInv' /\ Lock!NoLeakedLock' /\ Lock!MutualExclusion'
  BY <1>1, <1>2, <1>3 DEF LockInv, Lock!TypeOK, FlockInv, Lock!NoLeakedLock, Lock!MutualExclusion, Lock!Holds
<1> QED BY Zenon, <1>4, <1>5, <1>6, <1>7 DEF LockInv

\* The holder found stale is dead, and so is every other process.
LEMMA InspectStep ==
    ASSUME LockConstants, Pairwise, LockInv, NEW p \in Procs, Lock!Inspect(p)
    PROVE  LockInv'
<1>a. pc[p] = "inspect" /\ UNCHANGED <<path, owner, info, expired>>
  BY Zenon DEF Lock!Inspect
<1>1. CASE Lock!Stale(Lock!LockInfo) /\ Lock!Goto(p, "break") /\ UNCHANGED fd
  <2>1. \A q \in Procs : q # p => pc[q] = "dead"
    <3>1. Lock!LockInfo # Lock!NoInfo /\ ~Lock!LockInfo.aged /\ Lock!LockInfo \in [pid : Procs \cup {NoProc}, aged : BOOLEAN]
      BY Zenon, <1>1 DEF LockConstants, Lock!Stale, Lock!LockInfo, Lock!NoInfo, LockInv, Lock!TypeOK, YoungInv
    <3>2. Lock!LockInfo.pid \in Procs /\ pc[Lock!LockInfo.pid] = "dead"
      BY Zenon, <1>1, <3>1 DEF Lock!Stale, Lock!NoInfo
    <3> QED BY Zenon, <1>a, <3>2 DEF Pairwise
  <2>2. Lock!TypeOK'
    BY Zenon, <1>a, <1>1 DEF Lock!Goto, LockInv, Lock!TypeOK, Lock!PCs
  <2>3. PathInv' /\ BreakInv' /\ YoungInv'
    BY <1>a, <1>1, <2>1 DEF Lock!Goto, LockInv, Lock!TypeOK, PathInv, Contends, BreakInv, YoungInv
  <2>4. FlockInv' /\ Lock!NoLeakedLock' /\ Lock!MutualExclusion'
    BY <1>a, <1>1 DEF Lock!Goto, LockInv, Lock!TypeOK, FlockInv, Lock!NoLeakedLock, Lock!MutualExclusion, Lock!Holds
  <2> QED BY Zenon, <2>2, <2>3, <2>4 DEF LockInv
<1>2. CASE Lock!Goto(p, "wait") /\ Lock!Close(p)
  <2>1. Lock!TypeOK'
    BY Zenon, <1>a, <1>2 DEF Lock!Goto, Lock!Close, LockInv, Lock!TypeOK, Lock!PCs
  <2>2. PathInv' /\ BreakInv' /\ YoungInv'
    BY <1>a, <1>2 DEF Lock!Goto, Lock!Close, LockInv, Lock!TypeOK, PathInv, Contends, BreakInv, YoungInv
  <2>3. FlockInv' /\ Lock!NoLeakedLock' /\ Lock!MutualExclusion'
    BY <1>a, <1>2 DEF Lock!Goto, Lock!Close, LockInv, Lock!TypeOK, FlockInv, Lock!NoLeakedLock, Lock!MutualExclusion, Lock!Holds
  <2> QED BY Zenon, <2>1, <2>2, <2>3 DEF LockInv
<1> QED BY Zenon, <1>1, <1>2 DEF Lock!Inspect

\* Every step of a process, of the clock and of the kernel keeps the invariant.
LEMMA LockStep == LockConstants /\ Pairwise /\ LockInv /\ [Lock!Next]_Lock!vars => LockInv'
<1> SUFFICES ASSUME LockConstants, Pairwise, LockInv, [Lock!Next]_Lock!vars PROVE LockInv'
  BY Zenon
<1> USE DEF LockConstants, Lock!Goto, Lock!Close
<1>1. ASSUME NEW p \in Procs, Lock!Call(p) PROVE LockInv'
  BY <1>1 DEF Lock!Call, LockInv, Lock!TypeOK, Lock!PCs, PathInv, Contends, BreakInv, FlockInv, YoungInv,
              Lock!NoLeakedLock, Lock!MutualExclusion, Lock!Holds
<1>2. ASSUME NEW p \in Procs, Lock!Open(p) PROVE LockInv'
  BY Zenon, <1>2, OpenStep DEF Lock!Open
<1>3. ASSUME NEW p \in Procs, Lock!Acquire(p) PROVE LockInv'
  BY Zenon, <1>3, AcquireStep
<1>4. ASSUME NEW p \in Procs, Lock!FirstRefused(p) PROVE LockInv'
  BY <1>4 DEF Lock!FirstRefused, LockInv, Lock!TypeOK, Lock!PCs, PathInv, Contends, BreakInv, FlockInv, YoungInv,
              Lock!NoLeakedLock, Lock!MutualExclusion, Lock!Holds
<1>5. ASSUME NEW p \in Procs, Lock!Inspect(p) PROVE LockInv'
  BY Zenon, <1>5, InspectStep
<1>6. ASSUME NEW p \in Procs, Lock!Break(p) PROVE LockInv'
  <2>1. \A q \in Procs : q # p => pc[q] = "dead" /\ fd[q] = NoFile
    BY Zenon, <1>6 DEF Lock!Break, LockInv, BreakInv, Lock!TypeOK
  <2>2. Lock!TypeOK'
    BY Zenon, <1>6 DEF Lock!Break, LockInv, Lock!TypeOK, Lock!PCs
  <2>3. PathInv' /\ BreakInv' /\ YoungInv'
    BY <1>6, <2>1 DEF Lock!Break, LockInv, Lock!TypeOK, PathInv, Contends, BreakInv, YoungInv
  <2>4. FlockInv' /\ Lock!NoLeakedLock' /\ Lock!MutualExclusion'
    BY <1>6 DEF Lock!Break, LockInv, Lock!TypeOK, FlockInv, Lock!NoLeakedLock, Lock!MutualExclusion, Lock!Holds
  <2> QED BY Zenon, <2>2, <2>3, <2>4 DEF LockInv
<1>7. ASSUME NEW p \in Procs, Lock!Poll(p) PROVE LockInv'
  BY Zenon, <1>7, OpenStep DEF Lock!Poll
<1>8. ASSUME NEW p \in Procs, Lock!PollRefused(p) PROVE LockInv'
  BY <1>8 DEF Lock!PollRefused, LockInv, Lock!TypeOK, Lock!PCs, PathInv, Contends, BreakInv, FlockInv, YoungInv,
              Lock!NoLeakedLock, Lock!MutualExclusion, Lock!Holds
<1>9. ASSUME NEW p \in Procs, Lock!Timeout(p) \/ Lock!Exit(p) PROVE LockInv'
  BY <1>9 DEF Lock!Timeout, Lock!Exit, LockInv, Lock!TypeOK, Lock!PCs, PathInv, Contends, BreakInv, FlockInv, YoungInv,
              Lock!NoLeakedLock, Lock!MutualExclusion, Lock!Holds
<1>10. ASSUME NEW p \in Procs, Lock!Stamp(p) PROVE LockInv'
  <2>1. Lock!TypeOK'
    BY Zenon, <1>10 DEF Lock!Stamp, LockInv, Lock!TypeOK, Lock!PCs
  <2>2. PathInv' /\ BreakInv' /\ YoungInv'
    BY <1>10 DEF Lock!Stamp, LockInv, Lock!TypeOK, PathInv, Contends, BreakInv, YoungInv
  <2>3. FlockInv' /\ Lock!NoLeakedLock' /\ Lock!MutualExclusion'
    BY <1>10 DEF Lock!Stamp, LockInv, Lock!TypeOK, FlockInv, Lock!NoLeakedLock, Lock!MutualExclusion, Lock!Holds
  <2> QED BY Zenon, <2>1, <2>2, <2>3 DEF LockInv
<1>11. ASSUME NEW p \in Procs, Lock!Release(p) PROVE LockInv'
  <2>1. fd[p] \in Inodes /\ owner[fd[p]] = p
    BY <1>11 DEF Lock!Release, LockInv, Lock!TypeOK, FlockInv, Lock!Holds
  <2>2. Lock!TypeOK'
    BY Zenon, <1>11 DEF Lock!Release, LockInv, Lock!TypeOK, Lock!PCs
  <2>3. PathInv' /\ BreakInv' /\ YoungInv'
    BY Zenon, <1>11 DEF Lock!Release, LockInv, Lock!TypeOK, PathInv, Contends, BreakInv, YoungInv
  <2>4. FlockInv' /\ Lock!NoLeakedLock' /\ Lock!MutualExclusion'
    BY <1>11, <2>1 DEF Lock!Release, LockInv, Lock!TypeOK, FlockInv, Lock!NoLeakedLock, Lock!MutualExclusion, Lock!Holds
  <2> QED BY Zenon, <2>2, <2>3, <2>4 DEF LockInv
<1>12. ASSUME NEW p \in Procs, Lock!Remove(p) PROVE LockInv'
  <2>1. Lock!TypeOK'
    BY Zenon, <1>12 DEF Lock!Remove, LockInv, Lock!TypeOK, Lock!PCs
  <2>2. PathInv' /\ BreakInv' /\ YoungInv'
    BY <1>12 DEF Lock!Remove, Pairwise, LockInv, Lock!TypeOK, PathInv, Contends, BreakInv, YoungInv
  <2>3. FlockInv' /\ Lock!NoLeakedLock' /\ Lock!MutualExclusion'
    BY <1>12 DEF Lock!Remove, LockInv, Lock!TypeOK, FlockInv, Lock!NoLeakedLock, Lock!MutualExclusion, Lock!Holds
  <2> QED BY Zenon, <2>1, <2>2, <2>3 DEF LockInv
<1>13. ASSUME NEW p \in Procs, Lock!Crash(p) PROVE LockInv'
  <2>1. Lock!TypeOK'
    BY Zenon, <1>13 DEF Lock!Crash, LockInv, Lock!TypeOK, Lock!PCs
  <2>2. PathInv' /\ BreakInv' /\ YoungInv'
    BY <1>13 DEF Lock!Crash, LockInv, Lock!TypeOK, PathInv, Contends, BreakInv, YoungInv
  <2>3. FlockInv' /\ Lock!NoLeakedLock' /\ Lock!MutualExclusion'
    BY <1>13 DEF Lock!Crash, LockInv, Lock!TypeOK, FlockInv, Lock!NoLeakedLock, Lock!MutualExclusion, Lock!Holds
  <2> QED BY Zenon, <2>1, <2>2, <2>3 DEF LockInv
<1>14. ASSUME NEW p \in Procs, Lock!Expire(p) PROVE LockInv'
  BY <1>14 DEF Lock!Expire, LockInv, Lock!TypeOK, PathInv, Contends, BreakInv, FlockInv, YoungInv,
               Lock!NoLeakedLock, Lock!MutualExclusion, Lock!Holds
<1>15. ASSUME NEW p \in Procs, Lock!Age(p) PROVE LockInv'
  BY Zenon, <1>15 DEF Lock!Age, Pairwise
<1>16. CASE UNCHANGED Lock!vars
  BY <1>16 DEF Lock!vars, LockInv, Lock!TypeOK, PathInv, Contends, BreakInv, FlockInv, YoungInv,
               Lock!NoLeakedLock, Lock!MutualExclusion, Lock!Holds
<1> QED BY Zenon, <1>1, <1>2, <1>3, <1>4, <1>5, <1>6, <1>7, <1>8, <1>9, <1>10, <1>11, <1>12, <1>13,
           <1>14, <1>15, <1>16 DEF Lock!Next, Lock!Step, Lock!AllDead

\* No process has opened the file when they start.
LEMMA LockStarts == LockConstants /\ Lock!Init => LockInv
BY DEF LockConstants, Lock!Init, LockInv, Lock!TypeOK, Lock!PCs, Lock!NoInfo, PathInv, BreakInv, FlockInv, YoungInv,
                      Lock!NoLeakedLock, Lock!MutualExclusion, Lock!Holds

\* Two processes never hold the lock of the local backend together, though either may
\* be killed at any point and leave its lock file behind (LockWithContext, Unlock), and
\* a flock is held only by a process that has returned from Lock, or is about to.
THEOREM LockExcludes ==
    ASSUME LockConstants, Pairwise
    PROVE  Lock!Spec => [](Lock!MutualExclusion /\ Lock!NoLeakedLock)
<1>1. LockInv /\ [Lock!Next]_Lock!vars => LockInv'
  BY Zenon, LockStep
<1>2. LockInv => Lock!MutualExclusion /\ Lock!NoLeakedLock
  BY Zenon DEF LockInv
<1> QED BY LockStarts, <1>1, <1>2, PTL DEF Lock!Spec

-----------------------------------------------------------------------------
(* The throttle of authentication *)

CONSTANTS Clients, MaxFailures, Window, Block, EvictAfter, EvictSize
VARIABLES table, check, failed
Auth == INSTANCE AuthThrottle

\* The code's constants are ten failures in one minute, a block of five and an
\* eviction after ten; the proof needs only that an entry is evicted no sooner than
\* a block that began at the end of its window is over.
ThrottleConstants ==
  /\ MaxFailures \in Nat /\ Window \in Nat /\ Block \in Nat /\ EvictAfter \in Nat
  /\ Window + Block <= EvictAfter

Bucket == [failures : Nat, windowStart : Nat, blockedUntil : Nat]
Earned(f) == \E a, b \in DOMAIN f : b - a + 1 >= MaxFailures /\ f[b] - f[a] <= Window

\* The failures an entry e counts are the last ones of the history f, and all lie in
\* its window; a block was earned, and ends before the entry may be evicted.
BucketOK(e, f) ==
  /\ e.failures <= Len(f) /\ e.windowStart <= now
  /\ \A k \in DOMAIN f : k > Len(f) - e.failures => e.windowStart <= f[k] /\ f[k] <= e.windowStart + Window
  /\ e.blockedUntil # 0 => Earned(f)
  /\ e.blockedUntil <= e.windowStart + Window + Block

ThrottleInv ==
  /\ now \in Nat /\ failed \in [Clients -> Seq(Nat)]
  /\ DOMAIN table \subseteq Clients
  /\ \A c \in DOMAIN table : table[c] \in Bucket /\ BucketOK(table[c], failed[c])

\* The numbers of a bucket after a failure at time t: v failures so far in the window
\* that began at ws, blocked until bu.
Late(t, ws) == t - ws > Window
NextFailures(t, ws, v) == IF Late(t, ws) THEN 1 ELSE v + 1
NextStart(t, ws) == IF Late(t, ws) THEN t ELSE ws
NextBlock(t, ws, v, bu) == IF NextFailures(t, ws, v) >= MaxFailures THEN t + Block ELSE bu

\* What one more failure does to the numbers of a bucket.
LEMMA BucketNumbers ==
  ASSUME ThrottleConstants, NEW t \in Nat, NEW ws \in Nat, NEW v \in Nat, NEW bu \in Nat, NEW l \in Nat,
         v <= l, ws <= t, bu <= ws + Window + Block
  PROVE  LET n == NextFailures(t, ws, v)
             s == NextStart(t, ws)
             u == NextBlock(t, ws, v, bu)
         IN /\ n \in Nat /\ n >= 1 /\ n <= l + 1 /\ s \in Nat /\ s <= t /\ t <= s + Window
            /\ u \in Nat /\ u <= s + Window + Block
            /\ \A k \in 1 .. l : k > l + 1 - n => s = ws /\ k > l - v
  BY DEF ThrottleConstants, NextFailures, NextStart, NextBlock, Late

\* Failed is those numbers.
LEMMA BucketFailed ==
  ASSUME ThrottleConstants, NEW e \in Bucket, now \in Nat
  PROVE  /\ Auth!Failed(e) \in Bucket
         /\ Auth!Failed(e).failures = NextFailures(now, e.windowStart, e.failures)
         /\ Auth!Failed(e).windowStart = NextStart(now, e.windowStart)
         /\ Auth!Failed(e).blockedUntil = NextBlock(now, e.windowStart, e.failures, e.blockedUntil)
<1> DEFINE late == now - e.windowStart > Window
<1> DEFINE x == IF late THEN [e EXCEPT !.failures = 0, !.windowStart = now] ELSE e
<1> DEFINE y == [x EXCEPT !.failures = @ + 1]
<1> DEFINE z == IF y.failures >= MaxFailures THEN [y EXCEPT !.blockedUntil = now + Block] ELSE y
<1> DEFINE n == NextFailures(now, e.windowStart, e.failures)
<1>1. Auth!Failed(e) = z  BY Zenon DEF Auth!Failed
<1>2. /\ e.failures \in Nat /\ e.windowStart \in Nat /\ e.blockedUntil \in Nat /\ Block \in Nat
  BY Zenon DEF Bucket, ThrottleConstants
<1>3. /\ x \in Bucket /\ x.failures + 1 = n /\ x.windowStart = NextStart(now, e.windowStart)
      /\ x.blockedUntil = e.blockedUntil /\ x.failures \in Nat
  <2>1. CASE late
    <3>1. x = [e EXCEPT !.failures = 0, !.windowStart = now]  BY Zenon, <2>1
    <3>2. x \in Bucket /\ x.failures = 0 /\ x.windowStart = now /\ x.blockedUntil = e.blockedUntil
      BY Zenon, <3>1 DEF Bucket
    <3> HIDE DEF x
    <3>3. n = 1 /\ NextStart(now, e.windowStart) = now  BY Zenon, <2>1 DEF NextFailures, NextStart, Late
    <3> HIDE DEF n
    <3> QED  BY <3>2, <3>3
  <2>2. CASE ~late
    <3>1. x = e  BY Zenon, <2>2
    <3>2. n = e.failures + 1 /\ NextStart(now, e.windowStart) = e.windowStart
      BY Zenon, <2>2 DEF NextFailures, NextStart, Late
    <3> HIDE DEF x, n
    <3> QED  BY Zenon, <3>1, <3>2, <1>2
  <2> QED  BY Zenon, <2>1, <2>2
<1> HIDE DEF x
<1>4. y = [x EXCEPT !.failures = n]  BY Zenon, <1>3
<1>5. n \in Nat /\ now + Block \in Nat  BY <1>2, <1>3
<1> HIDE DEF y
<1>6. y \in Bucket /\ y.failures = n /\ y.windowStart = x.windowStart /\ y.blockedUntil = e.blockedUntil
  BY Zenon, <1>3, <1>4, <1>5 DEF Bucket
<1>7. CASE n >= MaxFailures
  <2>1. z = [y EXCEPT !.blockedUntil = now + Block]  BY Zenon, <1>6, <1>7
  <2>2. NextBlock(now, e.windowStart, e.failures, e.blockedUntil) = now + Block  BY Zenon, <1>7 DEF NextBlock
  <2> QED  BY Zenon, <2>1, <2>2, <1>1, <1>3, <1>5, <1>6 DEF Bucket
<1>8. CASE ~(n >= MaxFailures)
  <2>1. z = y  BY Zenon, <1>6, <1>8
  <2>2. NextBlock(now, e.windowStart, e.failures, e.blockedUntil) = e.blockedUntil  BY Zenon, <1>8 DEF NextBlock
  <2> QED  BY Zenon, <2>1, <2>2, <1>1, <1>3, <1>6
<1> QED  BY Zenon, <1>7, <1>8

\* A failure reported at this time keeps the bucket right, whether the window goes on
\* or restarts, and sets a block only when it is earned.
LEMMA BucketFails ==
  ASSUME ThrottleConstants, now \in Nat, NEW e \in Bucket, NEW f \in Seq(Nat), BucketOK(e, f)
  PROVE  Auth!Failed(e) \in Bucket /\ BucketOK(Auth!Failed(e), Append(f, now))
<1> DEFINE n == NextFailures(now, e.windowStart, e.failures)
<1> DEFINE s == NextStart(now, e.windowStart)
<1> DEFINE u == NextBlock(now, e.windowStart, e.failures, e.blockedUntil)
<1> DEFINE z == Auth!Failed(e)
<1> DEFINE g == Append(f, now)
<1> DEFINE l == Len(f)
<1>1. /\ e.failures \in Nat /\ e.windowStart \in Nat /\ e.blockedUntil \in Nat /\ l \in Nat
      /\ MaxFailures \in Nat /\ Window \in Nat
  BY DEF Bucket, ThrottleConstants
<1>2. /\ e.failures <= l /\ e.windowStart <= now /\ e.blockedUntil <= e.windowStart + Window + Block
      /\ e.blockedUntil # 0 => Earned(f)
      /\ \A k \in DOMAIN f : k > l - e.failures => e.windowStart <= f[k] /\ f[k] <= e.windowStart + Window
  BY Zenon DEF BucketOK
<1>3. z \in Bucket /\ z.failures = n /\ z.windowStart = s /\ z.blockedUntil = u  BY Zenon, BucketFailed
<1>4. /\ n \in Nat /\ n >= 1 /\ n <= l + 1 /\ s \in Nat /\ s <= now /\ now <= s + Window
      /\ u \in Nat /\ u <= s + Window + Block
      /\ \A k \in 1 .. l : k > l + 1 - n => s = e.windowStart /\ k > l - e.failures
  BY Zenon, <1>1, <1>2, BucketNumbers
<1>5. /\ g \in Seq(Nat) /\ Len(g) = l + 1 /\ g[l + 1] = now /\ DOMAIN f = 1 .. l /\ DOMAIN g = 1 .. (l + 1)
  OBVIOUS
<1>6. \A k \in 1 .. l : g[k] = f[k] /\ k \in 1 .. (l + 1)
  OBVIOUS
<1>7. \A k \in 1 .. (l + 1) : g[k] \in Nat  BY <1>5
<1>8. u # 0 => n >= MaxFailures \/ e.blockedUntil # 0  BY Zenon DEF NextBlock
<1> HIDE DEF g, l, n, s, u, z
<1>9. ASSUME NEW k \in 1 .. (l + 1), k > l + 1 - n PROVE s <= g[k] /\ g[k] <= s + Window
  <2>1. CASE k = l + 1  BY Zenon, <2>1, <1>5, <1>4
  <2>2. CASE k # l + 1
    <3>1. k \in 1 .. l  BY <2>2, <1>1
    <3> QED  BY Zenon, <3>1, <1>2, <1>4, <1>5, <1>6, <1>9
  <2> QED  BY Zenon, <2>1, <2>2
<1>10. u # 0 => Earned(g)
  <2>1. CASE n >= MaxFailures
    <3> DEFINE a == l + 1 - n + 1
    <3>1. /\ a \in 1 .. (l + 1) /\ a > l + 1 - n /\ (l + 1) - a + 1 >= MaxFailures /\ l + 1 > l + 1 - n
          /\ l + 1 \in 1 .. (l + 1)
      BY <2>1, <1>1, <1>4
    <3> HIDE DEF a
    <3>2. s <= g[a] /\ g[l + 1] <= s + Window /\ g[a] \in Nat /\ g[l + 1] \in Nat  BY Zenon, <3>1, <1>7, <1>9
    <3>4. g[l + 1] - g[a] <= Window  BY <3>2, <1>1, <1>4
    <3> QED  BY Zenon, <3>1, <3>4, <1>5 DEF Earned
  <2>2. CASE e.blockedUntil # 0
    <3>1. PICK a \in DOMAIN f, b \in DOMAIN f : b - a + 1 >= MaxFailures /\ f[b] - f[a] <= Window
      BY Zenon, <2>2, <1>2 DEF Earned
    <3>2. a \in DOMAIN g /\ b \in DOMAIN g /\ g[a] = f[a] /\ g[b] = f[b]  BY Zenon, <1>5, <1>6
    <3> QED  BY Zenon, <3>1, <3>2 DEF Earned
  <2> QED  BY Zenon, <2>1, <2>2, <1>8
<1>11. BucketOK(z, g)
  <2>1. z.failures <= Len(g) /\ z.windowStart <= now  BY Zenon, <1>3, <1>4, <1>5
  <2>2. ASSUME NEW k \in DOMAIN g, k > Len(g) - z.failures
        PROVE  z.windowStart <= g[k] /\ g[k] <= z.windowStart + Window
    <3>1. k \in 1 .. (l + 1) /\ k > l + 1 - n  BY <2>2, <1>1, <1>3, <1>4, <1>5
    <3> QED  BY Zenon, <3>1, <1>3, <1>9
  <2>3. (z.blockedUntil # 0 => Earned(g)) /\ z.blockedUntil <= z.windowStart + Window + Block
    BY Zenon, <1>3, <1>4, <1>10
  <2> QED  BY Zenon, <2>1, <2>2, <2>3 DEF BucketOK
<1> QED  BY Zenon, <1>3, <1>11 DEF g, z

\* An entry left alone stays right while the clock ticks.
LEMMA BucketWaits ==
  ASSUME ThrottleInv, NEW c \in DOMAIN table, now' \in Nat, now <= now'
  PROVE  BucketOK(table[c], failed[c]) /\ table[c] \in Bucket
         /\ \A e \in Bucket, f \in Seq(Nat) : BucketOK(e, f) => BucketOK(e, f)'
<1>1. BucketOK(table[c], failed[c]) /\ table[c] \in Bucket /\ now \in Nat  BY Zenon DEF ThrottleInv
<1>2. ASSUME NEW e \in Bucket, NEW f \in Seq(Nat), BucketOK(e, f) PROVE BucketOK(e, f)'
  <2>1. e.windowStart \in Nat /\ e.windowStart <= now  BY Zenon, <1>2 DEF Bucket, BucketOK
  <2>2. e.windowStart <= now'  BY <2>1, <1>1
  <2> QED  BY Zenon, <1>2, <2>2 DEF BucketOK
<1> QED  BY Zenon, <1>1, <1>2

\* A step that drops entries, or none, and with an entry perhaps its history.
LEMMA ThrottleDrops ==
  ASSUME ThrottleInv, now' \in Nat, now <= now', failed' \in [Clients -> Seq(Nat)],
         DOMAIN table' \subseteq DOMAIN table,
         \A d \in DOMAIN table' : table'[d] = table[d] /\ failed'[d] = failed[d]
  PROVE  ThrottleInv'
<1>1. ASSUME NEW d \in DOMAIN table' PROVE table'[d] \in Bucket /\ BucketOK(table[d], failed[d])'
  <2>1. d \in DOMAIN table /\ d \in Clients  BY Zenon DEF ThrottleInv
  <2>2. failed[d] \in Seq(Nat)  BY Zenon, <2>1 DEF ThrottleInv
  <2>3. PICK e \in Bucket, f \in Seq(Nat) : e = table[d] /\ f = failed[d] /\ BucketOK(e, f)'
    BY Zenon, <2>1, <2>2, BucketWaits
  <2> QED  BY Zenon, <2>3 DEF BucketOK
<1>2. DOMAIN table' \subseteq Clients  BY Zenon DEF ThrottleInv
<1> QED  BY Zenon, <1>1, <1>2 DEF ThrottleInv

OldBucket(c) ==
  IF c \in DOMAIN table THEN table[c] ELSE [failures |-> 0, windowStart |-> now, blockedUntil |-> 0]

\* AuthFailure: the entry of the address, if it is still there, has failed once more;
\* other entries are as they were; and only stale ones are gone.
LEMMA AuthFails ==
  ASSUME NEW w \in Workers, NEW c \in Clients, Auth!AuthFailure(w, c)
  PROVE  /\ DOMAIN table' \subseteq DOMAIN table \cup {c}
         /\ \A d \in DOMAIN table' : table'[d] = IF d = c THEN Auth!Failed(OldBucket(c)) ELSE table[d]
         /\ \A d \in DOMAIN table : d \notin DOMAIN table' => d = c \/ Auth!StaleEntry(table[d])
         /\ failed' = [failed EXCEPT ![c] = Append(@, now)] /\ now' = now
         /\ check[w] = {c} /\ check' = [check EXCEPT ![w] = {}]
<1> DEFINE e == OldBucket(c)
<1> DEFINE t == [d \in DOMAIN table \cup {c} |-> IF d = c THEN Auth!Failed(e) ELSE table[d]]
<1> DEFINE evict == Auth!Failed(e).failures < MaxFailures /\ Auth!Cardinality(DOMAIN t) > EvictSize
<1>1. /\ table' = [d \in {x \in DOMAIN t : evict => ~Auth!StaleEntry(t[x])} |-> t[d]]
      /\ failed' = [failed EXCEPT ![c] = Append(@, now)] /\ now' = now
      /\ check[w] = {c} /\ check' = [check EXCEPT ![w] = {}]
  BY Zenon DEF Auth!AuthFailure, OldBucket
<1>2. DOMAIN t = DOMAIN table \cup {c} /\ \A d \in DOMAIN t : t[d] = IF d = c THEN Auth!Failed(e) ELSE table[d]
  BY Zenon
<1> HIDE DEF t, e, evict
<1>3. /\ DOMAIN table' = {x \in DOMAIN t : evict => ~Auth!StaleEntry(t[x])}
      /\ \A d \in DOMAIN table' : table'[d] = t[d]
  BY Zenon, <1>1
<1>4. \A d \in DOMAIN table : d \notin DOMAIN table' => d = c \/ Auth!StaleEntry(table[d])
  BY Zenon, <1>2, <1>3
<1> QED  BY Zenon, <1>1, <1>2, <1>3, <1>4 DEF e

\* AuthFailure, with its eviction.
LEMMA ThrottleAuthFailure ==
  ASSUME ThrottleConstants, ThrottleInv, NEW w \in Workers, NEW c \in Clients, Auth!AuthFailure(w, c)
  PROVE  ThrottleInv'
<1>1. /\ now \in Nat /\ now' = now /\ failed \in [Clients -> Seq(Nat)] /\ DOMAIN table \subseteq Clients
      /\ failed' = [failed EXCEPT ![c] = Append(@, now)] /\ DOMAIN table' \subseteq DOMAIN table \cup {c}
      /\ \A d \in DOMAIN table' : table'[d] = IF d = c THEN Auth!Failed(OldBucket(c)) ELSE table[d]
  BY Zenon, AuthFails DEF ThrottleInv
<1>2. /\ failed' \in [Clients -> Seq(Nat)] /\ failed'[c] = Append(failed[c], now)
      /\ \A d \in Clients : d # c => failed'[d] = failed[d]
  <2>1. Append(failed[c], now) \in Seq(Nat)  BY <1>1
  <2> QED  BY Zenon, <2>1, <1>1
<1>3. OldBucket(c) \in Bucket /\ BucketOK(OldBucket(c), failed[c]) /\ failed[c] \in Seq(Nat)
  <2>0. failed[c] \in Seq(Nat)  BY Zenon, <1>1
  <2>1. CASE c \in DOMAIN table  BY Zenon, <2>0, <2>1 DEF OldBucket, ThrottleInv
  <2>2. CASE c \notin DOMAIN table
    <3> DEFINE e == [failures |-> 0, windowStart |-> now, blockedUntil |-> 0]
    <3>1. OldBucket(c) = e  BY Zenon, <2>2 DEF OldBucket
    <3>2. e \in Bucket /\ e.failures = 0 /\ e.windowStart = now /\ e.blockedUntil = 0  BY Zenon, <1>1 DEF Bucket
    <3> HIDE DEF e
    <3>3. Len(failed[c]) \in Nat /\ \A k \in DOMAIN failed[c] : k \in 1 .. Len(failed[c])  BY <2>0
    <3>4. BucketOK(e, failed[c])  BY <1>1, <3>2, <3>3 DEF BucketOK, ThrottleConstants
    <3> QED  BY Zenon, <2>0, <3>1, <3>2, <3>4
  <2> QED  BY Zenon, <2>1, <2>2
<1>4. ASSUME NEW d \in DOMAIN table' PROVE table'[d] \in Bucket /\ BucketOK(table[d], failed[d])'
  <2>1. CASE d = c
    <3>1. Auth!Failed(OldBucket(c)) \in Bucket /\ BucketOK(Auth!Failed(OldBucket(c)), Append(failed[c], now))
      BY Zenon, <1>1, <1>3, BucketFails
    <3> QED  BY Zenon, <2>1, <3>1, <1>1, <1>2 DEF BucketOK
  <2>2. CASE d # c
    <3>1. d \in DOMAIN table /\ d \in Clients /\ table'[d] = table[d] /\ failed'[d] = failed[d]
      BY Zenon, <2>2, <1>1, <1>2
    <3>2. table[d] \in Bucket /\ BucketOK(table[d], failed[d])  BY Zenon, <3>1 DEF ThrottleInv
    <3> QED  BY Zenon, <3>1, <3>2, <1>1 DEF BucketOK
  <2> QED  BY Zenon, <2>1, <2>2
<1>5. DOMAIN table' \subseteq Clients  BY Zenon, <1>1
<1> QED  BY Zenon, <1>1, <1>2, <1>4, <1>5 DEF ThrottleInv

\* Every step keeps the invariant of the throttle.
LEMMA ThrottleStep ==
  ASSUME ThrottleConstants, ThrottleInv, [Auth!Next]_Auth!vars
  PROVE  ThrottleInv'
<1>0. now \in Nat /\ failed \in [Clients -> Seq(Nat)]  BY Zenon DEF ThrottleInv
<1>1. ASSUME NEW c \in Clients PROVE [failed EXCEPT ![c] = <<>>] \in [Clients -> Seq(Nat)]
             /\ \A d \in Clients \ {c} : [failed EXCEPT ![c] = <<>>][d] = failed[d]
  BY <1>0
<1>2. ASSUME NEW w \in Workers, NEW c \in Clients, Auth!CheckBlock(w, c) PROVE ThrottleInv'
  <2>1. CASE c \in DOMAIN table /\ table[c].blockedUntil # 0
    <3>1. /\ table' = [d \in DOMAIN table \ {c} |-> table[d]] /\ failed' = [failed EXCEPT ![c] = <<>>]
          /\ now' = now
      BY Zenon, <1>2, <2>1 DEF Auth!CheckBlock
    <3>2. DOMAIN table' = DOMAIN table \ {c} /\ \A d \in DOMAIN table' : table'[d] = table[d]  BY Zenon, <3>1
    <3>3. DOMAIN table \subseteq Clients  BY Zenon DEF ThrottleInv
    <3>4. now <= now' /\ now' \in Nat  BY <3>1, <1>0
    <3> QED  BY Zenon, <3>1, <3>2, <3>3, <3>4, <1>1, ThrottleDrops
  <2>2. CASE ~(c \in DOMAIN table /\ table[c].blockedUntil # 0)
    <3>1. table' = table /\ failed' = failed /\ now' = now  BY Zenon, <1>2, <2>2 DEF Auth!CheckBlock
    <3> QED  BY Zenon, <3>1 DEF ThrottleInv, BucketOK
  <2> QED  BY Zenon, <2>1, <2>2
<1>3. ASSUME NEW w \in Workers, NEW c \in Clients, Auth!AuthSuccess(w, c) PROVE ThrottleInv'
  <2>1. /\ table' = [d \in DOMAIN table \ {c} |-> table[d]] /\ failed' = [failed EXCEPT ![c] = <<>>]
        /\ now' = now
    BY Zenon, <1>3 DEF Auth!AuthSuccess
  <2>2. DOMAIN table' = DOMAIN table \ {c} /\ \A d \in DOMAIN table' : table'[d] = table[d]  BY Zenon, <2>1
  <2>3. DOMAIN table \subseteq Clients  BY Zenon DEF ThrottleInv
  <2>4. now <= now' /\ now' \in Nat  BY <2>1, <1>0
  <2> QED  BY Zenon, <2>1, <2>2, <2>3, <2>4, <1>1, ThrottleDrops
<1>4. CASE Auth!Pass
  <2>1. now' = now + 1 /\ table' = table /\ failed' = failed  BY Zenon, <1>4 DEF Auth!Pass
  <2>2. now <= now' /\ now' \in Nat  BY <2>1, <1>0
  <2> QED  BY Zenon, <2>1, <2>2, <1>0, ThrottleDrops
<1>5. CASE UNCHANGED Auth!vars
  <2>1. now' = now /\ table' = table /\ failed' = failed  BY Zenon, <1>5 DEF Auth!vars
  <2> QED  BY Zenon, <2>1 DEF ThrottleInv, BucketOK
<1> QED  BY Zenon, <1>2, <1>3, <1>4, <1>5, ThrottleAuthFailure DEF Auth!Next

\* No step but one of a request that was let in lifts a block.
LEMMA ThrottleLifts ==
  ASSUME ThrottleConstants, ThrottleInv, check \in [Workers -> SUBSET Clients],
         [Auth!Next]_Auth!vars
  PROVE  Auth!UnblocksOnSuccess
<1> SUFFICES ASSUME NEW c \in Clients, Auth!Blocked(c), c \notin DOMAIN table'
             PROVE  \E w \in Workers : check[w] = {c} /\ check'[w] = {}
  BY Zenon DEF Auth!UnblocksOnSuccess
<1>1. c \in DOMAIN table /\ now < table[c].blockedUntil  BY Zenon DEF Auth!Blocked
<1>2. ASSUME NEW w \in Workers, NEW d \in Clients, Auth!CheckBlock(w, d) PROVE FALSE
  <2>1. d # c  BY Zenon, <1>2 DEF Auth!CheckBlock
  <2>2. table' = [x \in DOMAIN table \ {d} |-> table[x]] \/ table' = table
    BY Zenon, <1>2 DEF Auth!CheckBlock
  <2> QED  BY Zenon, <1>1, <2>1, <2>2
<1>3. ASSUME NEW w \in Workers, NEW d \in Clients, Auth!AuthFailure(w, d)
      PROVE  check[w] = {c} /\ check'[w] = {}
  <2>1. d = c \/ Auth!StaleEntry(table[c])  BY Zenon, <1>1, <1>3, AuthFails
  <2>2. ~Auth!StaleEntry(table[c])
    <3>1. table[c] \in Bucket /\ BucketOK(table[c], failed[c]) /\ now \in Nat  BY Zenon, <1>1 DEF ThrottleInv
    <3>2. table[c].blockedUntil \in Nat /\ table[c].windowStart \in Nat  BY Zenon, <3>1 DEF Bucket
    <3>3. table[c].blockedUntil <= table[c].windowStart + Window + Block  BY Zenon, <3>1 DEF BucketOK
    <3> QED  BY <1>1, <3>1, <3>2, <3>3 DEF Auth!StaleEntry, ThrottleConstants
  <2>3. check[w] = {d} /\ check' = [check EXCEPT ![w] = {}]  BY Zenon, <1>3 DEF Auth!AuthFailure
  <2> QED  BY Zenon, <2>1, <2>2, <2>3
<1>4. ASSUME NEW w \in Workers, NEW d \in Clients, Auth!AuthSuccess(w, d)
      PROVE  check[w] = {c} /\ check'[w] = {}
  <2>1. /\ table' = [x \in DOMAIN table \ {d} |-> table[x]] /\ check[w] = {d}
        /\ check' = [check EXCEPT ![w] = {}]
    BY Zenon, <1>4 DEF Auth!AuthSuccess
  <2> QED  BY Zenon, <1>1, <2>1
<1>5. CASE Auth!Pass  BY Zenon, <1>1, <1>5 DEF Auth!Pass
<1>6. CASE UNCHANGED Auth!vars  BY Zenon, <1>1, <1>6 DEF Auth!vars
<1> QED  BY Zenon, <1>2, <1>3, <1>4, <1>5, <1>6 DEF Auth!Next

\* The throttle of authentication: an address is blocked only by MaxFailures failures
\* within one window, and nothing but the success of a request let in before lifts
\* the block before its time.
THEOREM ThrottleIsFair ==
  ASSUME ThrottleConstants
  PROVE  Auth!Spec => []Auth!BlockIsEarned /\ [][Auth!UnblocksOnSuccess]_Auth!vars
<1> DEFINE Inv == ThrottleInv /\ check \in [Workers -> SUBSET Clients]
<1>1. Auth!Init => Inv
  <2>1. DOMAIN <<>> = {} /\ 1 \in Nat /\ <<>> \in Seq(Nat)  OBVIOUS
  <2> QED  BY Zenon, <2>1 DEF Auth!Init, ThrottleInv
<1>2. Inv /\ [Auth!Next]_Auth!vars => Inv'
  <2> SUFFICES ASSUME Inv, [Auth!Next]_Auth!vars PROVE check' \in [Workers -> SUBSET Clients]
    BY Zenon, ThrottleStep
  <2> QED  BY Zenon DEF Auth!Next, Auth!vars, Auth!CheckBlock, Auth!AuthFailure, Auth!AuthSuccess, Auth!Pass
<1>3. Inv => Auth!BlockIsEarned
  <2> SUFFICES ASSUME Inv, NEW c \in Clients, Auth!Blocked(c) PROVE Earned(failed[c])
    BY Zenon DEF Auth!BlockIsEarned, Earned
  <2>1. now \in Nat /\ table[c].blockedUntil \in Nat /\ now < table[c].blockedUntil
        /\ BucketOK(table[c], failed[c])
    BY Zenon DEF ThrottleInv, Bucket, Auth!Blocked
  <2>2. table[c].blockedUntil # 0  BY <2>1
  <2> QED  BY Zenon, <2>1, <2>2 DEF BucketOK
<1>4. Inv /\ [Auth!Next]_Auth!vars => [Auth!UnblocksOnSuccess]_Auth!vars
  BY Zenon, ThrottleLifts
<1> QED  BY <1>1, <1>2, <1>3, <1>4, PTL DEF Auth!Spec

-----------------------------------------------------------------------------
(* The development server *)

CONSTANTS MaxEdits, MaxRotations
VARIABLES disk, loop, rt, rts, port, pending, armed, tls, tlsEvent, early, missed
Dev == INSTANCE DevServer

Rounds == MaxEdits \in Nat /\ MaxRotations \in Nat
Runtimes == [ver : 0 .. MaxEdits, st : Dev!Phases, held : 0 .. MaxRotations, cert : 0 .. MaxRotations]

\* The port belongs to the one runtime that listens.
PortInv == \A i \in DOMAIN rts : rts[i].st = "listening" <=> port = i

\* Between the two halves of a reload the loop has no runtime, and the one it has
\* was not shut down; every other one is at its end.
LoopInv ==
  /\ loop \in {"start", "restart"} => rt = 0
  /\ rt # 0 => rts[rt].st # "stopped"
  /\ ~early => \A i \in DOMAIN rts : i # rt => rts[i].st \in {"stopped", "failed"}

\* The loop's runtime was made from the files on disk.
InStep == /\ disk.valid <=> rt # 0
          /\ rt # 0 => rts[rt].ver = disk.ver

\* Files that changed since are known to the watcher or to the timer.
FilesInv == loop \in {"watch", "wait"} /\ ~pending /\ ~armed /\ ~missed => InStep

\* A certificate replaced after the loop's runtime read it is announced.
CertInv ==
  ~tlsEvent /\ ~early /\ ~missed /\ tls.cert = tls.key /\ rt # 0 =>
    /\ rts[rt].st = "storing" => rts[rt].held = tls.cert
    /\ rts[rt].st \in {"binding", "listening"} => rts[rt].cert = tls.cert

DevInv == Dev!TypeOK /\ PortInv /\ LoopInv /\ FilesInv /\ CertInv

\* What TypeOK says of the runtimes.
LEMMA DevTypes ==
  ASSUME Dev!TypeOK
  PROVE  /\ rts \in Seq(Runtimes) /\ rt \in 0 .. Len(rts) /\ port \in 0 .. Len(rts)
         /\ DOMAIN rts = 1 .. Len(rts) /\ Len(rts) \in Nat
         /\ \A i \in DOMAIN rts : rts[i] \in Runtimes /\ rts[i].st \in Dev!Phases
         /\ tls.cert \in 0 .. MaxRotations /\ tls.key \in 0 .. MaxRotations
<1>1. rts \in Seq(Runtimes) /\ rt \in 0 .. Len(rts) /\ port \in 0 .. Len(rts)
  BY Zenon DEF Dev!TypeOK, Runtimes
<1>2. DOMAIN rts = 1 .. Len(rts) /\ Len(rts) \in Nat /\ \A i \in DOMAIN rts : rts[i] \in Runtimes
  BY <1>1
<1>3. tls.cert \in 0 .. MaxRotations /\ tls.key \in 0 .. MaxRotations
  BY Zenon DEF Dev!TypeOK
<1> QED BY <1>1, <1>2, <1>3 DEF Runtimes

\* Starting a runtime, the first one or the next, when the loop has none.
LEMMA LaunchStep ==
  ASSUME Rounds, DevInv, Dev!FirstStart \/ Dev!Restart
  PROVE  DevInv'
<1> USE DevTypes DEF DevInv
<1>1. rt = 0 /\ UNCHANGED <<disk, port, pending, armed, tls, tlsEvent, early, missed>>
  BY Zenon DEF Dev!FirstStart, Dev!Restart, Dev!tlsVars, LoopInv
<1> DEFINE new == [ver |-> disk.ver, st |-> "connecting", held |-> 0, cert |-> 0]
<1>2. new \in Runtimes /\ new.st = "connecting" /\ new.ver = disk.ver
  BY DEF Rounds, Runtimes, Dev!TypeOK, Dev!Phases
<1>3. \/ disk.valid /\ rts' = Append(rts, new) /\ rt' = Len(rts) + 1
      \/ ~disk.valid /\ rts' = rts /\ rt' = 0
  BY Zenon DEF Dev!FirstStart, Dev!Restart, Dev!Launch
<1>4. loop' \in {"watch", "wait", "exit"} /\ (loop' = "watch" => disk.valid)
  BY Zenon DEF Dev!FirstStart, Dev!Restart, Dev!Launch
<1> HIDE DEF new
<1>5. CASE rts' = Append(rts, new) /\ disk.valid /\ rt' = Len(rts) + 1
  <2>1. /\ rts' \in Seq(Runtimes) /\ Len(rts') = Len(rts) + 1
        /\ DOMAIN rts' = DOMAIN rts \cup {Len(rts) + 1}
        /\ rts'[Len(rts) + 1] = new /\ \A i \in DOMAIN rts : rts'[i] = rts[i] /\ i # Len(rts) + 1
    BY <1>2, <1>5
  <2>2. Dev!TypeOK'
    BY <1>1, <1>4, <1>5, <2>1 DEF Dev!TypeOK, Runtimes
  <2>3. PortInv'
    BY <1>1, <1>2, <2>1 DEF PortInv
  <2>4. LoopInv'
    BY <1>1, <1>2, <1>4, <1>5, <2>1 DEF LoopInv
  <2>5. FilesInv' /\ CertInv'
    BY <1>1, <1>2, <1>5, <2>1 DEF FilesInv, InStep, CertInv
  <2> QED BY Zenon, <2>2, <2>3, <2>4, <2>5
<1>6. CASE rts' = rts /\ ~disk.valid /\ rt' = 0
  BY Zenon, <1>1, <1>4, <1>6 DEF Dev!TypeOK, Runtimes, PortInv, LoopInv, FilesInv, InStep, CertInv
<1> QED BY <1>3, <1>5, <1>6

\* The loop's own moves: watching, the events and the timer.
LEMMA WatchStep ==
  ASSUME DevInv, Dev!AddWatch \/ Dev!OnEvent \/ Dev!OnDebounce
  PROVE  DevInv'
<1>1. UNCHANGED <<disk, rt, rts, port, early, missed, tls, tlsEvent>>
  BY Zenon DEF Dev!AddWatch, Dev!OnEvent, Dev!OnDebounce, Dev!tlsVars
<1>2. /\ loop' \in {"wait", "shutdown"}
      /\ loop' = "wait" /\ ~pending' /\ ~armed' => loop \in {"watch", "wait"} /\ ~pending /\ ~armed
  BY DEF Dev!AddWatch, Dev!OnEvent, Dev!OnDebounce
<1>3. Dev!TypeOK'
  BY Zenon, <1>1, <1>2 DEF DevInv, Dev!TypeOK, Dev!AddWatch, Dev!OnEvent, Dev!OnDebounce
<1>4. PortInv' /\ LoopInv' /\ CertInv'
  BY Zenon, <1>1, <1>2 DEF DevInv, PortInv, LoopInv, CertInv
<1>5. FilesInv'
  BY Zenon, <1>1, <1>2 DEF DevInv, FilesInv, InStep
<1> QED BY Zenon, <1>3, <1>4, <1>5 DEF DevInv

\* A shutdown of the loop's runtime, which the loop then forgets.
LEMMA StopStep ==
  ASSUME DevInv, Dev!StopOld \/ Dev!Interrupt
  PROVE  DevInv'
<1> USE DevTypes DEF DevInv
<1>1. rt' = 0 /\ loop' \in {"restart", "exit"} /\ UNCHANGED <<disk, pending, armed, missed, tls, tlsEvent>>
  BY Zenon DEF Dev!StopOld, Dev!Interrupt, Dev!tlsVars
<1>2. Dev!ShutDown(rt)
  BY Zenon DEF Dev!StopOld, Dev!Interrupt
<1>3. CASE rt = 0
  <2>1. UNCHANGED <<rts, port, early>>
    BY Zenon, <1>2, <1>3 DEF Dev!ShutDown
  <2> QED BY Zenon, <1>1, <1>3, <2>1 DEF Dev!TypeOK, PortInv, LoopInv, FilesInv, CertInv
<1>4. CASE rt # 0
  <2>1. /\ rts' = IF rts[rt].st \in Dev!Created THEN [rts EXCEPT ![rt].st = "stopped"] ELSE rts
        /\ port' = IF port = rt THEN 0 ELSE port
        /\ early' = (early \/ rts[rt].st = "connecting")
    BY Zenon, <1>2, <1>4 DEF Dev!ShutDown
  <2>2. rt \in DOMAIN rts
    BY <1>4
  <2> DEFINE r == IF rts[rt].st \in Dev!Created THEN [rts[rt] EXCEPT !.st = "stopped"] ELSE rts[rt]
  <2>a. r \in Runtimes /\ r.st = IF rts[rt].st \in Dev!Created THEN "stopped" ELSE rts[rt].st
    <3>1. [rts[rt] EXCEPT !.st = "stopped"] \in Runtimes /\ [rts[rt] EXCEPT !.st = "stopped"].st = "stopped"
      BY Zenon, <2>2 DEF Runtimes, Dev!Phases
    <3> QED BY <2>2, <3>1, Zenon
  <2>b. rts' = [rts EXCEPT ![rt] = r]
    <3>1. CASE rts[rt].st \in Dev!Created
      BY Zenon, <2>1, <3>1
    <3>2. CASE rts[rt].st \notin Dev!Created
      <4>1. rts' = rts /\ r = rts[rt]
        BY Zenon, <2>1, <3>2
      <4> HIDE DEF r
      <4>2. rts = [rts EXCEPT ![rt] = rts[rt]]
        BY <2>2
      <4> QED BY Zenon, <4>1, <4>2
    <3> QED BY Zenon, <3>1, <3>2
  <2> HIDE DEF r
  <2>3. /\ rts' \in Seq(Runtimes) /\ Len(rts') = Len(rts) /\ DOMAIN rts' = DOMAIN rts
        /\ \A i \in DOMAIN rts : i # rt => rts'[i] = rts[i]
        /\ rts'[rt].st = IF rts[rt].st \in Dev!Created THEN "stopped" ELSE rts[rt].st
    BY <2>2, <2>a, <2>b
  <2>4. Dev!TypeOK'
    BY <1>1, <2>1, <2>3 DEF Dev!TypeOK, Runtimes
  <2>5. PortInv'
    BY <2>1, <2>2, <2>3 DEF PortInv, Dev!Created
  <2>6. LoopInv'
    BY <1>1, <2>1, <2>2, <2>3 DEF LoopInv, Dev!Created, Dev!Phases
  <2> QED BY <1>1, <2>4, <2>5, <2>6 DEF FilesInv, CertInv
<1> QED BY Zenon, <1>3, <1>4

\* The goroutine of runtime i moves on.
LEMMA RuntimeStep ==
  ASSUME DevInv, NEW i \in DOMAIN rts, Dev!Start(i)
  PROVE  DevInv'
<1> USE DevTypes DEF DevInv
<1>1. UNCHANGED <<disk, loop, rt, pending, armed, early, missed, tls, tlsEvent>>
  BY Zenon DEF Dev!Start, Dev!Connect, Dev!LoadCert, Dev!StoreCert, Dev!Bind, Dev!tlsVars
<1> DEFINE Becomes(r) == /\ rts' = [rts EXCEPT ![i] = r] /\ r \in Runtimes /\ r.ver = rts[i].ver
                         /\ rts[i].st \in {"connecting", "loading", "storing", "binding"} /\ r.st # "stopped"
<1>2. ASSUME NEW r, Becomes(r), r.st = "listening" <=> port' = i, \A j \in DOMAIN rts : j # i => (port' = j <=> port = j),
             port' \in 0 .. Len(rts),
             tls.cert = tls.key /\ r.st = "storing" => r.held = tls.cert,
             r.st \in {"binding", "listening"} => \/ rts[i].st = "storing" /\ r.cert = rts[i].held
                                                  \/ rts[i].st = "binding" /\ r.cert = rts[i].cert
      PROVE  DevInv'
  <2>1. /\ rts' \in Seq(Runtimes) /\ Len(rts') = Len(rts) /\ DOMAIN rts' = DOMAIN rts /\ rts'[i] = r
        /\ \A j \in DOMAIN rts : j # i => rts'[j] = rts[j]
    BY <1>2
  <2>2. Dev!TypeOK'
    BY <1>1, <1>2, <2>1 DEF Dev!TypeOK, Runtimes
  <2>3. PortInv'
    BY Zenon, <1>2, <2>1 DEF PortInv
  <2>4. LoopInv'
    BY <1>1, <1>2, <2>1 DEF LoopInv
  <2>5. FilesInv'
    BY <1>1, <1>2, <2>1 DEF FilesInv, InStep
  <2>6. CertInv'
    BY <1>1, <1>2, <2>1 DEF CertInv
  <2> QED BY <2>2, <2>3, <2>4, <2>5, <2>6
<1> HIDE DEF Becomes
<1>3. ASSUME Dev!Connect(i), NEW st \in {"loading", "failed"}, rts' = [rts EXCEPT ![i].st = st] PROVE DevInv'
  <2> DEFINE r == [rts[i] EXCEPT !.st = st]
  <2>1. Becomes(r) /\ r.st = st
    BY <1>3 DEF Becomes, Dev!Connect, Runtimes, Dev!Phases, Dev!Created
  <2>2. port' = port /\ port # i
    BY Zenon, <1>3 DEF Dev!Connect, PortInv
  <2> HIDE DEF r
  <2> QED BY Zenon, <1>2, <2>1, <2>2
<1>4. ASSUME Dev!LoadCert(i) PROVE DevInv'
  <2> DEFINE r == IF tls.cert = tls.key THEN [rts[i] EXCEPT !.st = "storing", !.held = tls.cert]
                                        ELSE [rts[i] EXCEPT !.st = "failed"]
  <2>1. Becomes(r)
    BY Zenon, <1>4 DEF Becomes, Dev!LoadCert, Runtimes, Dev!Phases, Dev!Created
  <2>2. r.st \in {"storing", "failed"} /\ (tls.cert = tls.key /\ r.st = "storing" => r.held = tls.cert)
    BY Zenon DEF Runtimes
  <2>3. port' = port /\ port # i
    BY Zenon, <1>4 DEF Dev!LoadCert, PortInv
  <2> HIDE DEF r
  <2> QED BY <1>2, <2>1, <2>2, <2>3
<1>5. ASSUME Dev!StoreCert(i) PROVE DevInv'
  <2> DEFINE r == [rts[i] EXCEPT !.st = "binding", !.cert = rts[i].held]
  <2>1. Becomes(r)
    BY Zenon, <1>5 DEF Becomes, Dev!StoreCert, Runtimes, Dev!Phases, Dev!Created
  <2>2. r.st = "binding" /\ rts[i].st = "storing" /\ r.cert = rts[i].held
    BY Zenon, <1>5 DEF Runtimes, Dev!StoreCert
  <2>3. port' = port /\ port # i
    BY Zenon, <1>5 DEF Dev!StoreCert, PortInv
  <2> HIDE DEF r
  <2> QED BY <1>2, <2>1, <2>2, <2>3
<1>6. ASSUME Dev!Bind(i) PROVE DevInv'
  <2> DEFINE r(st) == [rts[i] EXCEPT !.st = st]
  <2>1. CASE port = 0 /\ port' = i /\ rts' = [rts EXCEPT ![i].st = "listening"]
    <3>1. Becomes(r("listening"))
      BY Zenon, <1>6, <2>1 DEF Becomes, Dev!Bind, Runtimes, Dev!Phases, Dev!Created
    <3>2. r("listening").st = "listening" /\ rts[i].st = "binding" /\ r("listening").cert = rts[i].cert
      BY Zenon, <1>6 DEF Runtimes, Dev!Bind
    <3> HIDE DEF r
    <3> QED BY <1>2, <2>1, <3>1, <3>2
  <2>2. CASE port # 0 /\ port' = port /\ rts' = [rts EXCEPT ![i].st = "failed"]
    <3>1. Becomes(r("failed")) /\ r("failed").st = "failed"
      BY Zenon, <1>6, <2>2 DEF Becomes, Dev!Bind, Runtimes, Dev!Phases, Dev!Created
    <3>2. port # i
      BY Zenon, <1>6 DEF Dev!Bind, PortInv
    <3> HIDE DEF r
    <3> QED BY <1>2, <2>2, <3>1, <3>2
  <2> QED BY <1>6, <2>1, <2>2 DEF Dev!Bind
<1>7. ASSUME Dev!Connect(i) PROVE DevInv'
  BY Zenon, <1>3, <1>7 DEF Dev!Connect
<1> QED BY <1>4, <1>5, <1>6, <1>7 DEF Dev!Start

\* A change of the files, or of the certificate, is noticed or comes too early.
LEMMA EditStep ==
  ASSUME Rounds, DevInv, Dev!Edit \/ Dev!Rotate
  PROVE  DevInv'
<1> USE DevTypes DEF DevInv
<1>1. UNCHANGED <<loop, rt, rts, port, armed, early>>
  BY Zenon DEF Dev!Edit, Dev!Rotate, Dev!tlsVars
<1>2. CASE Dev!Edit
  <2>1. UNCHANGED <<tls, tlsEvent>> /\ pending' \in BOOLEAN /\ missed' \in BOOLEAN
    BY Zenon, <1>2 DEF Dev!Edit, Dev!tlsVars, Dev!TypeOK
  <2>2. disk' \in [ver : 0 .. MaxEdits, valid : BOOLEAN]
    <3>1. disk.ver \in 0 .. MaxEdits /\ disk.ver < MaxEdits
      BY Zenon, <1>2 DEF Dev!Edit, Dev!TypeOK
    <3>2. disk.ver + 1 \in 0 .. MaxEdits
      BY <3>1 DEF Rounds
    <3> QED BY <1>2, <3>2 DEF Dev!Edit
  <2>3. (missed => missed') /\ ~(loop \in {"watch", "wait"} /\ ~pending' /\ ~missed')
    BY Zenon, <1>2 DEF Dev!Edit
  <2>4. Dev!TypeOK'
    BY Zenon, <1>1, <2>1, <2>2 DEF Dev!TypeOK
  <2>5. FilesInv'
    BY Zenon, <1>1, <2>3 DEF FilesInv
  <2> QED BY <1>1, <2>1, <2>3, <2>4, <2>5 DEF PortInv, LoopInv, CertInv
<1>3. CASE Dev!Rotate
  <2>1. UNCHANGED <<disk, pending>> /\ tlsEvent' \in BOOLEAN /\ missed' \in BOOLEAN
    BY Zenon, <1>3 DEF Dev!Rotate, Dev!TypeOK
  <2>2. tls' \in [cert : 0 .. MaxRotations, key : 0 .. MaxRotations]
    <3>1. tls \in [cert : 0 .. MaxRotations, key : 0 .. MaxRotations]
      BY Zenon DEF Dev!TypeOK
    <3>2. CASE tls.cert = tls.key /\ tls.cert < MaxRotations /\ tls' = [tls EXCEPT !.cert = @ + 1]
      BY <3>1, <3>2 DEF Rounds
    <3>3. CASE tls.key < tls.cert /\ tls' = [tls EXCEPT !.key = @ + 1]
      BY <3>1, <3>3 DEF Rounds
    <3> QED BY <1>3, <3>2, <3>3 DEF Dev!Rotate
  <2>3. (missed => missed') /\ (missed' \/ tlsEvent' \/ loop = "start")
    BY Zenon, <1>3 DEF Dev!Rotate
  <2>4. Dev!TypeOK'
    BY <1>1, <2>1, <2>2 DEF Dev!TypeOK
  <2>5. CertInv'
    BY Zenon, <1>1, <2>3 DEF CertInv, LoopInv
  <2> QED BY <1>1, <2>1, <2>3, <2>4, <2>5 DEF PortInv, LoopInv, FilesInv, InStep
<1> QED BY <1>2, <1>3

\* The announced certificate replaces the one the loop's runtime serves.
LEMMA ReloadStep ==
  ASSUME DevInv, Dev!ReloadTLS
  PROVE  DevInv'
<1> USE DevTypes DEF DevInv
<1>1. UNCHANGED <<disk, loop, rt, port, pending, armed, tls, missed>> /\ tlsEvent' = FALSE
  BY Zenon DEF Dev!ReloadTLS
<1>2. early' = (early \/ (rt # 0 /\ rts[rt].st = "storing"))
  BY Zenon DEF Dev!ReloadTLS
<1>3. CASE rt = 0
  <2>1. rts' = rts
    BY Zenon, <1>3 DEF Dev!ReloadTLS
  <2> QED BY <1>1, <1>2, <1>3, <2>1 DEF Dev!TypeOK, PortInv, LoopInv, FilesInv, InStep, CertInv
<1>4. CASE rt # 0
  <2> DEFINE c == Dev!Reloaded(rts[rt].cert)
  <2>1. c \in 0 .. MaxRotations /\ (tls.cert = tls.key => c = tls.cert)
    BY <1>4 DEF Dev!Reloaded, Runtimes
  <2>i. rt \in DOMAIN rts
    BY <1>4
  <2> DEFINE r == [rts[rt] EXCEPT !.cert = c]
  <2>2. rts' = [rts EXCEPT ![rt] = r]
    BY Zenon, <1>4, <2>i DEF Dev!ReloadTLS
  <2> HIDE DEF c
  <2>a. r \in Runtimes /\ r.st = rts[rt].st /\ r.ver = rts[rt].ver /\ r.cert = c
    BY <2>1, <2>i DEF Runtimes
  <2> HIDE DEF r
  <2>3. /\ rts' \in Seq(Runtimes) /\ Len(rts') = Len(rts) /\ DOMAIN rts' = DOMAIN rts
        /\ \A i \in DOMAIN rts : rts'[i].st = rts[i].st /\ rts'[i].ver = rts[i].ver
        /\ rts'[rt].cert = c
    BY <2>i, <2>2, <2>a
  <2>4. Dev!TypeOK'
    BY <1>1, <1>2, <2>3 DEF Dev!TypeOK, Runtimes
  <2>5. PortInv' /\ LoopInv'
    BY <1>1, <1>2, <2>i, <2>3 DEF PortInv, LoopInv
  <2>6. FilesInv'
    BY <1>1, <2>3 DEF FilesInv, InStep
  <2>7. CertInv'
    BY <1>1, <1>2, <2>1, <2>i, <2>3 DEF CertInv
  <2> QED BY <2>4, <2>5, <2>6, <2>7
<1> QED BY <1>3, <1>4

\* However edits, reloads, rotations, interrupts and the runtimes' own progress
\* interleave, whenever everything has come to rest the port serves the files and
\* the certificate on disk and no runtime of an earlier version is left, unless a
\* reload met a runtime that had no HTTP server yet or a change came before the
\* watcher.
THEOREM ServerSettles ==
  ASSUME Rounds
  PROVE  Dev!Spec => [](Dev!SettlesOnLatest /\ Dev!CertificateFollows)
<1>1. Dev!Init => DevInv
  <2>1. Dev!Init => rts \in Seq(Runtimes) /\ Len(rts) = 0
    BY DEF Dev!Init
  <2>2. Dev!Init => Dev!TypeOK
    <3>1. Dev!Init => /\ disk \in [ver : 0 .. MaxEdits, valid : BOOLEAN]
                      /\ tls \in [cert : 0 .. MaxRotations, key : 0 .. MaxRotations]
      BY DEF Rounds, Dev!Init
    <3>2. Dev!Init => rt \in 0 .. Len(rts) /\ port \in 0 .. Len(rts)
      BY <2>1 DEF Dev!Init
    <3> QED BY <2>1, <3>1, <3>2, Zenon DEF Dev!Init, Dev!TypeOK, Runtimes
  <2> QED BY <2>2 DEF Dev!Init, DevInv, PortInv, LoopInv, FilesInv, CertInv
<1>2. DevInv /\ [Dev!Next]_Dev!vars => DevInv'
  <2>1. CASE UNCHANGED Dev!vars
    BY <2>1 DEF Dev!vars, DevInv, Dev!TypeOK, PortInv, LoopInv, FilesInv, InStep, CertInv
  <2> QED BY <2>1, LaunchStep, WatchStep, StopStep, RuntimeStep, EditStep, ReloadStep
          DEF Dev!Next, Dev!Loop
<1>3. DevInv => Dev!SettlesOnLatest
  <2> SUFFICES ASSUME DevInv, Dev!Quiet, ~early, ~missed
               PROVE  /\ port = 0 \/ (port = rt /\ rts[rt].ver = disk.ver)
                      /\ \A i \in DOMAIN rts : rts[i].st = "listening" => i = rt
                      /\ rt # 0 => rts[rt].st # "stopped"
                      /\ disk.valid <=> rt # 0
    BY Zenon DEF Dev!SettlesOnLatest
  <2>1. InStep
    BY Zenon DEF Dev!Quiet, DevInv, FilesInv
  <2>2. \A i \in DOMAIN rts : rts[i].st = "listening" => i = rt
    BY Zenon DEF DevInv, LoopInv
  <2>3. port # 0 => port \in DOMAIN rts /\ rts[port].st = "listening"
    BY DevTypes DEF DevInv, PortInv
  <2> QED BY Zenon, <2>1, <2>2, <2>3 DEF InStep, DevInv, LoopInv
<1>4. DevInv => Dev!CertificateFollows
  BY Zenon DEF DevInv, CertInv, Dev!CertificateFollows
<1> QED BY <1>1, <1>2, <1>3, <1>4, PTL DEF Dev!Spec

=============================================================================
