------------------------------- MODULE MCPPool -------------------------------
(***************************************************************************)
(* internal/mcp: a pool of connections to MCP servers.  Workers connect to *)
(* a server by name: a fast look-up, then a singleflight call in which one *)
(* of them looks again, connects (CommandContext starts the server as a    *)
(* child of the connecting context) and stores the client, while the       *)
(* others wait for its result.  Close closes what is in the pool.  The     *)
(* pool is a sync.Map: look-up, store and delete are single steps.         *)
(***************************************************************************)
EXTENDS Naturals, FiniteSets, Sequences

CONSTANTS
  Workers, Servers,
  MaxConns,     \* bound: connections made
  MaxCloses     \* bound: calls of Close

VARIABLES
  clients,   \* per server: the client in the map, 0 if none
  conn,      \* the connections made: server and "open", "dead" or "closed"
  flight,    \* per server: the worker whose call is in flight, "none" if none
  worker,    \* pc, the server asked for, the client in hand or returned
  closer,    \* the closing goroutine: pc, the client it deletes, the servers still to visit
  closes,
  found      \* what discovery returned last: servers listed and whether it failed

vars == <<clients, conn, flight, worker, closer, closes, found>>

TypeOK ==
  /\ clients \in [Servers -> 0 .. MaxConns]
  /\ \A i \in 1 .. Len(conn) : conn[i].server \in Servers /\ conn[i].state \in {"open", "dead", "closed"}
  /\ flight \in [Servers -> Workers \cup {"none"}]
  /\ \A w \in Workers : worker[w].pc \in {"idle", "join", "wait", "again", "connect", "store"}
  /\ closer.left \subseteq Servers

Init ==
  /\ clients = [s \in Servers |-> 0] /\ conn = <<>> /\ flight = [s \in Servers |-> "none"]
  /\ worker = [w \in Workers |-> [pc |-> "idle", server |-> "none", client |-> 0]]
  /\ closer = [pc |-> "idle", at |-> "none", left |-> {}] /\ closes = 0
  /\ found = [servers |-> {}, failed |-> FALSE]

Go(w, pc) == worker' = [worker EXCEPT ![w].pc = pc]
Return(w, c) == worker' = [worker EXCEPT ![w].pc = "idle", ![w].client = c]

\* Pool.Connect, the fast path
Connect(w, s) ==
  /\ worker[w].pc = "idle"
  /\ worker' = [worker EXCEPT ![w] =
       IF clients[s] # 0 THEN [pc |-> "idle", server |-> s, client |-> clients[s]]
       ELSE [pc |-> "join", server |-> s, client |-> 0]]
  /\ UNCHANGED <<clients, conn, flight, closer, closes, found>>

\* group.Do: the first one runs the function, the others wait for it
Join(w) ==
  LET s == worker[w].server IN
  /\ worker[w].pc = "join"
  /\ IF flight[s] = "none" THEN flight' = [flight EXCEPT ![s] = w] /\ Go(w, "again")
     ELSE Go(w, "wait") /\ UNCHANGED flight
  /\ UNCHANGED <<clients, conn, closer, closes, found>>

\* The flight is over: everyone on board has its result.
Land(w, c) ==
  LET s == worker[w].server IN
  /\ flight' = [flight EXCEPT ![s] = "none"]
  /\ worker' = [v \in Workers |->
       IF v = w \/ (worker[v].pc = "wait" /\ worker[v].server = s)
         THEN [pc |-> "idle", server |-> s, client |-> c] ELSE worker[v]]

\* A flight that trusts the look-up made before it took off.
LookAgainNot(w) ==
  /\ worker[w].pc = "again" /\ Go(w, "connect") /\ UNCHANGED flight
  /\ UNCHANGED <<clients, conn, closer, closes, found>>

LookAgain(w) ==
  /\ worker[w].pc = "again"
  /\ LET c == clients[worker[w].server] IN
       IF c # 0 THEN Land(w, c) ELSE Go(w, "connect") /\ UNCHANGED flight
  /\ UNCHANGED <<clients, conn, closer, closes, found>>

\* Client.Connect; on failure every caller on the flight gets the error
Dial(w, fails) ==
  /\ worker[w].pc = "connect" /\ Len(conn) < MaxConns
  /\ IF fails THEN Land(w, 0) /\ UNCHANGED conn
     ELSE /\ conn' = Append(conn, [server |-> worker[w].server, state |-> "open"])
          /\ worker' = [worker EXCEPT ![w] =
               [pc |-> "store", server |-> worker[w].server, client |-> Len(conn) + 1]]
          /\ UNCHANGED flight
  /\ UNCHANGED <<clients, closer, closes, found>>

Store(w) ==
  /\ worker[w].pc = "store"
  /\ clients' = [clients EXCEPT ![worker[w].server] = worker[w].client]
  /\ Land(w, worker[w].client)
  /\ UNCHANGED <<conn, closer, closes, found>>

\* The context a server was started with ends: the process is killed, the client
\* stays in the map.
ContextEnds(i) ==
  /\ i \in 1 .. Len(conn) /\ conn[i].state = "open"
  /\ conn' = [conn EXCEPT ![i].state = "dead"]
  /\ UNCHANGED <<clients, flight, worker, closer, closes, found>>

\* Discovery.DiscoverTools over Pool.All: one dead server fails the whole listing
Discover ==
  /\ LET cs == {clients[s] : s \in Servers} \ {0} IN
       found' = IF \A c \in cs : conn[c].state = "open"
                  THEN [servers |-> {conn[c].server : c \in cs}, failed |-> FALSE]
                  ELSE [servers |-> {}, failed |-> TRUE]
  /\ UNCHANGED <<clients, conn, flight, worker, closer, closes>>

CloseStart ==
  /\ closer.pc = "idle" /\ closes < MaxCloses
  /\ closer' = [pc |-> "range", at |-> "none", left |-> Servers] /\ closes' = closes + 1
  /\ UNCHANGED <<clients, conn, flight, worker, found>>

\* One visit of Range: the client is closed, whatever that returns, and deleted.
CloseOne(s) ==
  /\ closer.pc = "range" /\ s \in closer.left
  /\ IF clients[s] = 0
       THEN closer' = [closer EXCEPT !.left = @ \ {s}] /\ UNCHANGED conn
       ELSE /\ conn' = [conn EXCEPT ![clients[s]].state = "closed"]
            /\ closer' = [pc |-> "delete", at |-> s, left |-> closer.left \ {s}]
  /\ UNCHANGED <<clients, flight, worker, closes, found>>

DeleteOne ==
  /\ closer.pc = "delete" /\ closer' = [closer EXCEPT !.pc = "range"]
  /\ clients' = [clients EXCEPT ![closer.at] = 0]
  /\ UNCHANGED <<conn, flight, worker, closes, found>>

CloseEnd ==
  /\ closer.pc = "range" /\ closer.left = {} /\ closer' = [closer EXCEPT !.pc = "idle"]
  /\ UNCHANGED <<clients, conn, flight, worker, closes, found>>

Next ==
  \/ \E w \in Workers :
       \/ Join(w) \/ LookAgain(w) \/ Store(w)
       \/ \E s \in Servers : Connect(w, s)
       \/ \E fails \in BOOLEAN : Dial(w, fails)
  \/ \E i \in 1 .. MaxConns : ContextEnds(i)
  \/ Discover \/ CloseStart \/ DeleteOne \/ CloseEnd
  \/ \E s \in Servers : CloseOne(s)

Spec == Init /\ [][Next]_vars

-----------------------------------------------------------------------------
InHand == {worker[w].client : w \in {v \in Workers : worker[v].pc = "store"}}
InPool == {clients[s] : s \in Servers}

\* However many callers race, and whatever Close does between their steps, a
\* server has at most one connection that was not closed.
OneConnection ==
  \A i, j \in 1 .. Len(conn) :
    conn[i].server = conn[j].server /\ conn[i].state # "closed" /\ conn[j].state # "closed" => i = j

\* A connection that was not closed is in the pool or about to be stored there:
\* one that a Close has overtaken is still reached by the next Close.
NothingLeaks ==
  \A i \in 1 .. Len(conn) : conn[i].state # "closed" => i \in InPool \cup InHand
=============================================================================
