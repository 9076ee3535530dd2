--------------------------- MODULE Conversations ---------------------------
(***************************************************************************)
(* Sessions of the runtime server: the in-memory session store             *)
(* (internal/session/memory_store.go), the conversation memory behind it   *)
(* (internal/memory: sliding window or summary, with its LRU tracker), the *)
(* manager that joins them, and the HTTP handlers of internal/runtime/     *)
(* server.go that use the manager.  Every lock section of the code is one  *)
(* action, so the handlers interleave exactly where the code lets go of a  *)
(* mutex.  A message is the set of items it stands for: a plain message    *)
(* stands for one item, a summary for all the messages it replaced.        *)
(***************************************************************************)
EXTENDS Naturals, FiniteSets, SequencesExt

CONSTANTS Workers,        \* goroutines serving HTTP requests
          MaxMessages,    \* SlidingWindow.maxMessages
          Threshold,      \* Summary.threshold
          MaxSessions,    \* maxSessions of both memories
          Expiry,         \* MemoryStore.expiry in ticks, 0 = sessions never expire
          MaxTime, MaxIds, MaxExchanges   \* bounds of the exploration

VARIABLES
  kind,    \* the configured memory: "sliding" or "summary"
  clock,   \* time.Now() in ticks
  store,   \* MemoryStore.sessions: session id -> LastActive
  mem,     \* sessions of the memory: session id -> messages, oldest first
  lru,     \* LRU.order, most recently used first
  req,     \* the request each worker serves
  issued,  \* number of session ids handed out; ids are never reused
  asked,   \* number of messages sent so far; each is a new exchange
  saved,   \* history: the exchanges memory.Save accepted, in order, per id
  shared   \* history: ids on which two message requests overlapped

vars == <<kind, clock, store, mem, lru, req, issued, asked, saved, shared>>

Ids == 1 .. MaxIds
Exchanges == 1 .. MaxExchanges
Items == {"user", "assistant"} \X Exchanges
Messages == SUBSET Items

NoReq == [pc |-> "idle", sid |-> 0, turn |-> 0, old |-> {}, keep |-> <<>>, stale |-> {}]

TypeOK ==
  /\ kind \in {"sliding", "summary"}
  /\ clock \in 0 .. MaxTime
  /\ DOMAIN store \subseteq Ids /\ \A s \in DOMAIN store : store[s] \in 0 .. clock
  /\ DOMAIN mem \subseteq Ids /\ \A s \in DOMAIN mem : mem[s] \in Seq(Messages)
  /\ lru \in Seq(Ids) /\ IsInjective(lru)
  /\ req \in [Workers -> [pc : {"idle", "get", "recheck", "load", "execute", "touch",
                                "save", "summarize", "chat", "replace", "clear", "delete",
                                "purge"},
                          sid : 0 .. MaxIds, turn : 0 .. MaxExchanges, old : Messages,
                          keep : Seq(Messages), stale : SUBSET Ids]]
  /\ issued \in 0 .. MaxIds /\ asked \in 0 .. MaxExchanges
  /\ saved \in [Ids -> Seq(Exchanges)]
  /\ shared \subseteq Ids

\* The two messages handleInvoke and handleSessionMessage save for one exchange.
Exchange(n) == << {<<"user", n>>}, {<<"assistant", n>>} >>

Init ==
  /\ kind \in {"sliding", "summary"}
  /\ clock = 0 /\ store = <<>> /\ mem = <<>> /\ lru = <<>>
  /\ req = [w \in Workers |-> NoReq]
  /\ issued = 0 /\ asked = 0
  /\ saved = [s \in Ids |-> <<>>] /\ shared = {}

----------------------------------------------------------------------------
(* Helpers *)

Lookup(f, s) == IF s \in DOMAIN f THEN f[s] ELSE <<>>
Put(f, s, v) == [t \in DOMAIN f \cup {s} |-> IF t = s THEN v ELSE f[t]]
Drop(f, S) == [t \in DOMAIN f \ S |-> f[t]]

Promote(order, s) == <<s>> \o SelectSeq(order, LAMBDA t : t # s)

\* The LRU order and the sessions that drop out of it when Save has promoted
\* its own session: `for lru.Len() > maxSessions { Evict() }`.
Retained(order) == SubSeq(order, 1, IF Len(order) > MaxSessions THEN MaxSessions ELSE Len(order))
Evicted(order) == Range(order) \ Range(Retained(order))

Expired(s) == Expiry > 0 /\ clock - store[s] > Expiry

LastN(h, n) == SubSeq(h, IF Len(h) > n THEN Len(h) - n + 1 ELSE 1, Len(h))

At(w, pc) == req[w].pc = pc
Goto(w, pc) == req' = [req EXCEPT ![w].pc = pc]
Respond(w) == req' = [req EXCEPT ![w] = NoReq]

----------------------------------------------------------------------------
(* Requests arrive *)

\* POST /v1/agents/{name}/sessions: the whole handler is one lock section.
CreateSession(w) ==
  /\ At(w, "idle") /\ issued < MaxIds
  /\ issued' = issued + 1
  /\ store' = Put(store, issued + 1, clock)
  /\ UNCHANGED <<kind, clock, mem, lru, req, asked, saved, shared>>

\* POST .../sessions/{id}, and .../invoke with a session_id.
SendMessage(w, s) ==
  /\ At(w, "idle") /\ asked < MaxExchanges /\ s \in 1 .. issued
  /\ asked' = asked + 1
  /\ req' = [req EXCEPT ![w] = [NoReq EXCEPT !.pc = "get", !.sid = s, !.turn = asked + 1]]
  /\ shared' = IF \E v \in Workers : req[v].sid = s THEN shared \cup {s} ELSE shared
  /\ UNCHANGED <<kind, clock, store, mem, lru, issued, saved>>

\* DELETE .../sessions/{id}
DeleteSession(w, s) ==
  /\ At(w, "idle") /\ s \in 1 .. issued
  /\ req' = [req EXCEPT ![w] = [NoReq EXCEPT !.pc = "clear", !.sid = s]]
  /\ shared' = IF \E v \in Workers : req[v].sid = s THEN shared \cup {s} ELSE shared
  /\ UNCHANGED <<kind, clock, store, mem, lru, issued, asked, saved>>

\* GET /v1/agents lists the sessions of every agent: List's read-locked scan
\* collects the expired ids, which it deletes later under the write lock.
ListAgents(w) ==
  /\ At(w, "idle")
  /\ LET stale == {s \in DOMAIN store : Expired(s)} IN
       /\ stale # {}
       /\ req' = [req EXCEPT ![w] = [NoReq EXCEPT !.pc = "purge", !.stale = stale]]
  /\ UNCHANGED <<kind, clock, store, mem, lru, issued, asked, saved, shared>>

----------------------------------------------------------------------------
(* Serving a message *)

\* MemoryStore.Get under the read lock.
Get(w) ==
  /\ At(w, "get")
  /\ LET s == req[w].sid IN
       \/ s \notin DOMAIN store /\ Respond(w)
       \/ s \in DOMAIN store /\ ~Expired(s) /\ Goto(w, "load")
       \/ s \in DOMAIN store /\ Expired(s) /\ Goto(w, "recheck")
  /\ UNCHANGED <<kind, clock, store, mem, lru, issued, asked, saved, shared>>

\* The re-check forgotten: what was expired a moment ago is deleted.
RecheckForgotten(w) ==
  /\ At(w, "recheck")
  /\ Respond(w) /\ store' = Drop(store, {req[w].sid})
  /\ UNCHANGED <<kind, clock, mem, lru, issued, asked, saved, shared>>

\* Get's second half: under the write lock the expiry is checked once more.
Recheck(w) ==
  /\ At(w, "recheck")
  /\ LET s == req[w].sid IN
       \/ s \notin DOMAIN store /\ Respond(w) /\ UNCHANGED store
       \/ s \in DOMAIN store /\ Expired(s) /\ Respond(w) /\ store' = Drop(store, {s})
       \/ s \in DOMAIN store /\ ~Expired(s) /\ Goto(w, "load") /\ UNCHANGED store
  /\ UNCHANGED <<kind, clock, mem, lru, issued, asked, saved, shared>>

\* Manager.LoadMessages goes on to memory.Load: a copy of the history, which only
\* the model call reads, and in a lock section of its own the promotion of the
\* session, whether or not the memory still knows it.
Load(w) ==
  /\ At(w, "load") /\ Goto(w, "execute")
  /\ lru' = Promote(lru, req[w].sid)
  /\ UNCHANGED <<kind, clock, store, mem, issued, asked, saved, shared>>

\* strategy.Execute: an error answers 500 and saves nothing.
Execute(w) ==
  /\ At(w, "execute")
  /\ Goto(w, "touch") \/ Respond(w)
  /\ UNCHANGED <<kind, clock, store, mem, lru, issued, asked, saved, shared>>

\* Manager.SaveMessages touches the session first; a session that is gone makes
\* the handler answer with a warning and drop the exchange.
Touch(w) ==
  /\ At(w, "touch")
  /\ LET s == req[w].sid IN
       \/ s \notin DOMAIN store /\ Respond(w) /\ UNCHANGED store
       \/ s \in DOMAIN store /\ store' = [store EXCEPT ![s] = clock] /\ Goto(w, "save")
  /\ UNCHANGED <<kind, clock, mem, lru, issued, asked, saved, shared>>

\* Off by one at the window: one message too few is kept.
TrimTight(h) == IF kind = "sliding" THEN LastN(h, MaxMessages - 1) ELSE h

\* What the memory keeps of a history after appending to it.
Trim(h) == IF kind = "sliding" THEN LastN(h, MaxMessages) ELSE h

Save(w) ==
  /\ At(w, "save")
  /\ LET s == req[w].sid
         all == Trim(Lookup(mem, s) \o Exchange(req[w].turn))
         order == Promote(lru, s)
     IN /\ mem' = Drop(Put(mem, s, all), Evicted(order))
        /\ lru' = Retained(order)
        /\ saved' = [t \in Ids |-> IF t \in Evicted(order) THEN <<>>
                                   ELSE IF t = s THEN Append(saved[t], req[w].turn) ELSE saved[t]]
        /\ IF kind = "summary" /\ Len(all) > Threshold THEN Goto(w, "summarize") ELSE Respond(w)
  /\ UNCHANGED <<kind, clock, store, issued, asked, shared>>

\* summarize's first lock section splits the history, if it is still too long.
Summarize(w) ==
  /\ At(w, "summarize")
  /\ LET h == Lookup(mem, req[w].sid)
         keepCount == Threshold \div 2
     IN \/ Len(h) <= Threshold /\ Respond(w)
        \/ /\ Len(h) > Threshold
           /\ req' = [req EXCEPT ![w].pc = "chat",
                                 ![w].old = UNION Range(SubSeq(h, 1, Len(h) - keepCount)),
                                 ![w].keep = LastN(h, keepCount)]
  /\ UNCHANGED <<kind, clock, store, mem, lru, issued, asked, saved, shared>>

\* The summary is asked of the model with no lock held; an error leaves the
\* history as it is and reaches the client as a warning.
Chat(w) ==
  /\ At(w, "chat")
  /\ Goto(w, "replace") \/ Respond(w)
  /\ UNCHANGED <<kind, clock, store, mem, lru, issued, asked, saved, shared>>

\* summarize's second lock section overwrites the history.
Replace(w) ==
  /\ At(w, "replace") /\ Respond(w)
  /\ mem' = Put(mem, req[w].sid, <<req[w].old>> \o req[w].keep)
  /\ UNCHANGED <<kind, clock, store, lru, issued, asked, saved, shared>>

----------------------------------------------------------------------------
(* Closing, listing and background eviction *)

\* Manager.Close clears the memory, then deletes the session.
Clear(w) ==
  /\ At(w, "clear") /\ Goto(w, "delete")
  /\ LET s == req[w].sid IN
       /\ mem' = Drop(mem, {s})
       /\ lru' = SelectSeq(lru, LAMBDA t : t # s)
       /\ saved' = [saved EXCEPT ![s] = <<>>]
  /\ UNCHANGED <<kind, clock, store, issued, asked, shared>>

Delete(w) ==
  /\ At(w, "delete") /\ Respond(w)
  /\ store' = Drop(store, {req[w].sid})
  /\ UNCHANGED <<kind, clock, mem, lru, issued, asked, saved, shared>>

\* List's second lock section deletes the collected ids that are still expired.
Purge(w) ==
  /\ At(w, "purge") /\ Respond(w)
  /\ store' = Drop(store, {s \in req[w].stale \cap DOMAIN store : Expired(s)})
  /\ UNCHANGED <<kind, clock, mem, lru, issued, asked, saved, shared>>

\* A threshold of its own: sessions the rest of the store calls expired are kept.
EvictLate ==
  LET old == {s \in DOMAIN store : clock - store[s] > Expiry + 1}
  IN  /\ old # {} /\ store' = Drop(store, old)
      /\ UNCHANGED <<kind, clock, mem, lru, req, issued, asked, saved, shared>>

\* evict, run by the background loop every evictionInterval.
Evict ==
  /\ \E s \in DOMAIN store : Expired(s)
  /\ store' = Drop(store, {s \in DOMAIN store : Expired(s)})
  /\ UNCHANGED <<kind, clock, mem, lru, req, issued, asked, saved, shared>>

Tick ==
  /\ clock < MaxTime /\ clock' = clock + 1
  /\ UNCHANGED <<kind, store, mem, lru, req, issued, asked, saved, shared>>

Arrive(w) ==
  \/ CreateSession(w)
  \/ \E s \in Ids : SendMessage(w, s) \/ DeleteSession(w, s)
  \/ ListAgents(w)

Serve(w) ==
  \/ Get(w) \/ Recheck(w) \/ Load(w) \/ Execute(w) \/ Touch(w)
  \/ Save(w) \/ Summarize(w) \/ Chat(w) \/ Replace(w)
  \/ Clear(w) \/ Delete(w) \/ Purge(w)

Next == (\E w \in Workers : Arrive(w) \/ Serve(w)) \/ Evict \/ Tick

\* The server's goroutines are scheduled and its eviction ticker fires.
Fairness == (\A w \in Workers : WF_vars(Serve(w))) /\ WF_vars(Evict)

Spec == Init /\ [][Next]_vars /\ Fairness

----------------------------------------------------------------------------
(* Properties *)

\* The sliding window never holds more than maxSessions histories, and none the
\* LRU has lost track of (it could then never be evicted again).
HistoriesAreTracked ==
  kind = "sliding" => /\ DOMAIN mem \subseteq Range(lru)
                      /\ Cardinality(DOMAIN mem) <= MaxSessions

\* Nothing is forgotten too early.  The sliding window always holds the latest
\* exchanges, whole and in the order they were saved, whatever requests were
\* served at the same time.  With summaries, on a session whose requests never
\* overlapped, every item is still there, in person or summarized, however the
\* calls to the model failed.
NothingForgotten ==
  \A s \in Ids :
    \/ /\ kind = "sliding"
       /\ Lookup(mem, s) = FlattenSeq([i \in DOMAIN LastN(saved[s], MaxMessages \div 2) |->
                                        Exchange(LastN(saved[s], MaxMessages \div 2)[i])])
    \/ /\ kind = "summary"
       /\ s \in shared \/ {"user", "assistant"} \X Range(saved[s]) \subseteq UNION Range(Lookup(mem, s))

\* Expiry only takes sessions that are idle for longer than the timeout: every
\* other removal is the second half of a DELETE of that very session.
RemovesIdle ==
  \A s \in DOMAIN store \ DOMAIN store' :
    clock - store[s] > Expiry \/ \E w \in Workers : At(w, "delete") /\ req[w].sid = s

\* Expired sessions do not stay in the store: the eviction loop removes them all,
\* again and again, but for those a request that had found them touches first.
Overdue(s) == s \in DOMAIN store /\ Expired(s)
NoneOverdue == \A s \in Ids : ~Overdue(s)
ExpiredGo == []<>NoneOverdue
=============================================================================
