--------------------------- MODULE ComponentProofs ---------------------------
(***************************************************************************)
(* Saves to the remote backends, budgets and sessions in Redis, each an    *)
(* instance of its own module, with any number of clients, workers, limits *)
(* and faults.                                                             *)
(***************************************************************************)
EXTENDS Integers, Sequences, FiniteSets, TLAPS

-----------------------------------------------------------------------------
(* The remote backends *)

CONSTANTS Clients, Names, Kinds, MaxSaves
VARIABLES kind, store, rev, client, saves
Rem == INSTANCE RemoteBackends

Row == [val : Nat, rev : Nat]
Client ==
  [pc : {"idle", "ready", "save", "send"}, loaded : BOOLEAN, read : [Names -> Nat], want : [Names -> Nat],
   etag : Nat, seen : [Names -> Row], puts : SUBSET Names, dels : SUBSET Names,
   before : [Names -> Nat], alone : BOOLEAN, outcome : {"none", "ok", "error"}]

\* A save under way has no outcome yet, and no ETag is newer than the object.
Underway(x) ==
  /\ x.pc # "idle" => x.outcome = "none"
  /\ x.alone => x.pc \in {"save", "send"}
  /\ x.etag <= rev

\* Until it has written something itself, a save nobody disturbed finds the entries
\* it began with; PostgreSQL's rows are still those its DELETE took.
Untouched(x) ==
  x.alone /\ (x.pc = "save" \/ kind # "etcd") =>
    /\ \A n \in Names : store[n].val = x.before[n]
    /\ kind = "postgres" /\ x.pc = "send" => x.seen = store

\* etcd in between: what is put, what is still to be put, what is deleted and what
\* is still to be deleted, and nothing is deleted before all is put.
Halfway(x) ==
  x.alone /\ x.pc = "send" /\ kind = "etcd" =>
    /\ \A n \in x.puts : x.want[n] # 0
    /\ \A n \in x.dels : x.want[n] = 0
    /\ \A n \in x.puts \cup x.dels : store[n].val = x.before[n]
    /\ \A n \in Names \ (x.puts \cup x.dels) : store[n].val = x.want[n]
    /\ x.puts # {} => \A n \in Names : x.want[n] = 0 => store[n].val = x.before[n]

\* S3: an ETag that is still the object's stands for the entries read with it.
Current(x) ==
  kind = "s3" /\ x.loaded => x.etag # 0 /\ (x.etag = rev => \A n \in Names : store[n].val = x.read[n])

Good(x) == Underway(x) /\ Untouched(x) /\ Halfway(x) /\ Current(x)

RemInv ==
  /\ store \in [Names -> Row] /\ rev \in Nat /\ saves \in Nat
  /\ client \in [Clients -> Client]
  /\ \A c \in Clients : Good(client[c])

\* What EndsExactly and EndsOnWhatItRead say of one client.
EndsWell(c) ==
  /\ Rem!Ends(c) /\ client[c].alone =>
       IF client'[c].outcome = "ok" THEN \A n \in Names : store'[n].val = client[c].want[n]
       ELSE IF kind # "etcd" THEN \A n \in Names : store'[n].val = client[c].before[n]
       ELSE /\ \A n \in Names : store'[n].val \in {client[c].before[n], client[c].want[n]}
            /\ (\E n \in Names : store'[n].val = 0 /\ client[c].before[n] # 0) =>
                  \A n \in Names : client[c].want[n] # 0 => store'[n].val = client[c].want[n]
  /\ kind = "s3" /\ Rem!Ends(c) /\ client'[c].outcome = "ok" /\ client[c].loaded =>
       \A n \in Names : store[n].val = client[c].read[n]

\* A step that changes one client only, and ends no save.
LEMMA RemQuiet ==
  ASSUME RemInv, NEW c \in Clients, NEW y \in Client, Good(y),
         client' = [client EXCEPT ![c] = y], UNCHANGED <<kind, store, rev>>, saves' \in Nat,
         y.outcome = "none"
  PROVE  RemInv' /\ \A d \in Clients : EndsWell(d)
<1>1. client' \in [Clients -> Client] /\ \A d \in Clients : client'[d] = IF d = c THEN y ELSE client[d]
  BY Zenon DEF RemInv
<1>2. ASSUME NEW d \in Clients PROVE Good(client[d])'
  <2>1. CASE d = c  BY <2>1, <1>1 DEF Good, Underway, Untouched, Halfway, Current
  <2>2. CASE d # c  BY <2>2, <1>1 DEF Good, Underway, Untouched, Halfway, Current, RemInv
  <2> QED  BY Zenon, <2>1, <2>2
<1>3. \A d \in Clients : ~Rem!Ends(d)  BY Zenon, <1>1 DEF Rem!Ends
<1> QED  BY Zenon, <1>1, <1>2, <1>3 DEF RemInv, EndsWell

\* A step that writes: the saves of the others are no longer alone.
LEMMA RemLoud ==
  ASSUME RemInv, NEW c \in Clients, NEW y \in Client, Good(y)',
         store' \in [Names -> Row], rev' = rev + 1, kind' = kind, saves' = saves,
         client' = [d \in Clients |-> IF d = c THEN y ELSE [client[d] EXCEPT !.alone = FALSE]],
         EndsWell(c)
  PROVE  RemInv' /\ \A d \in Clients : EndsWell(d)
<1>1. ASSUME NEW d \in Clients, d # c
      PROVE  client'[d] \in Client /\ Good(client[d])' /\ ~Rem!Ends(d)
  <2> DEFINE x == [client[d] EXCEPT !.alone = FALSE]
  <2>1. client[d] \in Client /\ Good(client[d])  BY Zenon DEF RemInv
  <2>2. x \in Client /\ x.alone = FALSE /\ x.pc = client[d].pc /\ x.outcome = client[d].outcome
        /\ x.etag = client[d].etag /\ x.loaded = client[d].loaded
    BY Zenon, <2>1 DEF Client
  <2>3. client'[d] = x  BY Zenon, <1>1
  <2> HIDE DEF x
  <2>4. x.etag \in Nat /\ rev \in Nat  BY Zenon, <2>2 DEF Client, RemInv
  <2>5. Good(client[d])'
    BY <2>1, <2>2, <2>3, <2>4 DEF Good, Underway, Untouched, Halfway, Current
  <2> QED  BY Zenon, <2>2, <2>3, <2>5 DEF Rem!Ends
<1>2. client'[c] = y  BY Zenon
<1>3. client' \in [Clients -> Client]  BY Zenon, <1>1, <1>2
<1>4. \A d \in Clients : Good(client[d])'
  <2> SUFFICES ASSUME NEW d \in Clients PROVE Good(client[d])'  BY Zenon
  <2>1. CASE d = c  BY <2>1, <1>2 DEF Good, Underway, Untouched, Halfway, Current
  <2> QED  BY Zenon, <2>1, <1>1
<1>5. \A d \in Clients : EndsWell(d)  BY <1>1 DEF EndsWell
<1> QED  BY <1>3, <1>4, <1>5 DEF RemInv

\* What a client is when its Save has returned.
LEMMA RemReturned ==
  ASSUME RemInv, NEW o \in {"ok", "error"}, NEW e \in Nat
  PROVE  LET y == Rem!Returned(o, e) IN
         y \in Client /\ y.outcome = o /\ y.etag \in {0, e} /\ ~y.alone /\ y.pc = "idle" /\ ~y.loaded
  BY Zenon DEF Rem!Returned, Rem!NewClient, Rem!None, Rem!Absent, Client, Row

\* The rows of the entries to save.
LEMMA RemRows ==
  ASSUME RemInv, NEW w \in [Names -> Nat]
  PROVE  /\ Rem!Rows(w) \in [Names -> Row]
         /\ \A n \in Names : Rem!Rows(w)[n].val = w[n]
  BY DEF Rem!Rows, Rem!Absent, RemInv, Row

\* A failed call ends the save where it stands.
LEMMA RemFails ==
  ASSUME RemInv, NEW c \in Clients, Rem!Fails(c), kind' = kind, saves' = saves,
         client[c].pc \in {"save", "send"}
  PROVE  RemInv' /\ \A d \in Clients : EndsWell(d)
<1> DEFINE y == Rem!Returned("error", client[c].etag)
<1>1. client[c] \in Client /\ Good(client[c])  BY Zenon DEF RemInv
<1>2. client[c].etag \in Nat /\ rev \in Nat /\ store \in [Names -> Row]  BY Zenon, <1>1 DEF Client, RemInv
<1>3. y \in Client /\ y.outcome = "error" /\ y.etag \in {0, client[c].etag} /\ ~y.alone /\ y.pc = "idle" /\ ~y.loaded
  BY Zenon, <1>2, RemReturned
<1>4. client' = [client EXCEPT ![c] = y] /\ store' = store /\ rev' = rev  BY Zenon DEF Rem!Fails
<1> HIDE DEF y
<1>5. client' \in [Clients -> Client] /\ \A d \in Clients : client'[d] = IF d = c THEN y ELSE client[d]
  BY Zenon, <1>3, <1>4 DEF RemInv
<1>6. ASSUME NEW d \in Clients PROVE Good(client[d])'
  <2>1. CASE d = c
    BY <2>1, <1>1, <1>2, <1>3, <1>4, <1>5 DEF Good, Underway, Untouched, Halfway, Current
  <2>2. CASE d # c  BY <2>2, <1>4, <1>5 DEF Good, Underway, Untouched, Halfway, Current, RemInv
  <2> QED  BY Zenon, <2>1, <2>2
<1>7. ASSUME NEW d \in Clients PROVE EndsWell(d)
  <2>1. CASE d # c  BY Zenon, <2>1, <1>5 DEF EndsWell, Rem!Ends
  <2>2. CASE d = c
    <3>1. client'[c] = y /\ y.outcome # "ok"  BY Zenon, <1>3, <1>5
    <3> SUFFICES ASSUME client[c].alone
                 PROVE  IF kind # "etcd" THEN \A n \in Names : store'[n].val = client[c].before[n]
       ELSE /\ \A n \in Names : store'[n].val \in {client[c].before[n], client[c].want[n]}
            /\ (\E n \in Names : store'[n].val = 0 /\ client[c].before[n] # 0) =>
                  \A n \in Names : client[c].want[n] # 0 => store'[n].val = client[c].want[n]
      BY Zenon, <2>2, <3>1 DEF EndsWell
    <3>2. CASE kind # "etcd" \/ client[c].pc = "save"
      BY Zenon, <3>2, <1>1, <1>4 DEF Good, Untouched
    <3>3. CASE kind = "etcd" /\ client[c].pc = "send"
      <4>1. Halfway(client[c])  BY Zenon, <1>1 DEF Good
      <4>2. \A n \in Names : store[n].val \in {client[c].before[n], client[c].want[n]}
        BY Zenon, <3>3, <4>1 DEF Halfway
      <4>3. ASSUME NEW n \in Names, store[n].val = 0, client[c].before[n] # 0
            PROVE  client[c].puts = {}
        BY Zenon, <3>3, <4>1, <4>2, <4>3 DEF Halfway
      <4>4. client[c].puts = {} => \A n \in Names : client[c].want[n] # 0 => store[n].val = client[c].want[n]
        BY Zenon, <3>3, <4>1 DEF Halfway
      <4> QED  BY Zenon, <3>3, <1>4, <4>2, <4>3, <4>4
    <3> QED  BY Zenon, <3>2, <3>3
  <2> QED  BY Zenon, <2>1, <2>2
<1> QED  BY Zenon, <1>2, <1>4, <1>5, <1>6, <1>7 DEF RemInv

\* A call that writes the whole state.
LEMMA RemWrite ==
  ASSUME RemInv, NEW c \in Clients, NEW new \in [Names -> Row], Rem!Write(c, new), kind' = kind, saves' = saves,
         client[c].alone => \A n \in Names : new[n].val = client[c].want[n],
         kind = "s3" /\ client[c].loaded => \A n \in Names : store[n].val = client[c].read[n]
  PROVE  RemInv' /\ \A d \in Clients : EndsWell(d)
<1> DEFINE y == Rem!Returned("ok", rev + 1)
<1>1. rev \in Nat /\ rev + 1 \in Nat  BY DEF RemInv
<1>2. y \in Client /\ y.outcome = "ok" /\ y.etag \in {0, rev + 1} /\ ~y.alone /\ y.pc = "idle" /\ ~y.loaded
  BY Zenon, <1>1, RemReturned
<1>3. /\ client' = [d \in Clients |-> IF d = c THEN y ELSE [client[d] EXCEPT !.alone = FALSE]]
      /\ store' = new /\ rev' = rev + 1
  BY Zenon DEF Rem!Write
<1>4. client'[c] = y  BY Zenon, <1>3
<1> HIDE DEF y
<1>5. EndsWell(c)  BY Zenon, <1>2, <1>3, <1>4 DEF EndsWell
<1>6. ASSUME NEW x \in Client, x = y PROVE Good(x)'
  BY <1>1, <1>2, <1>3, <1>6 DEF Good, Underway, Untouched, Halfway, Current
<1> QED  BY Zenon, <1>2, <1>3, <1>5, <1>6, RemLoud

RemGoal == RemInv' /\ \A d \in Clients : EndsWell(d)

\* The types of what is stored.
LEMMA RemStore ==
  ASSUME RemInv
  PROVE  /\ rev \in Nat /\ saves \in Nat /\ store \in [Names -> Row] /\ Rem!Vals \in [Names -> Nat]
         /\ \A n \in Names : Rem!Vals[n] = store[n].val
  BY Zenon DEF RemInv, Row, Rem!Vals

\* A load leaves the client with what it read.
LEMMA RemLoaded ==
  ASSUME RemInv, NEW c \in Clients, NEW r \in [Names -> Nat], NEW e \in Nat, Rem!Loaded(c, r, e), client[c].pc = "idle", e <= rev,
             UNCHANGED <<kind, store, rev, saves>>,
             kind = "s3" => e = rev /\ e # 0 /\ r = Rem!Vals
  PROVE  RemGoal
<1> DEFINE x == client[c]
<1>t. x \in Client /\ Good(x)  BY Zenon DEF RemInv
<1>u. /\ rev \in Nat /\ saves \in Nat /\ store \in [Names -> Row] /\ Rem!Vals \in [Names -> Nat]
      /\ \A n \in Names : Rem!Vals[n] = store[n].val
  BY Zenon, RemStore
<1> DEFINE y == [x EXCEPT !.pc = "ready", !.read = r, !.etag = e, !.loaded = TRUE, !.outcome = "none"]
<1>1. /\ y \in Client /\ y.pc = "ready" /\ y.read = r /\ y.etag = e /\ y.loaded /\ y.outcome = "none"
      /\ y.alone = x.alone
  BY Zenon, <1>t DEF Client
<1>2. client' = [client EXCEPT ![c] = y]  BY Zenon DEF Rem!Loaded
<1> HIDE DEF y
<1>3. ~x.alone  BY Zenon, <1>t DEF Good, Underway
<1>4. Good(y)
  BY Zenon, <1>1, <1>3, <1>u DEF Good, Underway, Untouched, Halfway, Current
<1> QED  BY Zenon, <1>1, <1>2, <1>4, RemQuiet, <1>u DEF RemGoal

\* Load of PostgreSQL, etcd and Kubernetes.
LEMMA RemLoad ==
  ASSUME RemInv, NEW c \in Clients, Rem!Load(c)
  PROVE RemGoal
<1> DEFINE x == client[c]
<1>u. /\ rev \in Nat /\ saves \in Nat /\ store \in [Names -> Row] /\ Rem!Vals \in [Names -> Nat]
      /\ \A n \in Names : Rem!Vals[n] = store[n].val
  BY Zenon, RemStore
<1> QED  BY RemLoaded, <1>u DEF Rem!Load

\* Load of S3: an error keeps the ETag but not the mark that it was loaded.
LEMMA RemLoadS3 ==
  ASSUME RemInv, NEW c \in Clients, NEW fails \in BOOLEAN, Rem!LoadS3(c, fails)
  PROVE RemGoal
<1> DEFINE x == client[c]
<1>t. x \in Client /\ Good(x)  BY Zenon DEF RemInv
<1>u. /\ rev \in Nat /\ saves \in Nat /\ store \in [Names -> Row] /\ Rem!Vals \in [Names -> Nat]
      /\ \A n \in Names : Rem!Vals[n] = store[n].val
  BY Zenon, RemStore
<1>v. Rem!None \in [Names -> Nat]  BY Zenon DEF Rem!None
<1>1. CASE fails \/ rev = 0
  <2> DEFINE y == [x EXCEPT !.pc = "ready", !.read = Rem!None, !.loaded = FALSE, !.outcome = "none"]
  <2>1. /\ y \in Client /\ y.pc = "ready" /\ y.etag = x.etag /\ ~y.loaded /\ y.outcome = "none"
        /\ y.alone = x.alone
    BY Zenon, <1>t, <1>v DEF Client
  <2>2. client' = [client EXCEPT ![c] = y]  BY Zenon, <1>1 DEF Rem!LoadS3
  <2> HIDE DEF y
  <2>3. x.pc = "idle" /\ UNCHANGED <<kind, store, rev, saves>>  BY Zenon DEF Rem!LoadS3
  <2>4. Good(y)
    BY Zenon, <2>1, <2>3, <1>t, <1>u DEF Good, Underway, Untouched, Halfway, Current
  <2> QED  BY Zenon, <2>1, <2>2, <2>3, <2>4, RemQuiet, <1>u DEF RemGoal
<1>2. CASE ~(fails \/ rev = 0)
  BY <1>2, RemLoaded, <1>u DEF Rem!LoadS3
<1> QED  BY Zenon, <1>1, <1>2

\* The caller begins a save, alone so far, with the entries before it noted.
LEMMA RemSave ==
  ASSUME RemInv, NEW c \in Clients, NEW n \in Names, NEW drop \in BOOLEAN, Rem!Save(c, n, drop)
  PROVE RemGoal
<1> DEFINE x == client[c]
<1>t. x \in Client /\ Good(x)  BY Zenon DEF RemInv
<1>u. /\ rev \in Nat /\ saves \in Nat /\ store \in [Names -> Row] /\ Rem!Vals \in [Names -> Nat]
      /\ \A m \in Names : Rem!Vals[m] = store[m].val
  BY Zenon, RemStore
<1>w. /\ x.read \in [Names -> Nat] /\ x.want \in [Names -> Nat] /\ x.etag \in Nat
      /\ x.puts \in SUBSET Names /\ x.dels \in SUBSET Names
  BY Zenon, <1>t DEF Client
<1> DEFINE w == [x.read EXCEPT ![n] = IF drop THEN 0 ELSE saves + 1]
<1> DEFINE y == [x EXCEPT !.pc = "save", !.before = Rem!Vals, !.alone = TRUE, !.want = w]
<1>1. w \in [Names -> Nat]  BY <1>u, <1>w
<1>2. x.pc = "ready" /\ saves' = saves + 1 /\ UNCHANGED <<kind, store, rev>>  BY Zenon DEF Rem!Save
<1>3. client' = [client EXCEPT ![c] = y]  BY Zenon DEF Rem!Save, RemInv
<1> HIDE DEF w
<1>4. /\ y \in Client /\ y.pc = "save" /\ y.before = Rem!Vals /\ y.alone /\ y.outcome = x.outcome
      /\ y.etag = x.etag /\ y.loaded = x.loaded /\ y.read = x.read
  BY Zenon, <1>1, <1>t, <1>u DEF Client
<1> HIDE DEF y
<1>5. Good(y)
  BY <1>2, <1>4, <1>t, <1>u DEF Good, Underway, Untouched, Halfway, Current
<1>6. y.outcome = "none"  BY Zenon, <1>2, <1>4, <1>t DEF Good, Underway
<1>7. saves' \in Nat  BY <1>2, <1>u
<1> QED  BY Zenon, <1>2, <1>3, <1>4, <1>5, <1>6, <1>7, RemQuiet DEF RemGoal

\* The conditional PutObject.
LEMMA RemSaveS3 ==
  ASSUME RemInv, NEW c \in Clients, NEW fails \in BOOLEAN, Rem!SaveS3(c, fails)
  PROVE RemGoal
<1> DEFINE x == client[c]
<1>t. x \in Client /\ Good(x)  BY Zenon DEF RemInv
<1>w. /\ x.read \in [Names -> Nat] /\ x.want \in [Names -> Nat] /\ x.etag \in Nat
      /\ x.puts \in SUBSET Names /\ x.dels \in SUBSET Names
  BY Zenon, <1>t DEF Client
<1>r. Rem!Rows(x.want) \in [Names -> Row] /\ \A n \in Names : Rem!Rows(x.want)[n].val = x.want[n]
  BY Zenon, <1>w, RemRows
<1>1. CASE fails \/ ~Rem!PutAllowed(c)  BY Zenon, <1>1, RemFails DEF Rem!SaveS3, RemGoal
<1>2. CASE ~(fails \/ ~Rem!PutAllowed(c))
  <2>1. kind = "s3" /\ x.loaded => \A n \in Names : store[n].val = x.read[n]
    BY Zenon, <1>2, <1>t DEF Rem!PutAllowed, Good, Current
  <2> QED  BY Zenon, <2>1, <1>2, RemWrite, <1>r DEF Rem!SaveS3, RemGoal
<1> QED  BY Zenon, <1>1, <1>2

\* Kubernetes reads the ConfigMap first.
LEMMA RemSaveGet ==
  ASSUME RemInv, NEW c \in Clients, NEW fails \in BOOLEAN, Rem!SaveGet(c, fails)
  PROVE RemGoal
<1> DEFINE x == client[c]
<1>t. x \in Client /\ Good(x)  BY Zenon DEF RemInv
<1>u. /\ rev \in Nat /\ saves \in Nat /\ store \in [Names -> Row] /\ Rem!Vals \in [Names -> Nat]
      /\ \A n \in Names : Rem!Vals[n] = store[n].val
  BY Zenon, RemStore
<1>1. CASE fails  BY Zenon, <1>1, RemFails DEF Rem!SaveGet, RemGoal
<1>2. CASE ~fails
  <2> DEFINE y == [x EXCEPT !.pc = "send", !.etag = rev]
  <2>1. /\ y \in Client /\ y.pc = "send" /\ y.etag = rev /\ y.loaded = x.loaded /\ y.outcome = x.outcome
        /\ y.alone = x.alone /\ y.before = x.before
    BY Zenon, <1>t, <1>u DEF Client
  <2>2. /\ client' = [client EXCEPT ![c] = y] /\ x.pc = "save" /\ kind = "kubernetes"
        /\ UNCHANGED <<kind, store, rev, saves>>
    BY Zenon, <1>2 DEF Rem!SaveGet, RemInv
  <2> HIDE DEF y
  <2>3. Good(y) /\ y.outcome = "none"
    BY <2>1, <2>2, <1>t, <1>u DEF Good, Underway, Untouched, Halfway, Current
  <2> QED  BY Zenon, <2>1, <2>2, <2>3, RemQuiet, <1>u DEF RemGoal
<1> QED  BY Zenon, <1>1, <1>2

\* Kubernetes updates that copy, or is refused.
LEMMA RemSaveUpdate ==
  ASSUME RemInv, NEW c \in Clients, NEW fails \in BOOLEAN, Rem!SaveUpdate(c, fails)
  PROVE RemGoal
<1> DEFINE x == client[c]
<1>t. x \in Client /\ Good(x)  BY Zenon DEF RemInv
<1>w. /\ x.read \in [Names -> Nat] /\ x.want \in [Names -> Nat] /\ x.etag \in Nat
      /\ x.puts \in SUBSET Names /\ x.dels \in SUBSET Names
  BY Zenon, <1>t DEF Client
<1>r. Rem!Rows(x.want) \in [Names -> Row] /\ \A n \in Names : Rem!Rows(x.want)[n].val = x.want[n]
  BY Zenon, <1>w, RemRows
<1>1. CASE fails \/ x.etag # rev  BY Zenon, <1>1, RemFails DEF Rem!SaveUpdate, RemGoal
<1>2. CASE ~(fails \/ x.etag # rev)  BY Zenon, <1>2, RemWrite, <1>r DEF Rem!SaveUpdate, RemGoal
<1> QED  BY Zenon, <1>1, <1>2

\* PostgreSQL's DELETE sees the rows committed by then.
LEMMA RemBeginDelete ==
  ASSUME RemInv, NEW c \in Clients, NEW fails \in BOOLEAN, Rem!BeginDelete(c, fails)
  PROVE RemGoal
<1> DEFINE x == client[c]
<1>t. x \in Client /\ Good(x)  BY Zenon DEF RemInv
<1>u. /\ rev \in Nat /\ saves \in Nat /\ store \in [Names -> Row] /\ Rem!Vals \in [Names -> Nat]
      /\ \A n \in Names : Rem!Vals[n] = store[n].val
  BY Zenon, RemStore
<1>1. CASE fails  BY Zenon, <1>1, RemFails DEF Rem!BeginDelete, RemGoal
<1>2. CASE ~fails
  <2> DEFINE y == [x EXCEPT !.pc = "send", !.seen = store]
  <2>1. /\ y \in Client /\ y.pc = "send" /\ y.etag = x.etag /\ y.loaded = x.loaded /\ y.outcome = x.outcome
        /\ y.alone = x.alone /\ y.before = x.before /\ y.seen = store
    BY Zenon, <1>t, <1>u DEF Client
  <2>2. /\ client' = [client EXCEPT ![c] = y] /\ x.pc = "save" /\ kind = "postgres"
        /\ UNCHANGED <<kind, store, rev, saves>>
    BY Zenon, <1>2 DEF Rem!BeginDelete, RemInv
  <2> HIDE DEF y
  <2>3. Good(y) /\ y.outcome = "none"
    BY <2>1, <2>2, <1>t, <1>u DEF Good, Underway, Untouched, Halfway, Current
  <2> QED  BY Zenon, <2>1, <2>2, <2>3, RemQuiet, <1>u DEF RemGoal
<1> QED  BY Zenon, <1>1, <1>2

\* PostgreSQL's INSERTs and commit: alone, it finds only the rows its DELETE took.
LEMMA RemInsertCommit ==
  ASSUME RemInv, NEW c \in Clients, NEW fails \in BOOLEAN, Rem!InsertCommit(c, fails)
  PROVE RemGoal
<1> DEFINE x == client[c]
<1>t. x \in Client /\ Good(x)  BY Zenon DEF RemInv
<1>u. /\ rev \in Nat /\ saves \in Nat /\ store \in [Names -> Row] /\ Rem!Vals \in [Names -> Nat]
      /\ \A n \in Names : Rem!Vals[n] = store[n].val
  BY Zenon, RemStore
<1>w. /\ x.read \in [Names -> Nat] /\ x.want \in [Names -> Nat] /\ x.etag \in Nat
      /\ x.puts \in SUBSET Names /\ x.dels \in SUBSET Names
  BY Zenon, <1>t DEF Client
<1>r. Rem!Rows(x.want) \in [Names -> Row] /\ \A n \in Names : Rem!Rows(x.want)[n].val = x.want[n]
  BY Zenon, <1>w, RemRows
<1>1. CASE fails \/ Rem!Clash(c)  BY Zenon, <1>1, RemFails DEF Rem!InsertCommit, RemGoal
<1>2. CASE ~(fails \/ Rem!Clash(c))
  <2>1. /\ x.pc = "send" /\ kind = "postgres" /\ Rem!Write(c, Rem!Committed(c)) /\ UNCHANGED <<kind, saves>>
    BY Zenon, <1>2 DEF Rem!InsertCommit
  <2>2. Rem!Committed(c) \in [Names -> Row]
    BY Zenon, <1>r, <1>u DEF Rem!Committed, Rem!Absent, Row
  <2>3. ASSUME x.alone PROVE \A n \in Names : Rem!Committed(c)[n].val = x.want[n]
    <3>1. x.seen = store  BY Zenon, <2>1, <2>3, <1>t DEF Good, Untouched
    <3> QED  BY Zenon, <3>1, <1>r DEF Rem!Committed, Rem!Absent
  <2> QED  BY Zenon, <2>1, <2>2, <2>3, RemWrite DEF RemGoal
<1> QED  BY Zenon, <1>1, <1>2

\* etcd lists the keys: what to put and what to delete.
LEMMA RemListKeys ==
  ASSUME RemInv, NEW c \in Clients, NEW fails \in BOOLEAN, Rem!ListKeys(c, fails)
  PROVE RemGoal
<1> DEFINE x == client[c]
<1>t. x \in Client /\ Good(x)  BY Zenon DEF RemInv
<1>u. /\ rev \in Nat /\ saves \in Nat /\ store \in [Names -> Row] /\ Rem!Vals \in [Names -> Nat]
      /\ \A n \in Names : Rem!Vals[n] = store[n].val
  BY Zenon, RemStore
<1>1. CASE fails  BY Zenon, <1>1, RemFails DEF Rem!ListKeys, RemGoal
<1>2. CASE ~fails
  <2> DEFINE P == {n \in Names : x.want[n] # 0}
  <2> DEFINE D == {n \in Names : store[n] # Rem!Absent /\ x.want[n] = 0}
  <2> DEFINE y == [x EXCEPT !.pc = "send", !.puts = P, !.dels = D]
  <2>0. P \in SUBSET Names /\ D \in SUBSET Names  BY Zenon
  <2>a. client' = [client EXCEPT ![c] = y]  BY Zenon, <1>2 DEF Rem!ListKeys
  <2> HIDE DEF P, D
  <2>1. /\ y \in Client /\ y.pc = "send" /\ y.etag = x.etag /\ y.loaded = x.loaded /\ y.outcome = x.outcome
        /\ y.alone = x.alone /\ y.before = x.before /\ y.puts = P /\ y.dels = D /\ y.want = x.want
    BY Zenon, <1>t, <2>0 DEF Client
  <2>2. /\ client' = [client EXCEPT ![c] = y] /\ x.pc = "save" /\ kind = "etcd"
        /\ UNCHANGED <<kind, store, rev, saves>>
    BY Zenon, <1>2, <2>a DEF Rem!ListKeys
  <2> HIDE DEF y
  <2>3. Underway(y) /\ Untouched(y) /\ Current(y) /\ y.outcome = "none"
    BY Zenon, <2>1, <2>2, <1>t, <1>u DEF Good, Underway, Untouched, Current
  <2>4. Halfway(y)
    <3> SUFFICES ASSUME x.alone PROVE
           /\ \A n \in P \cup D : store[n].val = x.before[n]
           /\ \A n \in Names \ (P \cup D) : store[n].val = x.want[n]
           /\ \A n \in Names : x.want[n] = 0 => store[n].val = x.before[n]
      BY <2>1, <2>2 DEF Halfway, P, D
    <3>1. \A n \in Names : store[n].val = x.before[n]  BY Zenon, <2>2, <1>t DEF Good, Untouched
    <3> QED  BY <3>1 DEF Rem!Absent, P, D
  <2> QED  BY Zenon, <2>1, <2>2, <2>3, <2>4, RemQuiet, <1>u DEF Good, RemGoal
<1> QED  BY Zenon, <1>1, <1>2

\* A put or delete of etcd that leaves its save under way.
LEMMA RemSent ==
  ASSUME RemInv, NEW c \in Clients, NEW y \in Client, Good(y)', y.outcome = "none", store' \in [Names -> Row], rev' = rev + 1,
             UNCHANGED <<kind, saves>>,
             client' = [d \in Clients |-> IF d = c THEN y ELSE [client[d] EXCEPT !.alone = FALSE]]
  PROVE  RemGoal
<1>1. EndsWell(c)
  <2>1. client'[c] = y  BY Zenon
  <2> QED  BY Zenon, <2>1 DEF EndsWell, Rem!Ends
<1> QED  BY Zenon, <1>1, RemLoud DEF RemGoal

\* etcd puts one entry.
LEMMA RemPutEntry ==
  ASSUME RemInv, NEW c \in Clients, NEW n \in Names, NEW fails \in BOOLEAN, Rem!PutEntry(c, n, fails)
  PROVE RemGoal
<1> DEFINE x == client[c]
<1>t. x \in Client /\ Good(x)  BY Zenon DEF RemInv
<1>u. /\ rev \in Nat /\ saves \in Nat /\ store \in [Names -> Row] /\ Rem!Vals \in [Names -> Nat]
      /\ \A m \in Names : Rem!Vals[m] = store[m].val
  BY Zenon, RemStore
<1>w. /\ x.read \in [Names -> Nat] /\ x.want \in [Names -> Nat] /\ x.etag \in Nat
      /\ x.puts \in SUBSET Names /\ x.dels \in SUBSET Names
  BY Zenon, <1>t DEF Client
<1>r. Rem!Rows(x.want) \in [Names -> Row] /\ \A m \in Names : Rem!Rows(x.want)[m].val = x.want[m]
  BY Zenon, <1>w, RemRows
<1>1. CASE fails  BY Zenon, <1>1, RemFails DEF Rem!PutEntry, Rem!Sending, RemGoal
<1>2. CASE ~fails
  <2> DEFINE y == [x EXCEPT !.puts = @ \ {n}]
  <2>1. /\ y \in Client /\ y.pc = x.pc /\ y.etag = x.etag /\ y.loaded = x.loaded /\ y.outcome = x.outcome
        /\ y.alone = x.alone /\ y.before = x.before /\ y.puts = x.puts \ {n} /\ y.dels = x.dels /\ y.want = x.want
    BY Zenon, <1>t DEF Client
  <2>2. /\ client' = [d \in Clients |-> IF d = c THEN y ELSE [client[d] EXCEPT !.alone = FALSE]]
        /\ x.pc = "send" /\ kind = "etcd" /\ n \in x.puts /\ UNCHANGED <<kind, saves>> /\ rev' = rev + 1
        /\ store' = [store EXCEPT ![n] = Rem!Rows(x.want)[n]]
    BY Zenon, <1>2 DEF Rem!PutEntry, Rem!Sending
  <2> HIDE DEF y
  <2>3. store' \in [Names -> Row] /\ \A m \in Names : store'[m].val = IF m = n THEN x.want[n] ELSE store[m].val
    BY Zenon, <2>2, <1>r, <1>u
  <2>4. ASSUME NEW z \in Client, z = y PROVE Good(z)'
    <3>1. (Underway(z) /\ Untouched(z) /\ Current(z))'
      BY <2>1, <2>2, <2>4, <1>t, <1>u, <1>w DEF Good, Underway, Untouched, Current
    <3>2. Halfway(z)'
      BY <2>1, <2>2, <2>3, <2>4, <1>t, <1>w DEF Good, Halfway
    <3> QED  BY Zenon, <3>1, <3>2 DEF Good
  <2>5. y.outcome = "none"  BY Zenon, <2>1, <2>2, <1>t DEF Good, Underway
  <2> QED  BY Zenon, <2>1, <2>2, <2>3, <2>4, <2>5, RemSent
<1> QED  BY Zenon, <1>1, <1>2

\* etcd deletes one key, after all puts.
LEMMA RemDeleteEntry ==
  ASSUME RemInv, NEW c \in Clients, NEW n \in Names, NEW fails \in BOOLEAN, Rem!DeleteEntry(c, n, fails)
  PROVE RemGoal
<1> DEFINE x == client[c]
<1>t. x \in Client /\ Good(x)  BY Zenon DEF RemInv
<1>u. /\ rev \in Nat /\ saves \in Nat /\ store \in [Names -> Row] /\ Rem!Vals \in [Names -> Nat]
      /\ \A m \in Names : Rem!Vals[m] = store[m].val
  BY Zenon, RemStore
<1>w. /\ x.read \in [Names -> Nat] /\ x.want \in [Names -> Nat] /\ x.etag \in Nat
      /\ x.puts \in SUBSET Names /\ x.dels \in SUBSET Names
  BY Zenon, <1>t DEF Client
<1>1. CASE fails  BY Zenon, <1>1, RemFails DEF Rem!DeleteEntry, Rem!Sending, RemGoal
<1>2. CASE ~fails
  <2> DEFINE y == [x EXCEPT !.dels = @ \ {n}]
  <2>1. /\ y \in Client /\ y.pc = x.pc /\ y.etag = x.etag /\ y.loaded = x.loaded /\ y.outcome = x.outcome
        /\ y.alone = x.alone /\ y.before = x.before /\ y.puts = x.puts /\ y.dels = x.dels \ {n} /\ y.want = x.want
    BY Zenon, <1>t DEF Client
  <2>2. /\ client' = [d \in Clients |-> IF d = c THEN y ELSE [client[d] EXCEPT !.alone = FALSE]]
        /\ x.pc = "send" /\ kind = "etcd" /\ n \in x.dels /\ x.puts = {} /\ UNCHANGED <<kind, saves>>
        /\ rev' = rev + 1 /\ store' = [store EXCEPT ![n] = Rem!Absent]
    BY Zenon, <1>2 DEF Rem!DeleteEntry, Rem!Sending, Rem!MayDelete
  <2> HIDE DEF y
  <2>3. store' \in [Names -> Row] /\ \A m \in Names : store'[m].val = IF m = n THEN 0 ELSE store[m].val
    BY Zenon, <2>2, <1>u DEF Rem!Absent, Row
  <2>4. ASSUME NEW z \in Client, z = y PROVE Good(z)'
    <3>1. (Underway(z) /\ Untouched(z) /\ Current(z))'
      BY <2>1, <2>2, <2>4, <1>t, <1>u, <1>w DEF Good, Underway, Untouched, Current
    <3>2. Halfway(z)'
      BY <2>1, <2>2, <2>3, <2>4, <1>t, <1>w DEF Good, Halfway
    <3> QED  BY Zenon, <3>1, <3>2 DEF Good
  <2>5. y.outcome = "none"  BY Zenon, <2>1, <2>2, <1>t DEF Good, Underway
  <2> QED  BY Zenon, <2>1, <2>2, <2>3, <2>4, <2>5, RemSent
<1> QED  BY Zenon, <1>1, <1>2

\* etcd's Save returns when nothing is left to send.
LEMMA RemSaveDone ==
  ASSUME RemInv, NEW c \in Clients, Rem!SaveDone(c)
  PROVE RemGoal
<1> DEFINE x == client[c]
<1>t. x \in Client /\ Good(x)  BY Zenon DEF RemInv
<1>u. /\ rev \in Nat /\ saves \in Nat /\ store \in [Names -> Row] /\ Rem!Vals \in [Names -> Nat]
      /\ \A n \in Names : Rem!Vals[n] = store[n].val
  BY Zenon, RemStore
<1> DEFINE y == Rem!Returned("ok", 0)
<1>1. y \in Client /\ y.outcome = "ok" /\ y.etag = 0 /\ ~y.alone /\ y.pc = "idle" /\ ~y.loaded
  BY Zenon, RemReturned
<1>2. /\ client' = [client EXCEPT ![c] = y] /\ UNCHANGED <<kind, store, rev, saves>> /\ kind = "etcd"
      /\ x.pc = "send" /\ x.puts = {} /\ x.dels = {}
  BY Zenon DEF Rem!SaveDone, Rem!Sending
<1> HIDE DEF y
<1>3. client' \in [Clients -> Client] /\ \A d \in Clients : client'[d] = IF d = c THEN y ELSE client[d]
  BY Zenon, <1>1, <1>2 DEF RemInv
<1>4. ASSUME NEW d \in Clients PROVE Good(client[d])'
  <2>1. CASE d = c  BY <2>1, <1>1, <1>2, <1>3, <1>u DEF Good, Underway, Untouched, Halfway, Current
  <2>2. CASE d # c  BY <2>2, <1>2, <1>3 DEF Good, Underway, Untouched, Halfway, Current, RemInv
  <2> QED  BY Zenon, <2>1, <2>2
<1>5. ASSUME NEW d \in Clients PROVE EndsWell(d)
  <2>1. CASE d # c  BY Zenon, <2>1, <1>3 DEF EndsWell, Rem!Ends
  <2>2. CASE d = c
    <3>1. x.alone => \A n \in Names : store[n].val = x.want[n]  BY Zenon, <1>2, <1>t DEF Good, Halfway
    <3> QED  BY Zenon, <3>1, <2>2, <1>1, <1>2, <1>3 DEF EndsWell
  <2> QED  BY Zenon, <2>1, <2>2
<1> QED  BY Zenon, <1>2, <1>3, <1>4, <1>5, <1>u DEF RemInv, RemGoal

\* Every step keeps the invariant, and every save it ends ends well.
LEMMA RemStep ==
  ASSUME RemInv, Rem!Next
  PROVE  RemGoal
  BY Zenon, RemLoad, RemLoadS3, RemSave, RemSaveS3, RemSaveGet, RemSaveUpdate, RemBeginDelete, RemInsertCommit,
     RemListKeys, RemPutEntry, RemDeleteEntry, RemSaveDone DEF Rem!Next

\* A save to PostgreSQL, etcd, S3 or a ConfigMap that nobody disturbed leaves exactly its
\* entries, or when it fails those before it (in etcd, some of each, with deletes last);
\* and S3 never overwrites what its client has not read.
THEOREM RemoteSavesEnd ==
  Rem!Spec => [][Rem!EndsExactly /\ Rem!EndsOnWhatItRead]_Rem!vars
<1>1. Rem!Init => RemInv
  <2> SUFFICES ASSUME Rem!Init PROVE RemInv  BY Zenon
  <2>1. Rem!NewClient \in Client
    BY Zenon DEF Rem!NewClient, Rem!None, Rem!Absent, Client, Row
  <2>2. store \in [Names -> Row] /\ rev = 0 /\ saves = 0 /\ client = [c \in Clients |-> Rem!NewClient]
    BY Zenon DEF Rem!Init, Rem!Absent, Row
  <2>3. Good(Rem!NewClient)
    BY <2>2 DEF Good, Underway, Untouched, Halfway, Current, Rem!NewClient
  <2> QED  BY Zenon, <2>1, <2>2, <2>3 DEF RemInv
<1>2. RemInv /\ [Rem!Next]_Rem!vars => RemInv'
  <2> SUFFICES ASSUME RemInv, Rem!Next \/ UNCHANGED Rem!vars PROVE RemInv'  BY Zenon
  <2>1. CASE UNCHANGED Rem!vars
    BY <2>1 DEF RemInv, Rem!vars, Good, Underway, Untouched, Halfway, Current
  <2> QED  BY Zenon, <2>1, RemStep DEF RemGoal
<1>3. RemInv /\ [Rem!Next]_Rem!vars => [Rem!EndsExactly /\ Rem!EndsOnWhatItRead]_Rem!vars
  <2> SUFFICES ASSUME RemInv, Rem!Next PROVE Rem!EndsExactly /\ Rem!EndsOnWhatItRead  BY Zenon
  <2>1. RemInv' /\ \A d \in Clients : EndsWell(d)  BY Zenon, RemStep DEF RemGoal
  <2>2. /\ Rem!Vals = [n \in Names |-> store[n].val] /\ Rem!Vals' = [n \in Names |-> store'[n].val]
        /\ \A c \in Clients : /\ client[c].want \in [Names -> Nat] /\ client[c].before \in [Names -> Nat]
                              /\ client[c].read \in [Names -> Nat]
    BY Zenon DEF Rem!Vals, RemInv, Client
  <2>3. Rem!EndsExactly  BY <2>1, <2>2 DEF EndsWell, Rem!EndsExactly
  <2>4. Rem!EndsOnWhatItRead  BY <2>1, <2>2 DEF EndsWell, Rem!EndsOnWhatItRead
  <2> QED  BY Zenon, <2>3, <2>4
<1> QED  BY <1>1, <1>2, <1>3, PTL DEF Rem!Spec

-----------------------------------------------------------------------------
(* Sessions in Redis *)

CONSTANTS MaxMessages, MaxFaults
VARIABLES sess, msgs, run, sent, faults, log, mixed
Red == INSTANCE RedisSessions

Messages == [type : {"none", "string", "list"}, val : Seq(Nat), ttl : BOOLEAN]
Method ==
  [pc : {"idle", "set", "expire", "type", "lrange", "getString", "del", "push", "expireMigrated"},
   val : Seq(Nat), left : Seq(Nat)]
OnMsgs(x) == x.pc \notin {"idle", "set"}
WillExpire(x) == x.pc \in {"expire", "push", "expireMigrated"}

\* What a migration has in hand: the whole history once it has read it, and while it
\* pushes, what is not yet in the new list.
InHand(x) ==
  /\ x.pc \in {"del", "push", "expireMigrated"} => x.val = log
  /\ x.pc = "del" => x.left = log
  /\ x.pc = "push" => msgs.val \o x.left = log /\ msgs.type # "string"

\* Undisturbed, one method at a time works on the messages, and the key holds the
\* history except while a migration pushes it.
Undisturbed ==
  ~mixed => /\ \A c, d \in Clients : OnMsgs(run[c]) /\ OnMsgs(run[d]) => c = d
            /\ \A c \in Clients : InHand(run[c])
            /\ (\A c \in Clients : run[c].pc # "push") => msgs.val = log

RedInv ==
  /\ msgs \in Messages /\ run \in [Clients -> Method] /\ sent \in Nat /\ faults \in Nat
  /\ log \in Seq(Nat) /\ mixed \in BOOLEAN
  /\ msgs.type = "none" => msgs.val = <<>>
  /\ Red!HistoriesExpire
  /\ Undisturbed

\* Pushing the first message left moves it, whatever is in the list already.
LEMMA RedPush ==
  ASSUME NEW v \in Seq(Nat), NEW l \in Seq(Nat), l # <<>>
  PROVE  /\ <<Head(l)>> \in Seq(Nat) /\ v \o <<Head(l)>> \in Seq(Nat) /\ Tail(l) \in Seq(Nat)
         /\ (v \o <<Head(l)>>) \o Tail(l) = v \o l
         /\ <<Head(l)>> \o Tail(l) = l /\ <<>> \o l = l /\ l \o <<>> = l
<1>1. <<Head(l)>> \in Seq(Nat) /\ v \o <<Head(l)>> \in Seq(Nat) /\ Tail(l) \in Seq(Nat)  OBVIOUS
<1>2. (v \o <<Head(l)>>) \o Tail(l) = v \o l  OBVIOUS
<1>3. <<Head(l)>> \o Tail(l) = l /\ <<>> \o l = l /\ l \o <<>> = l  OBVIOUS
<1> QED  BY Zenon, <1>1, <1>2, <1>3

\* What is enough to show of a step of client c that leaves it in y.
LEMMA RedKeeps ==
  ASSUME RedInv, NEW c \in Clients, NEW y \in Method, run' = [run EXCEPT ![c] = y],
         msgs' \in Messages, sent' \in Nat, faults' \in Nat, log' \in Seq(Nat), mixed' \in BOOLEAN,
         msgs'.type = "none" => msgs'.val = <<>>,
         msgs'.type = "list" /\ ~msgs'.ttl /\ faults' = 0 =>
           WillExpire(y) \/ (msgs.type = "list" /\ ~msgs.ttl /\ faults = 0 /\ ~WillExpire(run[c])),
         ~mixed' => /\ ~mixed
                    /\ OnMsgs(y) \/ msgs' # msgs \/ log' # log => \A d \in Clients \ {c} : ~OnMsgs(run[d])
                    /\ InHand(y)'
                    /\ y.pc # "push" /\ (\A d \in Clients \ {c} : run[d].pc # "push") => msgs'.val = log'
  PROVE  RedInv'
<1>1. run' \in [Clients -> Method] /\ \A d \in Clients : run'[d] = IF d = c THEN y ELSE run[d]
  BY Zenon DEF RedInv
<1>2. Red!HistoriesExpire'
  BY Zenon, <1>1 DEF RedInv, Red!HistoriesExpire, Red!At, WillExpire
<1>3. Undisturbed'
  <2> SUFFICES ASSUME ~mixed'
               PROVE  /\ \A a, b \in Clients : OnMsgs(run'[a]) /\ OnMsgs(run'[b]) => a = b
                      /\ \A a \in Clients : InHand(run[a])'
                      /\ (\A a \in Clients : run'[a].pc # "push") => msgs'.val = log'
    BY Zenon DEF Undisturbed, OnMsgs
  <2>1. ~mixed /\ Undisturbed  BY Zenon DEF RedInv
  <2>2. \A a, b \in Clients : OnMsgs(run'[a]) /\ OnMsgs(run'[b]) => a = b
    BY <1>1, <2>1 DEF Undisturbed
  <2>3. ASSUME NEW a \in Clients PROVE InHand(run[a])'
    <3>1. CASE a = c  BY Zenon, <3>1, <1>1 DEF InHand
    <3>2. CASE a # c /\ OnMsgs(run[a])
      BY Zenon, <3>2, <1>1, <2>1 DEF Undisturbed, InHand
    <3>3. CASE a # c /\ ~OnMsgs(run[a])
      BY Zenon, <3>3, <1>1 DEF OnMsgs, InHand
    <3> QED  BY Zenon, <3>1, <3>2, <3>3
  <2>4. (\A a \in Clients : run'[a].pc # "push") => msgs'.val = log'
    BY Zenon, <1>1
  <2> QED  BY Zenon, <2>2, <2>3, <2>4
<1> QED  BY Zenon, <1>1, <1>2, <1>3 DEF RedInv

\* A client that moves on keeps what it has in hand; one that returns drops it.
LEMMA RedMoves ==
  ASSUME RedInv, NEW c \in Clients
  PROVE  /\ run[c] \in Method
         /\ \A p \in {"set", "expire", "lrange", "getString", "push", "expireMigrated"} :
              LET y == [run[c] EXCEPT !.pc = p] IN
              y \in Method /\ y.pc = p /\ y.val = run[c].val /\ y.left = run[c].left
         /\ Red!Idle \in Method /\ Red!Idle.pc = "idle"
         /\ ~mixed /\ OnMsgs(run[c]) => \A d \in Clients \ {c} : ~OnMsgs(run[d])
         /\ ~Red!Others(c) => \A d \in Clients \ {c} : ~OnMsgs(run[d])
<1>1. run[c] \in Method  BY Zenon DEF RedInv
<1>2. ASSUME NEW p \in {"set", "expire", "lrange", "getString", "push", "expireMigrated"}
      PROVE  LET y == [run[c] EXCEPT !.pc = p] IN
             y \in Method /\ y.pc = p /\ y.val = run[c].val /\ y.left = run[c].left
  BY Zenon, <1>1 DEF Method
<1>3. Red!Idle \in Method /\ Red!Idle.pc = "idle"  BY DEF Red!Idle, Method
<1>4. ~mixed /\ OnMsgs(run[c]) => \A d \in Clients \ {c} : ~OnMsgs(run[d])
  BY Zenon DEF RedInv, Undisturbed
<1>5. ~Red!Others(c) => \A d \in Clients \ {c} : ~OnMsgs(run[d])
  BY Zenon DEF Red!Others, Red!OnMessages, OnMsgs
<1> QED  BY Zenon, <1>1, <1>2, <1>3, <1>4, <1>5

\* A step after which the key and the history are as before, and client c is in y.
LEMMA RedReads ==
  ASSUME RedInv, NEW c \in Clients, NEW y \in Method, run' = [run EXCEPT ![c] = y],
         UNCHANGED <<msgs, log>>, sent' \in Nat, faults' \in Nat, mixed' \in BOOLEAN, faults' = 0 => faults = 0,
         WillExpire(run[c]) => WillExpire(y) \/ faults' # 0,
         ~mixed' => /\ ~mixed /\ (OnMsgs(run[c]) \/ ~OnMsgs(y) \/ ~Red!Others(c)) /\ InHand(y)
                    /\ run[c].pc = "push" /\ y.pc # "push" => msgs.val = log
  PROVE  RedInv'
<1>1. /\ msgs \in Messages /\ log \in Seq(Nat) /\ (msgs.type = "none" => msgs.val = <<>>)
  BY Zenon DEF RedInv
<1>2. ~mixed' => /\ ~mixed
                 /\ OnMsgs(y) \/ msgs' # msgs \/ log' # log => \A d \in Clients \ {c} : ~OnMsgs(run[d])
                 /\ InHand(y)'
  <2>1. msgs' = msgs /\ log' = log  BY Zenon
  <2>2. InHand(y) => InHand(y)'  BY Zenon, <2>1 DEF InHand
  <2>3. ~mixed' /\ OnMsgs(y) => \A d \in Clients \ {c} : ~OnMsgs(run[d])  BY Zenon, RedMoves
  <2>4. ~(msgs' # msgs \/ log' # log)  BY Zenon, <2>1
  <2> QED  BY Zenon, <2>2, <2>3, <2>4
<1>3. ASSUME ~mixed', y.pc # "push", \A d \in Clients \ {c} : run[d].pc # "push" PROVE msgs.val = log
  <2>1. CASE run[c].pc = "push"  BY Zenon, <2>1, <1>3
  <2>2. CASE run[c].pc # "push"
    <3>1. \A d \in Clients : run[d].pc # "push"  BY Zenon, <2>2, <1>3
    <3> QED  BY Zenon, <3>1, <1>3 DEF RedInv, Undisturbed
  <2> QED  BY Zenon, <2>1, <2>2
<1> QED  BY Zenon, <1>1, <1>2, <1>3, RedKeeps

\* Touch reads the session.
LEMMA RedTouchGet ==
  ASSUME RedInv, NEW c \in Clients, Red!TouchGet(c) PROVE RedInv'
<1>1. run[c].pc = "idle" /\ UNCHANGED <<sess, msgs, sent, faults, log, mixed>>  BY Zenon DEF Red!TouchGet, Red!At
<1>2. PICK y \in Method : run' = [run EXCEPT ![c] = y] /\ y.pc \in {"set", "idle"}
  <2>1. CASE sess
    <3>1. run' = [run EXCEPT ![c] = [run[c] EXCEPT !.pc = "set"]]  BY Zenon, <2>1 DEF Red!TouchGet, Red!Goto
    <3> QED  BY Zenon, <3>1, RedMoves
  <2>2. CASE ~sess
    <3>1. run' = [run EXCEPT ![c] = Red!Idle]  BY Zenon, <2>2 DEF Red!TouchGet, Red!Return
    <3> QED  BY Zenon, <3>1, RedMoves
  <2> QED  BY Zenon, <2>1, <2>2
<1>3. sent \in Nat /\ faults \in Nat /\ mixed \in BOOLEAN  BY Zenon DEF RedInv
<1> QED  BY Zenon, <1>1, <1>2, <1>3, RedReads DEF WillExpire, OnMsgs, InHand

\* Touch writes the session back; Load has the list.
LEMMA RedReturns ==
  ASSUME RedInv, NEW c \in Clients, Red!TouchSet(c) \/ Red!LoadRange(c) PROVE RedInv'
<1>1. /\ run[c].pc \in {"set", "lrange"} /\ run' = [run EXCEPT ![c] = Red!Idle]
      /\ UNCHANGED <<msgs, sent, faults, log, mixed>>
  BY Zenon DEF Red!TouchSet, Red!LoadRange, Red!At, Red!Return
<1>2. Red!Idle \in Method /\ Red!Idle.pc = "idle"  BY Zenon, RedMoves
<1>3. sent \in Nat /\ faults \in Nat /\ mixed \in BOOLEAN  BY Zenon DEF RedInv
<1> QED  BY Zenon, <1>1, <1>2, <1>3, RedReads DEF WillExpire, OnMsgs, InHand

\* Load asks for the type of the key.
LEMMA RedLoadType ==
  ASSUME RedInv, NEW c \in Clients, Red!LoadType(c) PROVE RedInv'
<1>1. /\ run[c].pc = "idle" /\ UNCHANGED <<sess, msgs, sent, faults, log>> /\ mixed' = (mixed \/ Red!Others(c))
  BY Zenon DEF Red!LoadType, Red!At
<1>2. PICK y \in Method : run' = [run EXCEPT ![c] = y] /\ y.pc \in {"getString", "lrange", "idle"}
  <2>1. \/ run' = [run EXCEPT ![c] = [run[c] EXCEPT !.pc = "getString"]]
        \/ run' = [run EXCEPT ![c] = [run[c] EXCEPT !.pc = "lrange"]]
        \/ run' = [run EXCEPT ![c] = Red!Idle]
    BY Zenon DEF Red!LoadType, Red!Goto, Red!Return
  <2> QED  BY Zenon, <2>1, RedMoves
<1>3. sent \in Nat /\ faults \in Nat /\ mixed' \in BOOLEAN  BY Zenon, <1>1 DEF RedInv
<1>4. ~mixed' => ~mixed /\ ~Red!Others(c)  BY Zenon, <1>1
<1> QED  BY Zenon, <1>1, <1>2, <1>3, <1>4, RedReads DEF WillExpire, OnMsgs, InHand

\* Delete removes the session and its messages.
LEMMA RedDelete ==
  ASSUME RedInv, NEW c \in Clients, Red!Delete(c) PROVE RedInv'
<1>1. /\ run[c].pc = "idle" /\ msgs' = Red!Absent /\ log' = <<>> /\ mixed' = (mixed \/ Red!Others(c))
      /\ UNCHANGED <<run, sent, faults>>
  BY Zenon DEF Red!Delete, Red!At
<1>2. /\ msgs' \in Messages /\ msgs'.type = "none" /\ msgs'.val = <<>> /\ log' \in Seq(Nat)
  BY <1>1 DEF Red!Absent, Messages
<1>3. run[c] \in Method /\ run' = [run EXCEPT ![c] = run[c]] /\ sent \in Nat /\ faults \in Nat  BY Zenon, <1>1 DEF RedInv
<1>4. mixed' \in BOOLEAN /\ (~mixed' => ~mixed /\ ~Red!Others(c))  BY Zenon, <1>1 DEF RedInv
<1>5. ~Red!Others(c) => \A d \in Clients \ {c} : ~OnMsgs(run[d])  BY Zenon, RedMoves
<1>6. InHand(run[c])'  BY Zenon, <1>1 DEF InHand
<1>7. msgs'.val = log'  BY Zenon, <1>1, <1>2
<1>8. ~(msgs'.type = "list")  BY Zenon, <1>2
<1>9. ASSUME NEW y \in Method, y = run[c] PROVE RedInv'
  <2>1. InHand(y)'  BY Zenon, <1>1, <1>9 DEF InHand
  <2> QED  BY Zenon, <1>1, <1>2, <1>3, <1>4, <1>5, <1>7, <1>8, <1>9, <2>1, RedKeeps
<1> QED  BY Zenon, <1>3, <1>9

\* Save pushes a message, or turns to the migration of an old key.
LEMMA RedSavePush ==
  ASSUME RedInv, NEW c \in Clients, Red!SavePush(c) PROVE RedInv'
<1>1. /\ run[c].pc = "idle" /\ sent' = sent + 1 /\ mixed' = (mixed \/ Red!Others(c)) /\ UNCHANGED <<sess, faults>>
  BY Zenon DEF Red!SavePush, Red!At
<1>2. mixed' \in BOOLEAN /\ (~mixed' => ~mixed /\ ~Red!Others(c))  BY Zenon, <1>1 DEF RedInv
<1>3. sent' \in Nat /\ faults \in Nat /\ sent \in Nat  BY <1>1 DEF RedInv
<1>4. CASE msgs.type = "string"
  <2>1. run' = [run EXCEPT ![c] = Red!Idle] /\ UNCHANGED <<msgs, log>>
    BY Zenon, <1>4 DEF Red!SavePush, Red!Return
  <2>2. Red!Idle \in Method /\ Red!Idle.pc = "idle"  BY Zenon, RedMoves
  <2>3. InHand(Red!Idle) /\ ~OnMsgs(Red!Idle)  BY Zenon, <2>2 DEF InHand, OnMsgs
  <2> QED  BY Zenon, <1>1, <1>2, <1>3, <2>1, <2>2, <2>3, RedReads DEF WillExpire
<1>5. CASE msgs.type # "string"
  <2> DEFINE y == [run[c] EXCEPT !.pc = "expire"]
  <2>1. run' = [run EXCEPT ![c] = y] /\ msgs' = Red!Pushed(<<sent + 1>>) /\ log' = Append(log, sent + 1)
    BY Zenon, <1>5 DEF Red!SavePush, Red!Goto
  <2>2. y \in Method /\ y.pc = "expire"  BY Zenon, RedMoves
  <2> HIDE DEF y
  <2>3. msgs \in Messages /\ log \in Seq(Nat) /\ (msgs.type = "none" => msgs.val = <<>>)  BY Zenon DEF RedInv
  <2>s. <<sent + 1>> \in Seq(Nat)  BY <1>3
  <2>4. msgs' \in Messages /\ msgs'.type = "list" /\ msgs'.val = msgs.val \o <<sent + 1>>
    <3> DEFINE v == msgs.val \o <<sent + 1>>
    <3>a. msgs.val \in Seq(Nat) /\ <<sent + 1>> \in Seq(Nat)  BY Zenon, <2>3, <2>s DEF Messages
    <3>b. v \in Seq(Nat)  BY <3>a
    <3>c. msgs.type = "none" => v = <<sent + 1>>
      <4>1. <<>> \o <<sent + 1>> = <<sent + 1>>  BY <3>a
      <4> QED  BY Zenon, <4>1, <2>3
    <3>1. v \in Seq(Nat) /\ (msgs.type = "none" => v = <<sent + 1>>)  BY Zenon, <3>b, <3>c
    <3>2. msgs' = IF msgs.type = "list" THEN [msgs EXCEPT !.val = v]
                  ELSE [type |-> "list", val |-> <<sent + 1>>, ttl |-> FALSE]
      BY Zenon, <2>1 DEF Red!Pushed
    <3> HIDE DEF v
    <3>3. msgs' \in Messages /\ msgs'.type = "list" /\ msgs'.val = v
      <4>1. CASE msgs.type = "list"  BY Zenon, <4>1, <3>1, <3>2, <2>3 DEF Messages
      <4>2. CASE msgs.type = "none"  BY Zenon, <4>2, <3>1, <3>2, <2>3 DEF Messages
      <4> QED  BY <4>1, <4>2, <2>3, <1>5 DEF Messages
    <3> QED  BY Zenon, <3>3 DEF v
  <2>5. log' \in Seq(Nat) /\ log' = log \o <<sent + 1>>  BY <2>1, <2>3, <1>3
  <2>6. ~mixed' => \A d \in Clients \ {c} : ~OnMsgs(run[d])  BY Zenon, <1>2, RedMoves
  <2>7. ~mixed' => msgs.val = log
    BY <2>6, <1>1, <1>2 DEF RedInv, Undisturbed, OnMsgs
  <2>8. ASSUME NEW x \in Method, x = y PROVE InHand(x)'  BY Zenon, <2>8, <2>2 DEF InHand
  <2>9. WillExpire(y) /\ ~(msgs'.type = "none")  BY <2>2, <2>4 DEF WillExpire
  <2>10. ~mixed' => msgs'.val = log'  BY Zenon, <2>4, <2>5, <2>7
  <2> QED  BY Zenon, <1>2, <1>1, <1>3, <2>1, <2>2, <2>4, <2>5, <2>6, <2>8, <2>9, <2>10, RedKeeps
<1> QED  BY Zenon, <1>4, <1>5

\* The time to live is set.
LEMMA RedExpire ==
  ASSUME RedInv, NEW c \in Clients, Red!Expire(c) PROVE RedInv'
<1>1. /\ run[c].pc \in {"expire", "expireMigrated"} /\ run' = [run EXCEPT ![c] = Red!Idle]
      /\ msgs' = IF msgs.type = "none" THEN msgs ELSE [msgs EXCEPT !.ttl = TRUE]
      /\ UNCHANGED <<sess, sent, faults, log, mixed>>
  BY Zenon DEF Red!Expire, Red!At, Red!Return
<1>2. Red!Idle \in Method /\ Red!Idle.pc = "idle"  BY Zenon, RedMoves
<1>3. /\ msgs \in Messages /\ log \in Seq(Nat) /\ (msgs.type = "none" => msgs.val = <<>>)
      /\ sent \in Nat /\ faults \in Nat /\ mixed \in BOOLEAN
  BY Zenon DEF RedInv
<1>4. /\ msgs' \in Messages /\ msgs'.type = msgs.type /\ msgs'.val = msgs.val /\ (msgs.type # "none" => msgs'.ttl)
  BY Zenon, <1>1, <1>3 DEF Messages
<1>5. ASSUME ~mixed PROVE (\A d \in Clients \ {c} : ~OnMsgs(run[d])) /\ msgs.val = log
  <2>1. OnMsgs(run[c])  BY Zenon, <1>1 DEF OnMsgs
  <2>2. \A d \in Clients \ {c} : ~OnMsgs(run[d])  BY Zenon, <1>5, <2>1, RedMoves
  <2>3. \A d \in Clients : run[d].pc # "push"  BY Zenon, <2>2, <1>1 DEF OnMsgs
  <2> QED  BY Zenon, <1>5, <2>2, <2>3 DEF RedInv, Undisturbed
<1>6. ASSUME NEW x \in Method, x = Red!Idle PROVE InHand(x)'  BY Zenon, <1>6, <1>2 DEF InHand
<1>7. ~(msgs'.type = "list" /\ ~msgs'.ttl)  BY Zenon, <1>4
<1> QED  BY Zenon, <1>1, <1>2, <1>3, <1>4, <1>5, <1>6, <1>7, RedKeeps

\* A migration reads the old string.
LEMMA RedMigrateGet ==
  ASSUME RedInv, NEW c \in Clients, Red!MigrateGet(c) PROVE RedInv'
<1>1. run[c].pc = "getString" /\ UNCHANGED <<sess, msgs, sent, faults, log, mixed>>
  BY Zenon DEF Red!MigrateGet, Red!At
<1>2. /\ msgs \in Messages /\ sent \in Nat /\ faults \in Nat /\ mixed \in BOOLEAN /\ msgs.val \in Seq(Nat)
  BY Zenon DEF RedInv, Messages
<1>3. ~mixed => msgs.val = log
  <2>1. OnMsgs(run[c])  BY Zenon, <1>1 DEF OnMsgs
  <2>2. ~mixed => \A d \in Clients \ {c} : ~OnMsgs(run[d])  BY Zenon, <2>1, RedMoves
  <2> QED  BY Zenon, <2>2, <1>1 DEF RedInv, Undisturbed, OnMsgs
<1>4. PICK y \in Method : /\ run' = [run EXCEPT ![c] = y]
                          /\ y.pc = "idle" \/ (y.pc = "del" /\ y.val = msgs.val /\ y.left = msgs.val)
  <2>1. CASE msgs.type = "string"
    <3> DEFINE y == [pc |-> "del", val |-> msgs.val, left |-> msgs.val]
    <3>1. run' = [run EXCEPT ![c] = y]  BY Zenon, <2>1 DEF Red!MigrateGet
    <3>2. y \in Method /\ y.pc = "del" /\ y.val = msgs.val /\ y.left = msgs.val  BY Zenon, <1>2 DEF Method
    <3> QED  BY Zenon, <3>1, <3>2
  <2>2. CASE msgs.type # "string"
    <3>1. run' = [run EXCEPT ![c] = Red!Idle]  BY Zenon, <2>2 DEF Red!MigrateGet, Red!Return
    <3> QED  BY Zenon, <3>1, RedMoves
  <2> QED  BY Zenon, <2>1, <2>2
<1>5. /\ ~WillExpire(run[c]) /\ OnMsgs(run[c]) /\ (~mixed => InHand(y)) /\ run[c].pc # "push"
  BY Zenon, <1>1, <1>3, <1>4 DEF WillExpire, OnMsgs, InHand
<1> QED  BY Zenon, <1>1, <1>2, <1>4, <1>5, RedReads

\* A migration deletes the old key: the history is now only in its hands.
LEMMA RedMigrateDel ==
  ASSUME RedInv, NEW c \in Clients, Red!MigrateDel(c) PROVE RedInv'
<1> DEFINE y == [run[c] EXCEPT !.pc = "push"]
<1>1. /\ run[c].pc = "del" /\ run' = [run EXCEPT ![c] = y] /\ msgs' = Red!Absent
      /\ UNCHANGED <<sess, sent, faults, log, mixed>>
  BY Zenon DEF Red!MigrateDel, Red!At, Red!Goto
<1>2. y \in Method /\ y.pc = "push" /\ y.val = run[c].val /\ y.left = run[c].left  BY Zenon, RedMoves
<1> HIDE DEF y
<1>3. /\ msgs' \in Messages /\ msgs'.type = "none" /\ msgs'.val = <<>> /\ log \in Seq(Nat)
      /\ sent \in Nat /\ faults \in Nat /\ mixed \in BOOLEAN
  BY <1>1 DEF RedInv, Red!Absent, Messages
<1>4. OnMsgs(run[c]) /\ WillExpire(y) /\ msgs'.type # "string" /\ ~(y.pc # "push")
  BY Zenon, <1>1, <1>2, <1>3 DEF OnMsgs, WillExpire
<1>5. ~mixed => run[c].val = log /\ run[c].left = log  BY Zenon, <1>1 DEF RedInv, Undisturbed, InHand
<1>6. <<>> \o log = log  BY <1>3
<1>7. ASSUME NEW x \in Method, x = y, ~mixed PROVE InHand(x)'
  BY <1>1, <1>2, <1>3, <1>5, <1>6, <1>7 DEF InHand
<1>8. ~mixed => \A d \in Clients \ {c} : ~OnMsgs(run[d])  BY Zenon, <1>4, RedMoves
<1> QED  BY Zenon, <1>1, <1>2, <1>3, <1>4, <1>7, <1>8, RedKeeps

\* A migration pushes the next message.
LEMMA RedMigratePush ==
  ASSUME RedInv, NEW c \in Clients, Red!MigratePush(c) PROVE RedInv'
<1> DEFINE l == run[c].left
<1> DEFINE y == [run[c] EXCEPT !.left = Tail(@)]
<1>1. /\ run[c].pc = "push" /\ l # <<>> /\ run' = [run EXCEPT ![c] = y] /\ msgs' = Red!Pushed(<<Head(l)>>)
      /\ UNCHANGED <<sess, sent, faults, log, mixed>>
  BY Zenon DEF Red!MigratePush, Red!At
<1>2. /\ msgs \in Messages /\ msgs.val \in Seq(Nat) /\ log \in Seq(Nat) /\ (msgs.type = "none" => msgs.val = <<>>)
      /\ sent \in Nat /\ faults \in Nat /\ mixed \in BOOLEAN /\ run[c] \in Method /\ l \in Seq(Nat)
  BY Zenon DEF RedInv, Messages, Method
<1>3. /\ <<Head(l)>> \in Seq(Nat) /\ msgs.val \o <<Head(l)>> \in Seq(Nat) /\ Tail(l) \in Seq(Nat)
      /\ (msgs.val \o <<Head(l)>>) \o Tail(l) = msgs.val \o l /\ <<Head(l)>> \o Tail(l) = l /\ <<>> \o l = l
  BY Zenon, <1>1, <1>2, RedPush
<1>4. y \in Method /\ y.pc = "push" /\ y.val = run[c].val /\ y.left = Tail(l)
  <2> DEFINE t == Tail(l)
  <2>1. y = [run[c] EXCEPT !.left = t]  BY Zenon
  <2> HIDE DEF t, y
  <2>2. t \in Seq(Nat)  BY Zenon, <1>3 DEF t
  <2>3. y \in Method /\ y.pc = "push" /\ y.val = run[c].val /\ y.left = t  BY Zenon, <2>1, <2>2, <1>1, <1>2 DEF Method
  <2> QED  BY Zenon, <2>3 DEF t
<1>5. /\ msgs' \in Messages /\ msgs'.type = "list"
      /\ msgs'.val = IF msgs.type = "list" THEN msgs.val \o <<Head(l)>> ELSE <<Head(l)>>
      /\ msgs.type = "list" => msgs'.ttl = msgs.ttl
  <2> DEFINE v == msgs.val \o <<Head(l)>>
  <2> DEFINE h == <<Head(l)>>
  <2>1. msgs' = IF msgs.type = "list" THEN [msgs EXCEPT !.val = v] ELSE [type |-> "list", val |-> h, ttl |-> FALSE]
    BY Zenon, <1>1 DEF Red!Pushed
  <2> HIDE DEF v, h
  <2>2. v \in Seq(Nat) /\ h \in Seq(Nat)  BY Zenon, <1>3 DEF v, h
  <2>3. /\ msgs' \in Messages /\ msgs'.type = "list" /\ msgs'.val = IF msgs.type = "list" THEN v ELSE h
        /\ msgs.type = "list" => msgs'.ttl = msgs.ttl
    BY Zenon, <2>1, <2>2, <1>2 DEF Messages
  <2> QED  BY Zenon, <2>3 DEF v, h
<1> HIDE DEF y
<1>6. OnMsgs(run[c]) /\ WillExpire(y) /\ ~(msgs'.type = "none") /\ ~(y.pc # "push")
  BY <1>1, <1>4, <1>5 DEF OnMsgs, WillExpire
<1>7. ~mixed => run[c].val = log /\ msgs.val \o l = log /\ msgs.type # "string"
  BY Zenon, <1>1 DEF RedInv, Undisturbed, InHand
<1>8. ~mixed => msgs'.val \o Tail(l) = log
  <2>1. CASE msgs.type = "list"  BY Zenon, <2>1, <1>3, <1>5, <1>7
  <2>2. CASE msgs.type = "none"
    <3>1. msgs.val = <<>> /\ msgs'.val = <<Head(l)>>  BY Zenon, <2>2, <1>2, <1>5
    <3> QED  BY Zenon, <3>1, <1>3, <1>7
  <2> QED  BY Zenon, <2>1, <2>2, <1>7, <1>2 DEF Messages
<1>9. ASSUME NEW x \in Method, x = y, ~mixed PROVE InHand(x)'
  BY Zenon, <1>1, <1>4, <1>5, <1>7, <1>8, <1>9 DEF InHand
<1>10. ~mixed => \A d \in Clients \ {c} : ~OnMsgs(run[d])  BY Zenon, <1>6, RedMoves
<1> QED  BY Zenon, <1>1, <1>2, <1>4, <1>5, <1>6, <1>9, <1>10, RedKeeps

\* A migration has pushed all.
LEMMA RedMigratePushed ==
  ASSUME RedInv, NEW c \in Clients, Red!MigratePushed(c) PROVE RedInv'
<1> DEFINE y == [run[c] EXCEPT !.pc = "expireMigrated"]
<1>1. /\ run[c].pc = "push" /\ run[c].left = <<>> /\ run' = [run EXCEPT ![c] = y]
      /\ UNCHANGED <<sess, msgs, sent, faults, log, mixed>>
  BY Zenon DEF Red!MigratePushed, Red!At, Red!Goto
<1>2. y \in Method /\ y.pc = "expireMigrated" /\ y.val = run[c].val  BY Zenon, RedMoves
<1> HIDE DEF y
<1>3. msgs.val \in Seq(Nat) /\ sent \in Nat /\ faults \in Nat /\ mixed \in BOOLEAN  BY Zenon DEF RedInv, Messages
<1>4. ~mixed => run[c].val = log /\ msgs.val \o run[c].left = log
  BY Zenon, <1>1 DEF RedInv, Undisturbed, InHand
<1>5. msgs.val \o <<>> = msgs.val  BY <1>3
<1>6. ~mixed => msgs.val = log  BY Zenon, <1>1, <1>4, <1>5
<1>7. OnMsgs(run[c]) /\ WillExpire(y) /\ (~mixed => InHand(y))
  BY Zenon, <1>1, <1>2, <1>4 DEF OnMsgs, WillExpire, InHand
<1> QED  BY Zenon, <1>1, <1>2, <1>3, <1>6, <1>7, RedReads

\* A command fails.
LEMMA RedFault ==
  ASSUME RedInv, NEW c \in Clients, Red!Fault(c) PROVE RedInv'
<1>1. faults' = faults + 1 /\ mixed' = TRUE /\ UNCHANGED <<sess, msgs, sent, log>>  BY Zenon DEF Red!Fault
<1>2. sent \in Nat /\ faults' \in Nat /\ faults' # 0  BY <1>1 DEF RedInv
<1>3. PICK y \in Method : run' = [run EXCEPT ![c] = y]
  <2>1. \/ run' = [run EXCEPT ![c] = [run[c] EXCEPT !.pc = "expireMigrated"]]
        \/ run' = [run EXCEPT ![c] = Red!Idle]
    BY Zenon DEF Red!Fault, Red!Goto, Red!Return
  <2> QED  BY Zenon, <2>1, RedMoves
<1> QED  BY Zenon, <1>1, <1>2, <1>3, RedReads

\* However the methods of the server processes interleave and whichever commands fail:
\* undisturbed, the store keeps every message in order, and no history is left without
\* a TTL unless a command failed.
THEOREM SessionsAreKept == Red!Spec => [](Red!HistoryIsKept /\ Red!HistoriesExpire)
<1>1. Red!Init => RedInv
  <2> SUFFICES ASSUME Red!Init PROVE RedInv  BY Zenon
  <2>1. /\ run = [c \in Clients |-> Red!Idle] /\ Red!Idle \in Method /\ Red!Idle.pc = "idle"
    BY DEF Red!Init, Red!Idle, Method
  <2>2. /\ msgs \in Messages /\ log = msgs.val /\ sent = 0 /\ faults = 0 /\ mixed = FALSE
        /\ msgs.type = "none" => msgs.val = <<>>
        /\ msgs.type = "list" => msgs.ttl
    <3>1. <<>> \in Seq(Nat) /\ <<0>> \in Seq(Nat) /\ <<0, 0>> \in Seq(Nat)  OBVIOUS
    <3>2. /\ log = msgs.val /\ sent = 0 /\ faults = 0 /\ mixed = FALSE
          /\ \/ msgs = [type |-> "none", val |-> <<>>, ttl |-> FALSE]
             \/ msgs = [type |-> "string", val |-> <<0, 0>>, ttl |-> TRUE]
             \/ msgs = [type |-> "list", val |-> <<0>>, ttl |-> TRUE]
      BY Zenon DEF Red!Init, Red!Absent
    <3>3. CASE msgs = [type |-> "none", val |-> <<>>, ttl |-> FALSE]  BY Zenon, <3>1, <3>2, <3>3 DEF Messages
    <3>4. CASE msgs = [type |-> "string", val |-> <<0, 0>>, ttl |-> TRUE]  BY Zenon, <3>1, <3>2, <3>4 DEF Messages
    <3>5. CASE msgs = [type |-> "list", val |-> <<0>>, ttl |-> TRUE]  BY Zenon, <3>1, <3>2, <3>5 DEF Messages
    <3> QED  BY Zenon, <3>2, <3>3, <3>4, <3>5
  <2>3. log \in Seq(Nat)  BY Zenon, <2>2 DEF Messages
  <2>4. Red!HistoriesExpire  BY Zenon, <2>2 DEF Red!HistoriesExpire
  <2>5. Undisturbed  BY Zenon, <2>1, <2>2 DEF Undisturbed, OnMsgs, InHand
  <2> QED  BY Zenon, <2>1, <2>2, <2>3, <2>4, <2>5 DEF RedInv
<1>2. RedInv /\ [Red!Next]_Red!vars => RedInv'
  <2> SUFFICES ASSUME RedInv, Red!Next \/ UNCHANGED Red!vars PROVE RedInv'  BY Zenon
  <2>1. CASE Red!Next
    BY Zenon, <2>1, RedTouchGet, RedReturns, RedLoadType, RedDelete, RedSavePush, RedExpire, RedMigrateGet,
       RedMigrateDel, RedMigratePush, RedMigratePushed, RedFault DEF Red!Next
  <2>2. CASE UNCHANGED Red!vars
    BY Zenon, <2>2 DEF Red!vars, RedInv, Red!HistoriesExpire, Red!At, Undisturbed, InHand, OnMsgs
  <2> QED  BY <2>1, <2>2
<1>3. RedInv => Red!HistoryIsKept /\ Red!HistoriesExpire
  <2> SUFFICES ASSUME RedInv PROVE Red!HistoryIsKept  BY Zenon DEF RedInv
  <2> SUFFICES ASSUME ~mixed
               PROVE  /\ (\A c \in Clients : ~Red!OnMessages(c)) => msgs.val = log
                      /\ \A c \in Clients : Red!At(c, "expireMigrated") => run[c].val = msgs.val
    BY Zenon DEF Red!HistoryIsKept
  <2>1. (\A c \in Clients : ~Red!OnMessages(c)) => msgs.val = log
    BY Zenon DEF RedInv, Undisturbed, Red!OnMessages
  <2>2. ASSUME NEW c \in Clients, Red!At(c, "expireMigrated") PROVE run[c].val = msgs.val
    <3>1. run[c].pc = "expireMigrated" /\ OnMsgs(run[c])  BY Zenon, <2>2 DEF Red!At, OnMsgs
    <3>2. \A d \in Clients \ {c} : ~OnMsgs(run[d])  BY Zenon, <3>1, RedMoves
    <3>3. \A d \in Clients : run[d].pc # "push"  BY <3>1, <3>2 DEF OnMsgs
    <3> QED  BY Zenon, <3>1, <3>3 DEF RedInv, Undisturbed, InHand
  <2> QED  BY Zenon, <2>1, <2>2
<1> QED  BY <1>1, <1>2, <1>3, PTL DEF Red!Spec

-----------------------------------------------------------------------------
(* Budgets *)

CONSTANTS Workers, Limits, Periods, MaxCost, MaxTime, MaxTotal
VARIABLES now, entries, total, inv, warned, resetOn
Bud == INSTANCE Budgets

\* Any number of requests, any limits in dollars, any periods.
BudgetConstants ==
  /\ IsFiniteSet(Workers) /\ Limits \in Seq(Nat) /\ Periods \in [DOMAIN Limits -> Nat \ {0}] /\ MaxCost \in Nat

\* What counting the requests in flight needs of a finite set of workers.
Counting ==
  /\ Cardinality(Workers) \in Nat /\ Cardinality({}) = 0
  /\ \A T \in SUBSET Workers :
       /\ Cardinality(T) \in Nat /\ Cardinality(T) <= Cardinality(Workers)
       /\ \A v \in T : Cardinality(T) = Cardinality(T \ {v}) + 1

BudgetFacts == BudgetConstants /\ Counting

Budget == [used : Nat, resetAt : Nat, paused : BOOLEAN, warnedAt : BOOLEAN]
Invocation == [pc : {"idle", "run", "record", "warn"}, cost : 0 .. MaxCost]

\* The flag of a budget remembers its warning, its next reset is the one after its
\* last reset, and a paused budget is spent.
BudgetOK(j) ==
  /\ warned[j] <= 1 /\ (~entries[j].warnedAt => warned[j] = 0)
  /\ entries[j].resetAt = Bud!NextReset(resetOn[j], j)
  /\ entries[j].paused => entries[j].used >= Limits[j]

BudInv ==
  /\ now \in Nat /\ entries \in [DOMAIN Limits -> Budget] /\ inv \in [Workers -> Invocation]
  /\ warned \in [DOMAIN Limits -> Nat] /\ resetOn \in [DOMAIN Limits -> Nat]
  /\ \A j \in DOMAIN Limits : BudgetOK(j)
  /\ Bud!OverrunBounded

\* Multiplication keeps the order.
LEMMA BudTimes ==
  ASSUME NEW k \in Nat, NEW m \in Nat, NEW q \in Nat, k <= m
  PROVE  k * q \in Nat /\ k * q <= m * q /\ (k + 1) * q = k * q + q
  OBVIOUS

\* As many whole periods as fit.
LEMMA BudDivision ==
  ASSUME NEW t \in Nat, NEW p \in Nat \ {0}, NEW k \in Nat
  PROVE  t \div p \in Nat /\ 0 \div p = 0 /\ (t >= k * p => t \div p >= k)
<1>1. t \div p \in Nat /\ 0 \div p = 0  OBVIOUS
<1>2. t < (t \div p + 1) * p  OBVIOUS
<1>3. ASSUME t >= k * p, t \div p < k PROVE FALSE
  <2> DEFINE d == t \div p
  <2>1. d + 1 \in Nat /\ d + 1 <= k /\ t < (d + 1) * p  BY <1>1, <1>2, <1>3
  <2> HIDE DEF d
  <2>2. (d + 1) * p <= k * p  BY <2>1, BudTimes
  <2> QED  BY <2>1, <2>2, <1>3
<1> QED  BY <1>1, <1>3

\* The instance's Cardinality is this module's.
LEMMA BudCount ==
  ASSUME NEW S PROVE Bud!Cardinality(S) = Cardinality(S)
  BY Zenon DEF Bud!Cardinality, Cardinality

Flies(x) == x.pc \in {"run", "record"}
Flying == {w \in Workers : inv[w].pc \in {"run", "record"}}

\* The requests in flight are at most the workers, and one worker's step changes their
\* number by its own.
LEMMA BudFlight ==
  ASSUME BudgetFacts, BudInv, NEW w \in Workers, NEW y \in Invocation, inv' = [inv EXCEPT ![w] = y]
  PROVE  /\ Bud!InFlight \in Nat /\ Bud!InFlight' \in Nat /\ Cardinality(Workers) \in Nat
         /\ Bud!InFlight' <= Cardinality(Workers)
         /\ (Flies(y) <=> Flies(inv[w])) => Bud!InFlight' = Bud!InFlight
         /\ Flies(inv[w]) /\ ~Flies(y) => Bud!InFlight = Bud!InFlight' + 1
         /\ Flies(inv[w]) => Bud!InFlight' <= Bud!InFlight
<1>1. Bud!InFlight = Cardinality(Flying) /\ Bud!InFlight' = Cardinality(Flying')
  BY Zenon, BudCount DEF Bud!InFlight, Flying
<1>2. \A v \in Workers : inv'[v] = IF v = w THEN y ELSE inv[v]  BY Zenon DEF BudInv
<1>3. Flying \subseteq Workers /\ Flying' \subseteq Workers  BY Zenon DEF Flying
<1>5. /\ Cardinality(Flying) \in Nat /\ Cardinality(Flying') \in Nat /\ Cardinality(Workers) \in Nat
      /\ Cardinality(Flying') <= Cardinality(Workers)
  BY Zenon, <1>3 DEF BudgetFacts, Counting
<1>6. (Flies(y) <=> Flies(inv[w])) => Flying' = Flying
  BY Zenon, <1>2 DEF Flying, Flies
<1>7. ASSUME Flies(inv[w]), ~Flies(y) PROVE Cardinality(Flying) = Cardinality(Flying') + 1
  <2>1. w \in Flying  BY Zenon, <1>7 DEF Flying, Flies
  <2>2. Flying' = Flying \ {w}  BY Zenon, <1>2, <1>7 DEF Flying, Flies
  <2> QED  BY Zenon, <2>1, <2>2, <1>3 DEF BudgetFacts, Counting
<1>8. Flies(inv[w]) => Cardinality(Flying') <= Cardinality(Flying)
  <2> DEFINE k == Cardinality(Flying)
  <2> DEFINE l == Cardinality(Flying')
  <2>1. k \in Nat /\ l \in Nat /\ (Flies(inv[w]) => l = k \/ k = l + 1)  BY Zenon, <1>5, <1>6, <1>7
  <2> HIDE DEF k, l
  <2>2. Flies(inv[w]) => l <= k  BY <2>1
  <2> QED  BY Zenon, <2>2 DEF k, l
<1> QED  BY Zenon, <1>1, <1>5, <1>6, <1>7, <1>8

\* What a step leaves of a budget, up to the bound on its overrun.
LEMMA BudKeeps ==
  ASSUME BudgetFacts, BudInv, now' \in Nat,
         entries' \in [DOMAIN Limits -> Budget], warned' \in [DOMAIN Limits -> Nat], resetOn' \in [DOMAIN Limits -> Nat],
         NEW w \in Workers, NEW y \in Invocation, inv' = [inv EXCEPT ![w] = y],
         \A j \in DOMAIN Limits : BudgetOK(j)',
         \A j \in DOMAIN Limits : Limits[j] > 0 =>
            \/ entries'[j].used < Limits[j]
            \/ entries'[j].used <= entries[j].used /\ Bud!InFlight' <= Bud!InFlight
            \/ entries'[j].used <= entries[j].used + MaxCost /\ Bud!InFlight = Bud!InFlight' + 1
  PROVE  BudInv'
<1> DEFINE k == Bud!InFlight
<1> DEFINE m == Cardinality(Workers)
<1> DEFINE l == Bud!InFlight'
<1>1. k \in Nat /\ l \in Nat /\ m \in Nat /\ l <= m  BY Zenon, BudFlight
<1>2. MaxCost \in Nat  BY DEF BudgetFacts, BudgetConstants
<1>3. ASSUME NEW j \in DOMAIN Limits, Limits[j] > 0
      PROVE  entries'[j].used + l * MaxCost < Limits[j] + m * MaxCost
  <2> DEFINE a == entries[j].used
  <2> DEFINE b == entries'[j].used
  <2> DEFINE n == Limits[j]
  <2>0. Bud!OverrunBounded  BY Zenon DEF BudInv
  <2>1. a + k * MaxCost < n + m * MaxCost  BY Zenon, <2>0, <1>3, BudCount DEF Bud!OverrunBounded
  <2>2. a \in Nat /\ b \in Nat /\ n \in Nat
    <3>1. entries[j] \in Budget /\ entries'[j] \in Budget  BY DEF BudInv
    <3>2. Limits[j] \in Nat  BY DEF BudgetFacts, BudgetConstants
    <3> QED  BY <3>1, <3>2 DEF Budget
  <2>3. b < n \/ (b <= a /\ l <= k) \/ (b <= a + MaxCost /\ k = l + 1)  BY Zenon, <1>3
  <2> HIDE DEF a, b, n, k, l, m
  <2>4. /\ l * MaxCost \in Nat /\ k * MaxCost \in Nat /\ m * MaxCost \in Nat /\ l * MaxCost <= m * MaxCost
    BY <1>1, <1>2, BudTimes
  <2>5. l <= k => l * MaxCost <= k * MaxCost  BY <1>1, <1>2, BudTimes
  <2>6. (l + 1) * MaxCost = l * MaxCost + MaxCost  BY <1>1, <1>2, BudTimes
  <2>7. b + l * MaxCost < n + m * MaxCost
    <3>1. CASE b < n  BY <3>1, <2>2, <2>4
    <3>2. CASE b <= a /\ l <= k  BY <3>2, <2>1, <2>2, <2>4, <2>5
    <3>3. CASE b <= a + MaxCost /\ k = l + 1
      <4>1. k * MaxCost = l * MaxCost + MaxCost  BY <3>3, <2>6
      <4> QED  BY <3>3, <4>1, <1>2, <2>1, <2>2, <2>4
    <3> QED  BY <2>3, <3>1, <3>2, <3>3
  <2> QED  BY <2>7 DEF a, b, n, l, m
<1>4. Bud!OverrunBounded'  BY Zenon, <1>3, BudCount DEF Bud!OverrunBounded
<1>5. inv' \in [Workers -> Invocation]  BY DEF BudInv
<1> QED  BY <1>4, <1>5 DEF BudInv

\* A worker that moves on keeps its cost.
LEMMA BudMoves ==
  ASSUME BudInv, NEW w \in Workers, NEW p \in {"idle", "run", "record", "warn"}
  PROVE  LET y == [inv[w] EXCEPT !.pc = p] IN y \in Invocation /\ y.pc = p
<1>1. inv[w] \in Invocation  BY Zenon DEF BudInv
<1> QED  BY Zenon, <1>1 DEF Invocation

\* The types of one budget.
LEMMA BudTypes ==
  ASSUME BudgetFacts, BudInv, NEW j \in DOMAIN Limits
  PROVE  /\ entries[j] \in Budget /\ entries[j].used \in Nat /\ entries[j].resetAt \in Nat
         /\ entries[j].paused \in BOOLEAN /\ entries[j].warnedAt \in BOOLEAN
         /\ Limits[j] \in Nat /\ Periods[j] \in Nat \ {0} /\ warned[j] \in Nat /\ resetOn[j] \in Nat /\ now \in Nat
         /\ BudgetOK(j)
<1>1. entries[j] \in Budget /\ warned[j] \in Nat /\ resetOn[j] \in Nat /\ now \in Nat /\ BudgetOK(j)
  BY Zenon DEF BudInv
<1>2. Limits[j] \in Nat /\ Periods[j] \in Nat \ {0}  BY DEF BudgetFacts, BudgetConstants
<1> QED  BY Zenon, <1>1, <1>2 DEF Budget

\* What CheckBudget leaves of an entry: refilled, paused, or as it was; and all of
\* them below their limits when the request is admitted.
CheckedEntry(j) ==
  \/ /\ Bud!Due(j) /\ entries'[j] = Bud!Refill(j) /\ warned'[j] = 0 /\ resetOn'[j] = now
  \/ /\ Bud!Spent(j) /\ entries'[j] = [entries[j] EXCEPT !.paused = TRUE]
     /\ warned'[j] = warned[j] /\ resetOn'[j] = resetOn[j]
  \/ entries'[j] = entries[j] /\ warned'[j] = warned[j] /\ resetOn'[j] = resetOn[j]

\* What CheckBudget does to each budget, and what it has seen when it lets a request in.
LEMMA BudChecks ==
  ASSUME BudgetFacts, BudInv, NEW w \in Workers, Bud!CheckBudget(w)
  PROVE  /\ \A j \in DOMAIN Limits : CheckedEntry(j)
         /\ Bud!Passed = DOMAIN Limits =>
              \A j \in DOMAIN Limits : ~Bud!Spent(j) /\ (Bud!Due(j) => entries'[j] = Bud!Refill(j))
<1>1. ASSUME NEW j \in DOMAIN Limits
      PROVE  /\ entries'[j] = IF j \in Bud!Passed /\ Bud!Due(j) THEN Bud!Refill(j)
                              ELSE IF Bud!Spent(j) /\ \A k \in 1 .. (j - 1) : k \in Bud!Passed
                                THEN [entries[j] EXCEPT !.paused = TRUE]
                              ELSE entries[j]
             /\ warned'[j] = IF j \in Bud!Passed /\ Bud!Due(j) THEN 0 ELSE warned[j]
             /\ resetOn'[j] = IF j \in Bud!Passed /\ Bud!Due(j) THEN now ELSE resetOn[j]
  BY Zenon, <1>1 DEF Bud!CheckBudget
<1>2. ASSUME NEW j \in DOMAIN Limits PROVE CheckedEntry(j)
  <2>1. ~(Bud!Spent(j) /\ Bud!Due(j))  BY Zenon DEF Bud!Spent
  <2> QED  BY Zenon, <1>1, <2>1 DEF CheckedEntry
<1>3. ASSUME Bud!Passed = DOMAIN Limits, NEW j \in DOMAIN Limits
      PROVE  ~Bud!Spent(j) /\ (Bud!Due(j) => entries'[j] = Bud!Refill(j))
  <2>1. j \in Bud!Passed /\ j \in 1 .. j  BY <1>3 DEF BudgetFacts, BudgetConstants
  <2>2. ~Bud!Spent(j)  BY <2>1 DEF Bud!Passed
  <2> QED  BY Zenon, <1>1, <2>1, <2>2
<1> QED  BY Zenon, <1>2, <1>3

\* CheckBudget: budgets that are due are refilled up to the first that is spent.
LEMMA BudCheckBudget ==
  ASSUME BudgetFacts, BudInv, NEW w \in Workers, Bud!CheckBudget(w)
  PROVE  BudInv'
<1> DEFINE y == [inv[w] EXCEPT !.pc = IF Bud!Passed = DOMAIN Limits THEN "run" ELSE "idle"]
<1>1. inv[w].pc = "idle" /\ inv' = [inv EXCEPT ![w] = y] /\ now' = now
  BY Zenon DEF Bud!CheckBudget
<1>2. y \in Invocation /\ y.pc = IF Bud!Passed = DOMAIN Limits THEN "run" ELSE "idle"
  BY Zenon, BudMoves
<1> HIDE DEF y
<1>3. ASSUME NEW j \in DOMAIN Limits
      PROVE  /\ entries'[j] \in Budget /\ warned'[j] \in Nat /\ resetOn'[j] \in Nat /\ BudgetOK(j)'
             /\ entries'[j].used <= entries[j].used
             /\ ~Bud!Spent(j) /\ (Bud!Due(j) => entries'[j] = Bud!Refill(j)) /\ Limits[j] > 0 =>
                  entries'[j].used < Limits[j]
  <2>1. CheckedEntry(j)  BY BudChecks
  <2>2. /\ entries[j] \in Budget /\ entries[j].used \in Nat /\ entries[j].resetAt \in Nat
        /\ entries[j].paused \in BOOLEAN /\ entries[j].warnedAt \in BOOLEAN
        /\ Limits[j] \in Nat /\ Periods[j] \in Nat \ {0} /\ warned[j] \in Nat /\ resetOn[j] \in Nat /\ now \in Nat
        /\ BudgetOK(j)
    BY BudTypes
  <2>3. CASE Bud!Due(j) /\ entries'[j] = Bud!Refill(j) /\ warned'[j] = 0 /\ resetOn'[j] = now
    <3>1. Bud!NextReset(now, j) \in Nat  BY <2>2, BudDivision DEF Bud!NextReset
    <3>2. /\ entries'[j] \in Budget /\ entries'[j].used = 0 /\ entries'[j].resetAt = Bud!NextReset(now, j)
          /\ ~entries'[j].paused
      BY <2>3, <3>1 DEF Bud!Refill, Budget
    <3>3. Bud!NextReset(resetOn[j], j)' = Bud!NextReset(now, j)  BY Zenon, <2>3 DEF Bud!NextReset
    <3> QED  BY <2>2, <2>3, <3>2, <3>3 DEF BudgetOK
  <2>4. CASE /\ Bud!Spent(j) /\ entries'[j] = [entries[j] EXCEPT !.paused = TRUE]
             /\ warned'[j] = warned[j] /\ resetOn'[j] = resetOn[j]
    <3>1. /\ entries'[j] \in Budget /\ entries'[j].used = entries[j].used
          /\ entries'[j].resetAt = entries[j].resetAt /\ entries'[j].warnedAt = entries[j].warnedAt
      BY Zenon, <2>2, <2>4 DEF Budget
    <3>2. entries[j].used >= Limits[j]  BY <2>2, <2>4 DEF Bud!Spent, BudgetOK
    <3>3. Bud!NextReset(resetOn[j], j)' = Bud!NextReset(resetOn[j], j)  BY Zenon, <2>4 DEF Bud!NextReset
    <3>4. BudgetOK(j)'  BY <2>2, <2>4, <3>1, <3>2, <3>3 DEF BudgetOK
    <3> QED  BY <2>2, <2>4, <3>1, <3>4
  <2>5. CASE entries'[j] = entries[j] /\ warned'[j] = warned[j] /\ resetOn'[j] = resetOn[j]
    <3>1. Bud!NextReset(resetOn[j], j)' = Bud!NextReset(resetOn[j], j)  BY Zenon, <2>5 DEF Bud!NextReset
    <3>2. BudgetOK(j)'  BY <2>2, <2>5, <3>1 DEF BudgetOK
    <3>3. Bud!Due(j) /\ entries'[j] = Bud!Refill(j) => entries'[j].used = 0  BY DEF Bud!Refill
    <3> QED  BY <2>2, <2>5, <3>2, <3>3 DEF Bud!Spent
  <2> QED  BY Zenon, <2>1, <2>3, <2>4, <2>5 DEF CheckedEntry
<1>4. /\ entries' \in [DOMAIN Limits -> Budget] /\ warned' \in [DOMAIN Limits -> Nat]
      /\ resetOn' \in [DOMAIN Limits -> Nat]
  <2>1. /\ entries' = [j \in DOMAIN Limits |-> entries'[j]] /\ warned' = [j \in DOMAIN Limits |-> warned'[j]]
        /\ resetOn' = [j \in DOMAIN Limits |-> resetOn'[j]]
    BY DEF Bud!CheckBudget
  <2> QED  BY <2>1, <1>3
<1>5. /\ Bud!InFlight \in Nat
      /\ Bud!Passed # DOMAIN Limits => Bud!InFlight' = Bud!InFlight
  <2>1. ~Flies(inv[w]) /\ (Bud!Passed # DOMAIN Limits => ~Flies(y))  BY <1>1, <1>2 DEF Flies
  <2> QED  BY Zenon, <2>1, <1>1, <1>2, BudFlight
<1>6. ASSUME NEW j \in DOMAIN Limits, Limits[j] > 0
      PROVE  \/ entries'[j].used < Limits[j]
             \/ entries'[j].used <= entries[j].used /\ Bud!InFlight' <= Bud!InFlight
  <2>1. CASE Bud!Passed = DOMAIN Limits  BY Zenon, <2>1, <1>3, <1>6, BudChecks
  <2>2. CASE Bud!Passed # DOMAIN Limits  BY <2>2, <1>3, <1>5
  <2> QED  BY Zenon, <2>1, <2>2
<1>7. now' \in Nat  BY Zenon, <1>1 DEF BudInv
<1> QED  BY Zenon, <1>1, <1>2, <1>3, <1>4, <1>6, <1>7, BudKeeps

\* A budget no field of which changed is as good as before.
LEMMA BudSame ==
  ASSUME BudgetFacts, BudInv, NEW j \in DOMAIN Limits, resetOn'[j] = resetOn[j],
         entries'[j].resetAt = entries[j].resetAt, entries'[j].paused = entries[j].paused,
         entries'[j].used \in Nat, entries'[j].used >= entries[j].used,
         entries'[j].warnedAt = entries[j].warnedAt /\ warned'[j] = warned[j]
  PROVE  BudgetOK(j)'
<1>1. /\ entries[j].used \in Nat /\ Limits[j] \in Nat /\ BudgetOK(j)  BY Zenon, BudTypes
<1>2. Bud!NextReset(resetOn[j], j)' = Bud!NextReset(resetOn[j], j)  BY Zenon DEF Bud!NextReset
<1> QED  BY <1>1, <1>2 DEF BudgetOK

\* The invocation costs something, or fails.
LEMMA BudRun ==
  ASSUME BudgetFacts, BudInv, NEW w \in Workers, Bud!Run(w)
  PROVE  BudInv'
<1>1. inv[w].pc = "run" /\ UNCHANGED <<now, entries, total, warned, resetOn>>  BY Zenon DEF Bud!Run
<1>2. PICK y \in Invocation : inv' = [inv EXCEPT ![w] = y] /\ y.pc \in {"record", "idle"}
  <2>1. CASE inv' = [inv EXCEPT ![w] = [inv[w] EXCEPT !.pc = "idle"]]  BY Zenon, <2>1, BudMoves
  <2>2. ASSUME NEW c \in 0 .. MaxCost, inv' = [inv EXCEPT ![w] = [pc |-> "record", cost |-> c]]
        PROVE  \E y \in Invocation : inv' = [inv EXCEPT ![w] = y] /\ y.pc \in {"record", "idle"}
    <3>1. [pc |-> "record", cost |-> c] \in Invocation /\ [pc |-> "record", cost |-> c].pc = "record"
      BY Zenon DEF Invocation
    <3> QED  BY Zenon, <2>2, <3>1
  <2> QED  BY Zenon, <2>1, <2>2 DEF Bud!Run
<1>3. Flies(inv[w])  BY <1>1 DEF Flies
<1>4. Bud!InFlight' <= Bud!InFlight  BY Zenon, <1>2, <1>3, BudFlight
<1>5. ASSUME NEW j \in DOMAIN Limits PROVE BudgetOK(j)' /\ entries'[j].used <= entries[j].used
  <2>1. entries[j].used \in Nat /\ entries[j].used <= entries[j].used /\ entries[j].used >= entries[j].used
    BY BudTypes
  <2> QED  BY <2>1, <1>1, BudSame
<1>6. /\ now' \in Nat /\ entries' \in [DOMAIN Limits -> Budget] /\ warned' \in [DOMAIN Limits -> Nat]
      /\ resetOn' \in [DOMAIN Limits -> Nat]
  BY Zenon, <1>1 DEF BudInv
<1> QED  BY Zenon, <1>2, <1>4, <1>5, <1>6, BudKeeps

\* RecordUsage adds the cost to every budget.
LEMMA BudRecordUsage ==
  ASSUME BudgetFacts, BudInv, NEW w \in Workers, Bud!RecordUsage(w)
  PROVE  BudInv'
<1> DEFINE y == [pc |-> "warn", cost |-> 0]
<1> DEFINE c == inv[w].cost
<1>1. /\ inv[w].pc = "record" /\ inv' = [inv EXCEPT ![w] = y] /\ UNCHANGED <<now, warned, resetOn>>
      /\ entries' = [j \in DOMAIN Limits |-> [entries[j] EXCEPT !.used = @ + c]]
  BY Zenon DEF Bud!RecordUsage
<1>2. c \in Nat /\ c <= MaxCost /\ MaxCost \in Nat
  <2>1. inv[w] \in Invocation /\ MaxCost \in Nat  BY Zenon DEF BudInv, BudgetFacts, BudgetConstants
  <2> QED  BY <2>1 DEF Invocation
<1>3. y \in Invocation /\ ~Flies(y) /\ Flies(inv[w])  BY <1>1, <1>2 DEF Invocation, Flies
<1> HIDE DEF y, c
<1>4. ASSUME NEW j \in DOMAIN Limits
      PROVE  entries'[j] \in Budget /\ BudgetOK(j)' /\ entries'[j].used <= entries[j].used + MaxCost
  <2>1. entries[j] \in Budget /\ entries[j].used \in Nat  BY Zenon, BudTypes
  <2>2. entries'[j] = [entries[j] EXCEPT !.used = entries[j].used + c]  BY Zenon, <1>1
  <2>3. entries[j].used + c \in Nat /\ entries[j].used + c >= entries[j].used /\ entries[j].used + c <= entries[j].used + MaxCost
    BY <2>1, <1>2
  <2> DEFINE u == entries[j].used + c
  <2> HIDE DEF u
  <2>4. /\ entries'[j] \in Budget /\ entries'[j].used = u /\ entries'[j].resetAt = entries[j].resetAt
        /\ entries'[j].paused = entries[j].paused /\ entries'[j].warnedAt = entries[j].warnedAt
    BY Zenon, <2>1, <2>2, <2>3 DEF Budget, u
  <2>5. warned'[j] = warned[j] /\ resetOn'[j] = resetOn[j]  BY Zenon, <1>1
  <2>6. u \in Nat /\ u >= entries[j].used /\ u <= entries[j].used + MaxCost  BY Zenon, <2>3 DEF u
  <2>7. BudgetOK(j)'  BY Zenon, <2>4, <2>5, <2>6, BudSame
  <2> QED  BY Zenon, <2>4, <2>6, <2>7
<1>5. entries' \in [DOMAIN Limits -> Budget]  BY Zenon, <1>1, <1>4
<1>6. /\ now' \in Nat /\ warned' \in [DOMAIN Limits -> Nat] /\ resetOn' \in [DOMAIN Limits -> Nat]
  BY Zenon, <1>1 DEF BudInv
<1>7. Bud!InFlight = Bud!InFlight' + 1  BY Zenon, <1>1, <1>3, BudFlight
<1> QED  BY Zenon, <1>1, <1>3, <1>4, <1>5, <1>6, <1>7, BudKeeps

\* CheckWarnings warns and pauses.
LEMMA BudCheckWarnings ==
  ASSUME BudgetFacts, BudInv, NEW w \in Workers, Bud!CheckWarnings(w)
  PROVE  BudInv'
<1> DEFINE y == [inv[w] EXCEPT !.pc = "idle"]
<1>1. inv[w].pc = "warn" /\ inv' = [inv EXCEPT ![w] = y] /\ UNCHANGED <<now, total, resetOn>>
  BY Zenon DEF Bud!CheckWarnings
<1>2. y \in Invocation /\ y.pc = "idle"  BY Zenon, BudMoves
<1> HIDE DEF y
<1>3. ~Flies(y) /\ ~Flies(inv[w])  BY Zenon, <1>1, <1>2 DEF Flies
<1> DEFINE first == {j \in DOMAIN Limits : Bud!Warns(j) /\ \A k \in 1 .. (j - 1) : ~Bud!Warns(k)}
<1>4. /\ entries' = [j \in DOMAIN Limits |-> IF j \in first THEN [entries[j] EXCEPT !.warnedAt = TRUE] ELSE entries[j]]
      /\ warned' = [j \in DOMAIN Limits |-> IF j \in first THEN warned[j] + 1 ELSE warned[j]]
  BY Zenon DEF Bud!CheckWarnings
<1>5. \A j \in first : ~entries[j].warnedAt  BY Zenon DEF Bud!Warns
<1> HIDE DEF first
<1>6. ASSUME NEW j \in DOMAIN Limits
      PROVE  entries'[j] \in Budget /\ warned'[j] \in Nat /\ BudgetOK(j)' /\ entries'[j].used <= entries[j].used
  <2>1. /\ entries[j] \in Budget /\ entries[j].used \in Nat /\ warned[j] \in Nat /\ BudgetOK(j) /\ Limits[j] \in Nat
    BY Zenon, BudTypes
  <2>2. resetOn'[j] = resetOn[j] /\ Bud!NextReset(resetOn[j], j)' = Bud!NextReset(resetOn[j], j)
    BY Zenon, <1>1 DEF Bud!NextReset
  <2>3. CASE j \in first
    <3>1. entries'[j] = [entries[j] EXCEPT !.warnedAt = TRUE] /\ warned'[j] = warned[j] + 1  BY <1>4, <2>3
    <3>2. /\ entries'[j] \in Budget /\ entries'[j].used = entries[j].used /\ entries'[j].resetAt = entries[j].resetAt
          /\ entries'[j].paused = entries[j].paused /\ entries'[j].warnedAt
      BY Zenon, <2>1, <3>1 DEF Budget
    <3>3. warned[j] = 0 /\ warned'[j] = 1  BY <1>5, <2>1, <2>3, <3>1 DEF BudgetOK
    <3>4. BudgetOK(j)'  BY <2>1, <2>2, <3>2, <3>3 DEF BudgetOK
    <3> QED  BY <2>1, <3>2, <3>3, <3>4
  <2>4. CASE j \notin first
    <3>1. entries'[j] = entries[j] /\ warned'[j] = warned[j]  BY Zenon, <1>4, <2>4
    <3>2. entries[j].used <= entries[j].used /\ entries[j].used >= entries[j].used  BY <2>1
    <3>3. BudgetOK(j)'  BY <2>1, <2>2, <3>1, <3>2, BudSame
    <3> QED  BY Zenon, <2>1, <3>1, <3>2, <3>3
  <2> QED  BY <2>3, <2>4
<1>7. /\ entries' \in [DOMAIN Limits -> Budget] /\ warned' \in [DOMAIN Limits -> Nat]
      /\ now' \in Nat /\ resetOn' \in [DOMAIN Limits -> Nat]
  <2>1. /\ entries' = [j \in DOMAIN Limits |-> entries'[j]] /\ warned' = [j \in DOMAIN Limits |-> warned'[j]]
    BY Zenon, <1>4
  <2> QED  BY <2>1, <1>1, <1>6 DEF BudInv
<1>8. Bud!InFlight' <= Bud!InFlight
  <2>1. Bud!InFlight \in Nat /\ Bud!InFlight' = Bud!InFlight  BY Zenon, <1>1, <1>2, <1>3, BudFlight
  <2> QED  BY <2>1
<1> QED  BY Zenon, <1>1, <1>2, <1>6, <1>7, <1>8, BudKeeps

FST == INSTANCE FiniteSetTheorems

\* However many requests are in flight, whatever their costs and whenever the clock
\* ticks: no budget is overrun by more than the requests already admitted can cost, a
\* pause has its reason, each budget warns once in a period and is refilled once.
THEOREM BudgetsHold ==
  ASSUME BudgetConstants
  PROVE  Bud!Spec => [](Bud!OverrunBounded /\ Bud!PausedIsSpent /\ Bud!WarnedOnce) /\ [][Bud!ResetIsDue]_Bud!vars
<1>0. BudgetFacts
  <2>1. \A S : (FST!IsFiniteSet(S) <=> IsFiniteSet(S)) /\ FST!Cardinality(S) = Cardinality(S)
    BY DEF FST!IsFiniteSet, FST!Cardinality, IsFiniteSet, Cardinality
  <2>2. FST!IsFiniteSet(Workers)  BY Zenon, <2>1 DEF BudgetConstants
  <2>3. ASSUME NEW T \in SUBSET Workers, NEW v \in T
        PROVE  FST!Cardinality(T) = FST!Cardinality(T \ {v}) + 1
    <3>1. FST!IsFiniteSet(T)  BY Zenon, <2>2, FST!FS_Subset
    <3>2. FST!Cardinality(T) \in Nat /\ FST!Cardinality(T \ {v}) = FST!Cardinality(T) - 1
      BY Zenon, <3>1, FST!FS_RemoveElement, FST!FS_CardinalityType
    <3> QED  BY <3>2
  <2>4. \A T \in SUBSET Workers : FST!Cardinality(T) \in Nat /\ FST!Cardinality(T) <= FST!Cardinality(Workers)
    BY Zenon, <2>2, FST!FS_Subset, FST!FS_CardinalityType
  <2>5. FST!Cardinality({}) = 0  BY Zenon, FST!FS_EmptySet
  <2> QED  BY Zenon, <2>1, <2>3, <2>4, <2>5 DEF BudgetFacts, Counting
<1>1. Bud!Init => BudInv
  <2> SUFFICES ASSUME Bud!Init PROVE BudInv  OBVIOUS
  <2>1. /\ now = 0 /\ warned = [j \in DOMAIN Limits |-> 0] /\ resetOn = [j \in DOMAIN Limits |-> 0]
        /\ inv = [w \in Workers |-> [pc |-> "idle", cost |-> 0]]
        /\ entries = [j \in DOMAIN Limits |-> [used |-> 0, resetAt |-> Periods[j], paused |-> FALSE, warnedAt |-> FALSE]]
    BY DEF Bud!Init
  <2>2. MaxCost \in Nat /\ Cardinality(Workers) \in Nat
    BY <1>0 DEF BudgetFacts, BudgetConstants, Counting
  <2>3. inv \in [Workers -> Invocation]
    <3>1. [pc |-> "idle", cost |-> 0] \in Invocation  BY <2>2 DEF Invocation
    <3> QED  BY Zenon, <3>1, <2>1
  <2>4. ASSUME NEW j \in DOMAIN Limits
        PROVE  Limits[j] \in Nat /\ Periods[j] \in Nat \ {0} /\ entries[j] \in Budget /\ entries[j].used = 0 /\ BudgetOK(j)
    <3>1. Limits[j] \in Nat /\ Periods[j] \in Nat \ {0}  BY DEF BudgetConstants
    <3>2. entries[j] = [used |-> 0, resetAt |-> Periods[j], paused |-> FALSE, warnedAt |-> FALSE]  BY Zenon, <2>1
    <3>3. entries[j] \in Budget /\ entries[j].used = 0  BY <3>1, <3>2 DEF Budget
    <3>4. Bud!NextReset(resetOn[j], j) = Periods[j]
      <4>1. 0 \div Periods[j] = 0  BY <3>1, BudDivision
      <4>2. Bud!NextReset(0, j) = Periods[j]  BY <3>1, <4>1 DEF Bud!NextReset
      <4> QED  BY <2>1, <4>2
    <3> QED  BY <2>1, <3>1, <3>2, <3>3, <3>4 DEF BudgetOK
  <2>5. Bud!InFlight = 0
    <3>1. Flying = {}  BY <2>1 DEF Flying
    <3>2. Bud!InFlight = Cardinality(Flying)  BY Zenon, BudCount DEF Bud!InFlight, Flying
    <3> QED  BY <3>1, <3>2, <1>0 DEF BudgetFacts, Counting
  <2>6. Bud!OverrunBounded
    <3>1. Cardinality(Workers) * MaxCost \in Nat /\ 0 * MaxCost = 0  BY <2>2, BudTimes
    <3> DEFINE p == Cardinality(Workers) * MaxCost
    <3> HIDE DEF p
    <3>2. ASSUME NEW j \in DOMAIN Limits, Limits[j] > 0
          PROVE  entries[j].used + Bud!InFlight * MaxCost < Limits[j] + Bud!Cardinality(Workers) * MaxCost
      <4>1. 0 + 0 < Limits[j] + p  BY <2>4, <3>1, <3>2 DEF p
      <4> QED  BY Zenon, <4>1, <2>4, <2>5, <3>1, BudCount DEF p
    <3> QED  BY Zenon, <3>2 DEF Bud!OverrunBounded
  <2> QED  BY Zenon, <2>1, <2>3, <2>4, <2>6 DEF BudInv
<1>2. BudInv /\ [Bud!Next]_Bud!vars => BudInv'
  <2> SUFFICES ASSUME BudInv, Bud!Next \/ UNCHANGED Bud!vars PROVE BudInv'  OBVIOUS
  <2>1. ASSUME UNCHANGED <<entries, inv, warned, resetOn>>, now' \in Nat PROVE BudInv'
    <3>1. Bud!OverrunBounded' <=> Bud!OverrunBounded  BY <2>1 DEF Bud!OverrunBounded, Bud!InFlight
    <3> QED  BY <2>1, <3>1 DEF BudInv, BudgetOK, Bud!NextReset
  <2>2. CASE Bud!Reset \/ Bud!Pass \/ UNCHANGED Bud!vars
    BY <2>1, <2>2 DEF Bud!Reset, Bud!Pass, Bud!vars, BudInv
  <2>3. CASE \E w \in Workers : Bud!CheckBudget(w) \/ Bud!Run(w) \/ Bud!RecordUsage(w) \/ Bud!CheckWarnings(w)
    BY Zenon, <1>0, <2>3, BudCheckBudget, BudRun, BudRecordUsage, BudCheckWarnings
  <2> QED  BY Zenon, <2>2, <2>3 DEF Bud!Next
<1>3. BudInv => Bud!OverrunBounded /\ Bud!PausedIsSpent /\ Bud!WarnedOnce
  BY Zenon DEF BudInv, BudgetOK, Bud!PausedIsSpent, Bud!WarnedOnce
<1>4. BudInv /\ [Bud!Next]_Bud!vars => [Bud!ResetIsDue]_Bud!vars
  <2> SUFFICES ASSUME BudInv, Bud!Next, NEW j \in DOMAIN Limits, entries'[j].resetAt # entries[j].resetAt
               PROVE  now \div Periods[j] > resetOn[j] \div Periods[j]
    BY DEF Bud!ResetIsDue
  <2>1. Bud!Due(j)
    <3>0. entries[j] \in Budget  BY <1>0, BudTypes
    <3>1. ASSUME NEW w \in Workers, Bud!CheckBudget(w) PROVE Bud!Due(j)
      <4>1. CheckedEntry(j)  BY <1>0, <3>1, BudChecks
      <4> QED  BY <3>0, <4>1 DEF CheckedEntry, Budget
    <3>2. ASSUME NEW w \in Workers, Bud!RecordUsage(w) PROVE FALSE
      <4>1. entries'[j] = [entries[j] EXCEPT !.used = @ + inv[w].cost]  BY <3>2 DEF Bud!RecordUsage
      <4> QED  BY <3>0, <4>1 DEF Budget
    <3>3. ASSUME NEW w \in Workers, Bud!CheckWarnings(w) PROVE FALSE
      <4>1. \/ entries'[j] = [entries[j] EXCEPT !.warnedAt = TRUE]
            \/ entries'[j] = entries[j]
        BY <3>3 DEF Bud!CheckWarnings
      <4> QED  BY <3>0, <4>1 DEF Budget
    <3>4. ~(UNCHANGED entries)  BY Zenon
    <3> QED  BY Zenon, <3>1, <3>2, <3>3, <3>4 DEF Bud!Next, Bud!Run, Bud!Reset, Bud!Pass
  <2>2. /\ entries[j].resetAt = Bud!NextReset(resetOn[j], j) /\ now \in Nat /\ resetOn[j] \in Nat
        /\ Periods[j] \in Nat \ {0} /\ entries[j].resetAt \in Nat
    BY <1>0, BudTypes DEF BudgetOK
  <2> DEFINE p == Periods[j]
  <2> DEFINE q == resetOn[j] \div p
  <2>3. q \in Nat  BY <2>2, BudDivision
  <2>4. now > (q + 1) * p  BY <2>1, <2>2 DEF Bud!Due, Bud!NextReset
  <2> HIDE DEF p, q
  <2>5. q + 1 \in Nat /\ (q + 1) * p \in Nat /\ p \in Nat \ {0}  BY <2>2, <2>3, BudTimes DEF p
  <2>6. now \div p >= q + 1 /\ now \div p \in Nat  BY <2>2, <2>4, <2>5, BudDivision
  <2>7. now \div p > q  BY <2>3, <2>6
  <2> QED  BY <2>7 DEF p, q
<1> QED  BY <1>1, <1>2, <1>3, <1>4, PTL DEF Bud!Spec
=============================================================================
