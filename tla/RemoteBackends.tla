---------------------------- MODULE RemoteBackends ----------------------------
(***************************************************************************)
(* internal/state: the backends that keep the entries in PostgreSQL, etcd, *)
(* an S3 object or a Kubernetes ConfigMap.  Clients load all entries,      *)
(* change one and save all; no backend but the local one is locked while   *)
(* they do.  The services are external: each call is one step and may fail.*)
(* An entry is the number of the save that wrote it, 0 when absent; a row  *)
(* also has the revision it was written at.                                *)
(***************************************************************************)
EXTENDS Naturals, FiniteSets

CONSTANTS
  Clients, Names,
  Kinds,        \* the backends tried: "postgres", "etcd", "s3", "kubernetes"
  MaxSaves      \* bound: saves begun

VARIABLES
  kind,
  store,     \* per name: val and rev
  rev,       \* revision of the object, or of the latest write; 0: no object yet
  client,    \* pc, the entries loaded, the entries to save, and the call's own state
  saves

vars == <<kind, store, rev, client, saves>>

Absent == [val |-> 0, rev |-> 0]
Vals == [n \in Names |-> store[n].val]
None == [n \in Names |-> 0]

NewClient ==
  [pc |-> "idle", loaded |-> FALSE, read |-> None, want |-> None, etag |-> 0, seen |-> [n \in Names |-> Absent],
   puts |-> {}, dels |-> {}, before |-> None, alone |-> FALSE, outcome |-> "none"]

TypeOK ==
  /\ \A n \in Names : store[n].val \in 0 .. MaxSaves /\ store[n].rev \in 0 .. rev
  /\ \A c \in Clients : client[c].pc \in {"idle", "ready", "save", "send"} /\ client[c].etag \in 0 .. rev
  /\ saves \in 0 .. MaxSaves

Init ==
  /\ kind \in Kinds /\ store = [n \in Names |-> Absent] /\ rev = 0
  /\ client = [c \in Clients |-> NewClient] /\ saves = 0

Loaded(c, r, e) ==
  client' = [client EXCEPT ![c] = [@ EXCEPT !.pc = "ready", !.read = r, !.etag = e, !.loaded = TRUE, !.outcome = "none"]]

\* Load of PostgreSQL, etcd and Kubernetes: all entries at one time, or an error
Load(c) ==
  /\ client[c].pc = "idle" /\ kind # "s3" /\ Loaded(c, Vals, 0)
  /\ UNCHANGED <<kind, store, rev, saves>>

\* S3: any error is an empty list and leaves the ETag as it was
LoadS3(c, fails) ==
  /\ client[c].pc = "idle" /\ kind = "s3"
  /\ IF fails \/ rev = 0
       THEN client' = [client EXCEPT ![c] = [@ EXCEPT !.pc = "ready", !.read = None, !.loaded = FALSE, !.outcome = "none"]]
       ELSE Loaded(c, Vals, rev)
  /\ UNCHANGED <<kind, store, rev, saves>>

\* The caller sets or removes an entry and calls Save.
Save(c, n, drop) ==
  /\ client[c].pc = "ready" /\ saves < MaxSaves /\ saves' = saves + 1
  /\ client' = [d \in Clients |->
       IF d = c THEN [client[c] EXCEPT !.pc = "save", !.before = Vals, !.alone = TRUE,
                        !.want = [client[c].read EXCEPT ![n] = IF drop THEN 0 ELSE saves + 1]]
       ELSE client[d]]
  /\ UNCHANGED <<kind, store, rev>>

\* A client whose Save has returned: only S3's backend remembers anything, the ETag.
Returned(outcome, etag) ==
  [NewClient EXCEPT !.outcome = outcome, !.etag = IF kind = "s3" THEN etag ELSE 0]

\* The whole state is written: the saves under way are no longer alone.
Write(c, new) ==
  /\ store' = new /\ rev' = rev + 1
  /\ client' = [d \in Clients |->
       IF d = c THEN Returned("ok", rev + 1) ELSE [client[d] EXCEPT !.alone = FALSE]]

Fails(c) ==
  /\ client' = [client EXCEPT ![c] = Returned("error", @.etag)]
  /\ UNCHANGED <<store, rev>>

Rows(want) == [n \in Names |-> IF want[n] = 0 THEN Absent ELSE [val |-> want[n], rev |-> rev + 1]]

\* PutObject with If-Match left out.
PutAnyway(c) == rev >= client[c].etag
\* PutObject: conditional only when an ETag is held
PutAllowed(c) == client[c].etag = 0 \/ client[c].etag = rev

SaveS3(c, fails) ==
  /\ client[c].pc = "save" /\ kind = "s3"
  /\ IF fails \/ ~PutAllowed(c) THEN Fails(c) ELSE Write(c, Rows(client[c].want))
  /\ UNCHANGED <<kind, saves>>

\* Kubernetes: Save reads the ConfigMap first and updates that copy
SaveGet(c, fails) ==
  /\ client[c].pc = "save" /\ kind = "kubernetes"
  /\ IF fails THEN Fails(c)
     ELSE client' = [client EXCEPT ![c].pc = "send", ![c].etag = rev] /\ UNCHANGED <<store, rev>>
  /\ UNCHANGED <<kind, saves>>

SaveUpdate(c, fails) ==
  /\ client[c].pc = "send" /\ kind = "kubernetes"
  /\ IF fails \/ client[c].etag # rev THEN Fails(c) ELSE Write(c, Rows(client[c].want))
  /\ UNCHANGED <<kind, saves>>

\* PostgreSQL: the DELETE of the transaction takes the rows committed by then
BeginDelete(c, fails) ==
  /\ client[c].pc = "save" /\ kind = "postgres"
  /\ IF fails THEN Fails(c)
     ELSE client' = [client EXCEPT ![c].pc = "send", ![c].seen = store] /\ UNCHANGED <<store, rev>>
  /\ UNCHANGED <<kind, saves>>

\* Rows committed by others since the DELETE stay, or clash with an INSERT.
Committed(c) ==
  [n \in Names |-> IF client[c].want[n] # 0 THEN Rows(client[c].want)[n]
                   ELSE IF store[n] = client[c].seen[n] THEN Absent ELSE store[n]]
Clash(c) == \E n \in Names : client[c].want[n] # 0 /\ store[n] # Absent /\ store[n] # client[c].seen[n]

InsertCommit(c, fails) ==
  /\ client[c].pc = "send" /\ kind = "postgres"
  /\ IF fails \/ Clash(c) THEN Fails(c) ELSE Write(c, Committed(c))
  /\ UNCHANGED <<kind, saves>>

\* etcd: the keys are listed, each entry is put, each missing key is deleted
ListKeys(c, fails) ==
  /\ client[c].pc = "save" /\ kind = "etcd"
  /\ IF fails THEN Fails(c)
     ELSE /\ client' = [client EXCEPT ![c] = [@ EXCEPT !.pc = "send",
                 !.puts = {n \in Names : client[c].want[n] # 0},
                 !.dels = {n \in Names : store[n] # Absent /\ client[c].want[n] = 0}]]
          /\ UNCHANGED <<store, rev>>
  /\ UNCHANGED <<kind, saves>>

Sending(c) == client[c].pc = "send" /\ kind = "etcd"

\* The deletes come after the puts.
MayDelete(c) == client[c].puts = {}

PutEntry(c, n, fails) ==
  /\ Sending(c) /\ n \in client[c].puts
  /\ IF fails THEN Fails(c)
     ELSE /\ store' = [store EXCEPT ![n] = Rows(client[c].want)[n]] /\ rev' = rev + 1
          /\ client' = [d \in Clients |-> IF d = c THEN [client[c] EXCEPT !.puts = @ \ {n}]
                                          ELSE [client[d] EXCEPT !.alone = FALSE]]
  /\ UNCHANGED <<kind, saves>>

DeleteEntry(c, n, fails) ==
  /\ Sending(c) /\ MayDelete(c) /\ n \in client[c].dels
  /\ IF fails THEN Fails(c)
     ELSE /\ store' = [store EXCEPT ![n] = Absent] /\ rev' = rev + 1
          /\ client' = [d \in Clients |-> IF d = c THEN [client[c] EXCEPT !.dels = @ \ {n}]
                                          ELSE [client[d] EXCEPT !.alone = FALSE]]
  /\ UNCHANGED <<kind, saves>>

SaveDone(c) ==
  /\ Sending(c) /\ client[c].puts = {} /\ client[c].dels = {}
  /\ client' = [client EXCEPT ![c] = Returned("ok", 0)]
  /\ UNCHANGED <<kind, store, rev, saves>>

Next ==
  \E c \in Clients :
    \/ Load(c) \/ SaveDone(c)
    \/ \E n \in Names, drop \in BOOLEAN : Save(c, n, drop)
    \/ \E fails \in BOOLEAN :
         \/ LoadS3(c, fails) \/ SaveS3(c, fails)
         \/ SaveGet(c, fails) \/ SaveUpdate(c, fails)
         \/ BeginDelete(c, fails) \/ InsertCommit(c, fails)
         \/ ListKeys(c, fails)
         \/ \E n \in Names : PutEntry(c, n, fails) \/ DeleteEntry(c, n, fails)

Spec == Init /\ [][Next]_vars

-----------------------------------------------------------------------------
Ends(c) == client[c].outcome = "none" /\ client'[c].outcome # "none"

\* A save nobody else wrote during leaves exactly its entries when it succeeds.
\* When it fails the entries are as before, except in etcd, where each entry is
\* the old one or the new one and nothing was deleted unless all new ones are in.
EndsExactly ==
  \A c \in Clients : Ends(c) /\ client[c].alone =>
       IF client'[c].outcome = "ok" THEN Vals' = client[c].want
       ELSE IF kind # "etcd" THEN Vals' = client[c].before
       ELSE /\ \A n \in Names : Vals'[n] \in {client[c].before[n], client[c].want[n]}
            /\ (\E n \in Names : Vals'[n] = 0 /\ client[c].before[n] # 0) =>
                  \A n \in Names : client[c].want[n] # 0 => Vals'[n] = client[c].want[n]

\* S3: a client that loaded the object saves only if nobody has saved since.
EndsOnWhatItRead ==
  \A c \in Clients : kind = "s3" /\ Ends(c) /\ client'[c].outcome = "ok" /\ client[c].loaded =>
    Vals = client[c].read
=============================================================================
