--------------------------- MODULE RedisSessions ---------------------------
(***************************************************************************)
(* The Redis session store, internal/session/redis_store.go, as several    *)
(* server processes use it on one session.  Every Redis command is atomic; *)
(* the methods are sequences of commands, each of which may fail, and the  *)
(* processes interleave between them.  The messages key is a list, or the  *)
(* string of an older release that LoadMessages migrates.                  *)
(***************************************************************************)
EXTENDS Naturals, Sequences

CONSTANTS Clients,     \* server processes
          MaxMessages, \* bound: messages saved
          MaxFaults    \* bound: commands that fail

VARIABLES
  sess,     \* the session key: does it exist
  msgs,     \* the messages key: its type, its elements, whether it has a TTL
  run,      \* the method each client is in: next command, messages in hand
  sent,     \* messages handed to SaveMessages so far
  faults,   \* commands that have failed so far
  log,      \* history: what the list should hold, had every method been atomic
  mixed     \* history: two methods on the messages overlapped, or a command failed

vars == <<sess, msgs, run, sent, faults, log, mixed>>

Absent == [type |-> "none", val |-> <<>>, ttl |-> FALSE]
Idle == [pc |-> "idle", val |-> <<>>, left |-> <<>>]
Busy(c) == run[c].pc # "idle"
OnMessages(c) == run[c].pc \notin {"idle", "set"}

TypeOK ==
  /\ sess \in BOOLEAN
  /\ msgs \in [type : {"none", "string", "list"}, val : Seq(0 .. MaxMessages), ttl : BOOLEAN]
  /\ run \in [Clients -> [pc : {"idle", "set", "expire", "type", "lrange", "getString", "del",
                                "push", "expireMigrated"},
                          val : Seq(0 .. MaxMessages), left : Seq(0 .. MaxMessages)]]
  /\ sent \in 0 .. MaxMessages /\ faults \in 0 .. MaxFaults
  /\ log \in Seq(0 .. MaxMessages)
  /\ mixed \in BOOLEAN

\* The session exists; its messages are none yet, a list, or a legacy string.
Init ==
  /\ sess = TRUE
  /\ msgs \in {Absent, [type |-> "string", val |-> <<0, 0>>, ttl |-> TRUE],
               [type |-> "list", val |-> <<0>>, ttl |-> TRUE]}
  /\ run = [c \in Clients |-> Idle] /\ sent = 0 /\ faults = 0
  /\ log = msgs.val /\ mixed = FALSE

----------------------------------------------------------------------------
At(c, pc) == run[c].pc = pc
Goto(c, pc) == run' = [run EXCEPT ![c].pc = pc]
Return(c) == run' = [run EXCEPT ![c] = Idle]
Others(c) == \E d \in Clients \ {c} : OnMessages(d)

\* RPUSH makes a list of an absent key and is refused on a string.
Pushed(v) == IF msgs.type = "list" THEN [msgs EXCEPT !.val = @ \o v]
             ELSE [type |-> "list", val |-> v, ttl |-> FALSE]

\* Touch: Get, then Set with the new timestamp.
TouchGet(c) ==
  /\ At(c, "idle")
  /\ IF sess THEN Goto(c, "set") ELSE Return(c)
  /\ UNCHANGED <<sess, msgs, sent, faults, log, mixed>>

TouchSet(c) ==
  /\ At(c, "set") /\ sess' = TRUE /\ Return(c)
  /\ UNCHANGED <<msgs, sent, faults, log, mixed>>

\* Delete removes both keys with one command.
Delete(c) ==
  /\ At(c, "idle")
  /\ sess' = FALSE /\ msgs' = Absent /\ log' = <<>>
  /\ mixed' = (mixed \/ Others(c))
  /\ UNCHANGED <<run, sent, faults>>

\* SaveMessages: RPush, then Expire.
SavePush(c) ==
  /\ At(c, "idle") /\ sent < MaxMessages /\ sent' = sent + 1
  /\ \/ /\ msgs.type = "string" /\ Return(c) /\ UNCHANGED <<msgs, log>>
     \/ /\ msgs.type # "string"
        /\ msgs' = Pushed(<<sent + 1>>) /\ log' = Append(log, sent + 1)
        /\ Goto(c, "expire")
  /\ mixed' = (mixed \/ Others(c))
  /\ UNCHANGED <<sess, faults>>

\* Expire on the messages key, the last command of SaveMessages and of the
\* migration; it does nothing to an absent key.
Expire(c) ==
  /\ At(c, "expire") \/ At(c, "expireMigrated")
  /\ msgs' = IF msgs.type = "none" THEN msgs ELSE [msgs EXCEPT !.ttl = TRUE]
  /\ Return(c)
  /\ UNCHANGED <<sess, sent, faults, log, mixed>>

\* LoadMessages: Type decides between migration, nothing and LRange.
LoadType(c) ==
  /\ At(c, "idle")
  /\ \/ msgs.type = "string" /\ Goto(c, "getString")
     \/ msgs.type = "list" /\ Goto(c, "lrange")
     \/ msgs.type = "none" /\ Return(c)
  /\ mixed' = (mixed \/ Others(c))
  /\ UNCHANGED <<sess, msgs, sent, faults, log>>

LoadRange(c) ==
  /\ At(c, "lrange") /\ Return(c)
  /\ UNCHANGED <<sess, msgs, sent, faults, log, mixed>>

\* migrateStringToList: Get (an error, a key that is gone or already a list
\* counts as an empty history) ...
MigrateGet(c) ==
  /\ At(c, "getString")
  /\ \/ msgs.type = "string" /\ run' = [run EXCEPT ![c] = [pc |-> "del", val |-> msgs.val, left |-> msgs.val]]
     \/ msgs.type # "string" /\ Return(c)
  /\ UNCHANGED <<sess, msgs, sent, faults, log, mixed>>

\* ... Del ...
MigrateDel(c) ==
  /\ At(c, "del") /\ msgs' = Absent /\ Goto(c, "push")
  /\ UNCHANGED <<sess, sent, faults, log, mixed>>

\* ... one RPush per message ...
MigratePush(c) ==
  /\ At(c, "push") /\ run[c].left # <<>>
  /\ msgs' = Pushed(<<Head(run[c].left)>>)
  /\ run' = [run EXCEPT ![c].left = Tail(@)]
  /\ UNCHANGED <<sess, sent, faults, log, mixed>>

\* ... and, when all are pushed, Expire.
MigratePushed(c) ==
  /\ At(c, "push") /\ run[c].left = <<>> /\ Goto(c, "expireMigrated")
  /\ UNCHANGED <<sess, msgs, sent, faults, log, mixed>>

\* A command fails.  The migration returns what it has read when Del fails, and
\* stops pushing but still sets the TTL when a push fails; every other method
\* returns the error.
Fault(c) ==
  /\ Busy(c) /\ faults < MaxFaults /\ faults' = faults + 1
  /\ IF At(c, "push") THEN Goto(c, "expireMigrated") ELSE Return(c)
  /\ mixed' = TRUE
  /\ UNCHANGED <<sess, msgs, sent, log>>

Next ==
  \E c \in Clients :
    \/ TouchGet(c) \/ TouchSet(c) \/ Delete(c) \/ SavePush(c) \/ Expire(c)
    \/ LoadType(c) \/ LoadRange(c) \/ MigrateGet(c) \/ MigrateDel(c) \/ MigratePush(c) \/ MigratePushed(c)
    \/ Fault(c)

Spec == Init /\ [][Next]_vars

----------------------------------------------------------------------------
\* Used by one process at a time, and with no command failing, the store keeps
\* every message in the order it was saved, whether the history is a list or had
\* to be migrated, and every load returns all of it.
HistoryIsKept ==
  ~mixed => /\ (\A c \in Clients : ~OnMessages(c)) => msgs.val = log
            /\ \A c \in Clients : At(c, "expireMigrated") => run[c].val = msgs.val

\* A list of messages has a TTL, or someone is about to set it, or a command
\* failed: in every interleaving of loads, saves, migrations and deletions no
\* history is left in Redis for ever.
HistoriesExpire ==
  (msgs.type = "list" /\ ~msgs.ttl /\ faults = 0) =>
    \E c \in Clients : At(c, "expire") \/ At(c, "push") \/ At(c, "expireMigrated")
=============================================================================
