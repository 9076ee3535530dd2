----------------------------- MODULE DevServer -----------------------------
(***************************************************************************)
(* `agentspec run`: the reload loop of cmd/agentspec/run.go and the life   *)
(* of the runtimes it starts (Start and Shutdown of internal/runtime/      *)
(* runtime.go, ListenAndServe and the TLS certificate of server.go).  The  *)
(* loop starts each runtime in a goroutine of its own, which connects the  *)
(* MCP servers before it creates the HTTP server and binds the port; the   *)
(* loop meanwhile goes on watching, and shuts the runtime down when a file *)
(* changes.                                                                *)
(***************************************************************************)
EXTENDS Naturals, Sequences

CONSTANTS MaxEdits,    \* how often the .ias files change
          MaxRotations \* how often the TLS certificate is replaced

VARIABLES
  disk,     \* the files: [ver, valid]
  loop,     \* where runServerLoop is
  rt,       \* its variable rt: a runtime, or 0 for nil
  rts,      \* the runtimes started so far
  port,     \* the runtime that holds the listening port, 0 if none
  pending,  \* a change event is queued at the watcher
  armed,    \* the debounce timer is running
  tls,      \* versions of the certificate file and of the key file
  tlsEvent, \* a change of either file is queued
  early,    \* history: a runtime was shut down before it created its HTTP server, or
            \* its certificate reloaded while ListenAndServe was storing the first one
  missed    \* history: files changed before the watcher was set up

vars == <<disk, loop, rt, rts, port, pending, armed, tls, tlsEvent, early, missed>>

Created == {"loading", "storing", "binding", "listening"}   \* s.server is set
Phases == {"connecting", "stopped", "failed"} \cup Created

TypeOK ==
  /\ disk \in [ver : 0 .. MaxEdits, valid : BOOLEAN]
  /\ loop \in {"start", "watch", "wait", "shutdown", "restart", "exit"}
  /\ rts \in Seq([ver : 0 .. MaxEdits, st : Phases, held : 0 .. MaxRotations, cert : 0 .. MaxRotations]) /\ rt \in 0 .. Len(rts)
  /\ port \in 0 .. Len(rts)
  /\ pending \in BOOLEAN /\ armed \in BOOLEAN /\ tlsEvent \in BOOLEAN
  /\ tls \in [cert : 0 .. MaxRotations, key : 0 .. MaxRotations]
  /\ early \in BOOLEAN /\ missed \in BOOLEAN

Init ==
  /\ disk = [ver |-> 0, valid |-> TRUE] /\ loop = "start"
  /\ rt = 0 /\ rts = <<>> /\ port = 0
  /\ pending = FALSE /\ armed = FALSE
  /\ tls = [cert |-> 0, key |-> 0] /\ tlsEvent = FALSE
  /\ early = FALSE /\ missed = FALSE

tlsVars == <<tls, tlsEvent>>

----------------------------------------------------------------------------
(* The reload loop *)

\* startRuntime from parseAndLower on: what does not parse leaves rt nil;
\* otherwise the new runtime's goroutine is started.
Launch(next, giveUp) ==
  /\ IF disk.valid
       THEN /\ rts' = Append(rts, [ver |-> disk.ver, st |-> "connecting", held |-> 0, cert |-> 0])
            /\ rt' = Len(rts) + 1 /\ loop' = next
       ELSE rt' = 0 /\ loop' = giveUp /\ UNCHANGED rts

\* The initial start: an error ends the command.
FirstStart ==
  /\ loop = "start" /\ Launch("watch", "exit")
  /\ UNCHANGED <<disk, port, pending, armed, early, missed, tlsVars>>

\* fsnotify.NewWatcher and Add.
AddWatch ==
  /\ loop = "watch" /\ loop' = "wait"
  /\ UNCHANGED <<disk, rt, rts, port, pending, armed, early, missed, tlsVars>>

\* A change event arms the debounce timer, or re-arms it.
OnEvent ==
  /\ loop = "wait" /\ pending
  /\ pending' = FALSE /\ armed' = TRUE
  /\ UNCHANGED <<disk, loop, rt, rts, port, early, missed, tlsVars>>

\* The timer fires: reload.
OnDebounce ==
  /\ loop = "wait" /\ armed
  /\ armed' = FALSE /\ loop' = "shutdown"
  /\ UNCHANGED <<disk, rt, rts, port, pending, early, missed, tlsVars>>

\* The listener left open: the new runtime cannot bind the port.
ShutDownLeaky(i) ==
  IF i = 0 THEN UNCHANGED <<rts, port, early>>
  ELSE /\ rts' = IF rts[i].st \in Created THEN [rts EXCEPT ![i].st = "stopped"] ELSE rts
       /\ port' = port
       /\ early' = (early \/ rts[i].st = "connecting")

\* Runtime.Shutdown of runtime i.  Server.Shutdown does nothing while the HTTP
\* server has not been created; once it has, ListenAndServe returns at once.
ShutDown(i) ==
  IF i = 0 THEN UNCHANGED <<rts, port, early>>
  ELSE /\ rts' = IF rts[i].st \in Created THEN [rts EXCEPT ![i].st = "stopped"] ELSE rts
       /\ port' = IF port = i THEN 0 ELSE port
       /\ early' = (early \/ rts[i].st = "connecting")

\* startRuntime, first part: the old runtime is shut down and forgotten.
StopOld ==
  /\ loop = "shutdown" /\ ShutDown(rt)
  /\ rt' = 0 /\ loop' = "restart"
  /\ UNCHANGED <<disk, pending, armed, missed, tlsVars>>

\* startRuntime, second part: a failure is logged and the loop goes on.
Restart ==
  /\ loop = "restart" /\ Launch("wait", "wait")
  /\ UNCHANGED <<disk, port, pending, armed, early, missed, tlsVars>>

\* SIGINT or SIGTERM.
Interrupt ==
  /\ loop = "wait" /\ loop' = "exit"
  /\ ShutDown(rt) /\ rt' = 0
  /\ UNCHANGED <<disk, pending, armed, missed, tlsVars>>

----------------------------------------------------------------------------
(* The goroutine of runtime i: Runtime.Start *)

\* The MCP servers are connected and their tools registered, or Start fails;
\* then ListenAndServe creates the HTTP server.
Connect(i) ==
  /\ loop # "exit" /\ rts[i].st = "connecting"
  /\ \E st \in {"loading", "failed"} : rts' = [rts EXCEPT ![i].st = st]
  /\ UNCHANGED <<disk, loop, rt, port, pending, armed, early, missed, tlsVars>>

\* ListenAndServe reads the certificate, which must match its key, and stores it
\* under the lock afterwards.
LoadCert(i) ==
  /\ loop # "exit" /\ rts[i].st = "loading"
  /\ rts' = IF tls.cert = tls.key THEN [rts EXCEPT ![i].st = "storing", ![i].held = tls.cert]
                                  ELSE [rts EXCEPT ![i].st = "failed"]
  /\ UNCHANGED <<disk, loop, rt, port, pending, armed, early, missed, tlsVars>>

StoreCert(i) ==
  /\ loop # "exit" /\ rts[i].st = "storing"
  /\ rts' = [rts EXCEPT ![i].st = "binding", ![i].cert = rts[i].held]
  /\ UNCHANGED <<disk, loop, rt, port, pending, armed, early, missed, tlsVars>>

\* net.Listen: the port may still be taken.
Bind(i) ==
  /\ loop # "exit" /\ rts[i].st = "binding"
  /\ \/ port = 0 /\ port' = i /\ rts' = [rts EXCEPT ![i].st = "listening"]
     \/ port # 0 /\ rts' = [rts EXCEPT ![i].st = "failed"] /\ UNCHANGED port
  /\ UNCHANGED <<disk, loop, rt, pending, armed, early, missed, tlsVars>>

----------------------------------------------------------------------------
(* The user's edits and the certificate's rotation *)

Edit ==
  /\ loop # "exit" /\ disk.ver < MaxEdits
  /\ \E ok \in BOOLEAN : disk' = [ver |-> disk.ver + 1, valid |-> ok]
  /\ IF loop = "watch" THEN missed' = TRUE /\ UNCHANGED pending
     ELSE IF loop = "start" THEN UNCHANGED <<missed, pending>>
     ELSE pending' = TRUE /\ UNCHANGED missed
  /\ UNCHANGED <<loop, rt, rts, port, armed, early, tlsVars>>

\* A rotation writes the certificate and then the key.
Rotate ==
  /\ loop # "exit"
  /\ \/ tls.cert = tls.key /\ tls.cert < MaxRotations /\ tls' = [tls EXCEPT !.cert = @ + 1]
     \/ tls.key < tls.cert /\ tls' = [tls EXCEPT !.key = @ + 1]
  /\ IF loop = "watch" THEN missed' = TRUE /\ UNCHANGED tlsEvent
     ELSE tlsEvent' = (loop # "start") /\ UNCHANGED missed
  /\ UNCHANGED <<disk, loop, rt, rts, port, pending, armed, early>>

\* What ReloadTLSCertificate leaves served in place of c: a pair that does not
\* match is refused.
Reloaded(c) == IF tls.cert = tls.key THEN tls.cert ELSE c

ReloadTLS ==
  /\ loop = "wait" /\ tlsEvent /\ tlsEvent' = FALSE
  /\ rts' = IF rt = 0 THEN rts ELSE [rts EXCEPT ![rt].cert = Reloaded(@)]
  /\ early' = (early \/ (rt # 0 /\ rts[rt].st = "storing"))
  /\ UNCHANGED <<disk, loop, rt, port, pending, armed, tls, missed>>

Start(i) == Connect(i) \/ LoadCert(i) \/ StoreCert(i) \/ Bind(i)

Loop == FirstStart \/ AddWatch \/ OnEvent \/ OnDebounce \/ StopOld \/ Restart \/ ReloadTLS

Next ==
  \/ Loop \/ Interrupt \/ Edit \/ Rotate
  \/ \E i \in DOMAIN rts : Start(i)

Spec == Init /\ [][Next]_vars

----------------------------------------------------------------------------
Quiet == loop = "wait" /\ ~pending /\ ~armed /\ \A i \in DOMAIN rts : rts[i].st \in {"listening", "stopped", "failed"}

\* When everything has come to rest, the port serves the files as they are on
\* disk, or nothing if they do not parse or their runtime failed to start, and
\* no runtime of an earlier version is left.  Edits while a runtime is still
\* connecting, and before the watcher is set up, are excepted.
SettlesOnLatest ==
  (Quiet /\ ~early /\ ~missed) =>
    /\ port = 0 \/ (port = rt /\ rts[rt].ver = disk.ver)
    /\ \A i \in DOMAIN rts : rts[i].st = "listening" => i = rt
    /\ rt # 0 => rts[rt].st # "stopped"
    /\ disk.valid <=> rt # 0

\* A rotation reaches the runtime that is listening, although its two files
\* change one after the other and the pair in between does not match.
CertificateFollows ==
  (Quiet /\ ~tlsEvent /\ ~early /\ ~missed /\ tls.cert = tls.key) =>
    (rt # 0 /\ rts[rt].st = "listening" => rts[rt].cert = tls.cert)
=============================================================================
