------------------------------ MODULE LLMClients ------------------------------
(***************************************************************************)
(* internal/llm: a FallbackClient over OpenAI and Anthropic clients, one   *)
(* request, answered whole (Chat) or as a stream (ChatStream).  A stream   *)
(* is a goroutine that turns what comes over the wire into events on a     *)
(* buffered channel, read by the react loop until it is closed.  The       *)
(* connection may break at any point.  A text is a counter of its pieces,  *)
(* a tool call is kept as "ok" if its arguments are complete.              *)
(***************************************************************************)
EXTENDS Naturals, SequencesExt

CONSTANTS
  Chains,    \* the fallback chains tried: sequences of "openai" and "anthropic"
  Answers,   \* what the model may say: sequences of "text", "call" and "noise"
  Cap        \* capacity of the channel (64)

VARIABLES
  chain, answer,
  stream,   \* is ChatStream called?
  split,    \* does OpenAI send a call's id and its arguments in different chunks?
  at,       \* the client being tried
  failed,   \* clients that failed, in order
  prod,     \* the producer: pc, the wire still to come, content, calls; cut: broken off
  chan,     \* the events in the channel
  cons      \* the caller: pc, text passed on, the response's content and calls

vars == <<chain, answer, stream, split, at, failed, prod, chan, cons>>

NoProd == [pc |-> "none", wire |-> <<>>, content |-> 0, calls |-> 0, cut |-> FALSE]
NoCons == [pc |-> "calling", text |-> 0, content |-> 0, calls |-> 0, got |-> FALSE]

TypeOK ==
  /\ at \in 1 .. Len(chain) + 1 /\ failed \in Seq(1 .. Len(chain))
  /\ prod.pc \in {"none", "sending", "finishing", "closing", "closed"}
  /\ chan \in Seq({"text", "start", "done", "error"}) /\ Len(chan) <= Cap
  /\ cons.pc \in {"calling", "reading", "ok", "error"}

Init ==
  /\ chain \in Chains /\ answer \in Answers /\ stream \in BOOLEAN /\ split \in BOOLEAN
  /\ at = 1 /\ failed = <<>> /\ prod = NoProd /\ chan = <<>> /\ cons = NoCons

Texts == Len(SelectSeq(answer, LAMBDA u : u = "text"))
Calls == Len(SelectSeq(answer, LAMBDA u : u = "call"))

\* The chunks OpenAI sends, the blocks Anthropic sends.
Wire(kind) ==
  FlattenSeq([i \in 1 .. Len(answer) |->
    IF answer[i] # "call" THEN <<answer[i]>>
    ELSE IF kind = "openai" /\ split THEN <<"head", "tail">> ELSE <<"whole">>])

\* The next client is tried with the same request; after the last one all have failed.
Fallback ==
  /\ failed' = Append(failed, at) /\ at' = at + 1
  /\ cons' = IF at = Len(chain) THEN [cons EXCEPT !.pc = "error"] ELSE cons

\* FallbackClient.Chat with the clients' Chat and parseResponse
Chat(fails) ==
  /\ cons.pc = "calling" /\ ~stream
  /\ IF fails THEN Fallback
     ELSE /\ cons' = [cons EXCEPT !.pc = "ok", !.content = Texts, !.calls = Calls, !.got = TRUE]
          /\ UNCHANGED <<at, failed>>
  /\ UNCHANGED <<chain, answer, stream, split, prod, chan>>

\* FallbackClient.ChatStream: only OpenAI's request is sent before the call returns;
\* Anthropic's ChatStream has no error to fall back on.
ChatStream(fails) ==
  /\ cons.pc = "calling" /\ stream
  /\ IF fails /\ chain[at] = "openai" THEN Fallback /\ UNCHANGED prod
     ELSE /\ prod' = [NoProd EXCEPT !.pc = "sending", !.wire = Wire(chain[at])]
          /\ cons' = [cons EXCEPT !.pc = "reading"]
          /\ UNCHANGED <<at, failed>>
  /\ UNCHANGED <<chain, answer, stream, split, chan>>

Emit(e) == Len(chan) < Cap /\ chan' = Append(chan, e)

\* One piece of the wire.  OpenAI keeps a call only if its id and arguments come
\* together; later fragments of the arguments are not appended to anything.
Produce ==
  /\ prod.pc = "sending"
  /\ IF prod.wire = <<>> THEN prod' = [prod EXCEPT !.pc = "finishing"] /\ UNCHANGED chan
     ELSE /\ CASE Head(prod.wire) = "text" -> Emit("text")
               [] Head(prod.wire) \in {"whole", "head"} -> Emit("start")
               [] OTHER -> UNCHANGED chan
          /\ prod' = [prod EXCEPT !.wire = Tail(@),
                                  !.content = @ + (IF Head(prod.wire) = "text" THEN 1 ELSE 0),
                                  !.calls = @ + (IF Head(prod.wire) = "whole" THEN 1 ELSE 0)]
  /\ UNCHANGED <<chain, answer, stream, split, at, failed, cons>>

\* The connection breaks, or the caller's context ends.
Cut ==
  /\ prod.pc = "sending" /\ prod.wire # <<>>
  /\ prod' = [prod EXCEPT !.wire = <<>>, !.cut = TRUE]
  /\ UNCHANGED <<chain, answer, stream, split, at, failed, chan, cons>>

\* A producer that does not ask why the stream ended.
FinishAnyway ==
  /\ prod.pc = "finishing" /\ Emit("done") /\ prod' = [prod EXCEPT !.pc = "closing"]
  /\ UNCHANGED <<chain, answer, stream, split, at, failed, cons>>

\* Anthropic reports a broken stream; OpenAI's scanner error is never looked at.
Finish ==
  /\ prod.pc = "finishing"
  /\ Emit(IF prod.cut /\ chain[at] = "anthropic" THEN "error" ELSE "done")
  /\ prod' = [prod EXCEPT !.pc = "closing"]
  /\ UNCHANGED <<chain, answer, stream, split, at, failed, cons>>

\* A channel closed only after a whole stream.
CloseUnlessCut ==
  /\ prod.pc = "closing" /\ ~prod.cut /\ prod' = [prod EXCEPT !.pc = "closed"]
  /\ UNCHANGED <<chain, answer, stream, split, at, failed, chan, cons>>

Close ==
  /\ prod.pc = "closing" /\ prod' = [prod EXCEPT !.pc = "closed"]
  /\ UNCHANGED <<chain, answer, stream, split, at, failed, chan, cons>>

\* The react loop's range over the channel: events are passed on, a response is
\* kept, an error ends the reading at once.
Read ==
  /\ cons.pc = "reading" /\ chan # <<>> /\ chan' = Tail(chan)
  /\ cons' = CASE Head(chan) = "text" -> [cons EXCEPT !.text = @ + 1]
               [] Head(chan) = "start" -> cons
               [] Head(chan) = "done" -> [cons EXCEPT !.got = TRUE, !.content = prod.content, !.calls = prod.calls]
               [] Head(chan) = "error" -> [cons EXCEPT !.pc = "error"]
  /\ UNCHANGED <<chain, answer, stream, split, at, failed, prod>>

ReadEnd ==
  /\ cons.pc = "reading" /\ chan = <<>> /\ prod.pc = "closed"
  /\ cons' = [cons EXCEPT !.pc = IF cons.got THEN "ok" ELSE "error"]
  /\ UNCHANGED <<chain, answer, stream, split, at, failed, prod, chan>>

Producer == Produce \/ Finish \/ Close
Consumer == (\E fails \in BOOLEAN : Chat(fails) \/ ChatStream(fails)) \/ Read \/ ReadEnd

Next == Producer \/ Consumer \/ Cut

\* Both goroutines run; the request is answered, refused or cut off in the end.
Fairness == WF_vars(Producer) /\ WF_vars(Consumer)

Spec == Init /\ [][Next]_vars

-----------------------------------------------------------------------------
\* A successful call has passed on exactly the text its response holds, piece by
\* piece, and unless OpenAI's connection broke that is all the model said.
TextIsWhole ==
  cons.pc = "ok" =>
    /\ stream => cons.text = cons.content
    /\ cons.content = Texts \/ (prod.cut /\ chain[at] = "openai")

\* Clients are tried in order, each once, and the call fails only after the last
\* one did, or when a stream broke after it had begun.
FallsBackInOrder ==
  /\ failed = [i \in 1 .. at - 1 |-> i]
  /\ cons.pc = "error" => at > Len(chain) \/ prod.cut

\* A stream ends for both sides: the caller returns and the producer closes the
\* channel; it is not left waiting for a reader that has gone.
Ended == cons.pc \in {"ok", "error"} /\ prod.pc \in {"none", "closed"}
=============================================================================
