---------------------------- MODULE ReleaseProofs -----------------------------
(***************************************************************************)
(* Theorems about the strategies of an agent's loop, for any number of     *)
(* turns, calls and tokens, and about the Release and the EvalRun          *)
(* controllers of the operator, for any number of objects, faults and      *)
(* restarts.  Each is an instance of its own module; the instances share   *)
(* variable names and no theorem is about two of them.                     *)
(***************************************************************************)
EXTENDS Integers, Sequences, TLAPS

-----------------------------------------------------------------------------
(* The strategies of an agent's loop *)

CONSTANTS Chunks, MaxTurns, MaxTokens, Budgets, MaxCalls, MaxUse
VARIABLES strategy, budget, run, spent, cancelled
Loop == INSTANCE AgentLoops

LoopConstants ==
  /\ Chunks \in Nat /\ MaxTurns \in Nat /\ MaxTokens \in Nat
  /\ Budgets \subseteq Nat /\ MaxCalls \in Nat /\ MaxUse \in Nat

Msgs == Seq(-2 .. MaxCalls)
LoopPCs ==
  {"idle", "check", "chat", "tools", "first", "second", "reflect", "critique", "improve",
   "plan", "step", "execute", "classify", "map", "reduce", "done", "failed"}
RunSet == [pc : LoopPCs, msgs : Msgs, used : Nat, before : Nat, turn : Int, steps : Int]

\* The first n messages of m are a conversation in which every call is answered.
Complete(m, n) ==
  \A i \in 1 .. n :
    /\ m[i] > 0 => n >= i + m[i] /\ \A j \in i + 1 .. i + m[i] : m[j] = -2
    /\ m[i] = -2 => \E k \in 1 .. i - 1 : m[k] >= i - k

\* While the tools run the last message holds the calls and only they are open.
Open(m) == Len(m) > 0 /\ m[Len(m)] > 0 /\ Complete(m, Len(m) - 1)

MsgsOK(s) ==
  strategy # "plan" => IF s.pc = "tools" THEN Open(s.msgs) ELSE Complete(s.msgs, Len(s.msgs))

\* Where the invocation and the runs of the chunks can be.
PlaceOK(c, pc) ==
  /\ c = 0 /\ strategy = "react" => pc \in {"check", "chat", "tools", "done", "failed"}
  /\ c = 0 /\ strategy = "reflexion" =>
       pc \in {"first", "second", "reflect", "critique", "improve", "done", "failed"}
  /\ c = 0 /\ strategy = "plan" => pc \in {"plan", "step", "execute", "done", "failed"}
  /\ c = 0 /\ strategy = "router" => pc \in {"classify", "check", "chat", "tools", "done", "failed"}
  /\ c = 0 /\ strategy = "mapreduce" => pc \in {"map", "reduce", "done", "failed"}
  /\ c # 0 /\ strategy = "mapreduce" => pc \in {"check", "chat", "tools", "done", "failed"}
  /\ c # 0 /\ strategy # "mapreduce" => pc = "idle"

\* Tokens a run may have used when the budget still covers a call.
Room == IF budget > MaxTokens THEN budget - MaxTokens ELSE 0

\* A call that was checked leaves at most one call's use above that; reflexion
\* makes a second one before it looks again.
RoomOK(c, s) ==
  /\ s.pc \in {"first", "plan", "classify"} => s.used = 0 /\ s.before = 0
  /\ budget > 0 =>
    /\ s.pc \in {"chat", "execute", "critique"} => s.used <= Room
    /\ s.pc \in {"second", "improve"} => s.used <= Room + MaxUse
    /\ c = 0 /\ strategy = "reflexion" => s.used <= Room + MaxUse + MaxUse
    /\ c # 0 \/ strategy \in {"react", "plan", "router"} => s.used <= Room + MaxUse
    /\ strategy # "router" => s.before = 0
    /\ s.before <= MaxUse

RunOK(c, s) == s \in RunSet /\ PlaceOK(c, s.pc) /\ MsgsOK(s) /\ RoomOK(c, s)

\* The run of an invocation that sums up its chunks: nothing is said about the sum.
Summed(c) == c = 0 /\ strategy = "mapreduce"
SumOK(s) ==
  s.pc \in {"map", "reduce", "done", "failed"} /\ s.msgs = <<-1>> /\ {"pc", "msgs"} \subseteq DOMAIN s

LoopInvariant ==
  /\ strategy \in Loop!Strategies /\ budget \in Nat /\ spent \in Nat /\ DOMAIN run = 0 .. Chunks
  /\ \A c \in 0 .. Chunks : IF Summed(c) THEN SumOK(run[c]) ELSE RunOK(c, run[c])
  /\ strategy # "mapreduce" => spent = run[0].used + run[0].before

\* Calls appended to a complete conversation are open.
LEMMA CallsOpen ==
  ASSUME MaxCalls \in Nat, NEW m \in Msgs, Complete(m, Len(m)), NEW n \in 1 .. MaxCalls
  PROVE  Append(m, n) \in Msgs /\ Open(Append(m, n))
<1>1. /\ Append(m, n) \in Seq(Int) /\ Len(Append(m, n)) = Len(m) + 1 /\ Append(m, n)[Len(m) + 1] = n
      /\ \A i \in 1 .. Len(m) : Append(m, n)[i] = m[i]
  BY DEF Msgs
<1>2. Len(m) \in Nat /\ \A i \in 1 .. Len(m) : m[i] \in Int
  BY DEF Msgs
<1>3. Complete(Append(m, n), Len(m))
  <2> SUFFICES ASSUME NEW i \in 1 .. Len(m)
               PROVE  /\ m[i] > 0 => Len(m) >= i + m[i] /\ \A j \in i + 1 .. i + m[i] : Append(m, n)[j] = -2
                      /\ m[i] = -2 => \E k \in 1 .. i - 1 : Append(m, n)[k] >= i - k
    BY Zenon, <1>1 DEF Complete
  <2>1. m[i] > 0 => Len(m) >= i + m[i] /\ \A j \in i + 1 .. i + m[i] : j \in 1 .. Len(m) /\ m[j] = -2
    BY <1>2 DEF Complete
  <2>2. m[i] = -2 => \E k \in 1 .. i - 1 : k \in 1 .. Len(m) /\ m[k] >= i - k
    BY <1>2 DEF Complete
  <2> QED BY Zenon, <1>1, <2>1, <2>2
<1>4. Append(m, n) \in Msgs
  BY DEF Msgs
<1> QED BY <1>1, <1>2, <1>3, <1>4 DEF Open

\* As many results as there are open calls complete the conversation.
LEMMA CallsAnswered ==
  ASSUME MaxCalls \in Nat, NEW m \in Msgs, Open(m)
  PROVE  /\ Loop!Answered(m, m[Len(m)]) \in Msgs
         /\ Complete(Loop!Answered(m, m[Len(m)]), Len(Loop!Answered(m, m[Len(m)])))
<1> DEFINE n == m[Len(m)]
           r == [i \in 1 .. n |-> -2]
           a == m \o r
           L == Len(m)
<1>1. L \in Nat /\ L > 0 /\ n \in Nat /\ n > 0 /\ \A i \in 1 .. L : m[i] \in Int
  BY DEF Open, Msgs
<1>2. r \in Seq(-2 .. MaxCalls) /\ Len(r) = n
  BY <1>1
<1>3. Loop!Answered(m, m[Len(m)]) = a
  BY Zenon DEF Loop!Answered, Loop!Result
<1>4. a \in Msgs /\ Len(a) = L + n
  BY <1>1, <1>2 DEF Msgs
<1>5. \A i \in 1 .. L : a[i] = m[i]
  BY <1>1, <1>2 DEF Msgs
<1>6. \A i \in L + 1 .. L + n : a[i] = -2
  BY <1>1, <1>2 DEF Msgs
<1>o. \A i \in 1 .. L - 1 :
        /\ m[i] > 0 => L - 1 >= i + m[i] /\ \A j \in i + 1 .. i + m[i] : m[j] = -2
        /\ m[i] = -2 => \E k \in 1 .. i - 1 : m[k] >= i - k
  BY Zenon DEF Open, Complete
<1>l. a[L] = n
  BY <1>1, <1>5
<1> HIDE DEF a, r, n, L
<1>7. ASSUME NEW i \in 1 .. Len(a)
      PROVE  /\ a[i] > 0 => Len(a) >= i + a[i] /\ \A j \in i + 1 .. i + a[i] : a[j] = -2
             /\ a[i] = -2 => \E k \in 1 .. i - 1 : a[k] >= i - k
  <2>1. CASE i \in 1 .. L - 1
    <3>1. a[i] = m[i] /\ m[i] \in Int
      BY <1>1, <1>5, <2>1
    <3>2. ASSUME m[i] > 0 PROVE Len(a) >= i + m[i] /\ \A j \in i + 1 .. i + m[i] : a[j] = -2
      <4>1. L - 1 >= i + m[i] /\ \A j \in i + 1 .. i + m[i] : m[j] = -2
        BY Zenon, <1>o, <2>1, <3>2
      <4>2. \A j \in i + 1 .. i + m[i] : j \in 1 .. L
        BY <1>1, <2>1, <3>1, <4>1
      <4> QED BY <1>1, <1>4, <1>5, <2>1, <3>1, <4>1, <4>2
    <3>3. ASSUME m[i] = -2 PROVE \E k \in 1 .. i - 1 : a[k] >= i - k
      <4>1. PICK k \in 1 .. i - 1 : m[k] >= i - k
        BY Zenon, <1>o, <2>1, <3>3
      <4>2. k \in 1 .. L
        BY <1>1, <2>1
      <4> QED BY Zenon, <1>5, <4>1, <4>2
    <3> QED BY Zenon, <3>1, <3>2, <3>3
  <2>2. CASE i = L
    BY <1>1, <1>4, <1>6, <1>l, <2>2
  <2>3. CASE i \in L + 1 .. L + n
    <3>1. a[L] >= i - L /\ L \in 1 .. i - 1
      BY <1>1, <1>l, <2>3
    <3>2. a[i] = -2
      BY Zenon, <1>6, <2>3
    <3> QED BY <3>1, <3>2
  <2> QED BY <1>1, <1>4, <2>1, <2>2, <2>3
<1> QED BY Zenon, <1>3, <1>4, <1>7 DEF Complete, n

\* A step of one run keeps the invariant if what it leaves that run with is right
\* and its tokens are counted.
LEMMA LoopStep ==
  ASSUME LoopConstants, LoopInvariant, NEW c \in 0 .. Chunks, NEW s,
         IF Summed(c) THEN SumOK(s) ELSE RunOK(c, s),
         run' = [run EXCEPT ![c] = s], strategy' = strategy, budget' = budget, spent' \in Nat,
         strategy # "mapreduce" => c = 0 /\ spent' = s.used + s.before
  PROVE  LoopInvariant'
<1>1. DOMAIN run' = 0 .. Chunks
  BY Zenon DEF LoopInvariant
<1>2. \A d \in 0 .. Chunks : run'[d] = IF d = c THEN s ELSE run[d]
  BY Zenon DEF LoopInvariant
<1>3. \A d, t : RunOK(d, t) => RunOK(d, t)'
  <2> SUFFICES ASSUME NEW d, NEW t PROVE RunOK(d, t) => RunOK(d, t)'
    BY Zenon
  <2>1. (PlaceOK(d, t.pc) => PlaceOK(d, t.pc)') /\ Room' = Room
    BY Zenon DEF PlaceOK, Room
  <2>2. MsgsOK(t) => MsgsOK(t)'
    BY Zenon DEF MsgsOK
  <2>3. RoomOK(d, t) => RoomOK(d, t)'
    BY Zenon, <2>1 DEF RoomOK
  <2> QED BY Zenon, <2>1, <2>2, <2>3 DEF RunOK
<1>4. \A d \in 0 .. Chunks : IF Summed(d) THEN SumOK(run'[d]) ELSE RunOK(d, run'[d])
  BY Zenon, <1>2 DEF LoopInvariant
<1>5. \A d \in 0 .. Chunks : IF Summed(d)' THEN SumOK(run[d])' ELSE RunOK(d, run[d])'
  BY Zenon, <1>3, <1>4 DEF Summed, SumOK
<1>6. strategy' # "mapreduce" => spent' = run'[0].used + run'[0].before
  BY Zenon, <1>2
<1> QED BY Zenon, <1>1, <1>5, <1>6 DEF LoopInvariant, LoopConstants

\* What a run that still calls the model or its tools looks like before its step.
LEMMA RunTypes ==
  ASSUME LoopConstants, LoopInvariant, NEW c \in 0 .. Chunks, run[c].pc \notin {"map", "reduce", "done", "failed"}
  PROVE  /\ ~Summed(c) /\ run[c] \in RunSet /\ RunOK(c, run[c]) /\ run[c].msgs \in Msgs
         /\ run[c].used \in Nat /\ run[c].before \in Nat /\ run[c].turn \in Int /\ run[c].steps \in Int
         /\ budget \in Nat /\ spent \in Nat /\ Room \in Nat /\ MaxTokens \in Nat /\ MaxUse \in Nat
<1>1. ~Summed(c) /\ RunOK(c, run[c])
  BY Zenon DEF LoopInvariant, SumOK
<1> QED BY <1>1 DEF LoopInvariant, LoopConstants, RunSet, RunOK, Room

\* A run that begins another turn.
LEMMA Turned ==
  ASSUME NEW t \in RunSet, NEW pc \in LoopPCs
  PROVE  LET u == [t EXCEPT !.turn = @ + 1, !.pc = pc]
         IN  u \in RunSet /\ u.pc = pc /\ u.msgs = t.msgs /\ u.used = t.used /\ u.before = t.before
<1> DEFINE u == [t EXCEPT !.turn = @ + 1, !.pc = pc]
<1>1. t.turn + 1 \in Int
  BY DEF RunSet
<1> DEFINE v == [t EXCEPT !.turn = t.turn + 1]
<1>2. v \in RunSet /\ v.msgs = t.msgs /\ v.used = t.used /\ v.before = t.before
  BY Zenon, <1>1 DEF RunSet
<1>3. u = [v EXCEPT !.pc = pc]
  BY Zenon
<1> HIDE DEF u, v
<1>4. u \in RunSet /\ u.pc = pc /\ u.msgs = t.msgs /\ u.used = t.used /\ u.before = t.before
  BY Zenon, <1>2, <1>3 DEF RunSet
<1> QED BY Zenon, <1>4 DEF u

\* While its own run goes on, an invocation without chunks has one run.
LEMMA OneRun ==
  ASSUME LoopConstants, LoopInvariant, NEW c \in 0 .. Chunks,
         run[c].pc \notin {"idle", "map", "reduce", "done", "failed"}
  PROVE  strategy # "mapreduce" => c = 0 /\ spent = run[c].used + run[c].before
BY Zenon, RunTypes DEF LoopInvariant, RunOK, PlaceOK

\* A step that calls no model keeps what was used.
LEMMA Moves ==
  ASSUME LoopConstants, LoopInvariant, NEW c \in 0 .. Chunks, run[c].pc \notin {"idle", "map", "reduce", "done", "failed"}, NEW s, Loop!Step(c, s),
         RunOK(c, s), s.used = run[c].used, s.before = run[c].before
  PROVE  LoopInvariant'
<1>t. /\ ~Summed(c) /\ run[c] \in RunSet /\ RunOK(c, run[c]) /\ run[c].msgs \in Msgs
      /\ run[c].used \in Nat /\ run[c].before \in Nat /\ run[c].turn \in Int /\ run[c].steps \in Int
      /\ budget \in Nat /\ spent \in Nat /\ Room \in Nat /\ MaxTokens \in Nat /\ MaxUse \in Nat
  BY Zenon, RunTypes
<1>1. run' = [run EXCEPT ![c] = s] /\ strategy' = strategy /\ budget' = budget /\ spent' = spent
  BY Zenon DEF Loop!Step
<1>2. spent' \in Nat
  BY Zenon, <1>1, <1>t
<1>3. strategy # "mapreduce" => c = 0 /\ spent' = s.used + s.before
  BY Zenon, <1>1, OneRun
<1> QED BY Zenon, <1>t, <1>1, <1>2, <1>3, LoopStep

\* A call adds its tokens to what the run and the invocation have used.
LEMMA Calls ==
  ASSUME LoopConstants, LoopInvariant, NEW c \in 0 .. Chunks, run[c].pc \notin {"idle", "map", "reduce", "done", "failed"}, NEW r \in Loop!Replies,
         NEW s \in RunSet, Loop!Called(c, r, s),
         s.used = run[c].used, s.before = run[c].before, PlaceOK(c, s.pc), MsgsOK(s),
         \A u \in Nat : u > s.used /\ u <= s.used + MaxUse => RoomOK(c, [s EXCEPT !.used = u])
  PROVE  LoopInvariant'
<1>t. /\ ~Summed(c) /\ run[c] \in RunSet /\ RunOK(c, run[c]) /\ run[c].msgs \in Msgs
      /\ run[c].used \in Nat /\ run[c].before \in Nat /\ run[c].turn \in Int /\ run[c].steps \in Int
      /\ budget \in Nat /\ spent \in Nat /\ Room \in Nat /\ MaxTokens \in Nat /\ MaxUse \in Nat
  BY Zenon, RunTypes
<1>1. r.tokens \in 1 .. MaxUse /\ r.tokens \in Nat /\ r.tokens > 0
  BY DEF Loop!Replies, LoopConstants
<1> DEFINE u == s.used + r.tokens
           t == [s EXCEPT !.used = u]
<1>2. u \in Nat /\ u > s.used /\ u <= s.used + MaxUse /\ s.used \in Nat
  BY <1>1 DEF LoopConstants, RunSet
<1>3. t \in RunSet /\ t.pc = s.pc /\ t.msgs = s.msgs /\ t.used = u /\ t.before = s.before
  BY Zenon, <1>2 DEF RunSet
<1>4. RoomOK(c, t)
  BY Zenon, <1>2
<1>5. run' = [run EXCEPT ![c] = t] /\ strategy' = strategy /\ budget' = budget /\ spent' = spent + r.tokens
  BY Zenon DEF Loop!Called
<1> HIDE DEF t
<1>6. RunOK(c, t)
  BY Zenon, <1>3, <1>4 DEF RunOK, MsgsOK
<1>7. spent' \in Nat
  BY <1>1, <1>5, <1>t
<1>8. strategy # "mapreduce" => c = 0 /\ spent' = t.used + t.before
  BY <1>1, <1>3, <1>5, OneRun, <1>t
<1> QED BY Zenon, <1>t, <1>5, <1>6, <1>7, <1>8, LoopStep

\* The top of the react loop.
LEMMA ReactCheckStep ==
  ASSUME LoopConstants, LoopInvariant, NEW c \in 0 .. Chunks, Loop!ReactCheck(c)
  PROVE  LoopInvariant'
<1>t. /\ ~Summed(c) /\ run[c] \in RunSet /\ RunOK(c, run[c]) /\ run[c].msgs \in Msgs
      /\ run[c].used \in Nat /\ run[c].before \in Nat /\ run[c].turn \in Int /\ run[c].steps \in Int
      /\ budget \in Nat /\ spent \in Nat /\ Room \in Nat /\ MaxTokens \in Nat /\ MaxUse \in Nat
  BY Zenon, RunTypes DEF Loop!ReactCheck
<1> DEFINE s == IF run[c].turn = MaxTurns THEN [run[c] EXCEPT !.pc = "done"]
                ELSE [run[c] EXCEPT !.turn = @ + 1, !.pc = IF Loop!Fits(run[c].used) THEN "chat" ELSE "done"]
<1>1. run[c].pc = "check" /\ Loop!Step(c, s)
  BY Zenon DEF Loop!ReactCheck
<1>2. /\ s \in RunSet /\ s.pc \in {"chat", "done"} /\ s.msgs = run[c].msgs
      /\ s.used = run[c].used /\ s.before = run[c].before /\ (s.pc = "chat" => Loop!Fits(run[c].used))
  <2>1. CASE run[c].turn = MaxTurns
    BY Zenon, <2>1, <1>t DEF RunSet, LoopPCs
  <2>2. CASE run[c].turn # MaxTurns /\ Loop!Fits(run[c].used)
    <3>1. s = [run[c] EXCEPT !.turn = @ + 1, !.pc = "chat"]
      BY Zenon, <2>2
    <3> HIDE DEF s
    <3>2. run[c] \in RunSet /\ "chat" \in LoopPCs
      BY Zenon, <1>t DEF LoopPCs
    <3>3. s \in RunSet /\ s.pc = "chat" /\ s.msgs = run[c].msgs /\ s.used = run[c].used /\ s.before = run[c].before
      BY Zenon, <3>1, <3>2, Turned
    <3> QED BY Zenon, <2>2, <3>3
  <2>3. CASE run[c].turn # MaxTurns /\ ~Loop!Fits(run[c].used)
    <3>1. s = [run[c] EXCEPT !.turn = @ + 1, !.pc = "done"]
      BY Zenon, <2>3
    <3> HIDE DEF s
    <3>2. run[c] \in RunSet /\ "done" \in LoopPCs
      BY Zenon, <1>t DEF LoopPCs
    <3>3. s \in RunSet /\ s.pc = "done" /\ s.msgs = run[c].msgs /\ s.used = run[c].used /\ s.before = run[c].before
      BY Zenon, <3>1, <3>2, Turned
    <3> QED BY Zenon, <2>3, <3>3
  <2> QED BY Zenon, <2>1, <2>2, <2>3
<1> HIDE DEF s
<1>3. PlaceOK(c, s.pc) /\ MsgsOK(s)
  BY Zenon, <1>1, <1>2, <1>t DEF RunOK, PlaceOK, MsgsOK
<1>4. RoomOK(c, s)
  BY <1>1, <1>2, <1>t DEF RunOK, RoomOK, Room, Loop!Fits
<1> QED BY Zenon, <1>1, <1>2, <1>3, <1>4, Moves DEF RunOK

\* The model is asked and answers with calls or without.
LEMMA ReactChatStep ==
  ASSUME LoopConstants, LoopInvariant, NEW c \in 0 .. Chunks, NEW r \in Loop!Replies, Loop!ReactChat(c, r)
  PROVE  LoopInvariant'
<1>t. /\ ~Summed(c) /\ run[c] \in RunSet /\ RunOK(c, run[c]) /\ run[c].msgs \in Msgs
      /\ run[c].used \in Nat /\ run[c].before \in Nat /\ run[c].turn \in Int /\ run[c].steps \in Int
      /\ budget \in Nat /\ spent \in Nat /\ Room \in Nat /\ MaxTokens \in Nat /\ MaxUse \in Nat
  BY Zenon, RunTypes DEF Loop!ReactChat
<1> DEFINE calls == ~(r.calls = 0 \/ ~r.tooluse)
           s == IF ~calls THEN [run[c] EXCEPT !.pc = "done"]
                ELSE [run[c] EXCEPT !.pc = "tools", !.msgs = Append(@, r.calls)]
<1>1. run[c].pc = "chat" /\ Loop!Called(c, r, s)
  BY Zenon DEF Loop!ReactChat
<1>2. strategy # "plan"
  BY Zenon, <1>1, <1>t DEF RunOK, PlaceOK
<1>3. calls => Append(run[c].msgs, r.calls) \in Msgs /\ Open(Append(run[c].msgs, r.calls))
  <2>1. r.calls \in 0 .. MaxCalls /\ MaxCalls \in Nat
    BY Zenon DEF Loop!Replies, LoopConstants
  <2>2. Complete(run[c].msgs, Len(run[c].msgs))
    BY Zenon, <1>1, <1>2, <1>t DEF RunOK, MsgsOK
  <2> QED BY <2>1, <2>2, <1>t, CallsOpen
<1>4. /\ s \in RunSet /\ s.pc = (IF calls THEN "tools" ELSE "done")
      /\ s.msgs = (IF calls THEN Append(run[c].msgs, r.calls) ELSE run[c].msgs)
      /\ s.used = run[c].used /\ s.before = run[c].before
  BY Zenon, <1>3, <1>t DEF RunSet, LoopPCs
<1> HIDE DEF s, calls
<1>5. PlaceOK(c, s.pc) /\ MsgsOK(s)
  BY Zenon, <1>1, <1>3, <1>4, <1>t DEF RunOK, PlaceOK, MsgsOK
<1>6. ASSUME NEW u \in Nat, u > s.used, u <= s.used + MaxUse PROVE RoomOK(c, [s EXCEPT !.used = u])
  <2>1. /\ [s EXCEPT !.used = u].used = u /\ [s EXCEPT !.used = u].before = run[c].before
        /\ [s EXCEPT !.used = u].pc \in {"tools", "done"}
    BY Zenon, <1>4 DEF RunSet
  <2>2. budget > 0 => u <= Room + MaxUse
    BY <1>1, <1>4, <1>6, <1>t DEF RunOK, RoomOK
  <2> QED BY <1>1, <2>1, <2>2, <1>t DEF RunOK, RoomOK
<1> QED BY Zenon, <1>1, <1>4, <1>5, <1>6, Calls

\* The tools have answered every call.
LEMMA ReactToolsStep ==
  ASSUME LoopConstants, LoopInvariant, NEW c \in 0 .. Chunks, Loop!ReactTools(c)
  PROVE  LoopInvariant'
<1>t. /\ ~Summed(c) /\ run[c] \in RunSet /\ RunOK(c, run[c]) /\ run[c].msgs \in Msgs
      /\ run[c].used \in Nat /\ run[c].before \in Nat /\ run[c].turn \in Int /\ run[c].steps \in Int
      /\ budget \in Nat /\ spent \in Nat /\ Room \in Nat /\ MaxTokens \in Nat /\ MaxUse \in Nat
  BY Zenon, RunTypes DEF Loop!ReactTools
<1> DEFINE m == run[c].msgs
           a == Loop!Answered(m, m[Len(m)])
           s == [run[c] EXCEPT !.pc = "check", !.msgs = a]
<1>1. run[c].pc = "tools" /\ Loop!Step(c, s)
  BY Zenon DEF Loop!ReactTools
<1>2. strategy # "plan" /\ Open(m)
  BY Zenon, <1>1, <1>t DEF RunOK, PlaceOK, MsgsOK
<1>3. a \in Msgs /\ Complete(a, Len(a))
  BY Zenon, <1>2, <1>t, CallsAnswered DEF LoopConstants
<1> HIDE DEF a
<1>4. s \in RunSet /\ s.pc = "check" /\ s.msgs = a /\ s.used = run[c].used /\ s.before = run[c].before
  BY Zenon, <1>3, <1>t DEF RunSet, LoopPCs
<1> HIDE DEF s
<1>5. PlaceOK(c, s.pc) /\ MsgsOK(s)
  BY Zenon, <1>1, <1>3, <1>4, <1>t DEF RunOK, PlaceOK, MsgsOK
<1>6. RoomOK(c, s)
  BY Zenon, <1>1, <1>4, <1>t DEF RunOK, RoomOK
<1> QED BY Zenon, <1>1, <1>4, <1>5, <1>6, Moves DEF RunOK

\* Reflexion: the first answer, and the one after its tools.
LEMMA FirstStep ==
  ASSUME LoopConstants, LoopInvariant, NEW r \in Loop!Replies, Loop!First(r) \/ Loop!Second(r)
  PROVE  LoopInvariant'
<1>0. 0 \in 0 .. Chunks /\ MaxCalls \in Nat /\ r.calls \in 0 .. MaxCalls
  BY DEF LoopConstants, Loop!Replies
<1>t. /\ ~Summed(0) /\ run[0] \in RunSet /\ RunOK(0, run[0]) /\ run[0].msgs \in Msgs
      /\ run[0].used \in Nat /\ run[0].before \in Nat /\ run[0].turn \in Int /\ run[0].steps \in Int
      /\ budget \in Nat /\ spent \in Nat /\ Room \in Nat /\ MaxTokens \in Nat /\ MaxUse \in Nat
  BY Zenon, <1>0, RunTypes DEF Loop!First, Loop!Second
<1>1. /\ run[0].pc \in {"first", "second"} /\ strategy = "reflexion"
      /\ Complete(run[0].msgs, Len(run[0].msgs))
  BY Zenon, <1>0, <1>t DEF Loop!First, Loop!Second, RunOK, PlaceOK, MsgsOK, LoopInvariant, Loop!Strategies
<1>2. ASSUME NEW s \in RunSet, Loop!Called(0, r, s), s.used = run[0].used, s.before = run[0].before,
             Complete(s.msgs, Len(s.msgs)), s.pc = "reflect" \/ (s.pc = "second" /\ run[0].pc = "first")
      PROVE  LoopInvariant'
  <2>1. PlaceOK(0, s.pc) /\ MsgsOK(s)
    BY Zenon, <1>1, <1>2 DEF PlaceOK, MsgsOK
  <2>2. ASSUME NEW u \in Nat, u > s.used, u <= s.used + MaxUse PROVE RoomOK(0, [s EXCEPT !.used = u])
    <3>1. /\ [s EXCEPT !.used = u].used = u /\ [s EXCEPT !.used = u].before = run[0].before
          /\ [s EXCEPT !.used = u].pc = s.pc
      BY Zenon, <1>2 DEF RunSet
    <3>2. budget > 0 => u <= Room + MaxUse + MaxUse /\ (run[0].pc = "first" => u <= Room + MaxUse)
      BY <1>0, <1>1, <1>2, <2>2, <1>t DEF RunOK, RoomOK
    <3> QED BY Zenon, <1>0, <1>1, <1>2, <3>1, <3>2, <1>t DEF RunOK, RoomOK
  <2> QED BY Zenon, <1>0, <1>1, <1>2, <2>1, <2>2, Calls
<1>3. CASE Loop!Second(r) \/ (Loop!First(r) /\ (r.calls = 0 \/ ~r.tooluse))
  <2> DEFINE s == [run[0] EXCEPT !.pc = "reflect"]
  <2>1. Loop!Called(0, r, s)
    BY Zenon, <1>3 DEF Loop!First, Loop!Second
  <2>2. s \in RunSet /\ s.pc = "reflect" /\ s.msgs = run[0].msgs /\ s.used = run[0].used /\ s.before = run[0].before
    BY Zenon, <1>0, <1>t DEF RunSet, LoopPCs
  <2> HIDE DEF s
  <2> QED BY Zenon, <1>1, <1>2, <2>1, <2>2
<1>4. CASE Loop!First(r) /\ ~(r.calls = 0 \/ ~r.tooluse)
  <2> DEFINE m == Append(run[0].msgs, r.calls)
             a == Loop!Answered(m, r.calls)
             s == [run[0] EXCEPT !.pc = "second", !.msgs = a]
  <2>1. Loop!Called(0, r, s) /\ run[0].pc = "first"
    BY Zenon, <1>4 DEF Loop!First
  <2>2. m \in Msgs /\ Open(m) /\ m[Len(m)] = r.calls
    <3>1. r.calls \in 1 .. MaxCalls /\ run[0].msgs \in Msgs
      BY <1>0, <1>4, <1>t
    <3>2. m \in Msgs /\ Open(m)
      BY Zenon, <1>0, <1>1, <3>1, CallsOpen
    <3>3. m[Len(m)] = r.calls
      BY <3>1 DEF Msgs
    <3> QED BY Zenon, <3>2, <3>3
  <2>3. a \in Msgs /\ Complete(a, Len(a))
    BY Zenon, <1>0, <2>2, CallsAnswered
  <2> HIDE DEF a, m
  <2>4. s \in RunSet /\ s.pc = "second" /\ s.msgs = a /\ s.used = run[0].used /\ s.before = run[0].before
    BY Zenon, <1>0, <2>3, <1>t DEF RunSet, LoopPCs
  <2> HIDE DEF s
  <2> QED BY Zenon, <1>2, <2>1, <2>3, <2>4
<1> QED BY Zenon, <1>3, <1>4

\* Reflexion: looking at the turns and the budget, the critique and the improvement.
LEMMA ReflectStep ==
  ASSUME LoopConstants, LoopInvariant,
         Loop!Reflect \/ \E r \in Loop!Replies : Loop!Critique(r) \/ Loop!Improve(r)
  PROVE  LoopInvariant'
<1>0. 0 \in 0 .. Chunks
  BY DEF LoopConstants
<1>t. /\ ~Summed(0) /\ run[0] \in RunSet /\ RunOK(0, run[0]) /\ run[0].msgs \in Msgs
      /\ run[0].used \in Nat /\ run[0].before \in Nat /\ run[0].turn \in Int /\ run[0].steps \in Int
      /\ budget \in Nat /\ spent \in Nat /\ Room \in Nat /\ MaxTokens \in Nat /\ MaxUse \in Nat
  BY Zenon, <1>0, RunTypes DEF Loop!Reflect, Loop!Critique, Loop!Improve
<1>1. /\ run[0].pc \in {"reflect", "critique", "improve"} /\ strategy = "reflexion"
      /\ Complete(run[0].msgs, Len(run[0].msgs))
  BY Zenon, <1>0, <1>t DEF Loop!Reflect, Loop!Critique, Loop!Improve, RunOK, PlaceOK, MsgsOK, LoopInvariant, Loop!Strategies
<1>2. ASSUME Loop!Reflect PROVE LoopInvariant'
  <2> DEFINE ends == run[0].turn = MaxTurns - 1 \/ ~Loop!Fits(run[0].used)
             s == IF ends THEN [run[0] EXCEPT !.pc = "done"]
                  ELSE [run[0] EXCEPT !.pc = "critique", !.turn = @ + 1]
  <2>1. run[0].pc = "reflect" /\ Loop!Step(0, s) /\ (~ends => Loop!Fits(run[0].used))
    BY Zenon, <1>2 DEF Loop!Reflect
  <2> HIDE DEF ends
  <2>2. /\ s \in RunSet /\ s.pc = (IF ends THEN "done" ELSE "critique")
        /\ s.msgs = run[0].msgs /\ s.used = run[0].used /\ s.before = run[0].before
    <3>1. CASE ends
      BY Zenon, <1>0, <3>1, <1>t DEF RunSet, LoopPCs
    <3>2. CASE ~ends
      <4>1. s = [run[0] EXCEPT !.turn = @ + 1, !.pc = "critique"]
        BY Zenon, <1>0, <3>2, <1>t DEF RunSet
      <4> HIDE DEF s
      <4>2. run[0] \in RunSet /\ "critique" \in LoopPCs
        BY Zenon, <1>0, <1>t DEF LoopPCs
      <4>3. s \in RunSet /\ s.pc = "critique" /\ s.msgs = run[0].msgs /\ s.used = run[0].used /\ s.before = run[0].before
        BY Zenon, <4>1, <4>2, Turned
      <4> QED BY Zenon, <3>2, <4>3
    <3> QED BY Zenon, <3>1, <3>2
  <2> HIDE DEF s
  <2>3. PlaceOK(0, s.pc) /\ MsgsOK(s)
    BY Zenon, <1>1, <2>2 DEF PlaceOK, MsgsOK
  <2>4. RoomOK(0, s)
    BY <1>0, <1>1, <2>1, <2>2, <1>t DEF RunOK, RoomOK, Room, Loop!Fits
  <2> QED BY Zenon, <1>0, <2>1, <2>2, <2>3, <2>4, Moves DEF RunOK
<1>3. ASSUME NEW r \in Loop!Replies, NEW pc, Loop!Called(0, r, [run[0] EXCEPT !.pc = pc]),
             \/ run[0].pc = "critique" /\ pc \in {"done", "improve"}
             \/ run[0].pc = "improve" /\ pc = "reflect"
      PROVE  LoopInvariant'
  <2> DEFINE s == [run[0] EXCEPT !.pc = pc]
  <2>1. s \in RunSet /\ s.pc = pc /\ s.msgs = run[0].msgs /\ s.used = run[0].used /\ s.before = run[0].before
    BY Zenon, <1>0, <1>3, <1>t DEF RunSet, LoopPCs
  <2>2. Loop!Called(0, r, s)
    BY Zenon, <1>3
  <2> HIDE DEF s
  <2>3. PlaceOK(0, s.pc) /\ MsgsOK(s)
    BY Zenon, <1>1, <1>3, <2>1 DEF PlaceOK, MsgsOK
  <2>4. ASSUME NEW u \in Nat, u > s.used, u <= s.used + MaxUse PROVE RoomOK(0, [s EXCEPT !.used = u])
    <3>1. /\ [s EXCEPT !.used = u].used = u /\ [s EXCEPT !.used = u].before = run[0].before
          /\ [s EXCEPT !.used = u].pc = pc
      BY Zenon, <2>1 DEF RunSet
    <3>2. budget > 0 => u <= Room + MaxUse + MaxUse /\ (run[0].pc = "critique" => u <= Room + MaxUse)
      BY <1>0, <1>3, <2>1, <2>4, <1>t DEF RunOK, RoomOK
    <3> QED BY Zenon, <1>0, <1>1, <1>3, <3>1, <3>2, <1>t DEF RunOK, RoomOK
  <2> QED BY Zenon, <1>0, <1>1, <2>1, <2>2, <2>3, <2>4, Calls
<1>4. ASSUME NEW r \in Loop!Replies, Loop!Critique(r) PROVE LoopInvariant'
  BY Zenon, <1>3, <1>4 DEF Loop!Critique
<1>5. ASSUME NEW r \in Loop!Replies, Loop!Improve(r) PROVE LoopInvariant'
  BY Zenon, <1>3, <1>5 DEF Loop!Improve
<1> QED BY Zenon, <1>2, <1>4, <1>5

\* A plan is made, its steps are counted out, and each is executed.
LEMMA PlanSteps ==
  ASSUME LoopConstants, LoopInvariant,
         \/ Loop!PlanStep
         \/ \E r \in Loop!Replies : (\E n \in 0 .. MaxTurns : Loop!Plan(r, n)) \/ Loop!ExecuteStep(r)
  PROVE  LoopInvariant'
<1>0. 0 \in 0 .. Chunks /\ MaxCalls \in Nat /\ MaxTurns \in Nat
  BY DEF LoopConstants
<1>t. /\ ~Summed(0) /\ run[0] \in RunSet /\ RunOK(0, run[0]) /\ run[0].msgs \in Msgs
      /\ run[0].used \in Nat /\ run[0].before \in Nat /\ run[0].turn \in Int /\ run[0].steps \in Int
      /\ budget \in Nat /\ spent \in Nat /\ Room \in Nat /\ MaxTokens \in Nat /\ MaxUse \in Nat
  BY Zenon, <1>0, RunTypes DEF Loop!PlanStep, Loop!Plan, Loop!ExecuteStep
<1>1. run[0].pc \in {"plan", "step", "execute"} /\ strategy = "plan"
  BY Zenon, <1>0, <1>t DEF Loop!PlanStep, Loop!Plan, Loop!ExecuteStep, RunOK, PlaceOK, LoopInvariant, Loop!Strategies
<1>2. ASSUME NEW r \in Loop!Replies, NEW s \in RunSet, Loop!Called(0, r, s), s.pc = "step",
             s.used = run[0].used, s.before = run[0].before, run[0].pc \in {"plan", "execute"}
      PROVE  LoopInvariant'
  <2>1. PlaceOK(0, s.pc) /\ MsgsOK(s)
    BY Zenon, <1>1, <1>2 DEF PlaceOK, MsgsOK
  <2>2. ASSUME NEW u \in Nat, u > s.used, u <= s.used + MaxUse PROVE RoomOK(0, [s EXCEPT !.used = u])
    <3>1. /\ [s EXCEPT !.used = u].used = u /\ [s EXCEPT !.used = u].before = run[0].before
          /\ [s EXCEPT !.used = u].pc = "step"
      BY Zenon, <1>2 DEF RunSet
    <3>2. budget > 0 => u <= Room + MaxUse
      BY <1>t, <1>2, <2>2 DEF RoomOK, RunOK
    <3> QED BY Zenon, <1>1, <1>t, <3>1, <3>2 DEF RoomOK, RunOK
  <2> QED BY Zenon, <1>0, <1>1, <1>2, <2>1, <2>2, Calls
<1>3. ASSUME NEW r \in Loop!Replies, NEW n \in 0 .. MaxTurns, Loop!Plan(r, n) PROVE LoopInvariant'
  <2> DEFINE k == IF n = 0 THEN 1 ELSE n
             m == <<Loop!User, 0>>
             s == [run[0] EXCEPT !.pc = "step", !.msgs = m, !.steps = k]
  <2>1. Loop!Called(0, r, s) /\ run[0].pc = "plan"
    BY Zenon, <1>3 DEF Loop!Plan
  <2>2. k \in Int /\ m \in Msgs
    BY <1>0 DEF Msgs, Loop!User
  <2> HIDE DEF k, m
  <2>3. s \in RunSet /\ s.pc = "step" /\ s.used = run[0].used /\ s.before = run[0].before
    BY Zenon, <1>t, <2>2 DEF RunSet, LoopPCs
  <2> HIDE DEF s
  <2> QED BY Zenon, <1>2, <2>1, <2>3
<1>4. ASSUME NEW r \in Loop!Replies, Loop!ExecuteStep(r) PROVE LoopInvariant'
  <2> DEFINE m == Append(run[0].msgs, r.calls)
             a == Loop!Answered(m, r.calls)
  <2>1. r.calls \in 0 .. MaxCalls /\ r.calls \in Nat
    BY <1>0 DEF Loop!Replies
  <2>2. m \in Msgs
    BY <1>0, <1>t, <2>1 DEF Msgs
  <2>3. a \in Msgs
    <3>1. [i \in 1 .. r.calls |-> -2] \in Seq(-2 .. MaxCalls)
      BY <1>0, <2>1
    <3> QED BY <2>2, <3>1 DEF Msgs, Loop!Answered, Loop!Result
  <2>4. PICK h \in Msgs : Loop!Called(0, r, [run[0] EXCEPT !.pc = "step", !.msgs = h])
    BY Zenon, <1>4, <2>2, <2>3 DEF Loop!ExecuteStep
  <2> DEFINE s == [run[0] EXCEPT !.pc = "step", !.msgs = h]
  <2>5. s \in RunSet /\ s.pc = "step" /\ s.used = run[0].used /\ s.before = run[0].before
    BY Zenon, <1>t DEF RunSet, LoopPCs
  <2>6. Loop!Called(0, r, s) /\ run[0].pc = "execute"
    BY Zenon, <1>4, <2>4 DEF Loop!ExecuteStep
  <2> HIDE DEF s
  <2> QED BY Zenon, <1>2, <2>5, <2>6
<1>5. ASSUME Loop!PlanStep PROVE LoopInvariant'
  <2>1. CASE Loop!Step(0, [run[0] EXCEPT !.pc = "done"])
    <3> DEFINE s == [run[0] EXCEPT !.pc = "done"]
    <3>1. s \in RunSet /\ s.pc = "done" /\ s.used = run[0].used /\ s.before = run[0].before
      BY Zenon, <1>t DEF RunSet, LoopPCs
    <3>2. Loop!Step(0, s)
      BY Zenon, <2>1
    <3> HIDE DEF s
    <3>3. RunOK(0, s)
      BY Zenon, <1>1, <1>t, <3>1 DEF RunOK, PlaceOK, MsgsOK, RoomOK
    <3> QED BY Zenon, <1>0, <1>1, <3>1, <3>2, <3>3, Moves
  <2>2. CASE Loop!Fits(run[0].used) /\
             Loop!Step(0, [run[0] EXCEPT !.pc = "execute", !.turn = @ + 1, !.msgs = Append(@, Loop!User)])
    <3> DEFINE m == Append(run[0].msgs, Loop!User)
               t == [run[0] EXCEPT !.msgs = m]
               s == [t EXCEPT !.turn = @ + 1, !.pc = "execute"]
    <3>1. m \in Msgs
      BY <1>0, <1>t DEF Msgs, Loop!User
    <3>2. [run[0] EXCEPT !.pc = "execute", !.turn = @ + 1, !.msgs = Append(@, Loop!User)] = s
      BY Zenon, <1>t DEF RunSet
    <3> HIDE DEF m
    <3>3. t \in RunSet /\ t.used = run[0].used /\ t.before = run[0].before /\ "execute" \in LoopPCs
      BY Zenon, <1>t, <3>1 DEF RunSet, LoopPCs
    <3> HIDE DEF t
    <3>4. s \in RunSet /\ s.pc = "execute" /\ s.used = run[0].used /\ s.before = run[0].before
      BY <3>3, Turned
    <3> HIDE DEF s
    <3>5. Loop!Step(0, s)
      BY Zenon, <2>2, <3>2
    <3>6. RoomOK(0, s)
      BY <1>0, <1>1, <1>t, <2>2, <3>4 DEF RunOK, RoomOK, Room, Loop!Fits
    <3>7. RunOK(0, s)
      BY Zenon, <1>1, <3>4, <3>6 DEF RunOK, PlaceOK, MsgsOK
    <3> QED BY Zenon, <1>0, <1>1, <3>4, <3>5, <3>7, Moves
  <2> QED BY Zenon, <1>5, <2>1, <2>2 DEF Loop!PlanStep
<1> QED BY Zenon, <1>3, <1>4, <1>5

\* The router's classification is counted apart from the react loop after it.
LEMMA ClassifyStep ==
  ASSUME LoopConstants, LoopInvariant, NEW r \in Loop!Replies, Loop!Classify(r)
  PROVE  LoopInvariant'
<1>0. 0 \in 0 .. Chunks /\ r.tokens \in 1 .. MaxUse /\ r.tokens \in Nat /\ MaxUse \in Nat
  BY DEF LoopConstants, Loop!Replies
<1>t. /\ ~Summed(0) /\ run[0] \in RunSet /\ RunOK(0, run[0]) /\ run[0].msgs \in Msgs
      /\ run[0].used \in Nat /\ run[0].before \in Nat /\ run[0].turn \in Int /\ run[0].steps \in Int
      /\ budget \in Nat /\ spent \in Nat /\ Room \in Nat /\ MaxTokens \in Nat /\ MaxUse \in Nat
  BY Zenon, <1>0, RunTypes DEF Loop!Classify
<1>1. run[0].pc = "classify" /\ strategy = "router" /\ Complete(run[0].msgs, Len(run[0].msgs))
  BY Zenon, <1>0, <1>t DEF Loop!Classify, RunOK, PlaceOK, MsgsOK, LoopInvariant, Loop!Strategies
<1> DEFINE s == [run[0] EXCEPT !.pc = "check", !.before = r.tokens]
<1>2. run' = [run EXCEPT ![0] = s] /\ spent' = spent + r.tokens /\ strategy' = strategy /\ budget' = budget
  BY Zenon DEF Loop!Classify
<1>3. s \in RunSet /\ s.pc = "check" /\ s.msgs = run[0].msgs /\ s.used = run[0].used /\ s.before = r.tokens
  BY Zenon, <1>0, <1>t DEF RunSet, LoopPCs
<1> HIDE DEF s
<1>4. run[0].used = 0 /\ run[0].before = 0 /\ spent = 0
  BY <1>0, <1>1, <1>t DEF RunOK, RoomOK, LoopInvariant
<1>5. RunOK(0, s)
  BY <1>0, <1>1, <1>3, <1>4, <1>t DEF RunOK, PlaceOK, MsgsOK, RoomOK
<1>6. spent' \in Nat /\ spent' = s.used + s.before
  BY <1>0, <1>2, <1>3, <1>4
<1> QED BY Zenon, <1>0, <1>t, <1>2, <1>5, <1>6, LoopStep

\* Map-reduce: what the chunks return is collected and reduced, or the reduction fails.
LEMMA ReduceStep ==
  ASSUME LoopConstants, LoopInvariant,
         \/ Loop!Collect
         \/ \E r \in Loop!Replies : Loop!Reduce(r)
         \/ \E c \in 0 .. Chunks : Loop!ChatFails(c) /\ run[c].pc = "reduce"
  PROVE  LoopInvariant'
<1>0. 0 \in 0 .. Chunks /\ spent \in Nat /\ \A r \in Loop!Replies : r.tokens \in Nat
  BY DEF LoopConstants, LoopInvariant, Loop!Replies
<1>1. ASSUME NEW c \in 0 .. Chunks, run[c].pc \in {"map", "reduce"} PROVE c = 0 /\ Summed(c) /\ SumOK(run[c])
  BY <1>1 DEF LoopInvariant, Loop!Strategies, RunOK, PlaceOK, Summed
<1>2. ASSUME Summed(0), NEW s, SumOK(s), run' = [run EXCEPT ![0] = s],
             strategy' = strategy, budget' = budget, spent' \in Nat
      PROVE  LoopInvariant'
  BY Zenon, <1>0, <1>2, LoopStep DEF Summed
<1>3. ASSUME Loop!Collect PROVE LoopInvariant'
  <2>1. run[0].pc = "map" /\ strategy' = strategy /\ budget' = budget /\ spent' = spent
    BY Zenon, <1>3 DEF Loop!Collect, Loop!Step
  <2>2. PICK u : \/ run' = [run EXCEPT ![0] = [run[0] EXCEPT !.pc = "failed"]]
                 \/ run' = [run EXCEPT ![0] = [run[0] EXCEPT !.pc = "reduce", !.used = u]]
    BY Zenon, <1>3 DEF Loop!Collect, Loop!Step
  <2>3. SumOK([run[0] EXCEPT !.pc = "failed"]) /\ SumOK([run[0] EXCEPT !.pc = "reduce", !.used = u])
    BY Zenon, <1>0, <1>1, <2>1 DEF SumOK
  <2> QED BY Zenon, <1>0, <1>1, <1>2, <2>1, <2>2, <2>3
<1>4. ASSUME NEW r \in Loop!Replies, Loop!Reduce(r) PROVE LoopInvariant'
  <2> DEFINE t == [run[0] EXCEPT !.pc = "done"]
             s == [t EXCEPT !.used = @ + r.tokens]
  <2>1. /\ run[0].pc = "reduce" /\ run' = [run EXCEPT ![0] = s]
        /\ strategy' = strategy /\ budget' = budget /\ spent' = spent + r.tokens
    BY Zenon, <1>4 DEF Loop!Reduce, Loop!Called
  <2>2. SumOK(t)
    BY Zenon, <1>0, <1>1, <2>1 DEF SumOK
  <2> HIDE DEF t
  <2>3. SumOK(s)
    BY Zenon, <2>2 DEF SumOK
  <2> HIDE DEF s
  <2>4. spent' \in Nat /\ Summed(0)
    BY <1>0, <1>1, <2>1
  <2> QED BY Zenon, <1>2, <2>1, <2>3, <2>4
<1>5. ASSUME NEW c \in 0 .. Chunks, Loop!ChatFails(c), run[c].pc = "reduce" PROVE LoopInvariant'
  <2> DEFINE s == [run[0] EXCEPT !.pc = "failed"]
  <2>1. c = 0 /\ Summed(0) /\ SumOK(run[0])
    BY Zenon, <1>1, <1>5
  <2>2. SumOK(s)
    BY Zenon, <2>1 DEF SumOK
  <2>3. run' = [run EXCEPT ![0] = s] /\ strategy' = strategy /\ budget' = budget /\ spent' = spent
    BY Zenon, <1>5, <2>1 DEF Loop!ChatFails
  <2> QED BY Zenon, <1>0, <1>2, <2>1, <2>2, <2>3
<1> QED BY Zenon, <1>3, <1>4, <1>5

\* Any other call that fails ends its run.
LEMMA FailStep ==
  ASSUME LoopConstants, LoopInvariant, NEW c \in 0 .. Chunks, Loop!ChatFails(c), run[c].pc # "reduce"
  PROVE  LoopInvariant'
<1>t. /\ ~Summed(c) /\ run[c] \in RunSet /\ RunOK(c, run[c]) /\ run[c].msgs \in Msgs
      /\ run[c].used \in Nat /\ run[c].before \in Nat /\ run[c].turn \in Int /\ run[c].steps \in Int
      /\ budget \in Nat /\ spent \in Nat /\ Room \in Nat /\ MaxTokens \in Nat /\ MaxUse \in Nat
  BY Zenon, RunTypes DEF Loop!ChatFails
<1> DEFINE pc == IF run[c].pc \in {"critique", "improve"} THEN "done" ELSE "failed"
           s == [run[c] EXCEPT !.pc = pc]
<1>1. /\ run' = [run EXCEPT ![c] = s] /\ spent' = spent /\ strategy' = strategy /\ budget' = budget
      /\ run[c].pc \notin {"idle", "tools"}
  BY Zenon, <1>t DEF Loop!ChatFails
<1>2. pc \in {"done", "failed"} /\ (pc = "done" => run[c].pc \in {"critique", "improve"})
  BY Zenon
<1> HIDE DEF pc
<1>3. s \in RunSet /\ s.pc = pc /\ s.msgs = run[c].msgs /\ s.used = run[c].used /\ s.before = run[c].before
  BY Zenon, <1>2, <1>t DEF RunSet, LoopPCs
<1> HIDE DEF s
<1>4. PlaceOK(c, s.pc) /\ MsgsOK(s)
  BY Zenon, <1>1, <1>2, <1>3, <1>t DEF RunOK, PlaceOK, MsgsOK
<1>5. RoomOK(c, s)
  BY Zenon, <1>1, <1>2, <1>3, <1>t DEF RunOK, RoomOK
<1>6. spent' \in Nat /\ (strategy # "mapreduce" => c = 0 /\ spent' = s.used + s.before)
  BY Zenon, <1>1, <1>3, <1>t, OneRun DEF Loop!ChatFails
<1> QED BY Zenon, <1>t, <1>1, <1>3, <1>4, <1>5, <1>6, LoopStep DEF RunOK

\* The first state of an invocation.
LEMMA LoopBegins == ASSUME LoopConstants, Loop!Init PROVE LoopInvariant
<1>1. /\ strategy \in Loop!Strategies /\ budget \in Nat /\ spent = 0 /\ DOMAIN run = 0 .. Chunks /\ 0 \in 0 .. Chunks
  BY DEF Loop!Init, LoopConstants, Loop!Runs
<1>2. ASSUME NEW c \in 0 .. Chunks
      PROVE  /\ run[c] = Loop!NewRun(run[c].pc) /\ PlaceOK(c, run[c].pc)
             /\ run[c].pc \in LoopPCs \ {"tools", "done", "failed", "reduce", "chat", "second"}
  <2>1. PICK pc : /\ run[c] = Loop!NewRun(pc)
                  /\ c # 0 => pc = IF strategy = "mapreduce" THEN "check" ELSE "idle"
                  /\ c = 0 /\ strategy = "react" => pc = "check"
                  /\ c = 0 /\ strategy = "reflexion" => pc = "first"
                  /\ c = 0 /\ strategy = "plan" => pc = "plan"
                  /\ c = 0 /\ strategy = "router" => pc = "classify"
                  /\ c = 0 /\ strategy = "mapreduce" => pc = "map"
    BY Zenon DEF Loop!Init, Loop!Runs
  <2>2. run[c].pc = pc
    BY <2>1 DEF Loop!NewRun
  <2> QED BY Zenon, <1>1, <2>1, <2>2 DEF PlaceOK, LoopPCs, Loop!Strategies
<1>3. ASSUME NEW c \in 0 .. Chunks PROVE IF Summed(c) THEN SumOK(run[c]) ELSE RunOK(c, run[c])
  <2> DEFINE s == run[c]
  <2>1. s = Loop!NewRun(s.pc) /\ PlaceOK(c, s.pc) /\ s.pc \in LoopPCs /\ s.pc # "tools"
    BY Zenon, <1>2
  <2>2. /\ s.msgs = <<-1>> /\ s.used = 0 /\ s.before = 0 /\ {"pc", "msgs"} \subseteq DOMAIN s
    BY <2>1 DEF Loop!NewRun, Loop!User
  <2>3. s \in RunSet
    <3>1. PICK pc \in LoopPCs : s = Loop!NewRun(pc)
      BY Zenon, <2>1
    <3>2. <<-1>> \in Msgs
      BY DEF Msgs, LoopConstants
    <3> QED BY <3>1, <3>2 DEF Loop!NewRun, Loop!User, RunSet
  <2>4. MsgsOK(s)
    BY <2>1, <2>2 DEF MsgsOK, Complete
  <2>5. RoomOK(c, s)
    BY <1>1, <2>2 DEF RoomOK, Room, LoopConstants
  <2> QED BY Zenon, <2>1, <2>2, <2>3, <2>4, <2>5 DEF RunOK, SumOK, Summed, PlaceOK
<1>4. strategy # "mapreduce" => spent = run[0].used + run[0].before
  BY <1>1, <1>2 DEF Loop!NewRun
<1> QED BY Zenon, <1>1, <1>3, <1>4 DEF LoopInvariant

\* Every step of an invocation keeps the invariant.
LEMMA LoopGoesOn == ASSUME LoopConstants, LoopInvariant, [Loop!Next]_Loop!vars PROVE LoopInvariant'
<1>1. CASE UNCHANGED Loop!vars
  BY <1>1 DEF Loop!vars, LoopInvariant, Summed, SumOK, RunOK, PlaceOK, MsgsOK, RoomOK, Room
<1>2. CASE Loop!Next
  <2>1. CASE Loop!Reflect \/ \E r \in Loop!Replies : Loop!Critique(r) \/ Loop!Improve(r)
    BY Zenon, <2>1, ReflectStep
  <2>2. CASE Loop!PlanStep \/ \E r \in Loop!Replies : (\E n \in 0 .. MaxTurns : Loop!Plan(r, n)) \/ Loop!ExecuteStep(r)
    BY Zenon, <2>2, PlanSteps
  <2>3. CASE Loop!Collect \/ \E r \in Loop!Replies : Loop!Reduce(r)
    BY Zenon, <2>3, ReduceStep
  <2>4. CASE \E c \in 0 .. Chunks : Loop!ReactCheck(c) \/ Loop!ReactTools(c)
    BY Zenon, <2>4, ReactCheckStep, ReactToolsStep
  <2>5. CASE \E c \in 0 .. Chunks : Loop!ChatFails(c)
    BY Zenon, <2>5, FailStep, ReduceStep
  <2>6. CASE \E r \in Loop!Replies, c \in 0 .. Chunks : Loop!ReactChat(c, r)
    BY Zenon, <2>6, ReactChatStep
  <2>7. CASE \E r \in Loop!Replies : Loop!First(r) \/ Loop!Second(r)
    BY Zenon, <2>7, FirstStep
  <2>8. CASE \E r \in Loop!Replies : Loop!Classify(r)
    BY Zenon, <2>8, ClassifyStep
  <2> QED BY Zenon, <1>2, <2>1, <2>2, <2>3, <2>4, <2>5, <2>6, <2>7, <2>8 DEF Loop!Next, Loop!Runs
<1> QED BY Zenon, <1>1, <1>2

\* An invocation that runs no chunks ends with every token counted and within its budget.
WholeLoop == strategy # "mapreduce" => Loop!TokensAreCounted /\ Loop!BudgetHolds
\* Each chunk of a map-reduce, whatever the others do, keeps the budget to itself.
ChunksHold ==
  strategy = "mapreduce" /\ budget > 0 => \A c \in 1 .. Chunks : run[c].used <= Loop!Allowance(1)

\* Under every strategy each tool call in a conversation is answered before anything
\* else is said.  React, reflexion, plan and router report every token their calls used
\* and stay within their allowance; so does each chunk of a map-reduce.
THEOREM LoopsKeepBudget == ASSUME LoopConstants PROVE Loop!Spec => [](Loop!CallsAreAnswered /\ WholeLoop /\ ChunksHold)
<1>1. ASSUME LoopInvariant PROVE Loop!CallsAreAnswered
  <2> SUFFICES ASSUME NEW c \in 0 .. Chunks, run[c].pc # "tools", strategy # "plan"
               PROVE  Complete(run[c].msgs, Len(run[c].msgs))
    BY Zenon DEF Loop!CallsAreAnswered, Loop!Runs, Loop!Result, Complete
  <2>1. CASE Summed(c)
    <3>1. run[c].msgs = <<-1>>
      BY Zenon, <1>1, <2>1 DEF LoopInvariant, SumOK
    <3> QED BY <3>1 DEF Complete
  <2>2. CASE ~Summed(c)
    BY Zenon, <1>1, <2>2 DEF LoopInvariant, RunOK, MsgsOK
  <2> QED BY Zenon, <2>1, <2>2
<1>2. ASSUME LoopInvariant PROVE WholeLoop
  <2> SUFFICES ASSUME strategy # "mapreduce" PROVE Loop!TokensAreCounted /\ Loop!BudgetHolds
    BY Zenon DEF WholeLoop
  <2>1. /\ RunOK(0, run[0]) /\ spent = run[0].used + run[0].before /\ strategy \in Loop!Strategies
        /\ run[0].used \in Nat /\ run[0].before \in Nat /\ Room \in Nat /\ MaxUse \in Nat /\ budget \in Nat
    BY <1>2 DEF LoopInvariant, Summed, LoopConstants, RunOK, RunSet, Room
  <2>2. Loop!TokensAreCounted
    BY Zenon, <2>1 DEF Loop!TokensAreCounted
  <2>3. Loop!Allowance(1) = Room + MaxUse /\ Loop!Allowance(2) = Room + MaxUse + MaxUse
    BY <2>1 DEF Loop!Allowance, Room
  <2>4. budget > 0 => /\ strategy \in {"react", "plan"} => spent <= Room + MaxUse
                      /\ strategy \in {"reflexion", "router"} => spent <= Room + MaxUse + MaxUse
    BY <2>1 DEF RunOK, RoomOK
  <2>5. Loop!BudgetHolds
    <3>1. budget > 0 /\ strategy \in {"react", "plan"} => spent <= Loop!Allowance(1)
      BY Zenon, <2>1, <2>3, <2>4
    <3>2. budget > 0 /\ strategy \in {"reflexion", "router"} => spent <= Loop!Allowance(2)
      BY Zenon, <2>1, <2>3, <2>4
    <3> QED BY <3>1, <3>2, Zenon DEF Loop!BudgetHolds
  <2> QED BY Zenon, <2>2, <2>5
<1>3. ASSUME LoopInvariant PROVE ChunksHold
  <2>1. Loop!Allowance(1) = Room + MaxUse
    BY <1>3 DEF Loop!Allowance, Room, LoopConstants, LoopInvariant
  <2>2. ASSUME NEW c \in 1 .. Chunks PROVE RunOK(c, run[c]) /\ c # 0
    BY <1>3 DEF LoopInvariant, Summed, LoopConstants
  <2> QED BY Zenon, <2>1, <2>2 DEF ChunksHold, RunOK, RoomOK
<1>4. Loop!Init => LoopInvariant
  BY Zenon, LoopBegins
<1>5. LoopInvariant /\ [Loop!Next]_Loop!vars => LoopInvariant'
  BY Zenon, LoopGoesOn
<1> QED BY <1>1, <1>2, <1>3, <1>4, <1>5, PTL DEF Loop!Spec

CONSTANTS Releases, MaxSpec, MaxFaults, Cases, Parallelism
VARIABLES rel, agent, queue, w, stale, faults, applied, retried, queued, gos

-----------------------------------------------------------------------------
(* The Release controller *)

Rel == INSTANCE ReleaseController

RelObjects == [exists : BOOLEAN, valid : BOOLEAN, owner : BOOLEAN, snap : Nat,
               promote : BOOLEAN, phase : Rel!Phases, by : Releases \cup {0}]
RelPcs == {"idle", "agent", "own", "snap", "list", "supersede", "create", "promote", "promoted"}
RelWorkers == [pc : RelPcs, name : Releases \cup {0}, copy : RelObjects, spec : Nat, left : SUBSET Releases]
Current(r) == rel[r].phase \in {"Created", "Promoted"}

RelType ==
  /\ rel \in [Releases -> RelObjects] /\ agent \in [exists : BOOLEAN, spec : Nat]
  /\ w \in RelWorkers /\ applied \in [Releases -> Nat]

\* The worker alone writes phases, so its copy has the phase that is stored; and it is
\* the phase its stage is for.
CopyInv ==
  w.pc # "idle" =>
    /\ w.name \in Releases /\ w.copy.phase = rel[w.name].phase
    /\ w.pc \in {"snap", "list", "supersede", "create"} => w.copy.phase = "none"
    /\ w.pc \in {"promote", "promoted"} => w.copy.phase = "Created"

\* While it supersedes, the Releases it has still to visit are the only other ones that
\* may be current; when it is done there is none.
SupersedeInv ==
  /\ w.pc = "supersede" => /\ w.name \notin w.left
                           /\ \A r \in Releases \ {w.name} : Current(r) => r \in w.left
  /\ w.pc = "create" => \A r \in Releases \ {w.name} : ~Current(r)

\* What is queued, worked on, to be superseded or current was created.
ExistInv ==
  /\ \A r \in queue \cup w.left : r \in Releases /\ rel[r].exists
  /\ w.pc # "idle" => rel[w.name].exists /\ w.copy.exists
  /\ \A r \in Releases : Current(r) => rel[r].exists

\* OneCurrent without counting.
CurrentInv == \A r, q \in Releases : Current(r) /\ Current(q) => r = q

\* A Release whose snapshot was applied once will not be promoted again, unless the
\* Promoted phase could not be recorded, or is just about to be.
AppliedInv ==
  \A r \in Releases :
    /\ applied[r] > 0 => \/ r \in retried \/ rel[r].phase \notin {"none", "Created"}
                         \/ w.pc = "promoted" /\ w.name = r
    /\ applied[r] > 1 => r \in retried

RelInv == RelType /\ CopyInv /\ SupersedeInv /\ ExistInv /\ CurrentInv /\ AppliedInv

\* A worker that is idle holds nothing.
LEMMA IdleWorker == Rel!Idle \in RelWorkers /\ Rel!Idle.pc = "idle" /\ Rel!Idle.left = {}
BY Zenon DEF Rel!Idle, Rel!Absent, RelWorkers, RelObjects, RelPcs, Rel!Phases

\* Writing a Release as the worker does: o takes the place of the Release it works on, and
\* the worker either ends or goes on, with o in its hands, to a stage that is for o's phase.
LEMMA StoreStep ==
  ASSUME RelInv, w.pc # "idle", NEW o \in RelObjects, o.exists,
         NEW next \in RelWorkers,
         next = Rel!Idle \/ (next.name = w.name /\ next.left = w.left),
         next.pc \in {"idle", "snap", "list", "promote"},
         next.pc \in {"snap", "list"} => o.phase = "none",
         next.pc = "promote" => o.phase = "Created",
         o.phase = rel[w.name].phase \/ o.phase = "Failed" \/ (o.phase = "Created" /\ w.pc = "create")
           \/ (o.phase = "Promoted" /\ w.pc = "promoted"),
         w.pc = "promoted" => o.phase = "Promoted",
         Rel!Store(o, next), agent' \in [exists : BOOLEAN, spec : Nat], UNCHANGED <<applied, retried>>
  PROVE  RelInv'
<1>1. /\ rel' = [rel EXCEPT ![w.name] = o] /\ w.name \in Releases
      /\ w.copy.phase = rel[w.name].phase /\ rel \in [Releases -> RelObjects]
  BY Zenon DEF Rel!Store, RelInv, CopyInv, RelType
<1>2. w' \in RelWorkers
      /\ w'.pc = next.pc /\ w'.name = next.name /\ w'.left = next.left /\ (next.pc # "idle" => w'.copy = o)
  <2>1. Rel!Absent \in RelObjects
    BY Zenon DEF RelObjects, Rel!Absent, Rel!Phases
  <2>2. w' = [next EXCEPT !.copy = IF next.pc = "idle" THEN Rel!Absent ELSE o]
    BY Zenon DEF Rel!Store
  <2> QED BY Zenon, <2>1, <2>2 DEF RelWorkers
<1>3. rel'[w.name] = o /\ \A r \in Releases : r # w.name => rel'[r] = rel[r]
  BY Zenon, <1>1
<1>4. RelType'
  BY Zenon, <1>1, <1>2 DEF RelInv, RelType
<1>5. CopyInv' /\ SupersedeInv'
  BY <1>1, <1>2, <1>3, IdleWorker DEF CopyInv, SupersedeInv
<1>6. CurrentInv'
  BY <1>1, <1>3 DEF RelInv, CurrentInv, SupersedeInv, CopyInv, Current
<1>7. AppliedInv'
  BY <1>1, <1>2, <1>3 DEF RelInv, AppliedInv, CopyInv
<1>8. ExistInv'
  <2>1. queue' \subseteq queue \cup {w.name} /\ w'.left \subseteq w.left
    BY <1>2, IdleWorker DEF Rel!Store
  <2>2. \A r \in queue' \cup w'.left : r \in Releases /\ rel'[r].exists
    BY <1>1, <1>3, <2>1 DEF RelInv, ExistInv
  <2>3. w'.pc # "idle" => rel'[w'.name].exists /\ w'.copy.exists
    BY Zenon, <1>2, <1>3, IdleWorker
  <2>4. \A r \in Releases : Current(r)' => rel'[r].exists
    BY Zenon, <1>3 DEF RelInv, ExistInv, Current
  <2> QED BY Zenon, <2>2, <2>3, <2>4 DEF ExistInv
<1> QED BY Zenon, <1>4, <1>5, <1>6, <1>7, <1>8 DEF RelInv

\* The stage of a Release is for its phase.
LEMMA StageFits ==
  ASSUME NEW o \in RelObjects
  PROVE  /\ Rel!Stage(o) \in {"snap", "list", "promote", "idle"}
         /\ Rel!Stage(o) \in {"snap", "list"} => o.phase = "none"
         /\ Rel!Stage(o) = "promote" => o.phase = "Created"
BY Zenon DEF Rel!Stage

\* The worker stops without having written anything: a refused write, a restart, or
\* nothing left to do.  An applied snapshot is then noted as not recorded.
LEMMA GivesUp ==
  ASSUME RelInv, w' = Rel!Idle, rel' = rel, \A r \in queue' : r \in Releases /\ rel[r].exists, agent' \in [exists : BOOLEAN, spec : Nat], applied' = applied,
         retried \subseteq retried', w.pc = "promoted" => w.name \in retried'
  PROVE  RelInv'
<1>1. RelType'
  BY Zenon, IdleWorker DEF RelInv, RelType, RelWorkers
<1>2. CopyInv' /\ SupersedeInv'
  BY Zenon, IdleWorker DEF CopyInv, SupersedeInv
<1>3. CurrentInv'
  BY Zenon DEF RelInv, CurrentInv, Current
<1>4. AppliedInv'
  BY Zenon, IdleWorker DEF RelInv, AppliedInv
<1>5. ExistInv'
  BY Zenon, IdleWorker DEF RelInv, ExistInv, Current
<1> QED BY Zenon, <1>1, <1>2, <1>3, <1>4, <1>5 DEF RelInv

\* Every step of the worker, of the users and a restart keeps the invariant.
LEMMA RelStep == RelInv /\ [Rel!Next]_Rel!vars => RelInv'
<1> SUFFICES ASSUME RelInv, [Rel!Next]_Rel!vars PROVE RelInv'
  BY Zenon
<1>0. /\ rel \in [Releases -> RelObjects] /\ agent \in [exists : BOOLEAN, spec : Nat] /\ w \in RelWorkers
      /\ applied \in [Releases -> Nat] /\ w.copy \in RelObjects /\ w.spec \in Nat
      /\ w.pc # "idle" => /\ w.name \in Releases /\ rel[w.name] \in RelObjects
                          /\ rel[w.name].exists /\ w.copy.exists
      /\ \A r \in queue \cup w.left : r \in Releases /\ rel[r].exists
  BY Zenon DEF RelInv, RelType, RelWorkers, CopyInv, ExistInv
<1>1. ASSUME NEW r \in Releases, Rel!Reconcile(r) PROVE RelInv'
  <2>0. w.pc = "idle" /\ UNCHANGED <<agent, applied, retried>>
    BY Zenon, <1>1 DEF Rel!Reconcile, Rel!Ghosts
  <2>1. CASE UNCHANGED <<rel, w>> /\ queue' \subseteq queue
    BY Zenon, <2>0, <2>1 DEF RelInv, RelType, CopyInv, SupersedeInv, ExistInv, CurrentInv, AppliedInv, Current
  <2>2. CASE rel' = [rel EXCEPT ![r].phase = "Failed"] /\ UNCHANGED <<queue, w>>
    <3>1. rel'[r].phase = "Failed" /\ rel'[r].exists = rel[r].exists /\ rel'[r] \in RelObjects /\ \A q \in Releases : q # r => rel'[q] = rel[q]
      BY <1>0, <2>2 DEF RelObjects, Rel!Phases
    <3>2. RelType'
      BY Zenon, <2>0, <2>2, <3>1 DEF RelInv, RelType
    <3>3. CopyInv' /\ SupersedeInv' /\ ExistInv' /\ CurrentInv' /\ AppliedInv'
      BY <2>0, <2>2, <3>1 DEF RelInv, CopyInv, SupersedeInv, ExistInv, CurrentInv, AppliedInv, Current
    <3> QED BY Zenon, <3>2, <3>3 DEF RelInv
  <2>3. CASE rel' = rel /\ queue' = queue \ {r} /\ w' = [Rel!Idle EXCEPT !.pc = "agent", !.name = r, !.copy = rel[r]]
    <3>1. w' \in RelWorkers /\ w'.pc = "agent" /\ w'.name = r /\ w'.copy = rel[r] /\ w'.left = {}
      BY Zenon, <1>0, <2>3, IdleWorker DEF RelWorkers, RelPcs
    <3>2. RelType' /\ CopyInv' /\ SupersedeInv'
      BY Zenon, <1>0, <2>0, <2>3, <3>1 DEF RelType, RelWorkers, CopyInv, SupersedeInv
    <3>3. CurrentInv' /\ AppliedInv'
      BY Zenon, <2>0, <2>3, <3>1 DEF RelInv, CurrentInv, AppliedInv, Current
    <3>4. ExistInv'
      BY Zenon, <1>1, <2>3, <3>1 DEF RelInv, ExistInv, Current, Rel!Reconcile
    <3> QED BY Zenon, <3>2, <3>3, <3>4 DEF RelInv
  <2> QED BY Zenon, <1>1, <2>1, <2>2, <2>3 DEF Rel!Reconcile
<1>2. ASSUME NEW o \in RelObjects, o.exists, o.phase = "Failed", w.pc \in {"agent", "promote"}, Rel!StoreOrDrop(o),
             UNCHANGED <<agent, applied, retried>>
      PROVE  RelInv'
  <2>1. CASE w' = Rel!Idle /\ UNCHANGED <<rel, queue>>
    BY Zenon, <1>0, <1>2, <2>1, GivesUp
  <2>2. CASE Rel!Store(o, Rel!Idle)
    BY Zenon, <1>0, <1>2, <2>2, StoreStep, IdleWorker DEF RelWorkers
  <2> QED BY Zenon, <1>2, <2>1, <2>2 DEF Rel!StoreOrDrop
<1>3. ASSUME NEW fault \in BOOLEAN, Rel!GetAgent(fault) PROVE RelInv'
  <2>0. w.pc = "agent" /\ UNCHANGED <<agent, applied, retried>>
    BY Zenon, <1>3 DEF Rel!GetAgent, Rel!Ghosts
  <2>1. CASE Rel!StoreOrDrop([w.copy EXCEPT !.phase = "Failed"])
    <3> DEFINE o == [w.copy EXCEPT !.phase = "Failed"]
    <3>1. o \in RelObjects /\ o.phase = "Failed" /\ o.exists
      BY Zenon, <1>0, <2>0 DEF RelObjects, Rel!Phases
    <3> QED BY Zenon, <1>2, <2>0, <2>1, <3>1
  <2>2. CASE w' = Rel!Idle /\ UNCHANGED <<rel, queue>>
    BY Zenon, <1>0, <2>0, <2>2, GivesUp
  <2>3. CASE /\ UNCHANGED <<rel, queue>>
             /\ \/ w' = [w EXCEPT !.pc = "own", !.spec = agent.spec]
                \/ w' = [w EXCEPT !.pc = Rel!Stage(w.copy), !.spec = agent.spec]
    <3>1. /\ w' \in RelWorkers /\ w'.name = w.name /\ w'.copy = w.copy /\ w'.left = w.left
          /\ w'.pc = "own" \/ w'.pc = Rel!Stage(w.copy)
      BY Zenon, <1>0, <2>3, StageFits DEF RelWorkers, RelPcs
    <3>2. RelType' /\ CopyInv' /\ SupersedeInv'
      BY Zenon, <1>0, <2>0, <2>3, <3>1, StageFits DEF RelInv, RelType, RelWorkers, CopyInv, SupersedeInv
    <3>3. CurrentInv' /\ AppliedInv' /\ ExistInv'
      BY Zenon, <2>0, <2>3, <3>1 DEF RelInv, CurrentInv, AppliedInv, ExistInv, Current
    <3> QED BY Zenon, <3>2, <3>3 DEF RelInv
  <2> QED BY Zenon, <1>3, <2>1, <2>2, <2>3 DEF Rel!GetAgent
<1>4. CASE Rel!SetOwner
  <2>0. w.pc = "own" /\ UNCHANGED <<agent, applied, retried>>
    BY Zenon, <1>4 DEF Rel!SetOwner, Rel!Ghosts
  <2> DEFINE o == [rel[w.name] EXCEPT !.owner = TRUE]
  <2>1. o \in RelObjects /\ o.phase = rel[w.name].phase /\ o.exists
    BY Zenon, <1>0, <2>0 DEF RelObjects
  <2>2. CASE Rel!Retry /\ rel' = rel
    BY Zenon, <1>0, <2>0, <2>2, GivesUp DEF Rel!Retry
  <2>3. CASE Rel!Store(o, IF Rel!Stage(o) = "idle" THEN Rel!Idle ELSE [w EXCEPT !.pc = Rel!Stage(o)])
    <3> HIDE DEF o
    <3> DEFINE n == IF Rel!Stage(o) = "idle" THEN Rel!Idle ELSE [w EXCEPT !.pc = Rel!Stage(o)]
    <3>1. /\ n \in RelWorkers /\ n.pc = Rel!Stage(o)
          /\ n = Rel!Idle \/ (n.name = w.name /\ n.left = w.left)
      BY Zenon, <1>0, <2>1, StageFits, IdleWorker DEF RelWorkers, RelPcs
    <3>2. Rel!Store(o, n)
      BY Zenon, <2>3
    <3> HIDE DEF n
    <3> QED BY <1>0, <2>0, <2>1, <3>1, <3>2, StageFits, StoreStep DEF RelWorkers
  <2> QED BY Zenon, <1>4, <2>2, <2>3 DEF Rel!SetOwner
<1>5. CASE Rel!Capture
  <2>0. w.pc = "snap" /\ UNCHANGED <<agent, applied, retried>>
    BY Zenon, <1>5 DEF Rel!Capture, Rel!Ghosts
  <2> DEFINE o == [rel[w.name] EXCEPT !.snap = w.spec]
  <2> DEFINE n == [w EXCEPT !.pc = "list"]
  <2>1. o \in RelObjects /\ o.phase = rel[w.name].phase /\ o.exists
    BY Zenon, <1>0, <2>0 DEF RelObjects
  <2>2. CASE Rel!Retry /\ rel' = rel
    BY Zenon, <1>0, <2>0, <2>2, GivesUp DEF Rel!Retry
  <2>3. CASE Rel!Store(o, n)
    <3> HIDE DEF o
    <3>1. n \in RelWorkers /\ n.pc = "list" /\ n.name = w.name /\ n.left = w.left
      BY Zenon, <1>0 DEF RelWorkers, RelPcs
    <3> HIDE DEF n
    <3>2. o.phase = "none"
      BY Zenon, <2>0, <2>1 DEF RelInv, CopyInv
    <3> QED BY Zenon, <1>0, <2>0, <2>1, <2>3, <3>1, <3>2, StoreStep DEF RelWorkers
  <2> QED BY Zenon, <1>5, <2>2, <2>3 DEF Rel!Capture
<1>6. CASE Rel!ListOthers
  <2> DEFINE others == {r \in Releases \ {w.name} : rel[r].exists /\ rel[r].phase # "Superseded"}
  <2>1. /\ w.pc = "list" /\ UNCHANGED <<rel, agent, applied, retried>>
        /\ w' = [w EXCEPT !.left = others, !.pc = IF others = {} THEN "create" ELSE "supersede"]
    BY Zenon, <1>6 DEF Rel!ListOthers, Rel!Ghosts
  <2>2. /\ w' \in RelWorkers /\ w'.pc = (IF others = {} THEN "create" ELSE "supersede") /\ w'.left = others
        /\ w'.name = w.name /\ w'.copy = w.copy
    BY Zenon, <1>0, <2>1 DEF RelWorkers, RelPcs
  <2>3. RelType' /\ CopyInv'
    BY Zenon, <1>0, <2>1, <2>2 DEF RelInv, RelType, RelWorkers, CopyInv
  <2>4. SupersedeInv'
    <3>1. \A r \in Releases \ {w.name} : Current(r) => r \in others
      BY Zenon DEF RelInv, ExistInv, Current
    <3>2. \A r \in Releases : Current(r)' = Current(r)
      BY Zenon, <2>1 DEF Current
    <3> QED BY Zenon, <2>2, <3>1, <3>2 DEF SupersedeInv
  <2>6. ExistInv'
    <3>1. \A r \in queue' \cup w'.left : r \in Releases /\ rel'[r].exists
      BY Zenon, <1>0, <2>1, <2>2, <1>6 DEF Rel!ListOthers
    <3>2. w'.pc # "idle" => rel'[w'.name].exists /\ w'.copy.exists
      BY Zenon, <1>0, <2>1, <2>2
    <3> QED BY Zenon, <2>1, <3>1, <3>2 DEF RelInv, ExistInv, Current
  <2>5. CurrentInv' /\ AppliedInv'
    BY Zenon, <2>1, <2>2 DEF RelInv, CurrentInv, AppliedInv, Current
  <2> QED BY Zenon, <2>3, <2>4, <2>5, <2>6 DEF RelInv
<1>7. ASSUME NEW r \in Releases, Rel!Supersede(r) PROVE RelInv'
  <2>0. w.pc = "supersede" /\ r \in w.left /\ UNCHANGED <<agent, applied, retried>>
    BY Zenon, <1>7 DEF Rel!Supersede, Rel!Ghosts
  <2>1. CASE Rel!Retry /\ rel' = rel
    BY Zenon, <1>0, <2>0, <2>1, GivesUp DEF Rel!Retry
  <2>2. CASE /\ rel' = [rel EXCEPT ![r].phase = "Superseded", ![r].by = w.name]
             /\ queue' = queue \cup {r}
             /\ w' = [w EXCEPT !.left = @ \ {r}, !.pc = IF w.left = {r} THEN "create" ELSE "supersede"]
    <3>1. /\ rel'[r].phase = "Superseded" /\ rel'[r].exists = rel[r].exists /\ rel'[r] \in RelObjects
          /\ \A q \in Releases : q # r => rel'[q] = rel[q]
      BY ZenonT(30), <1>0, <2>0, <2>2 DEF RelObjects, Rel!Phases
    <3>2. /\ w' \in RelWorkers /\ w'.pc = (IF w.left = {r} THEN "create" ELSE "supersede")
          /\ w'.left = w.left \ {r} /\ w'.name = w.name /\ w'.copy = w.copy
      BY Zenon, <1>0, <2>2 DEF RelWorkers, RelPcs
    <3>3. RelType'
      BY Zenon, <1>0, <2>0, <2>2, <3>1, <3>2 DEF RelType, RelWorkers
    <3>4. CopyInv'
      BY Zenon, <2>0, <3>1, <3>2 DEF RelInv, CopyInv, SupersedeInv
    <3>5. SupersedeInv' /\ ExistInv'
      BY <1>0, <2>0, <2>2, <3>1, <3>2 DEF RelInv, SupersedeInv, ExistInv, Current
    <3>6. CurrentInv' /\ AppliedInv'
      BY <2>0, <3>1, <3>2 DEF RelInv, CurrentInv, AppliedInv, Current
    <3> QED BY Zenon, <3>3, <3>4, <3>5, <3>6 DEF RelInv
  <2> QED BY Zenon, <1>7, <2>1, <2>2 DEF Rel!Supersede
<1>8. CASE Rel!SetCreated
  <2>0. w.pc = "create" /\ UNCHANGED <<agent, applied, retried>>
    BY Zenon, <1>8 DEF Rel!SetCreated, Rel!Ghosts
  <2> DEFINE o == [w.copy EXCEPT !.phase = "Created"]
  <2>1. o \in RelObjects /\ o.phase = "Created" /\ o.exists
    BY Zenon, <1>0, <2>0 DEF RelObjects, Rel!Phases
  <2>2. CASE Rel!Retry /\ rel' = rel
    BY Zenon, <1>0, <2>0, <2>2, GivesUp DEF Rel!Retry
  <2>3. CASE Rel!Store(o, Rel!Idle)
    BY Zenon, <2>0, <2>1, <2>3, StoreStep, IdleWorker, <1>0 DEF RelWorkers
  <2> QED BY Zenon, <1>8, <2>2, <2>3 DEF Rel!SetCreated
<1>9. CASE Rel!ApplySnapshot
  <2>0. w.pc = "promote" /\ retried' = retried
    BY Zenon, <1>9 DEF Rel!ApplySnapshot
  <2>1. CASE Rel!StoreOrDrop([w.copy EXCEPT !.phase = "Failed"]) /\ UNCHANGED <<agent, applied>>
    <3> DEFINE o == [w.copy EXCEPT !.phase = "Failed"]
    <3>1. o \in RelObjects /\ o.phase = "Failed" /\ o.exists
      BY Zenon, <1>0, <2>0 DEF RelObjects, Rel!Phases
    <3> QED BY Zenon, <1>2, <2>0, <2>1, <3>1
  <2>2. CASE /\ agent' = [agent EXCEPT !.spec = w.copy.snap]
             /\ applied' = [applied EXCEPT ![w.name] = @ + 1]
             /\ w' = [w EXCEPT !.pc = "promoted"] /\ UNCHANGED <<rel, queue>>
    <3>1. /\ w' \in RelWorkers /\ w'.pc = "promoted" /\ w'.name = w.name /\ w'.copy = w.copy /\ w'.left = w.left
          /\ agent' \in [exists : BOOLEAN, spec : Nat] /\ applied' \in [Releases -> Nat]
          /\ w.name \in Releases /\ applied'[w.name] = applied[w.name] + 1
          /\ \A r \in Releases : r # w.name => applied'[r] = applied[r]
      BY <1>0, <2>0, <2>2 DEF RelWorkers, RelPcs, RelObjects
    <3>2. RelType' /\ CopyInv'
      BY Zenon, <1>0, <2>0, <2>2, <3>1 DEF RelInv, RelType, RelWorkers, CopyInv
    <3>3. SupersedeInv' /\ ExistInv' /\ CurrentInv'
      BY Zenon, <2>0, <2>2, <3>1 DEF RelInv, SupersedeInv, ExistInv, CurrentInv, Current
    <3>4. AppliedInv'
      BY <1>0, <2>0, <2>2, <3>1 DEF RelInv, AppliedInv, CopyInv
    <3> QED BY Zenon, <3>2, <3>3, <3>4 DEF RelInv
  <2> QED BY Zenon, <1>9, <2>1, <2>2 DEF Rel!ApplySnapshot
<1>10. CASE Rel!SetPromoted
  <2>0. w.pc = "promoted" /\ UNCHANGED <<agent, applied>>
    BY Zenon, <1>10 DEF Rel!SetPromoted
  <2> DEFINE o == [w.copy EXCEPT !.phase = "Promoted"]
  <2>1. o \in RelObjects /\ o.phase = "Promoted" /\ o.exists
    BY Zenon, <1>0, <2>0 DEF RelObjects, Rel!Phases
  <2>2. CASE Rel!Retry /\ retried' = retried \cup {w.name} /\ rel' = rel
    BY Zenon, <1>0, <2>0, <2>2, GivesUp DEF Rel!Retry
  <2>3. CASE Rel!Store(o, Rel!Idle) /\ retried' = retried
    BY Zenon, <2>0, <2>1, <2>3, StoreStep, IdleWorker, <1>0 DEF RelWorkers
  <2> QED BY Zenon, <1>10, <2>2, <2>3 DEF Rel!SetPromoted
<1>11. CASE Rel!Restart
  BY Zenon, <1>0, <1>11, GivesUp DEF Rel!Restart
<1>12. CASE Rel!CreateAgent \/ Rel!EditAgent
  <2>1. UNCHANGED <<rel, queue, w, applied, retried>> /\ agent' \in [exists : BOOLEAN, spec : Nat]
    <3>1. CASE Rel!CreateAgent
      BY Zenon, <1>0, <3>1 DEF Rel!CreateAgent, Rel!Ghosts
    <3>2. CASE Rel!EditAgent
      BY <1>0, <3>2 DEF Rel!EditAgent, Rel!Ghosts
    <3> QED BY Zenon, <1>12, <3>1, <3>2
  <2> QED BY Zenon, <2>1 DEF RelInv, RelType, CopyInv, SupersedeInv, ExistInv, CurrentInv, AppliedInv, Current
<1>13. ASSUME NEW r \in Releases, Rel!Promote(r) \/ \E valid \in BOOLEAN : Rel!CreateRelease(r, valid)
       PROVE  RelInv'
  <2>1. UNCHANGED <<agent, w, applied, retried>> /\ queue' = queue \cup {r}
    BY Zenon, <1>13 DEF Rel!Promote, Rel!CreateRelease, Rel!Ghosts
  <2>2. /\ rel'[r].phase = rel[r].phase /\ rel'[r].exists /\ rel'[r] \in RelObjects
        /\ \A q \in Releases : q # r => rel'[q] = rel[q]
    <3>1. CASE Rel!Promote(r)
      BY ZenonT(30), <1>0, <3>1 DEF Rel!Promote, RelObjects
    <3>2. ASSUME NEW valid \in BOOLEAN, Rel!CreateRelease(r, valid)
          PROVE  /\ rel'[r].phase = rel[r].phase /\ rel'[r].exists /\ rel'[r] \in RelObjects
                 /\ \A q \in Releases : q # r => rel'[q] = rel[q]
      BY Zenon, <1>0, <3>2 DEF Rel!CreateRelease, RelObjects
    <3> QED BY Zenon, <1>13, <3>1, <3>2
  <2>3. RelType'
    BY <1>0, <1>13, <2>1, <2>2 DEF RelType, RelWorkers, Rel!Promote, Rel!CreateRelease
  <2>4. CopyInv' /\ SupersedeInv' /\ ExistInv'
    BY <2>1, <2>2 DEF RelInv, CopyInv, SupersedeInv, ExistInv, Current
  <2>5. CurrentInv' /\ AppliedInv'
    BY <2>1, <2>2 DEF RelInv, CurrentInv, AppliedInv, Current
  <2> QED BY Zenon, <2>3, <2>4, <2>5 DEF RelInv
<1>14. CASE UNCHANGED Rel!vars
  BY <1>14 DEF Rel!vars, RelInv, RelType, CopyInv, SupersedeInv, ExistInv, CurrentInv, AppliedInv, Current
<1> QED BY <1>1, <1>3, <1>4, <1>5, <1>6, <1>7, <1>8, <1>9, <1>10, <1>11, <1>12, <1>13, <1>14
        DEF Rel!Next, Rel!Work

INSTANCE FiniteSets
INSTANCE FiniteSetTheorems

\* At most one Release of an Agent is current, at every moment of a reconcile and through
\* restarts and refused writes, however many Releases there are; and a promotion
\* overwrites the Agent's spec again only if the Promoted phase could not be recorded.
THEOREM ReleaseIsCurrent == Rel!Spec => [](Rel!OneCurrent /\ Rel!AppliedOnce)
<1>1. Rel!Init => RelInv
  <2> SUFFICES ASSUME Rel!Init PROVE RelInv
    BY Zenon
  <2>1. RelType
    <3>1. Rel!Absent \in RelObjects
      BY Zenon DEF Rel!Absent, RelObjects, Rel!Phases
    <3> QED BY <3>1, IdleWorker DEF Rel!Init, RelType, RelWorkers
  <2>2. w.pc = "idle" /\ w.left = {} /\ queue = {}
        /\ \A r \in Releases : rel[r].phase = "none" /\ applied[r] = 0
    BY Zenon, IdleWorker DEF Rel!Init, Rel!Absent
  <2> QED BY <2>1, <2>2 DEF RelInv, CopyInv, SupersedeInv, ExistInv, CurrentInv, AppliedInv, Current
<1>2. RelInv /\ [Rel!Next]_Rel!vars => RelInv'
  BY RelStep
<1>3. RelInv => Rel!OneCurrent /\ Rel!AppliedOnce
  <2> SUFFICES ASSUME RelInv PROVE Rel!OneCurrent /\ Rel!AppliedOnce
    BY Zenon
  <2> DEFINE S == {r \in Releases : rel[r].phase \in {"Created", "Promoted"}}
  <2>1. S = {} \/ \E r \in Releases : S = {r}
    BY DEF RelInv, CurrentInv, Current
  <2>2. Cardinality(S) <= 1
    <3>1. CASE S = {}
      BY <3>1, FS_EmptySet
    <3>2. ASSUME NEW r \in Releases, S = {r} PROVE Cardinality(S) <= 1
      <4>1. Cardinality({r}) = 1
        BY Zenon, FS_Singleton
      <4> QED BY <3>2, <4>1
    <3> QED BY Zenon, <2>1, <3>1, <3>2
  <2>3. Rel!AppliedOnce
    BY Zenon DEF RelInv, AppliedInv, Rel!AppliedOnce
  <2>4. Rel!Cardinality(S) = Cardinality(S)
    BY Zenon DEF Rel!Cardinality, Cardinality
  <2> QED BY <2>2, <2>3, <2>4 DEF Rel!OneCurrent
<1> QED BY <1>1, <1>2, <1>3, PTL DEF Rel!Spec

-----------------------------------------------------------------------------
(* The EvalRun controller *)

Run == INSTANCE EvalRunController

Slots == 1 .. Len(Cases)
Verdicts == {"none", "passed", "failed"}

RunObjects == [phase : {"none", "Running", "Completed", "Failed"}, results : [Slots -> Verdicts],
               summary : [total : Nat, passed : Nat, failed : Nat, tokens : {0, Run!Tokens}]]
RunWorkers == [pc : {"idle", "agent", "start", "launch", "wait", "complete"}, next : 1 .. Len(Cases) + 1,
               sem : Nat, results : [Slots -> Verdicts]]

RunType ==
  /\ run \in RunObjects
  /\ w \in RunWorkers
  /\ gos \in [Slots -> {"none", "running", "matched", "done"}]

\* The loop has started the goroutines below its index, and none outlives it.
GoInv ==
  /\ w.pc \in {"launch", "wait"} => \A i \in Slots : gos[i] = "none" <=> i >= w.next
  /\ w.pc \notin {"launch", "wait"} => \A i \in Slots : gos[i] = "none"
  /\ w.pc = "agent" => w.next = 1
  /\ w.pc = "wait" => w.next = Len(Cases) + 1

\* A goroutine that has matched has written the verdict of its own case.
ResultInv ==
  /\ \A i \in Slots : gos[i] \in {"matched", "done"} => w.results[i] = Run!Verdict(i)
  /\ w.pc = "complete" => \A i \in Slots : w.results[i] = Run!Verdict(i)

\* The semaphore counts the goroutines that are busy, and never above its size.
Busy == {i \in Slots : gos[i] \in {"running", "matched"}}
SemInv == w.sem = Cardinality(Busy) /\ w.sem <= Run!Size

RunInv == RunType /\ GoInv /\ ResultInv /\ SemInv /\ Run!CompletedIsWhole

\* The size of the semaphore is positive, and the verdict of a case is one of two.
LEMMA SizeVerdict ==
  ASSUME Parallelism \in Int
  PROVE  Run!Size \in Nat \ {0} /\ \A i \in Slots : Run!Verdict(i) \in {"passed", "failed"}
BY DEF Run!Size, Run!Verdict

\* The two instances of the definition of cardinality are the same.
LEMMA SameCardinality == \A S : Run!Cardinality(S) = Cardinality(S)
BY Zenon DEF Run!Cardinality, Cardinality

\* What nobody runs keeps the semaphore empty.
LEMMA NobodyBusy ==
  ASSUME \A i \in Slots : gos[i] \notin {"running", "matched"}
  PROVE  Cardinality(Busy) = 0
<1>1. Busy = {}
  BY Zenon DEF Busy
<1> QED BY <1>1, FS_EmptySet

\* The busy goroutines are finitely many.
LEMMA BusyFinite == ASSUME Len(Cases) \in Nat PROVE IsFiniteSet(Busy) /\ Cardinality(Busy) \in Nat
<1>1. IsFiniteSet(Slots)
  BY FS_Interval DEF Slots
<1>2. Busy \in SUBSET Slots
  BY Zenon DEF Busy
<1> QED BY <1>1, <1>2, FS_Subset, FS_CardinalityType

\* A summary of the verdicts of all cases adds up.
LEMMA SummaryAddsUp ==
  ASSUME Len(Cases) \in Nat, NEW results \in [Slots -> Verdicts], \A i \in Slots : results[i] = Run!Verdict(i)
  PROVE  LET s == Run!Summary(results) IN
         /\ s.passed + s.failed = s.total /\ s.passed = Run!Cardinality({i \in Slots : Run!Verdict(i) = "passed"})
         /\ s \in [total : Nat, passed : Nat, failed : Nat, tokens : {0, Run!Tokens}]
<1> DEFINE P == {i \in Slots : results[i] = "passed"}
<1> DEFINE F == {i \in Slots : results[i] # "passed"}
<1>1. IsFiniteSet(Slots) /\ Cardinality(Slots) = Len(Cases)
  BY SMTT(30), FS_Interval DEF Slots
<1>2. F = Slots \ P /\ Slots \cap P = P /\ P \in SUBSET Slots /\ P = {i \in Slots : Run!Verdict(i) = "passed"}
  BY Zenon
<1>3. Cardinality(F) = Len(Cases) - Cardinality(P)
  <2> HIDE DEF P, F
  <2>1. Cardinality(Slots \ P) = Cardinality(Slots) - Cardinality(Slots \cap P)
    BY Zenon, <1>1, FS_Difference
  <2> QED BY Zenon, <1>1, <1>2, <2>1
<1>4. Cardinality(P) \in Nat /\ Cardinality(F) \in Nat
  <2>1. IsFiniteSet(P) /\ IsFiniteSet(F)
    BY <1>1, <1>2, FS_Subset, FS_Difference
  <2> QED BY <2>1, FS_CardinalityType
<1>5. Run!Cardinality(P) = Cardinality(P) /\ Run!Cardinality(F) = Cardinality(F)
  BY SameCardinality
<1>6. Run!Summary(results) = [total |-> Len(Cases), passed |-> Run!Cardinality(P), failed |-> Run!Cardinality(F),
                              tokens |-> Run!Tokens]
  BY DEF Run!Summary, Run!N, Slots
<1> HIDE DEF P, F
<1> QED BY <1>2, <1>3, <1>4, <1>5, <1>6

\* Every step of the reconcile and of the goroutines, and a restart, keeps the invariant.
LEMMA RunStep ==
  ASSUME Len(Cases) \in Nat, Parallelism \in Int, RunInv, [Run!Next]_Run!vars
  PROVE  RunInv'
<1> USE DEF Slots, Run!N
<1>0. /\ w.next \in 1 .. Len(Cases) + 1 /\ w.sem \in Nat /\ w.results \in [Slots -> Verdicts]
      /\ Run!Size \in Nat \ {0} /\ \A i \in Slots : Run!Verdict(i) \in Verdicts
  BY SizeVerdict DEF RunInv, RunType, Verdicts, RunWorkers
<1>1. ASSUME w' = Run!Idle, run' = run \/ (run'.phase # "Completed" /\ RunType'), gos' = [i \in Slots |-> "none"]
      PROVE  RunInv'
  <2>1. w'.pc = "idle" /\ w'.sem = 0 /\ w'.next = 1 /\ w'.results = [i \in Slots |-> "none"]
    BY <1>1 DEF Run!Idle, Run!NoResult
  <2>2. RunType'
    BY <1>1, <2>1 DEF RunInv, RunType, Run!Idle, Verdicts, Run!NoResult, RunWorkers
  <2>3. GoInv' /\ ResultInv'
    BY Zenon, <1>1, <2>1 DEF GoInv, ResultInv
  <2>4. SemInv'
    <3>1. Busy' = {}
      BY Zenon, <1>1 DEF Busy
    <3> QED BY <1>0, <2>1, <3>1, FS_EmptySet DEF SemInv, Run!Size
  <2>5. Run!CompletedIsWhole'
    BY <1>1 DEF RunInv, Run!CompletedIsWhole, Run!Verdict
  <2> QED BY <2>2, <2>3, <2>4, <2>5 DEF RunInv
<1>2. ASSUME run' = run, gos' = gos, w.pc \notin {"launch", "wait", "complete"},
             w'.pc \notin {"wait", "complete"}, w'.pc \in {"agent", "launch"} => w'.next = 1,
             w' \in RunWorkers, w'.sem = w.sem
      PROVE  RunInv'
  <2>1. RunType' /\ GoInv' /\ ResultInv'
    BY <1>2 DEF RunInv, RunType, GoInv, ResultInv
  <2>2. SemInv' /\ Run!CompletedIsWhole'
    BY Zenon, <1>2 DEF RunInv, SemInv, Busy, Run!CompletedIsWhole, Run!Size, Run!Verdict
  <2> QED BY <2>1, <2>2 DEF RunInv
<1>3. CASE Run!Reconcile
  <2>1. run' = run /\ gos' = gos /\ w.pc = "idle"
    BY <1>3 DEF Run!Reconcile
  <2>2. CASE w' = w
    BY <1>2, <2>1, <2>2 DEF RunInv, RunType
  <2>3. CASE w' = [Run!Idle EXCEPT !.pc = "agent"]
    <3>1. w'.pc = "agent" /\ w'.next = 1 /\ w'.sem = 0
          /\ w' \in RunWorkers
      BY <2>3 DEF Run!Idle, Run!NoResult, Verdicts, RunWorkers
    <3>2. w.sem = 0
      BY <2>1, NobodyBusy DEF RunInv, GoInv, SemInv
    <3> QED BY <1>2, <2>1, <3>1, <3>2
  <2> QED BY Zenon, <1>3, <2>2, <2>3 DEF Run!Reconcile
<1>4. ASSUME w.pc \notin {"launch", "wait"}, w' = Run!Idle, gos' = gos,
             run' = run \/ (run'.phase # "Completed" /\ RunType') PROVE RunInv'
  <2>1. gos' = [i \in Slots |-> "none"]
    BY <1>4 DEF RunInv, GoInv, RunType
  <2> QED BY <1>1, <1>4, <2>1
<1>5. ASSUME NEW p \in {"Failed", "Running"}, run' = [run EXCEPT !.phase = p], w' = Run!Idle, gos' = gos
      PROVE  RunType' /\ run'.phase # "Completed"
  <2>1. run'.phase = p /\ run' \in RunObjects
    BY <1>5 DEF RunInv, RunType, RunObjects
  <2>2. w' \in RunWorkers
    BY <1>5 DEF Run!Idle, Run!NoResult, Verdicts, RunWorkers
  <2> QED BY <1>5, <2>1, <2>2 DEF RunInv, RunType
<1>6. CASE Run!GetAgent
  <2>1. w.pc = "agent" /\ gos' = gos
    BY <1>6 DEF Run!GetAgent
  <2>2. CASE run' = [run EXCEPT !.phase = "Failed"] /\ w' = Run!Idle
    BY <1>4, <1>5, <2>1, <2>2
  <2>3. CASE w' = [w EXCEPT !.pc = IF run.phase = "Running" THEN "launch" ELSE "start"] /\ run' = run
    <3>1. w' \in RunWorkers
          /\ w'.pc \in {"launch", "start"} /\ w'.sem = w.sem /\ w'.next = 1
      BY <2>1, <2>3 DEF RunInv, RunType, GoInv, RunWorkers
    <3> QED BY <1>2, <2>1, <2>3, <3>1
  <2> QED BY <1>6, <2>2, <2>3 DEF Run!GetAgent
<1>7. CASE Run!Start
  BY <1>4, <1>5, <1>7 DEF Run!Start
<1>8. CASE Run!Launch
  <2>0. w.pc = "launch" /\ run' = run
    BY Zenon, <1>8 DEF Run!Launch
  <2>1. CASE w.next > Len(Cases) /\ w' = [w EXCEPT !.pc = "wait"] /\ gos' = gos
    <3>1. w'.pc = "wait" /\ w'.next = w.next /\ w'.sem = w.sem /\ w'.results = w.results /\ w.next = Len(Cases) + 1
      BY <1>0, <2>1 DEF RunInv, RunType
    <3>2. RunType'
      BY Zenon, <2>0, <2>1 DEF RunInv, RunType, RunWorkers
    <3>3. GoInv' /\ ResultInv'
      BY <2>0, <2>1, <3>1 DEF RunInv, GoInv, ResultInv
    <3>4. SemInv' /\ Run!CompletedIsWhole'
      BY <2>0, <2>1, <3>1 DEF RunInv, SemInv, Busy, Run!CompletedIsWhole, Run!Size, Run!Verdict
    <3> QED BY <3>2, <3>3, <3>4 DEF RunInv
  <2>2. CASE /\ w.next \in Slots /\ w.sem < Run!Size /\ w' = [w EXCEPT !.next = @ + 1, !.sem = @ + 1]
             /\ gos' = [gos EXCEPT ![w.next] = "running"]
    <3>1. /\ w'.pc = "launch" /\ w'.next = w.next + 1 /\ w'.sem = w.sem + 1 /\ w'.results = w.results
          /\ w' \in RunWorkers
      <4>1. w.next + 1 \in 1 .. Len(Cases) + 1 /\ w.sem + 1 \in Nat
        BY SMTT(30), <1>0, <2>2
      <4> HIDE DEF Slots
      <4> QED BY Zenon, <2>0, <2>2, <4>1 DEF RunInv, RunType, RunWorkers
    <3>2. gos[w.next] = "none" /\ gos'[w.next] = "running" /\ \A i \in Slots : i # w.next => gos'[i] = gos[i]
      BY <1>0, <2>0, <2>2 DEF RunInv, RunType, GoInv
    <3>3. RunType'
      BY <2>0, <2>2, <3>1 DEF RunInv, RunType
    <3>4. GoInv' /\ ResultInv'
      BY SMTT(30), <1>0, <2>0, <3>1, <3>2 DEF RunInv, GoInv, ResultInv
    <3>5. SemInv'
      <4>1. Busy' = Busy \cup {w.next} /\ w.next \notin Busy
        BY <2>2, <3>2 DEF Busy
      <4>2. Cardinality(Busy') = Cardinality(Busy) + 1
        BY Zenon, <4>1, BusyFinite, FS_AddElement
      <4> QED BY <1>0, <2>2, <3>1, <4>2 DEF RunInv, SemInv, Run!Size
    <3> QED BY <2>0, <3>3, <3>4, <3>5 DEF RunInv, Run!CompletedIsWhole, Run!Verdict
  <2> QED BY <1>0, <1>8, <2>1, <2>2 DEF Run!Launch
<1>9. ASSUME NEW i \in Slots, Run!RunTestCase(i) PROVE RunInv'
  <2>1. /\ gos[i] = "running" /\ gos' = [gos EXCEPT ![i] = "matched"] /\ run' = run
        /\ w' = [w EXCEPT !.results[i] = Run!Verdict(i)]
    BY <1>9 DEF Run!RunTestCase
  <2>2. /\ w'.pc = w.pc /\ w'.next = w.next /\ w'.sem = w.sem
        /\ w'.results = [w.results EXCEPT ![i] = Run!Verdict(i)]
        /\ w' \in RunWorkers
    BY Zenon, <1>0, <2>1 DEF RunInv, RunType, RunWorkers
  <2>3. w.pc \in {"launch", "wait"} /\ gos'[i] = "matched" /\ \A j \in Slots : j # i => gos'[j] = gos[j]
    BY <2>1 DEF RunInv, RunType, GoInv
  <2>4. RunType'
    BY <2>1, <2>2 DEF RunInv, RunType
  <2>5. GoInv' /\ ResultInv'
    BY <1>0, <2>1, <2>2, <2>3 DEF RunInv, GoInv, ResultInv
  <2>6. SemInv'
    <3>1. Busy' = Busy
      BY <2>1, <2>3 DEF Busy
    <3> QED BY <2>2, <3>1 DEF RunInv, SemInv, Run!Size
  <2> QED BY <2>1, <2>4, <2>5, <2>6 DEF RunInv, Run!CompletedIsWhole, Run!Verdict
<1>10. ASSUME NEW i \in Slots, Run!Release(i) PROVE RunInv'
  <2>1. /\ gos[i] = "matched" /\ gos' = [gos EXCEPT ![i] = "done"] /\ run' = run
        /\ w' = [w EXCEPT !.sem = @ - 1]
    BY <1>10 DEF Run!Release
  <2>2. gos'[i] = "done" /\ \A j \in Slots : j # i => gos'[j] = gos[j]
    BY <2>1 DEF RunInv, RunType
  <2>3. Busy' = Busy \ {i} /\ i \in Busy
    BY <2>1, <2>2 DEF Busy
  <2>4. IsFiniteSet(Busy) /\ Cardinality(Busy \ {i}) = Cardinality(Busy) - 1 /\ Cardinality(Busy \ {i}) \in Nat
    BY <2>3, BusyFinite, FS_RemoveElement, FS_CardinalityType
  <2>5. w.sem - 1 \in Nat /\ w.sem - 1 = Cardinality(Busy')
    BY <2>3, <2>4 DEF RunInv, SemInv
  <2>6. /\ w'.pc = w.pc /\ w'.next = w.next /\ w'.sem = w.sem - 1 /\ w'.results = w.results
        /\ w' \in RunWorkers
    BY Zenon, <2>1, <2>5 DEF RunInv, RunType, RunWorkers
  <2>7. RunType'
    BY <2>1, <2>6 DEF RunInv, RunType
  <2>8. GoInv' /\ ResultInv'
    BY <1>0, <2>1, <2>2, <2>6 DEF RunInv, GoInv, ResultInv
  <2>9. SemInv'
    BY <1>0, <2>5, <2>6 DEF RunInv, SemInv, Run!Size
  <2> QED BY <2>1, <2>7, <2>8, <2>9 DEF RunInv, Run!CompletedIsWhole, Run!Verdict
<1>11. CASE Run!Wait
  <2>1. /\ w.pc = "wait" /\ \A i \in Slots : gos[i] = "done"
        /\ w' = [w EXCEPT !.pc = "complete"] /\ gos' = [i \in Slots |-> "none"] /\ run' = run
    BY <1>11 DEF Run!Wait, Run!AllDone
  <2>2. w'.pc = "complete" /\ w'.next = w.next /\ w'.sem = w.sem /\ w'.results = w.results
    BY <2>1 DEF RunInv, RunType
  <2>3. RunType'
    BY Zenon, <2>1 DEF RunInv, RunType, RunWorkers
  <2>4. GoInv' /\ ResultInv'
    BY <2>1, <2>2 DEF RunInv, GoInv, ResultInv
  <2>5. SemInv'
    <3>1. Busy' = {} /\ Busy = {}
      BY <2>1 DEF Busy
    <3> QED BY <2>2, <3>1 DEF RunInv, SemInv, Run!Size
  <2> QED BY <2>1, <2>3, <2>4, <2>5 DEF RunInv, Run!CompletedIsWhole, Run!Verdict
<1>12. ASSUME NEW refused \in BOOLEAN, Run!Complete(refused) PROVE RunInv'
  <2>0. w.pc = "complete" /\ w' = Run!Idle /\ gos' = gos
    BY <1>12 DEF Run!Complete
  <2>1. CASE run' = run
    BY <1>4, <2>0, <2>1
  <2>2. CASE run' = [phase |-> "Completed", results |-> w.results, summary |-> Run!Summary(w.results)]
    <3>1. \A i \in Slots : w.results[i] = Run!Verdict(i)
      BY <2>0 DEF RunInv, ResultInv
    <3>2. run'.phase = "Completed" /\ run'.results = w.results /\ run'.summary = Run!Summary(w.results)
      BY <2>2
    <3>3. Run!CompletedIsWhole'
      BY Zenon, <1>0, <3>1, <3>2, SummaryAddsUp DEF Run!CompletedIsWhole, Run!Verdict
    <3>4. gos' = [i \in Slots |-> "none"] /\ w'.pc = "idle" /\ w'.sem = 0
      BY <2>0 DEF RunInv, GoInv, RunType, Run!Idle
    <3>5. RunType'
      <4>1. run' \in RunObjects
        <5> HIDE DEF Slots
        <5> QED BY Zenon, <1>0, <2>2, <3>1, SummaryAddsUp DEF RunObjects
      <4>2. w' \in RunWorkers
        BY <2>0 DEF Run!Idle, Run!NoResult, Verdicts, RunWorkers
      <4> QED BY <3>4, <4>1, <4>2 DEF RunType
    <3>6. SemInv'
      <4>1. Busy' = {}
        BY <3>4 DEF Busy
      <4> QED BY <1>0, <3>4, <4>1, FS_EmptySet DEF SemInv, Run!Size
    <3> QED BY <3>3, <3>4, <3>5, <3>6 DEF RunInv, GoInv, ResultInv
  <2> QED BY <1>12, <2>1, <2>2 DEF Run!Complete
<1>13. CASE Run!Restart
  BY <1>1, <1>13 DEF Run!Restart
<1>14. CASE UNCHANGED Run!vars
  BY <1>14 DEF Run!vars, RunInv, RunType, GoInv, ResultInv, SemInv, Busy, Run!Size, Run!Verdict,
               Run!CompletedIsWhole
<1> QED BY SMTT(30), <1>3, <1>6, <1>7, <1>8, <1>9, <1>10, <1>11, <1>12, <1>13, <1>14 DEF Run!Next, Run!Work

\* For any test cases and any parallelism: a completed EvalRun holds in each slot the
\* verdict of its own case and a summary that adds up, in whatever order the
\* goroutines ran and however often refused writes and restarts made the run start
\* over; and no more goroutines were ever busy than the semaphore admits.
THEOREM EvalRunIsWhole ==
  ASSUME Cases \in Seq([input : Seq(Nat), expected : Seq(Nat), match : STRING]), Parallelism \in Int
  PROVE  Run!Spec => [](Run!CompletedIsWhole /\ Run!ParallelismBounded)
<1>0. Len(Cases) \in Nat
  OBVIOUS
<1>1. Run!Init => RunInv
  <2> SUFFICES ASSUME Run!Init PROVE RunInv
    OBVIOUS
  <2> USE DEF Slots, Run!N
  <2>1. RunType /\ w.pc = "idle" /\ w.sem = 0 /\ run.phase = "none" /\ gos = [i \in Slots |-> "none"]
    BY <1>0 DEF Run!Init, RunType, Run!Idle, Run!NoResult, Run!NoSummary, Verdicts, RunWorkers, RunObjects
  <2>2. SemInv
    BY <2>1, SizeVerdict, NobodyBusy DEF SemInv
  <2> QED BY <2>1, <2>2 DEF RunInv, GoInv, ResultInv, Run!CompletedIsWhole
<1>2. RunInv /\ [Run!Next]_Run!vars => RunInv'
  BY <1>0, RunStep
<1>3. RunInv => Run!CompletedIsWhole /\ Run!ParallelismBounded
  BY SameCardinality DEF RunInv, SemInv, Busy, Slots, Run!N, Run!ParallelismBounded
<1> QED BY <1>1, <1>2, <1>3, PTL DEF Run!Spec
===============================================================================
