----------------------------- MODULE ControlFlow -----------------------------
(***************************************************************************)
(* internal/controlflow: the interpreter of an agent's on_input block.     *)
(* ExecuteBlock, executeIf and executeForEach call each other; their       *)
(* activations are the frames of a stack.  Skills, agents, conditions and  *)
(* collections answer anything or fail.  A result is "" or one of two texts. *)
(***************************************************************************)
EXTENDS Naturals, Sequences, SequencesExt

CONSTANTS
  Programs,   \* blocks tried
  MaxItems    \* items of a collection, at most

VARIABLES
  program,
  stack,      \* activations, innermost last
  bound,      \* the names in rc.Variables
  done,       \* actions carried out
  rcOutput,   \* rc.Output
  result      \* "" while running, else "ok" or "error", with the actions and output returned

vars == <<program, stack, bound, done, rcOutput, result>>

Results == {"", "text", "other"}
Block(stmts) == [kind |-> "block", todo |-> stmts, acts |-> 0, out |-> ""]
Loop(s, n) == [kind |-> "loop", var |-> s.var, body |-> s.body, left |-> n, acts |-> 0, out |-> ""]

TypeOK ==
  /\ \A i \in 1 .. Len(stack) : stack[i].kind \in {"block", "loop"} /\ stack[i].out \in Results
  /\ rcOutput \in Results /\ result.status \in {"", "ok", "error"} /\ result.acts <= done

Init ==
  /\ program \in Programs /\ stack = <<Block(program)>> /\ bound = {} /\ done = 0 /\ rcOutput = ""
  /\ result = [status |-> "", acts |-> 0, out |-> ""]

Top == stack[Len(stack)]
Running == result.status = ""
At(type) == Running /\ Top.kind = "block" /\ Top.todo # <<>> /\ Head(Top.todo).type = type
SetTop(f) == [stack EXCEPT ![Len(stack)] = f]
Rest == [Top EXCEPT !.todo = Tail(@)]

\* use_skill, delegate and respond: an action, its result is the output
Act(r) ==
  /\ At("act") /\ done' = done + 1 /\ rcOutput' = r
  /\ stack' = SetTop([Rest EXCEPT !.acts = @ + 1, !.out = r])
  /\ UNCHANGED <<program, bound, result>>

\* executeIf: the body of the first condition that is true, the else body, or none
If(i) ==
  /\ At("if") /\ i \in 0 .. Len(Head(Top.todo).bodies)
  /\ stack' = IF i = 0 THEN SetTop(Rest) ELSE Append(SetTop(Rest), Block(Head(Top.todo).bodies[i]))
  /\ UNCHANGED <<program, bound, done, rcOutput, result>>

ForEach(n) ==
  /\ At("for_each") /\ stack' = Append(SetTop(Rest), Loop(Head(Top.todo), n))
  /\ UNCHANGED <<program, bound, done, rcOutput, result>>

\* The loop variable is set and the body run for each item.
Item ==
  /\ Running /\ Top.kind = "loop" /\ Top.left > 0
  /\ bound' = bound \cup {Top.var}
  /\ stack' = Append(SetTop([Top EXCEPT !.left = @ - 1]), Block(Top.body))
  /\ UNCHANGED <<program, done, rcOutput, result>>

\* What a caller makes of the actions and the output of a part
Merged(f, part) == [f EXCEPT !.acts = @ + part.acts, !.out = IF part.out # "" THEN part.out ELSE @]

Unbound(f) == IF f.kind = "loop" THEN bound \ {f.var} ELSE bound

\* The end of a block or a loop, without an error
Return ==
  /\ Running /\ IF Top.kind = "block" THEN Top.todo = <<>> ELSE Top.left = 0
  /\ bound' = Unbound(Top)
  /\ IF Len(stack) = 1
       THEN /\ result' = [status |-> "ok", acts |-> Top.acts, out |-> Top.out]
            /\ stack' = <<>>
       ELSE /\ stack' = [Front(stack) EXCEPT ![Len(stack) - 1] = Merged(@, Top)]
            /\ UNCHANGED result
  /\ UNCHANGED <<program, done, rcOutput>>

\* An action, a condition or a collection fails, a statement is unknown or lacks a
\* part: every loop deletes its variable on the way out, and the block returns the
\* actions it had merged.
Fail ==
  /\ Running /\ Top.kind = "block" /\ Top.todo # <<>>
  /\ bound' = bound \ {stack[i].var : i \in {j \in 1 .. Len(stack) : stack[j].kind = "loop"}}
  /\ result' = [status |-> "error", acts |-> stack[1].acts, out |-> stack[1].out]
  /\ stack' = <<>>
  /\ UNCHANGED <<program, done, rcOutput>>

Next ==
  \/ \E r \in Results : Act(r)
  \/ \E i \in 0 .. 2 : If(i)
  \/ \E n \in 0 .. MaxItems : ForEach(n)
  \/ Item \/ Return \/ Fail

Spec == Init /\ [][Next]_vars

-----------------------------------------------------------------------------
\* A loop's variable is there for the whole body and for nothing else: inside, every
\* enclosing loop's variable is bound, and after the block none is left, whichever
\* way it ended.  (Nested loops have different variables here: an inner loop over
\* the same name deletes the outer one's variable.)
ScopesAreKept ==
  /\ ~Running => bound = {}
  /\ Running => \A i \in 1 .. Len(stack) - 1 : stack[i].kind = "loop" => stack[i].var \in bound

\* A block that succeeds reports every action carried out in it, at any depth, and
\* its output is the last result, if that is a text.
ReportIsWhole ==
  result.status = "ok" => result.acts = done /\ (rcOutput # "" => result.out = rcOutput)
=============================================================================
