---------------------------- MODULE AtomicStore ----------------------------
(***************************************************************************)
(* What a state backend promises its callers (internal/state/state.go,     *)
(* type Backend): a Save replaces the stored entries in one indivisible    *)
(* step or not at all, and a Load returns what is stored at that moment.   *)
(* A process may die with a Save under way; the store then holds the old   *)
(* entries.                                                                *)
(***************************************************************************)
CONSTANTS Procs, Entries, Nil, NoSave

VARIABLES value,    \* the stored entries
          pending,  \* the entries a process is saving, or NoSave
          ret       \* what a process's last Load returned

vars == <<value, pending, ret>>

Init == /\ value = Nil
        /\ pending = [p \in Procs |-> NoSave]
        /\ ret = [p \in Procs |-> Nil]

Begin(p, e) == /\ pending[p] = NoSave
               /\ pending' = [pending EXCEPT ![p] = e]
               /\ UNCHANGED <<value, ret>>

Commit(p) == /\ pending[p] # NoSave
             /\ value' = pending[p]
             /\ pending' = [pending EXCEPT ![p] = NoSave]
             /\ UNCHANGED ret

Abort(p) == /\ pending[p] # NoSave
            /\ pending' = [pending EXCEPT ![p] = NoSave]
            /\ UNCHANGED <<value, ret>>

Read(p) == /\ ret' = [ret EXCEPT ![p] = value]
           /\ UNCHANGED <<value, pending>>

Next == \E p \in Procs : \/ \E e \in Entries : Begin(p, e)
                         \/ Commit(p)
                         \/ Abort(p)
                         \/ Read(p)

Spec == Init /\ [][Next]_vars
=============================================================================
