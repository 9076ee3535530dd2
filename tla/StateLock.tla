----------------------------- MODULE StateLock -----------------------------
(***************************************************************************)
(* The advisory lock of the local backend (internal/state/local.go):       *)
(* flock(2) on the file at b.Path + ".lock", holder information written    *)
(* into that file, removal of a lock that looks stale, polling with a      *)
(* deadline, and the removal of the file on Unlock.  flock binds to an     *)
(* inode while open, read and remove go by path, so inodes are explicit.   *)
(* Every process locks once, as the apply command does.                    *)
(***************************************************************************)
EXTENDS Naturals

CONSTANTS Procs,
          NoProc,    \* no flock owner; no holder information
          Inodes,    \* enough for the path and every open descriptor
          NoFile,    \* no lock file; no open descriptor
          MayCrash,  \* may a process be killed while it locks or holds?
          MayAge     \* may a critical section exceed StaleThreshold?

ASSUME LockAssumption == /\ NoProc \notin Procs
                         /\ NoFile \notin Inodes
                         /\ MayCrash \in BOOLEAN
                         /\ MayAge \in BOOLEAN

VARIABLES path,     \* the inode at the lock path
          owner,    \* per inode: the process whose flock it carries
          info,     \* per inode: the holder information in the file
          fd,       \* per process: the inode it has open
          pc,
          expired   \* per process: has its lock deadline passed?

vars == <<path, owner, info, fd, pc, expired>>

NoInfo == [pid |-> NoProc, aged |-> FALSE]

PCs == {"idle", "open", "flock", "inspect", "break", "wait", "poll",
        "stamp", "cs", "remove", "done", "failed", "dead"}

Init == /\ path = NoFile
        /\ owner = [i \in Inodes |-> NoProc]
        /\ info = [i \in Inodes |-> NoInfo]
        /\ fd = [p \in Procs |-> NoFile]
        /\ pc = [p \in Procs |-> "idle"]
        /\ expired = [p \in Procs |-> FALSE]

Goto(p, l) == pc' = [pc EXCEPT ![p] = l]
Close(p) == fd' = [fd EXCEPT ![p] = NoFile]

-----------------------------------------------------------------------------
(* LockWithContext *)

Call(p) == /\ pc[p] = "idle"
           /\ Goto(p, "open")
           /\ UNCHANGED <<path, owner, info, fd, expired>>

\* An inode nobody refers to stands for the one a create allocates.
Unreferenced(i) == i # path /\ \A q \in Procs : fd[q] # i

\* os.OpenFile with O_CREATE.
OpenFile(p, to) ==
    /\ \/ /\ path # NoFile
          /\ fd' = [fd EXCEPT ![p] = path]
          /\ UNCHANGED <<path, owner, info>>
       \/ /\ path = NoFile
          /\ LET i == CHOOSE i \in Inodes : Unreferenced(i)
             IN  /\ path' = i
                 /\ fd' = [fd EXCEPT ![p] = i]
                 /\ owner' = [owner EXCEPT ![i] = NoProc]
                 /\ info' = [info EXCEPT ![i] = NoInfo]
    /\ Goto(p, to)
    /\ UNCHANGED expired

Open(p) == pc[p] = "open" /\ OpenFile(p, "flock")

\* flock(LOCK_EX | LOCK_NB) succeeds.
Acquire(p) ==
    /\ pc[p] \in {"flock", "poll"}
    /\ owner[fd[p]] = NoProc
    /\ owner' = [owner EXCEPT ![fd[p]] = p]
    /\ Goto(p, "stamp")
    /\ UNCHANGED <<path, info, fd, expired>>

\* The first flock fails: the descriptor stays open while the holder is examined.
FirstRefused(p) ==
    /\ pc[p] = "flock"
    /\ owner[fd[p]] # NoProc
    /\ Goto(p, "inspect")
    /\ UNCHANGED <<path, owner, info, fd, expired>>

\* A variant that takes a lock without holder information for stale.
StaleOrBlank(h) == h # NoInfo => pc[h.pid] = "dead" \/ h.aged

\* A holder is stale when its process is gone or its stamp is too old.
Stale(h) == h # NoInfo /\ (pc[h.pid] = "dead" \/ h.aged)

\* readLockInfo goes by path; an empty or missing file tells nothing.
LockInfo == IF path = NoFile THEN NoInfo ELSE info[path]

Inspect(p) ==
    /\ pc[p] = "inspect"
    /\ \/ /\ Stale(LockInfo)
          /\ Goto(p, "break")
          /\ UNCHANGED fd
       \/ /\ ~Stale(LockInfo)
          /\ Goto(p, "wait")
          /\ Close(p)
    /\ UNCHANGED <<path, owner, info, expired>>

\* The stale lock is broken: whatever file is at the path goes, and the call
\* starts again.
Break(p) ==
    /\ pc[p] = "break"
    /\ path' = NoFile
    /\ Close(p)
    /\ Goto(p, "open")
    /\ UNCHANGED <<owner, info, expired>>

\* A tick before the deadline: open the path afresh and try again.
Poll(p) == pc[p] = "wait" /\ ~expired[p] /\ OpenFile(p, "poll")

\* A variant that leaks the descriptor of a refused attempt.
PollRefusedLeak(p) ==
    /\ pc[p] = "poll"
    /\ owner[fd[p]] # NoProc
    /\ Goto(p, "wait")
    /\ UNCHANGED <<path, owner, info, fd, expired>>

PollRefused(p) ==
    /\ pc[p] = "poll"
    /\ owner[fd[p]] # NoProc
    /\ Goto(p, "wait")
    /\ Close(p)
    /\ UNCHANGED <<path, owner, info, expired>>

\* A variant that goes on waiting after the deadline.
TimeoutIgnored(p) == pc[p] = "wait" /\ expired[p] /\ UNCHANGED vars

\* The context is cancelled or the deadline has passed: an error is returned.
Timeout(p) ==
    /\ pc[p] = "wait" /\ expired[p]
    /\ Goto(p, "failed")
    /\ UNCHANGED <<path, owner, info, fd, expired>>

Expire(p) ==
    /\ pc[p] \in {"wait", "poll"} /\ ~expired[p]
    /\ expired' = [expired EXCEPT ![p] = TRUE]
    /\ UNCHANGED <<path, owner, info, fd, pc>>

\* writeLockInfo.  Between its truncate and its write a reader learns nothing,
\* as it does from the stamp of a live holder.
Stamp(p) ==
    /\ pc[p] = "stamp"
    /\ info' = [info EXCEPT ![fd[p]] = [pid |-> p, aged |-> FALSE]]
    /\ Goto(p, "cs")
    /\ UNCHANGED <<path, owner, fd, expired>>

-----------------------------------------------------------------------------
(* Unlock *)

Release(p) ==
    /\ pc[p] = "cs"
    /\ owner' = [owner EXCEPT ![fd[p]] = NoProc]
    /\ Close(p)
    /\ Goto(p, "remove")
    /\ UNCHANGED <<path, info, expired>>

Remove(p) ==
    /\ pc[p] = "remove"
    /\ path' = NoFile
    /\ Goto(p, "done")
    /\ UNCHANGED <<owner, info, fd, expired>>

-----------------------------------------------------------------------------
(* The environment *)

\* A process that has finished goes away; the kernel closes its descriptors.
Exit(p) ==
    /\ pc[p] \in {"done", "failed"}
    /\ Goto(p, "dead")
    /\ UNCHANGED <<path, owner, info, fd, expired>>

\* A process is killed: its descriptor is closed, which drops its flock.
Crash(p) ==
    /\ MayCrash
    /\ pc[p] \notin {"idle", "done", "failed", "dead"}
    /\ owner' = [i \in Inodes |-> IF owner[i] = p THEN NoProc ELSE owner[i]]
    /\ Close(p)
    /\ Goto(p, "dead")
    /\ UNCHANGED <<path, info, expired>>

\* The holder keeps the lock for longer than StaleThreshold.
Age(p) ==
    /\ MayAge
    /\ pc[p] = "cs" /\ ~info[fd[p]].aged
    /\ info' = [info EXCEPT ![fd[p]].aged = TRUE]
    /\ UNCHANGED <<path, owner, fd, pc, expired>>

AllDead == /\ \A p \in Procs : pc[p] = "dead"
           /\ UNCHANGED vars

Step(p) == \/ Open(p) \/ Acquire(p) \/ FirstRefused(p) \/ Inspect(p) \/ Break(p)
           \/ Poll(p) \/ PollRefused(p) \/ Timeout(p) \/ Stamp(p)
           \/ Release(p) \/ Remove(p) \/ Exit(p)

Next == \/ \E p \in Procs : Call(p) \/ Step(p) \/ Expire(p) \/ Crash(p) \/ Age(p)
        \/ AllDead

Spec == Init /\ [][Next]_vars

\* A live process keeps running and the clock reaches every deadline.
FairSpec == Spec /\ \A p \in Procs : WF_vars(Step(p)) /\ WF_vars(Expire(p))

-----------------------------------------------------------------------------
(* Properties *)

\* The lock file, its inodes and every process's registers are well typed, and
\* a process has a descriptor exactly while it needs one.
TypeOK == /\ path \in Inodes \cup {NoFile}
          /\ owner \in [Inodes -> Procs \cup {NoProc}]
          /\ info \in [Inodes -> [pid : Procs \cup {NoProc}, aged : BOOLEAN]]
          /\ fd \in [Procs -> Inodes \cup {NoFile}]
          /\ pc \in [Procs -> PCs]
          /\ expired \in [Procs -> BOOLEAN]
          /\ \A p \in Procs : fd[p] # NoFile <=>
                 pc[p] \in {"flock", "inspect", "break", "poll", "stamp", "cs"}

Holds(p) == pc[p] \in {"stamp", "cs"}

\* No two processes are between a successful Lock and their Unlock.
MutualExclusion == \A p, q \in Procs : Holds(p) /\ Holds(q) => p = q

\* A flock is held only by a process that returned, or is about to return, from
\* Lock: no refused attempt, broken lock, timeout or death leaves one behind.
NoLeakedLock ==
    \A i \in Inodes : owner[i] # NoProc =>
        /\ Holds(owner[i])
        /\ fd[owner[i]] = i

\* Every Lock call returns, with the lock or with an error, or its process dies.
LockReturns ==
    \A p \in Procs : pc[p] = "open" ~> pc[p] \in {"cs", "failed", "dead"}
=============================================================================
