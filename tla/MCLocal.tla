------------------------------- MODULE MCLocal -------------------------------
(***************************************************************************)
(* Two instances of the local backend for TLC.  In the first, two writers  *)
(* never overlap (the state lock sees to that) and save entries only.  In  *)
(* the second, `Cache', a reader overlaps a writer that also rewrites the  *)
(* side sections.  Each behaviour runs one of them, named by `part'.       *)
(***************************************************************************)
EXTENDS LocalBackend

VARIABLES part, cMain, cBak, cClock, cPc, cBuf, cStat, cCache, cRet, cStored
cacheVars == <<cMain, cBak, cClock, cPc, cBuf, cStat, cCache, cRet, cStored>>

Cache == INSTANCE LocalBackend WITH
  Procs <- {"w", "r"}, Writers <- {"w"}, Serial <- {"w"},
  Entries <- {Nil, "e1"}, Budgets <- {NoBudgets, "b1"}, MaxVersions <- 1,
  SideWrites <- TRUE, Faults <- {"rename", "restore"}, MaxClock <- 4,
  main <- cMain, bak <- cBak, clock <- cClock, pc <- cPc, buf <- cBuf, stat <- cStat,
  cache <- cCache, ret <- cRet, stored <- cStored

LocalInit == part \in {"serial", "cache"} /\ Init /\ Cache!Init
LocalNext ==
  \/ part = "serial" /\ Next /\ UNCHANGED <<part, cacheVars>>
  \/ part = "cache" /\ Cache!Next /\ UNCHANGED <<part, vars>>
LocalSpec == LocalInit /\ [][LocalNext]_<<part, vars, cacheVars>>

\* LocalBackend's HitIsFresh, for the writers the lock serialises and for the
\* reader that overlaps the writer: a Load that is answered from the cache is
\* answered with what is in the file.
CacheHitsAreFresh == HitIsFresh /\ Cache!HitIsFresh
=============================================================================
