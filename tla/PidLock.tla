------------------------------ MODULE PidLock ------------------------------
(***************************************************************************)
(* The pid lock of `pidag auto` and of `pidag run` (src/agent/lock.rs): a  *)
(* file created exclusively, then filled with its owner's pid, and         *)
(* reclaimed when the pid it names is not alive.                           *)
(*                                                                         *)
(* Each system call is a step, and a process may die between any two.  A   *)
(* process goes through one pass: it acquires the lock or is refused,      *)
(* works, releases and exits.  Its pid may then be given to another pass,  *)
(* or to a process that has nothing to do with the lock.                   *)
(***************************************************************************)
EXTENDS Naturals, FiniteSets

CONSTANTS
  Pids,
  Nobody,      \* a lock file that names no pid, or no lock file
  MayReuse,    \* whether the system gives a pid to a second process
  MaxPasses    \* bound on the number of passes

ASSUME LockAssumption ==
  IsFiniteSet(Pids) /\ Nobody \notin Pids /\ MayReuse \in BOOLEAN /\ MaxPasses \in Nat

VARIABLES
  at,       \* where a process is: "free" (no such process), a step, or "other"
  exists,   \* the lock file exists
  creator,  \* the process whose create made it; Nobody when it does not exist
  body,     \* the pid it names, or Nobody when it is still empty
  saw,      \* the pid read from the file
  used,     \* pids given out before
  passes,   \* number of passes so far
  overlap   \* history: two processes have been inside acquire() at once

lockFile == <<exists, creator, body>>
lockVars == <<at, lockFile, saw, used, passes, overlap>>

Acquiring == {"create", "write", "read", "judge", "remove"}
Inside    == {p \in Pids : at[p] \in Acquiring}
Holders   == {p \in Pids : at[p] = "hold"}
Alive(p)  == at[p] # "free"               \* process_alive: /proc/<pid> exists

Goto(p, where) ==
  /\ at' = [at EXCEPT ![p] = where]
  /\ overlap' = (overlap \/ Cardinality({q \in Pids : at'[q] \in Acquiring}) > 1)

Unlinked == exists' = FALSE /\ creator' = Nobody /\ body' = Nobody

LockInit ==
  /\ at = [p \in Pids |-> "free"]
  /\ exists = FALSE /\ creator = Nobody /\ body = Nobody
  /\ saw = [p \in Pids |-> Nobody]
  /\ used = {} /\ passes = 0 /\ overlap = FALSE

\* A pass starts and calls acquire().
Begin(p) ==
  /\ at[p] = "free" /\ passes < MaxPasses /\ (p \in used => MayReuse)
  /\ Goto(p, "create")
  /\ used' = used \cup {p} /\ passes' = passes + 1
  /\ UNCHANGED <<lockFile, saw>>

\* OpenOptions::create_new.
Create(p) ==
  /\ at[p] = "create"
  /\ IF exists THEN Goto(p, "read") /\ UNCHANGED lockFile
     ELSE exists' = TRUE /\ creator' = p /\ body' = Nobody /\ Goto(p, "write")
  /\ UNCHANGED <<saw, used, passes>>

\* The pid goes into the file that was created, which may have been unlinked since.
WriteBody(p) ==
  /\ at[p] = "write"
  /\ body' = IF creator = p THEN p ELSE body
  /\ Goto(p, "hold")
  /\ UNCHANGED <<exists, creator, saw, used, passes>>

\* lock_pid: a file that is gone or empty names nobody.
Read(p) ==
  /\ at[p] = "read"
  /\ saw' = [saw EXCEPT ![p] = body]
  /\ Goto(p, "judge")
  /\ UNCHANGED <<lockFile, used, passes>>

\* lock_holder_alive.
Judge(p) ==
  /\ at[p] = "judge"
  /\ Goto(p, IF saw[p] # Nobody /\ Alive(saw[p]) THEN "refused" ELSE "remove")
  /\ UNCHANGED <<lockFile, saw, used, passes>>

\* Mutant: the stale file is left where it is.
RetryOnly(p) ==
  /\ at[p] = "remove"
  /\ Goto(p, "create")
  /\ UNCHANGED <<lockFile, saw, used, passes>>

\* The stale file is removed, whatever it is by now, and acquire() starts again.
Reclaim(p) ==
  /\ at[p] = "remove"
  /\ Unlinked
  /\ Goto(p, "create")
  /\ UNCHANGED <<saw, used, passes>>

\* Mutant: the guard's drop runs in a refused pass too.
DropAnyway(p) ==
  /\ at[p] \in {"hold", "refused"}
  /\ Unlinked
  /\ Goto(p, "free")
  /\ UNCHANGED <<saw, used, passes>>

\* The guard is dropped and the process exits.
Leave(p) ==
  /\ at[p] \in {"hold", "refused"}
  /\ IF at[p] = "hold" THEN Unlinked ELSE UNCHANGED lockFile
  /\ Goto(p, "free")
  /\ UNCHANGED <<saw, used, passes>>

\* The process is killed, or calls process::exit, which drops no guard.
Die(p) ==
  /\ at[p] \in Acquiring \cup {"hold"}
  /\ Goto(p, "free")
  /\ UNCHANGED <<lockFile, saw, used, passes>>

\* The system gives a pid that was used to an unrelated process, for a while.
Reuse(p) ==
  /\ MayReuse /\ p \in used
  /\ \/ at[p] = "free" /\ Goto(p, "other")
     \/ at[p] = "other" /\ Goto(p, "free")
  /\ UNCHANGED <<lockFile, saw, used, passes>>

Acquire(p) == Create(p) \/ WriteBody(p) \/ Read(p) \/ Judge(p) \/ Reclaim(p)

LockNext == \E p \in Pids : Begin(p) \/ Acquire(p) \/ Leave(p) \/ Die(p) \/ Reuse(p)

\* acquire() does not block: a process that is inside goes on.
LockSpec == LockInit /\ [][LockNext]_lockVars /\ \A p \in Pids : WF_lockVars(Acquire(p))

-----------------------------------------------------------------------------
(* Properties *)

\* As long as no two processes were inside acquire() at once, the lock excludes, and
\* the file of the one that holds it is there and names it, however many passes were
\* killed, at whatever step, and whoever got their pids.
SerialPassesExclude ==
  ~overlap => \A p \in Holders : Holders = {p} /\ exists /\ creator = p /\ body = p

\* acquire() returns, though it calls itself again after a reclaim and the others may
\* create the file first: it can lose that race only once per pass.
AcquireReturns == \A p \in Pids : p \in Inside ~> p \notin Inside
=============================================================================
