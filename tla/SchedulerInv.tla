--------------------------- MODULE SchedulerInv ---------------------------
(***************************************************************************)
(* The inductive invariant of Scheduler, from which SchedulerProofs proves *)
(* its safety properties for every set of nodes and every family of DAGs.  *)
(***************************************************************************)
EXTENDS Scheduler

\* d is settled and its edge into m is no longer waiting to be walked.
Walked(d, m) == d \in settled /\ ~(fin = d /\ m \in todo)

\* A node enters the ready queue when all its edges have been counted off.
EnqueuedReady ==
  \A n \in enqueued : released[n] = dag.deps[n] /\ afterPending[n] = 0

\* Only a settled node has counted edges off, and it is terminal.
ReleasedSettled == \A n \in Nodes : released[n] \subseteq dag.deps[n] \cap settled

SettledTerminal ==
  \A n \in Nodes : /\ n \in settled => Terminal(n)
                   /\ nodeState[n] \in {"Done", "Failed"} => n \in settled

TasksPending == \A n \in tasks : ~Terminal(n)

\* While the dependents of fin are walked: it ended, and none of the edges still
\* to be walked has been counted off.
WalkInv ==
  /\ fin # NoNode => fin \in settled /\ nodeState[fin] \in {"Done", "Failed"}
  /\ \A m \in todo : /\ fin \in dag.deps[m]
                     /\ fin \notin released[m]

\* A settled node was dispatched, or skipped on account of its gate source.
SettledHow ==
  \A n \in settled : \/ n \in enqueued
                     \/ dag.gate[n] # NoNode /\ Walked(dag.gate[n], n)

\* A Blocked node has a dependency, not its gate source, that blocked it.
BlockedHow ==
  \A n \in Nodes : nodeState[n] = "Blocked" =>
    \E d \in dag.deps[n] : d # dag.gate[n] /\ Walked(d, n)

\* A node on the skip worklist has not been dispatched and never will be.
SkipInv ==
  /\ pc # "skip" => skipWork = {}
  /\ \A n \in skipWork \ skipDone :
       /\ n \notin settled
       /\ dag.gate[n] \in dag.deps[n] \ released[n]
       /\ Walked(dag.gate[n], n)

\* What a counted edge says of its source, now and from then on.
EdgeState ==
  \A n \in Nodes : \A d \in released[n] :
    OneFate(d) => nodeState[d] = IF GatedOn(n, d) THEN "Failed" ELSE "Done"

\* after_pending is exact where nothing can be blocked twice.
AfterCounted ==
  \A n \in Nodes : CountedOnce(n) =>
    afterPending[n] = Cardinality({a \in dag.after[n] : ~Terminal(a)})

VerdictDispatched == \A n \in Nodes : verdict[n] # "Pending" => n \in enqueued

LoopInv ==
  /\ EnqueuedReady /\ ReleasedSettled /\ SettledTerminal /\ TasksPending
  /\ WalkInv /\ SettledHow /\ BlockedHow /\ SkipInv /\ EdgeState
  /\ EdgeCountedOnce /\ AfterCounted /\ VerdictDispatched /\ QuorumVerdictStands

IInv == TypeOK /\ ValidDag(dag) /\ LoopInv

-----------------------------------------------------------------------------
(* The part that QueuedPending needs.                                      *)

\* A node that ended without being queued has an edge that will never be counted.
UnqueuedEnd(n) == \E d \in dag.deps[n] \ released[n] : Walked(d, n)

QueueInv ==
  /\ QueuedPending
  /\ tasks \cap ready = {}
  /\ \A n \in Nodes : Terminal(n) => n \in enqueued \/ UnqueuedEnd(n)

-----------------------------------------------------------------------------
(* The part that NothingRunnableLeft needs: no wakeup is lost.             *)

\* A node whose counters are both zero has been put in the queue.
ZeroEnqueued ==
  \A n \in Nodes : inDegree[n] = 0 /\ afterPending[n] = 0 => n \in enqueued

\* A node that entered the queue is still there, runs, or has ended.
EnqueuedLives ==
  \A n \in enqueued : Terminal(n) \/ n \in tasks \/ n \in ready \/ MayPanic

\* after_pending never exceeds the number of nodes still to be waited for.
AfterAtMost ==
  \A n \in Nodes : afterPending[n] <= Cardinality({a \in dag.after[n] : ~Terminal(a)})

\* A walked edge that was not counted off ended its node, or is about to.
UncountedEnds ==
  \A n \in Nodes : \A d \in dag.deps[n] \ released[n] :
    Walked(d, n) => Terminal(n) \/ n \in skipWork \ skipDone

SkippedSettled == skipDone \subseteq settled

QueueDrained ==
  /\ pc \in {"join", "done"} => ready = {} \/ breach
  /\ pc = "done" => tasks = {}

WakeInv ==
  /\ ZeroEnqueued /\ EnqueuedLives /\ AfterAtMost
  /\ UncountedEnds /\ SkippedSettled /\ QueueDrained
-----------------------------------------------------------------------------
(* The part that the refinement of WatchSnapshot needs.                    *)

\* A node that failed was dispatched: no skip and no block makes a node Failed.
FailedRan == \A n \in Nodes : nodeState[n] = "Failed" => n \in enqueued

\* The published order lists the terminal nodes, and no others.
OrderListed == \A n \in Nodes : n \in Range(terminalOrder) <=> Terminal(n)

WatchInv == FailedRan /\ OrderListed
=============================================================================
