----------------------------- MODULE Scheduler -----------------------------
(***************************************************************************)
(* The scheduling loop of pidag: Scheduler::execute in                     *)
(* src/scheduler/execute.rs, for a fresh run (no checkpoint).              *)
(*                                                                         *)
(* One single-threaded loop owns every map below; node tasks run           *)
(* concurrently and are observed only when join_next returns them.  Each   *)
(* turn of the loop drains the ready queue, waits for one task, then walks *)
(* the dependents of the node that finished, one at a time: awaiters of    *)
(* the watch channel see every state in between, so the walk is a sequence *)
(* of steps here too, not one atomic action.                               *)
(*                                                                         *)
(* The ready queue is a set: its initial order is that of a HashMap, so a  *)
(* pop may return any member.  The dependents of a node are walked in any  *)
(* order: the code walks them in file order, which is the author's choice. *)
(* depends_on and after are sets: an entry listed twice is not modelled.   *)
(***************************************************************************)
EXTENDS Dag, Sequences, Functions

CONSTANTS
  Dags,         \* the DAGs a run may be given, after Dag::expand
  MayPanic,     \* whether a node task may panic inside the JoinSet
  MayBreach     \* whether a budget ceiling is configured (spec-39)

Statuses == {"Pending", "Done", "Failed", "Blocked"}

ASSUME DagsAssumption  == \A d \in Dags : ValidDag(d)
ASSUME FlagsAssumption == MayPanic \in BOOLEAN /\ MayBreach \in BOOLEAN

VARIABLES
  dag,            \* the DAG being run
  nodeState,      \* node_state; a node stays "Pending" while its task runs
  passes,         \* nodes whose recorded output parses as PASS
  inDegree,       \* in_degree
  afterPending,   \* after_pending
  ready,          \* ready
  enqueued,       \* enqueued
  tasks,          \* task_set: nodes spawned and not yet joined
  verdict,        \* what a spawned quorum node computed from its snapshot
  breach,         \* BudgetInner.breach is set
  pc,             \* where the loop is
  fin,            \* finished_node_id, while its dependents are walked
  todo,           \* dependents of fin not yet walked
  skipWork,       \* skip_worklist
  skipDone,       \* skipped_processed
  terminalOrder,  \* Snapshot.terminal_order, as published on the watch channel
  released,       \* history: the depends_on edges into n that were counted off
  settled         \* history: the nodes joined, or taken off a skip worklist

walkVars == <<fin, todo, skipWork, skipDone>>
history  == <<released, settled>>
vars == <<dag, nodeState, passes, inDegree, afterPending, ready, enqueued,
          tasks, verdict, breach, pc, fin, todo, skipWork, skipDone,
          terminalOrder, released, settled>>

-----------------------------------------------------------------------------
Terminal(n)        == nodeState[n] # "Pending"     \* terminal_nodes
IsQuorum(n)        == dag.minPass[n] > 0
Dependents(n)      == {m \in Nodes : n \in dag.deps[m]}
AfterDependents(n) == {m \in Nodes : n \in dag.after[m]}
GatedOn(m, n)      == dag.gate[m] = n              \* gate == "<n>:fail"

\* Snapshot::record_terminal: first come, first listed; never listed twice.
RecordTerminal(n) ==
  terminalOrder' = IF n \in Range(terminalOrder) THEN terminalOrder
                   ELSE Append(terminalOrder, n)

\* Mutant: a node on its last after edge is not counted down.
WaitingOffByOne(n) == {m \in AfterDependents(n) : afterPending[m] > 1}

\* The nodes whose after_pending a newly terminal n counts down.
Waiting(n) == {m \in AfterDependents(n) : afterPending[m] > 0}

CountAfter(n) ==
  afterPending' = [m \in Nodes |-> IF m \in Waiting(n) THEN afterPending[m] - 1
                                   ELSE afterPending[m]]

\* Mutants: one of the two counters is not looked at.
EnqueueOnAfterOnly(S) ==
  LET new == {m \in S \ enqueued : afterPending'[m] = 0}
  IN  ready' = ready \cup new /\ enqueued' = enqueued \cup new

EnqueueOnDegreeOnly(S) ==
  LET new == {m \in S \ enqueued : inDegree'[m] = 0}
  IN  ready' = ready \cup new /\ enqueued' = enqueued \cup new

\* try_enqueue! on each node of S, with the counters as this step leaves them.
TryEnqueue(S) ==
  LET new == {m \in S \ enqueued : inDegree'[m] = 0 /\ afterPending'[m] = 0}
  IN  /\ ready'    = ready \cup new
      /\ enqueued' = enqueued \cup new

\* Mutant: every dependent of n is counted each time one of them is walked.
CountWholeList(n, S) ==
  /\ inDegree' = [m \in Nodes |-> IF m \in Dependents(n) /\ inDegree[m] > 0
                                  THEN inDegree[m] - 1 ELSE inDegree[m]]
  /\ released' = [m \in Nodes |-> IF m \in S THEN released[m] \cup {n}
                                  ELSE released[m]]

\* degree.saturating_sub(1) for each node of S, on account of their edge from n.
CountDegree(n, S) ==
  /\ inDegree' = [m \in Nodes |-> IF m \in S /\ inDegree[m] > 0
                                  THEN inDegree[m] - 1 ELSE inDegree[m]]
  /\ released' = [m \in Nodes |-> IF m \in S THEN released[m] \cup {n}
                                  ELSE released[m]]

\* compute_quorum over node_state as it was when the node was popped.
Quorum(n) == IF Cardinality(dag.of[n] \cap passes) >= dag.minPass[n]
             THEN "Done" ELSE "Failed"

-----------------------------------------------------------------------------
Init ==
  /\ dag \in Dags
  /\ nodeState = [n \in Nodes |-> "Pending"]
  /\ passes = {}
  /\ inDegree = [n \in Nodes |-> Cardinality(dag.deps[n])]
  /\ afterPending = [n \in Nodes |-> Cardinality(dag.after[n])]
  /\ ready = {n \in Nodes : inDegree[n] = 0 /\ afterPending[n] = 0}
  /\ enqueued = ready
  /\ tasks = {}
  /\ verdict = [n \in Nodes |-> "Pending"]
  /\ breach = FALSE
  /\ pc = "drain"
  /\ fin = NoNode
  /\ todo = {} /\ skipWork = {} /\ skipDone = {}
  /\ terminalOrder = <<>>
  /\ released = [n \in Nodes |-> {}]
  /\ settled = {}

\* The node passes the budget gate and is spawned.  A quorum node takes its
\* verdict from node_state as it is now.
Dispatch(n) ==
  /\ pc = "drain" /\ n \in ready /\ ~Terminal(n) /\ ~breach
  /\ ready' = ready \ {n}
  /\ tasks' = tasks \cup {n}
  /\ verdict' = [verdict EXCEPT ![n] = IF IsQuorum(n) THEN Quorum(n) ELSE @]
  /\ UNCHANGED <<dag, nodeState, passes, inDegree, afterPending, enqueued,
                 breach, pc, walkVars, terminalOrder, history>>

\* Mutant: the drain goes on after a refusal instead of stopping.
RefuseAndGoOn(n) ==
  /\ pc = "drain" /\ n \in ready /\ ~Terminal(n)
  /\ breach \/ (MayBreach /\ ~IsQuorum(n))
  /\ breach' = TRUE
  /\ UNCHANGED <<dag, nodeState, passes, inDegree, afterPending, ready, enqueued,
                 tasks, verdict, pc, walkVars, terminalOrder, history>>

\* The budget gate refuses the node: any node once the run has breached, and a
\* model-consuming one when its own reserve() trips the ceiling.  The node goes
\* back to the front of the queue and the drain stops.
Refuse(n) ==
  /\ pc = "drain" /\ n \in ready /\ ~Terminal(n)
  /\ breach \/ (MayBreach /\ ~IsQuorum(n))
  /\ breach' = TRUE
  /\ pc' = "join"
  /\ UNCHANGED <<dag, nodeState, passes, inDegree, afterPending, ready, enqueued,
                 tasks, verdict, walkVars, terminalOrder, history>>

\* The queue is empty.  A node that is popped and no longer Pending is dropped:
\* nothing can tell that from dropping it now.
Drained ==
  /\ pc = "drain" /\ \A n \in ready : Terminal(n)
  /\ ready' = {}
  /\ pc' = "join"
  /\ UNCHANGED <<dag, nodeState, passes, inDegree, afterPending, enqueued,
                 tasks, verdict, breach, walkVars, terminalOrder, history>>

\* A running task records usage that trips a ceiling.
TripCeiling ==
  /\ MayBreach /\ ~breach
  /\ \E n \in tasks : ~IsQuorum(n)
  /\ breach' = TRUE
  /\ UNCHANGED <<dag, nodeState, passes, inDegree, afterPending, ready, enqueued,
                 tasks, verdict, pc, walkVars, terminalOrder, history>>

\* join_next returns a finished task: the node is recorded, published, counted
\* off the after edges that wait for it, and its dependents are walked next.
\* says: whether its output parses as PASS; read only by a quorum that counts it.
Join(n, outcome, says) ==
  /\ pc = "join" /\ n \in tasks
  /\ outcome \in (IF IsQuorum(n) THEN {verdict[n]} ELSE {"Done", "Failed"})
  /\ says => ~IsQuorum(n) /\ \E m \in Nodes : n \in dag.of[m]
  /\ tasks' = tasks \ {n}
  /\ nodeState' = [nodeState EXCEPT ![n] = outcome]
  /\ passes' = IF says THEN passes \cup {n} ELSE passes
  /\ RecordTerminal(n)
  /\ CountAfter(n)
  /\ UNCHANGED <<inDegree, released>>
  /\ TryEnqueue(Waiting(n))
  /\ settled' = settled \cup {n}
  /\ fin' = n
  /\ todo' = Dependents(n)
  /\ pc' = "walk"
  /\ UNCHANGED <<dag, verdict, breach, skipWork, skipDone>>

\* join_next returns an error for a task that panicked: the node is forgotten.
JoinPanicked(n) ==
  /\ MayPanic
  /\ pc = "join" /\ n \in tasks
  /\ tasks' = tasks \ {n}
  /\ pc' = "drain"
  /\ UNCHANGED <<dag, nodeState, passes, inDegree, afterPending, ready, enqueued,
                 verdict, breach, walkVars, terminalOrder, history>>

\* A dependent with no gate on a node that succeeded, or the fix node of one
\* that failed: one in-edge less.
Release(m) ==
  /\ pc = "walk" /\ m \in todo
  /\ (nodeState[fin] = "Done") # GatedOn(m, fin)
  /\ todo' = todo \ {m}
  /\ CountDegree(fin, {m})
  /\ UNCHANGED afterPending
  /\ TryEnqueue({m})
  /\ UNCHANGED <<dag, nodeState, passes, tasks, verdict, breach, pc, fin,
                 skipWork, skipDone, terminalOrder, settled>>

\* The fix node of a node that succeeded starts a skip cascade.
StartSkip(m) ==
  /\ pc = "walk" /\ m \in todo
  /\ nodeState[fin] = "Done" /\ GatedOn(m, fin)
  /\ todo' = todo \ {m}
  /\ skipWork' = {m}
  /\ skipDone' = {}
  /\ pc' = "skip"
  /\ UNCHANGED <<dag, nodeState, passes, inDegree, afterPending, ready, enqueued,
                 tasks, verdict, breach, fin, terminalOrder, history>>

\* One turn of the skip worklist.
Skip(s) ==
  LET nested == {g \in Dependents(s) : ~Terminal(g)}
      gated  == {g \in nested : GatedOn(g, s)}
  IN
  /\ pc = "skip" /\ s \in skipWork \ skipDone
  /\ skipDone' = skipDone \cup {s}
  /\ settled' = settled \cup {s}
  /\ skipWork' = (skipWork \ {s}) \cup gated
  /\ IF Terminal(s) THEN UNCHANGED <<nodeState, terminalOrder>>
     ELSE /\ nodeState' = [nodeState EXCEPT ![s] = "Done"]
          /\ RecordTerminal(s)
  /\ CountAfter(s)
  /\ CountDegree(s, nested \ gated)
  /\ TryEnqueue(Waiting(s) \cup (nested \ gated))
  /\ UNCHANGED <<dag, passes, tasks, verdict, breach, pc, fin, todo>>

\* The worklist is empty: back to the remaining dependents of fin.
EndSkip ==
  /\ pc = "skip" /\ skipWork \subseteq skipDone
  /\ skipWork' = {} /\ skipDone' = {}
  /\ pc' = "walk"
  /\ UNCHANGED <<dag, nodeState, passes, inDegree, afterPending, ready, enqueued,
                 tasks, verdict, breach, fin, todo, terminalOrder, history>>

\* A failed node blocks its dependent, whatever state that one is in, and the
\* after edges that wait for it are counted off.
Block(m) ==
  /\ pc = "walk" /\ m \in todo
  /\ nodeState[fin] # "Done" /\ ~GatedOn(m, fin)
  /\ todo' = todo \ {m}
  /\ nodeState' = [nodeState EXCEPT ![m] = "Blocked"]
  /\ RecordTerminal(m)
  /\ CountAfter(m)
  /\ UNCHANGED <<inDegree, released>>
  /\ TryEnqueue(Waiting(m))
  /\ UNCHANGED <<dag, passes, tasks, verdict, breach, pc, fin, skipWork, skipDone,
                 settled>>

EndWalk ==
  /\ pc = "walk" /\ todo = {}
  /\ fin' = NoNode
  /\ pc' = "drain"
  /\ UNCHANGED <<dag, nodeState, passes, inDegree, afterPending, ready, enqueued,
                 tasks, verdict, breach, todo, skipWork, skipDone, terminalOrder,
                 history>>

\* The task set is empty: DagDone is sent and dag_done published.
Finish ==
  /\ pc = "join" /\ tasks = {}
  /\ pc' = "done"
  /\ UNCHANGED <<dag, nodeState, passes, inDegree, afterPending, ready, enqueued,
                 tasks, verdict, breach, walkVars, terminalOrder, history>>

Loop == \/ \E n \in Nodes : Dispatch(n) \/ Refuse(n)
        \/ Drained
        \/ \E m \in Nodes : Release(m) \/ StartSkip(m) \/ Skip(m) \/ Block(m)
        \/ EndSkip \/ EndWalk \/ Finish

JoinNext == \E n \in Nodes :
  \/ \E outcome \in {"Done", "Failed"}, says \in BOOLEAN : Join(n, outcome, says)
  \/ JoinPanicked(n)

Next == Loop \/ JoinNext \/ TripCeiling

\* The loop never waits except in join_next, and a spawned task ends: the worker
\* bounds itself or the per-node timeout of dispatch_node does.
Fairness == WF_vars(Loop) /\ WF_vars(JoinNext)

Spec     == Init /\ [][Next]_vars
FairSpec == Spec /\ Fairness

-----------------------------------------------------------------------------
(* Properties *)

TypeOK ==
  /\ dag \in DagType
  /\ nodeState \in [Nodes -> Statuses]
  /\ passes \subseteq Nodes
  /\ inDegree \in [Nodes -> Nat]
  /\ afterPending \in [Nodes -> Nat]
  /\ ready \subseteq enqueued /\ enqueued \subseteq Nodes
  /\ tasks \subseteq enqueued
  /\ verdict \in [Nodes -> {"Pending", "Done", "Failed"}]
  /\ breach \in BOOLEAN
  /\ pc \in {"drain", "join", "walk", "skip", "done"}
  /\ fin \in Nodes \cup {NoNode}
  /\ pc \in {"walk", "skip"} <=> fin # NoNode
  /\ todo \subseteq Nodes /\ skipWork \subseteq Nodes /\ skipDone \subseteq Nodes
  /\ terminalOrder \in Seq(Nodes)
  /\ released \in [Nodes -> SUBSET Nodes]
  /\ settled \subseteq Nodes

\* No node is in both of the situations that the loop does not tell apart: its
\* gate source passed (so it is skipped) and another dependency failed (so it
\* is blocked).
OneFate(n) == dag.gate[n] = NoNode \/ dag.deps[n] = {dag.gate[n]}

\* No node that n waits for with an after edge can be blocked more than once.
CountedOnce(n) == \A a \in dag.after[n] : Cardinality(dag.deps[a]) <= 1

\* in_degree is exact: a depends_on edge is counted off at most once, whichever of
\* the three places that decrement it (a success, a fired gate, a skip) does so.
\* saturating_sub would hide an edge that is counted twice.
EdgeCountedOnce ==
  \A n \in Nodes : /\ released[n] \subseteq dag.deps[n]
                   /\ inDegree[n] = Cardinality(dag.deps[n] \ released[n])

\* A node whose task runs has every dependency settled the way its edge asks for:
\* Failed for the source of its gate, Done for the others.
DependenciesSettled ==
  \A n \in tasks : \A d \in dag.deps[n] :
    OneFate(d) => nodeState[d] = IF GatedOn(n, d) THEN "Failed" ELSE "Done"

\* No node becomes terminal while it is in the queue, so the check that the drain
\* makes when it pops a node, for skipped fix nodes, never finds one: both counters
\* of a skipped or blocked node keep it out of the queue for good.
QueuedPending == \A n \in ready : ~Terminal(n)

\* An after edge holds the node back until the other end is terminal, whatever
\* mixture of success, failure, block and skip makes it so.
AfterEdgesHold ==
  \A n \in tasks : CountedOnce(n) => \A a \in dag.after[n] : Terminal(a)

\* The verdict a quorum node computed from the snapshot it took when it was
\* dispatched is the one its counted nodes still give at any later time.
QuorumVerdictStands ==
  \A n \in Nodes : verdict[n] # "Pending" /\ CountedOnce(n) => verdict[n] = Quorum(n)

\* A terminal state is final: no later failure, skip or join rewrites it.
TerminalStateFinal ==
  [][\A n \in Nodes : OneFate(n) /\ Terminal(n) => nodeState'[n] = nodeState[n]]_vars

\* No wakeup is lost.  When the loop ends, a node is still Pending only because
\* it hangs on a Blocked or Pending one, or the budget gate refused it and left it
\* in the queue, or its task panicked.
NothingRunnableLeft ==
  pc = "done" =>
    \A n \in Nodes : ~Terminal(n) =>
      \/ \E d \in dag.deps[n] : nodeState[d] \in {"Blocked", "Pending"}
      \/ \E a \in dag.after[n] : ~Terminal(a)
      \/ breach /\ n \in ready
      \/ MayPanic /\ n \in enqueued \ ready

Watched == INSTANCE WatchSnapshot
             WITH state <- nodeState, order <- terminalOrder, done <- (pc = "done")

\* The loop implements what the watchers of its run rely on: a node is listed once,
\* when it becomes terminal, and nothing changes after dag_done.  And the run ends,
\* whatever fails, panics or is refused.
RunContract == Watched!FairSpec
=============================================================================
