-------------------------- MODULE SchedulerProofs --------------------------
(***************************************************************************)
(* Proofs of the safety properties of Scheduler, for every set of nodes    *)
(* and every family of valid DAGs.                                         *)
(***************************************************************************)
EXTENDS SchedulerInv, FiniteSetTheorems, TLAPS

-----------------------------------------------------------------------------
(* Facts about finite sets of nodes and about the operators of the loop.   *)

LEMMA NodeSets ==
  ASSUME NEW S \in SUBSET Nodes
  PROVE  /\ IsFiniteSet(S)
         /\ Cardinality(S) \in Nat
         /\ Cardinality(S) = 0 <=> S = {}
BY NodesAssumption, FS_Subset, FS_CardinalityType, FS_EmptySet

LEMMA OneLess ==
  ASSUME NEW S \in SUBSET Nodes, NEW x \in S
  PROVE  /\ Cardinality(S \ {x}) = Cardinality(S) - 1
         /\ Cardinality(S) > 0
<1>1. IsFiniteSet(S) /\ Cardinality(S) \in Nat /\ S # {} BY NodeSets
<1>2. Cardinality(S \ {x}) = Cardinality(S) - 1 BY <1>1, FS_RemoveElement
<1> QED BY <1>1, <1>2, NodeSets

LEMMA OnlyOne ==
  ASSUME NEW S \in SUBSET Nodes, Cardinality(S) <= 1, NEW x \in S, NEW y \in S
  PROVE  x = y
<1>1. Cardinality(S \ {x}) = Cardinality(S) - 1 /\ Cardinality(S) \in Nat
  BY OneLess, NodeSets
<1>2. S \ {x} \in SUBSET Nodes OBVIOUS
<1>3. Cardinality(S \ {x}) \in Nat BY <1>2, NodeSets
<1>4. Cardinality(S \ {x}) = 0 BY <1>1, <1>3
<1> QED BY <1>2, <1>4, NodeSets

\* What counting off the after edges of n does to each counter.
LEMMA CountAfterEffect ==
  ASSUME TypeOK, NEW n \in Nodes, CountAfter(n)
  PROVE  /\ afterPending' \in [Nodes -> Nat]
         /\ \A m \in Nodes :
              afterPending'[m] = IF n \in dag.after[m] /\ afterPending[m] > 0
                                 THEN afterPending[m] - 1 ELSE afterPending[m]
BY DEF TypeOK, CountAfter, Waiting, AfterDependents

\* Only nodes whose two counters are zero enter the queue.
LEMMA TryEnqueueEffect ==
  ASSUME TypeOK, NEW S \in SUBSET Nodes, TryEnqueue(S)
  PROVE  /\ enqueued \subseteq enqueued' /\ enqueued' \subseteq Nodes
         /\ ready' \subseteq enqueued'
         /\ \A m \in enqueued' \ enqueued :
              m \in S /\ inDegree'[m] = 0 /\ afterPending'[m] = 0
         /\ \A m \in S : inDegree'[m] = 0 /\ afterPending'[m] = 0 => m \in enqueued'
         /\ ready' = ready \cup (enqueued' \ enqueued)
BY DEF TypeOK, TryEnqueue

\* What counting off the edges from n into S does.
LEMMA CountDegreeEffect ==
  ASSUME TypeOK, NEW n \in Nodes, NEW S \in SUBSET Nodes, CountDegree(n, S)
  PROVE  /\ inDegree' \in [Nodes -> Nat]
         /\ released' \in [Nodes -> SUBSET Nodes]
         /\ \A m \in Nodes : m \notin S => /\ inDegree'[m] = inDegree[m]
                                          /\ released'[m] = released[m]
         /\ \A m \in S : /\ released'[m] = released[m] \cup {n}
                         /\ inDegree[m] > 0 => inDegree'[m] = inDegree[m] - 1
BY DEF TypeOK, CountDegree

LEMMA RecordTerminalType ==
  ASSUME TypeOK, NEW n \in Nodes, RecordTerminal(n)
  PROVE  terminalOrder' \in Seq(Nodes)
BY DEF TypeOK, RecordTerminal

-----------------------------------------------------------------------------
(* Type correctness                                                        *)

LEMMA InitType == Init => TypeOK /\ ValidDag(dag)
<1> SUFFICES ASSUME Init PROVE TypeOK /\ ValidDag(dag)
  OBVIOUS
<1>1. ValidDag(dag) BY DagsAssumption DEF Init
<1>2. dag \in DagType BY <1>1 DEF ValidDag
<1>3. \A n \in Nodes : Cardinality(dag.deps[n]) \in Nat /\ Cardinality(dag.after[n]) \in Nat
  BY <1>2, NodeSets DEF DagType
<1>4. inDegree \in [Nodes -> Nat] /\ afterPending \in [Nodes -> Nat]
  BY <1>3 DEF Init
<1>5. terminalOrder \in Seq(Nodes) BY DEF Init
<1> QED BY <1>1, <1>2, <1>4, <1>5, NodesAssumption DEF Init, TypeOK, Statuses

LEMMA NextType == TypeOK /\ ValidDag(dag) /\ [Next]_vars => TypeOK' /\ ValidDag(dag)'
<1> SUFFICES ASSUME TypeOK, ValidDag(dag), [Next]_vars PROVE TypeOK' /\ ValidDag(dag)'
  OBVIOUS
<1> USE NodesAssumption, FlagsAssumption
<1>2. ASSUME NEW n \in Nodes, Dispatch(n) PROVE TypeOK' /\ dag' = dag
  BY <1>2 DEF TypeOK, Dispatch, walkVars, history, Quorum
<1>3. ASSUME NEW n \in Nodes, Refuse(n) PROVE TypeOK' /\ dag' = dag
  BY <1>3 DEF TypeOK, Refuse, walkVars, history
<1>4. CASE Drained
  BY <1>4 DEF TypeOK, Drained, walkVars, history
<1>5. CASE TripCeiling
  BY <1>5 DEF TypeOK, TripCeiling, walkVars, history
<1>6. ASSUME NEW n \in Nodes, NEW outcome \in {"Done", "Failed"}, NEW says \in BOOLEAN,
             Join(n, outcome, says)
      PROVE TypeOK' /\ dag' = dag
  <2>1. Waiting(n) \in SUBSET Nodes BY DEF Waiting, AfterDependents
  <2>2. afterPending' \in [Nodes -> Nat] BY <1>6, CountAfterEffect DEF Join
  <2>3. terminalOrder' \in Seq(Nodes) BY <1>6, RecordTerminalType DEF Join
  <2>4. /\ enqueued \subseteq enqueued' /\ enqueued' \subseteq Nodes
        /\ ready' \subseteq enqueued'
    BY <1>6, <2>1, TryEnqueueEffect DEF Join
  <2> QED BY <1>6, <2>2, <2>3, <2>4 DEF Join, TypeOK, Statuses, Dependents
<1>7. ASSUME NEW n \in Nodes, JoinPanicked(n) PROVE TypeOK' /\ dag' = dag
  BY <1>7 DEF TypeOK, JoinPanicked, walkVars, history
<1>8. ASSUME NEW m \in Nodes, Release(m) PROVE TypeOK' /\ dag' = dag
  <2>1. fin \in Nodes BY <1>8 DEF Release, TypeOK
  <2>2. inDegree' \in [Nodes -> Nat] /\ released' \in [Nodes -> SUBSET Nodes]
    BY <1>8, <2>1, CountDegreeEffect DEF Release
  <2>3. /\ enqueued \subseteq enqueued' /\ enqueued' \subseteq Nodes
        /\ ready' \subseteq enqueued'
    BY <1>8, TryEnqueueEffect DEF Release
  <2> QED BY <1>8, <2>2, <2>3 DEF Release, TypeOK
<1>9. ASSUME NEW m \in Nodes, StartSkip(m) PROVE TypeOK' /\ dag' = dag
  BY <1>9 DEF TypeOK, StartSkip, history
<1>10. ASSUME NEW s \in Nodes, Skip(s) PROVE TypeOK' /\ dag' = dag
  <2> DEFINE nested == {g \in Dependents(s) : ~Terminal(g)}
             gated  == {g \in nested : GatedOn(g, s)}
  <2>1. /\ nested \in SUBSET Nodes /\ gated \in SUBSET Nodes /\ Waiting(s) \in SUBSET Nodes
    BY DEF Waiting, AfterDependents, Dependents
  <2>2. /\ pc = "skip" /\ s \in skipWork \ skipDone
        /\ skipDone' = skipDone \cup {s}
        /\ settled' = settled \cup {s}
        /\ skipWork' = (skipWork \ {s}) \cup gated
        /\ nodeState' = nodeState \/ nodeState' = [nodeState EXCEPT ![s] = "Done"]
        /\ terminalOrder' = terminalOrder \/ RecordTerminal(s)
        /\ CountAfter(s)
        /\ CountDegree(s, nested \ gated)
        /\ TryEnqueue(Waiting(s) \cup (nested \ gated))
        /\ UNCHANGED <<dag, passes, tasks, verdict, breach, pc, fin, todo>>
    BY <1>10 DEF Skip
  <2>3. afterPending' \in [Nodes -> Nat] BY <2>2, CountAfterEffect
  <2>4. inDegree' \in [Nodes -> Nat] /\ released' \in [Nodes -> SUBSET Nodes]
    BY <2>1, <2>2, CountDegreeEffect
  <2>5. /\ enqueued \subseteq enqueued' /\ enqueued' \subseteq Nodes
        /\ ready' \subseteq enqueued'
    BY <2>1, <2>2, TryEnqueueEffect
  <2>6. terminalOrder' \in Seq(Nodes) BY <2>2, RecordTerminalType DEF TypeOK
  <2>7. nodeState' \in [Nodes -> Statuses] BY <2>2 DEF TypeOK, Statuses
  <2> QED BY <2>1, <2>2, <2>3, <2>4, <2>5, <2>6, <2>7 DEF TypeOK
<1>11. CASE EndSkip
  BY <1>11 DEF TypeOK, EndSkip, history
<1>12. ASSUME NEW m \in Nodes, Block(m) PROVE TypeOK' /\ dag' = dag
  <2>1. Waiting(m) \in SUBSET Nodes BY DEF Waiting, AfterDependents
  <2>2. afterPending' \in [Nodes -> Nat] BY <1>12, CountAfterEffect DEF Block
  <2>3. terminalOrder' \in Seq(Nodes) BY <1>12, RecordTerminalType DEF Block
  <2>4. /\ enqueued \subseteq enqueued' /\ enqueued' \subseteq Nodes
        /\ ready' \subseteq enqueued'
    BY <1>12, <2>1, TryEnqueueEffect DEF Block
  <2> QED BY <1>12, <2>2, <2>3, <2>4 DEF Block, TypeOK, Statuses
<1>13. CASE EndWalk
  BY <1>13 DEF TypeOK, EndWalk, history
<1>14. CASE Finish
  BY <1>14 DEF TypeOK, Finish, walkVars, history
<1>15. CASE UNCHANGED vars
  BY <1>15 DEF TypeOK, vars
<1>16. dag' = dag => ValidDag(dag)'
  BY DEF ValidDag, DagType
<1> QED
  BY <1>2, <1>3, <1>4, <1>5, <1>6, <1>7, <1>8, <1>9, <1>10, <1>11, <1>12, <1>13,
     <1>14, <1>15, <1>16 DEF Next, Loop, JoinNext

-----------------------------------------------------------------------------
(* The inductive invariant                                                 *)

LEMMA InitInv == Init => IInv
<1> SUFFICES ASSUME Init PROVE IInv
  OBVIOUS
<1>1. TypeOK /\ ValidDag(dag) BY InitType
<1>2. \A n \in Nodes : dag.deps[n] \in SUBSET Nodes /\ dag.after[n] \in SUBSET Nodes
  BY <1>1 DEF ValidDag, DagType
<1>3. \A n \in Nodes : n \in enqueued => dag.deps[n] = {} /\ afterPending[n] = 0
  BY <1>2, NodeSets DEF Init
<1>4. EnqueuedReady BY <1>1, <1>3 DEF Init, EnqueuedReady, TypeOK
<1>5. /\ ReleasedSettled /\ SettledTerminal /\ TasksPending /\ SettledHow /\ BlockedHow
      /\ EdgeState /\ VerdictDispatched /\ QuorumVerdictStands
  BY DEF Init, ReleasedSettled, SettledTerminal, TasksPending, SettledHow, BlockedHow,
         EdgeState, VerdictDispatched, QuorumVerdictStands, Terminal
<1>6. WalkInv /\ SkipInv BY DEF Init, WalkInv, SkipInv
<1>7. EdgeCountedOnce
  <2>1. \A n \in Nodes : dag.deps[n] \ released[n] = dag.deps[n] BY DEF Init
  <2> QED BY <2>1 DEF Init, EdgeCountedOnce
<1>8. AfterCounted
  <2>1. \A n \in Nodes : {a \in dag.after[n] : ~Terminal(a)} = dag.after[n]
    BY <1>2 DEF Init, Terminal
  <2> QED BY <2>1 DEF Init, AfterCounted
<1> QED BY <1>1, <1>4, <1>5, <1>6, <1>7, <1>8 DEF IInv, LoopInv

\* The steps that leave every counter and every node state alone.
LEMMA QuietSteps ==
  ASSUME IInv, TypeOK',
         UNCHANGED <<dag, nodeState, passes, inDegree, afterPending, enqueued,
                     released, settled>>,
         tasks' \in SUBSET tasks,
         UNCHANGED verdict,
         \/ UNCHANGED <<pc, walkVars>>
         \/ pc = "drain" /\ pc' = "join" /\ UNCHANGED walkVars
         \/ pc = "join" /\ pc' \in {"drain", "done"} /\ UNCHANGED walkVars
         \/ pc = "walk" /\ todo = {} /\ pc' = "drain" /\ fin' = NoNode
            /\ UNCHANGED <<todo, skipWork, skipDone>>
         \/ pc = "skip" /\ skipWork \subseteq skipDone /\ pc' = "walk"
            /\ skipWork' = {} /\ skipDone' = {} /\ UNCHANGED <<fin, todo>>
  PROVE  LoopInv'
<1> USE DEF IInv, LoopInv, walkVars
<1>1. \A d, m : Walked(d, m) => Walked(d, m)' BY DEF Walked
<1>2. /\ EnqueuedReady' /\ ReleasedSettled' /\ SettledTerminal' /\ TasksPending'
      /\ EdgeState' /\ VerdictDispatched'
  BY DEF EnqueuedReady, ReleasedSettled, SettledTerminal, TasksPending, EdgeState,
         VerdictDispatched, Terminal, OneFate, GatedOn
<1>3. SettledHow' /\ BlockedHow' BY <1>1 DEF SettledHow, BlockedHow
<1>4. WalkInv' /\ SkipInv' BY <1>1, NodesAssumption DEF WalkInv, SkipInv
<1>5. EdgeCountedOnce' BY DEF EdgeCountedOnce
<1>6. AfterCounted' BY DEF AfterCounted, CountedOnce, Terminal
<1>7. QuorumVerdictStands' BY DEF QuorumVerdictStands, CountedOnce, Quorum
<1> QED BY <1>2, <1>3, <1>4, <1>5, <1>6, <1>7

\* A dispatched node is Pending, and its after edges have been honoured.
LEMMA AfterEdgesSettled ==
  ASSUME IInv, NEW n \in enqueued, CountedOnce(n)
  PROVE  \A a \in dag.after[n] : Terminal(a)
<1>1. n \in Nodes BY DEF IInv, TypeOK
<1>2. {a \in dag.after[n] : ~Terminal(a)} \in SUBSET Nodes
  BY <1>1 DEF IInv, ValidDag, DagType
<1>3. Cardinality({a \in dag.after[n] : ~Terminal(a)}) = 0
  BY <1>1 DEF IInv, LoopInv, EnqueuedReady, AfterCounted
<1> QED BY <1>2, <1>3, NodeSets

LEMMA DispatchKept ==
  ASSUME IInv, TypeOK', NEW n \in Nodes, Dispatch(n)
  PROVE  LoopInv'
<1> USE DEF IInv, LoopInv, walkVars, history
<1>1. /\ pc = "drain" /\ n \in ready /\ ~Terminal(n)
      /\ tasks' = tasks \cup {n}
      /\ verdict' = [verdict EXCEPT ![n] = IF IsQuorum(n) THEN Quorum(n) ELSE @]
      /\ UNCHANGED <<dag, nodeState, passes, inDegree, afterPending, enqueued,
                     pc, fin, todo, skipWork, skipDone, released, settled>>
  BY DEF Dispatch
<1>2. n \in enqueued BY <1>1 DEF TypeOK
<1>3. \A d, m : Walked(d, m) => Walked(d, m)' BY <1>1 DEF Walked
<1>4. /\ EnqueuedReady' /\ ReleasedSettled' /\ SettledTerminal' /\ TasksPending'
      /\ EdgeState' /\ EdgeCountedOnce' /\ WalkInv'
  BY <1>1 DEF EnqueuedReady, ReleasedSettled, SettledTerminal, TasksPending, EdgeState,
         EdgeCountedOnce, Terminal, OneFate, GatedOn, WalkInv
<1>5. SettledHow' /\ BlockedHow' /\ SkipInv'
  BY <1>1, <1>3 DEF SettledHow, BlockedHow, SkipInv
<1>6. AfterCounted' BY <1>1 DEF AfterCounted, CountedOnce, Terminal
<1>7. VerdictDispatched'
  BY <1>1, <1>2 DEF VerdictDispatched, TypeOK
<1>8. QuorumVerdictStands'
  BY <1>1 DEF QuorumVerdictStands, CountedOnce, Quorum, TypeOK
<1> QED BY <1>4, <1>5, <1>6, <1>7, <1>8

LEMMA StartSkipKept ==
  ASSUME IInv, TypeOK', NEW m \in Nodes, StartSkip(m)
  PROVE  LoopInv'
<1> USE DEF IInv, LoopInv, history
<1>1. /\ pc = "walk" /\ m \in todo /\ nodeState[fin] = "Done" /\ dag.gate[m] = fin
      /\ todo' = todo \ {m} /\ skipWork' = {m} /\ skipDone' = {} /\ pc' = "skip"
      /\ UNCHANGED <<dag, nodeState, passes, inDegree, afterPending, ready, enqueued,
                     tasks, verdict, breach, fin, terminalOrder, released, settled>>
  BY DEF StartSkip, GatedOn
<1>2. fin \in Nodes /\ fin \in settled /\ fin \in dag.deps[m] /\ fin \notin released[m]
  BY <1>1, NodesAssumption DEF TypeOK, WalkInv
<1>3. \A d, g : Walked(d, g) => Walked(d, g)' BY <1>1 DEF Walked
<1>4. m \notin settled
  <2>1. m \notin enqueued BY <1>2 DEF EnqueuedReady
  <2>2. ~Walked(dag.gate[m], m) BY <1>1 DEF Walked
  <2> QED BY <2>1, <2>2 DEF SettledHow
<1>5. Walked(fin, m)' BY <1>1, <1>2 DEF Walked
<1>6. SkipInv' BY <1>1, <1>2, <1>4, <1>5 DEF SkipInv
<1>7. /\ EnqueuedReady' /\ ReleasedSettled' /\ SettledTerminal' /\ TasksPending'
      /\ EdgeState' /\ EdgeCountedOnce' /\ WalkInv' /\ VerdictDispatched'
  BY <1>1 DEF EnqueuedReady, ReleasedSettled, SettledTerminal, TasksPending, EdgeState,
         EdgeCountedOnce, Terminal, OneFate, GatedOn, WalkInv, VerdictDispatched
<1>8. SettledHow' /\ BlockedHow' BY <1>1, <1>3 DEF SettledHow, BlockedHow
<1>9. AfterCounted' BY <1>1 DEF AfterCounted, CountedOnce, Terminal
<1>10. QuorumVerdictStands' BY <1>1 DEF QuorumVerdictStands, CountedOnce, Quorum
<1> QED BY <1>6, <1>7, <1>8, <1>9, <1>10

\* Counting off the after edges of a node that was not terminal and now is keeps
\* after_pending exact.
LEMMA AfterCountedStep ==
  ASSUME IInv, UNCHANGED dag, NEW n \in Nodes, CountAfter(n),
         Terminal(n)', \A m \in Nodes \ {n} : Terminal(m)' = Terminal(m),
         (\E m \in Nodes : n \in dag.after[m] /\ CountedOnce(m)) => ~Terminal(n)
  PROVE  AfterCounted'
<1> SUFFICES ASSUME NEW m \in Nodes, CountedOnce(m)
             PROVE  afterPending'[m] = Cardinality({a \in dag.after[m] : ~Terminal(a)'})
  BY DEF AfterCounted, CountedOnce
<1> DEFINE W == {a \in dag.after[m] : ~Terminal(a)}
<1>1. W \in SUBSET Nodes BY DEF IInv, ValidDag, DagType
<1>2. afterPending[m] = Cardinality(W) BY DEF IInv, LoopInv, AfterCounted
<1>3. \A a \in dag.after[m] : a \in Nodes BY DEF IInv, ValidDag, DagType
<1>4. afterPending'[m] = IF n \in dag.after[m] /\ afterPending[m] > 0
                         THEN afterPending[m] - 1 ELSE afterPending[m]
  BY CountAfterEffect DEF IInv
<1>5. CASE n \in dag.after[m]
  <2>1. n \in W BY <1>5
  <2>2. {a \in dag.after[m] : ~Terminal(a)'} = W \ {n} BY <1>3
  <2> HIDE DEF W
  <2>3. Cardinality(W \ {n}) = Cardinality(W) - 1 /\ Cardinality(W) > 0
    BY <1>1, <2>1, OneLess
  <2> QED BY <1>2, <1>4, <1>5, <2>2, <2>3
<1>6. CASE n \notin dag.after[m]
  <2>1. {a \in dag.after[m] : ~Terminal(a)'} = W BY <1>3, <1>6
  <2> QED BY <1>2, <1>4, <1>6, <2>1
<1> QED BY <1>5, <1>6

\* try_enqueue! admits a node only when all its edges have been counted off.
LEMMA EnqueuedReadyStep ==
  ASSUME IInv, TypeOK', UNCHANGED dag, NEW S \in SUBSET Nodes, TryEnqueue(S),
         EdgeCountedOnce',
         \A m \in Nodes : /\ released[m] \subseteq released'[m]
                          /\ afterPending[m] = 0 => afterPending'[m] = 0
  PROVE  EnqueuedReady'
<1> SUFFICES ASSUME NEW m \in enqueued'
             PROVE  released'[m] = dag.deps[m] /\ afterPending'[m] = 0
  BY DEF EnqueuedReady
<1>1. m \in Nodes BY DEF TypeOK
<1>2. dag.deps[m] \in SUBSET Nodes BY <1>1 DEF IInv, ValidDag, DagType
<1>3. released'[m] \subseteq dag.deps[m] BY <1>1 DEF EdgeCountedOnce
<1>4. CASE m \in enqueued
  BY <1>1, <1>3, <1>4 DEF IInv, LoopInv, EnqueuedReady
<1>5. CASE m \notin enqueued
  <2>1. inDegree'[m] = 0 /\ afterPending'[m] = 0 BY <1>5, TryEnqueueEffect DEF IInv
  <2>2. Cardinality(dag.deps[m] \ released'[m]) = 0 BY <1>1, <2>1 DEF EdgeCountedOnce
  <2>3. dag.deps[m] \ released'[m] \in SUBSET Nodes BY <1>2
  <2>4. dag.deps[m] \ released'[m] = {} BY <2>2, <2>3, NodeSets
  <2> QED BY <1>3, <2>1, <2>4
<1> QED BY <1>4, <1>5

LEMMA JoinKept ==
  ASSUME IInv, TypeOK', NEW n \in Nodes, NEW outcome \in {"Done", "Failed"},
         NEW says \in BOOLEAN, Join(n, outcome, says)
  PROVE  LoopInv'
<1> USE DEF IInv, LoopInv
<1>1. /\ pc = "join" /\ n \in tasks /\ pc' = "walk"
      /\ tasks' = tasks \ {n}
      /\ nodeState' = [nodeState EXCEPT ![n] = outcome]
      /\ passes' = IF says THEN passes \cup {n} ELSE passes
      /\ CountAfter(n) /\ TryEnqueue(Waiting(n))
      /\ settled' = settled \cup {n} /\ fin' = n /\ todo' = Dependents(n)
      /\ UNCHANGED <<dag, inDegree, released, verdict, breach, skipWork, skipDone>>
  BY DEF Join
<1>2. n \in enqueued /\ ~Terminal(n) /\ n \notin settled
  BY <1>1 DEF TypeOK, TasksPending, SettledTerminal
<1>3. /\ nodeState'[n] = outcome
      /\ \A m \in Nodes \ {n} : nodeState'[m] = nodeState[m]
  BY <1>1 DEF TypeOK
<1>4. /\ Terminal(n)'
      /\ \A m \in Nodes \ {n} : Terminal(m)' = Terminal(m)
  BY <1>3 DEF Terminal
<1>5. Waiting(n) \in SUBSET Nodes BY DEF Waiting, AfterDependents
<1>6. \A m \in Nodes : afterPending[m] = 0 => afterPending'[m] = 0
  BY <1>1, CountAfterEffect
<1>7. /\ enqueued \subseteq enqueued' BY <1>1, <1>5, TryEnqueueEffect
<1>8. \A d, m : Walked(d, m) => Walked(d, m)' BY <1>1, <1>2 DEF Walked
<1>9. EdgeCountedOnce' BY <1>1 DEF EdgeCountedOnce
<1>10. EnqueuedReady' BY <1>1, <1>5, <1>6, <1>9, EnqueuedReadyStep
<1>11. ReleasedSettled' BY <1>1 DEF ReleasedSettled
<1>12. SettledTerminal' /\ TasksPending'
  BY <1>1, <1>2, <1>3, <1>4 DEF SettledTerminal, TasksPending, TypeOK
<1>13. WalkInv'
  <2>1. \A m \in Nodes : n \notin released[m] BY <1>2 DEF ReleasedSettled
  <2> QED BY <1>1, <1>3, <2>1 DEF WalkInv, Dependents
<1>14. SettledHow'
  BY <1>1, <1>2, <1>7, <1>8 DEF SettledHow
<1>15. BlockedHow'
  BY <1>1, <1>3, <1>8 DEF BlockedHow
<1>16. SkipInv' BY <1>1 DEF SkipInv
<1>17. EdgeState'
  <2>1. \A m \in Nodes : n \notin released[m] BY <1>2 DEF ReleasedSettled
  <2>2. \A m \in Nodes : released[m] \subseteq Nodes BY DEF TypeOK
  <2> QED BY <1>1, <1>3, <2>1, <2>2 DEF EdgeState, OneFate, GatedOn
<1>18. AfterCounted' BY <1>1, <1>2, <1>4, AfterCountedStep
<1>19. VerdictDispatched' BY <1>1, <1>7 DEF VerdictDispatched
<1>20. QuorumVerdictStands'
  <2> SUFFICES ASSUME NEW m \in Nodes, verdict[m] # "Pending", CountedOnce(m)
               PROVE  verdict[m] = Quorum(m)'
    BY <1>1 DEF QuorumVerdictStands, CountedOnce
  <2>1. m \in enqueued BY DEF VerdictDispatched
  <2>2. n \notin dag.after[m] BY <1>2, <2>1, AfterEdgesSettled
  <2>3. dag.of[m] \subseteq dag.after[m] BY DEF ValidDag
  <2>4. dag.of[m] \cap passes' = dag.of[m] \cap passes BY <1>1, <2>2, <2>3
  <2>5. verdict[m] = Quorum(m) BY DEF QuorumVerdictStands
  <2> QED BY <1>1, <2>4, <2>5 DEF Quorum
<1> QED BY <1>9, <1>10, <1>11, <1>12, <1>13, <1>14, <1>15, <1>16, <1>17, <1>18, <1>19, <1>20

LEMMA ReleaseKept ==
  ASSUME IInv, TypeOK', NEW m \in Nodes, Release(m)
  PROVE  LoopInv'
<1> USE DEF IInv, LoopInv
<1>1. /\ pc = "walk" /\ m \in todo /\ (nodeState[fin] = "Done") # GatedOn(m, fin)
      /\ todo' = todo \ {m} /\ CountDegree(fin, {m}) /\ TryEnqueue({m})
      /\ UNCHANGED <<dag, nodeState, passes, afterPending, tasks, verdict, pc, fin,
                     skipWork, skipDone, settled>>
  BY DEF Release
<1>2. /\ fin \in Nodes /\ fin \in settled /\ nodeState[fin] \in {"Done", "Failed"}
      /\ fin \in dag.deps[m] /\ fin \notin released[m]
  BY <1>1, NodesAssumption DEF TypeOK, WalkInv
<1>3. /\ \A g \in Nodes \ {m} : inDegree'[g] = inDegree[g] /\ released'[g] = released[g]
      /\ released'[m] = released[m] \cup {fin}
      /\ inDegree[m] > 0 => inDegree'[m] = inDegree[m] - 1
  BY <1>1, <1>2, CountDegreeEffect
<1>4. \A d, g : Walked(d, g) => Walked(d, g)' BY <1>1 DEF Walked
<1>5. enqueued \subseteq enqueued' BY <1>1, TryEnqueueEffect
<1>6. EdgeCountedOnce'
  <2> DEFINE left == dag.deps[m] \ released[m]
  <2>1. left \in SUBSET Nodes BY DEF ValidDag, DagType
  <2>2. fin \in left BY <1>2
  <2>3. dag.deps[m] \ released'[m] = left \ {fin} BY <1>3
  <2>4. inDegree[m] = Cardinality(left) BY DEF EdgeCountedOnce
  <2> HIDE DEF left
  <2>5. Cardinality(left \ {fin}) = Cardinality(left) - 1 /\ Cardinality(left) > 0
    BY <2>1, <2>2, OneLess
  <2> QED BY <1>1, <1>2, <1>3, <2>3, <2>4, <2>5 DEF EdgeCountedOnce
<1>7. EnqueuedReady' BY <1>1, <1>3, <1>6, EnqueuedReadyStep
<1>8. ReleasedSettled' BY <1>1, <1>2, <1>3 DEF ReleasedSettled
<1>9. SettledTerminal' /\ TasksPending'
  BY <1>1 DEF SettledTerminal, TasksPending, Terminal
<1>10. WalkInv' BY <1>1, <1>3 DEF WalkInv, TypeOK
<1>11. SettledHow' /\ BlockedHow' BY <1>1, <1>4, <1>5 DEF SettledHow, BlockedHow
<1>12. SkipInv' BY <1>1 DEF SkipInv
<1>13. EdgeState'
  <2>1. nodeState[fin] = IF GatedOn(m, fin) THEN "Failed" ELSE "Done"
    BY <1>1, <1>2 DEF GatedOn
  <2> QED BY <1>1, <1>3, <2>1 DEF EdgeState, OneFate, GatedOn
<1>14. AfterCounted' BY <1>1 DEF AfterCounted, CountedOnce, Terminal
<1>15. VerdictDispatched' BY <1>1, <1>5 DEF VerdictDispatched
<1>16. QuorumVerdictStands' BY <1>1 DEF QuorumVerdictStands, CountedOnce, Quorum
<1> QED BY <1>6, <1>7, <1>8, <1>9, <1>10, <1>11, <1>12, <1>13, <1>14, <1>15, <1>16

\* The DAG has no edge from a node to itself.
LEMMA NoSelfEdge ==
  ASSUME ValidDag(dag), NEW n \in Nodes
  PROVE  n \notin dag.deps[n]
<1>1. {n} \in (SUBSET Nodes) \ {{}} OBVIOUS
<1>2. (dag.deps[n] \cup dag.after[n]) \cap {n} = {} BY <1>1 DEF ValidDag
<1> QED BY <1>2

LEMMA BlockKept ==
  ASSUME IInv, TypeOK', NEW m \in Nodes, Block(m)
  PROVE  LoopInv'
<1> USE DEF IInv, LoopInv
<1>1. /\ pc = "walk" /\ m \in todo /\ nodeState[fin] # "Done" /\ dag.gate[m] # fin
      /\ todo' = todo \ {m} /\ nodeState' = [nodeState EXCEPT ![m] = "Blocked"]
      /\ CountAfter(m) /\ TryEnqueue(Waiting(m))
      /\ UNCHANGED <<dag, inDegree, released, passes, tasks, verdict, pc, fin,
                     skipWork, skipDone, settled>>
  BY DEF Block, GatedOn
<1>2. /\ fin \in Nodes /\ fin \in settled /\ nodeState[fin] = "Failed"
      /\ fin \in dag.deps[m] /\ fin \notin released[m]
  BY <1>1, NodesAssumption DEF TypeOK, WalkInv
<1>3. m # fin BY <1>2, NoSelfEdge
<1>4. /\ nodeState'[m] = "Blocked"
      /\ \A g \in Nodes \ {m} : nodeState'[g] = nodeState[g]
  BY <1>1 DEF TypeOK
<1>5. m \notin enqueued /\ m \notin tasks
  BY <1>2 DEF EnqueuedReady, TypeOK
<1>6. /\ dag.gate[m] # NoNode => dag.gate[m] \in dag.deps[m]
      /\ dag.deps[m] \in SUBSET Nodes
  BY DEF ValidDag, DagType
<1>7. Waiting(m) \in SUBSET Nodes BY DEF Waiting, AfterDependents
<1>8. \A g \in Nodes : afterPending[g] = 0 => afterPending'[g] = 0
  BY <1>1, CountAfterEffect
<1>9. enqueued \subseteq enqueued' BY <1>1, <1>7, TryEnqueueEffect
<1>10. \A d, g : Walked(d, g) => Walked(d, g)' BY <1>1 DEF Walked
<1>11. Walked(fin, m)' BY <1>1, <1>2 DEF Walked
\* A settled node that is blocked was skipped: it has two fates.
<1>12. m \in settled => dag.gate[m] # NoNode /\ dag.gate[m] \in dag.deps[m]
  BY <1>5, <1>6 DEF SettledHow
<1>13. EdgeCountedOnce' BY <1>1 DEF EdgeCountedOnce
<1>14. EnqueuedReady' BY <1>1, <1>7, <1>8, <1>13, EnqueuedReadyStep
<1>15. ReleasedSettled' BY <1>1 DEF ReleasedSettled
<1>16. SettledTerminal' /\ TasksPending'
  BY <1>1, <1>4, <1>5 DEF SettledTerminal, TasksPending, Terminal, TypeOK
<1>17. WalkInv' BY <1>1, <1>2, <1>3, <1>4 DEF WalkInv
<1>18. SettledHow' BY <1>1, <1>9, <1>10 DEF SettledHow
<1>19. BlockedHow' BY <1>1, <1>2, <1>4, <1>10, <1>11 DEF BlockedHow
<1>20. SkipInv' BY <1>1, <1>10 DEF SkipInv
<1>21. EdgeState'
  <2>1. \A g \in Nodes : m \in released[g] => ~OneFate(m)
    BY <1>1, <1>2, <1>12 DEF ReleasedSettled, OneFate
  <2>2. \A g \in Nodes : released[g] \subseteq Nodes BY DEF TypeOK
  <2> QED BY <1>1, <1>4, <2>1, <2>2 DEF EdgeState, OneFate, GatedOn
<1>22. AfterCounted'
  <2>1. ASSUME NEW g \in Nodes, m \in dag.after[g], CountedOnce(g) PROVE ~Terminal(m)
    <3>1. \A d \in dag.deps[m] : d = fin BY <1>2, <1>6, <2>1, OnlyOne DEF CountedOnce
    <3>2. m \notin settled BY <1>1, <1>12, <3>1
    <3>3. nodeState[m] # "Blocked" BY <1>1, <3>1 DEF BlockedHow, Walked
    <3> QED BY <3>2, <3>3 DEF SettledTerminal, Terminal, TypeOK, Statuses
  <2>2. /\ Terminal(m)'
        /\ \A g \in Nodes \ {m} : Terminal(g)' = Terminal(g)
    BY <1>4 DEF Terminal
  <2> QED BY <1>1, <2>1, <2>2, AfterCountedStep
<1>23. VerdictDispatched' BY <1>1, <1>9 DEF VerdictDispatched
<1>24. QuorumVerdictStands' BY <1>1 DEF QuorumVerdictStands, CountedOnce, Quorum
<1> QED BY <1>13, <1>14, <1>15, <1>16, <1>17, <1>18, <1>19, <1>20, <1>21, <1>22, <1>23, <1>24

LEMMA SkipKept ==
  ASSUME IInv, TypeOK', NEW s \in Nodes, Skip(s)
  PROVE  LoopInv'
<1> USE DEF IInv, LoopInv
<1> DEFINE nested == {g \in Dependents(s) : ~Terminal(g)}
           gated  == {g \in nested : GatedOn(g, s)}
           freed  == nested \ gated
<1>1. /\ pc = "skip" /\ s \in skipWork \ skipDone
      /\ skipDone' = skipDone \cup {s} /\ settled' = settled \cup {s}
      /\ skipWork' = (skipWork \ {s}) \cup gated
      /\ IF Terminal(s) THEN nodeState' = nodeState
         ELSE nodeState' = [nodeState EXCEPT ![s] = "Done"]
      /\ CountAfter(s) /\ CountDegree(s, freed) /\ TryEnqueue(Waiting(s) \cup freed)
      /\ UNCHANGED <<dag, passes, tasks, verdict, pc, fin, todo>>
  BY DEF Skip
<1>2. /\ freed \in SUBSET Nodes /\ gated \in SUBSET Nodes
      /\ Waiting(s) \cup freed \in SUBSET Nodes
      /\ \A g \in freed : s \in dag.deps[g] /\ dag.gate[g] # s
      /\ \A g \in gated : s \in dag.deps[g] /\ dag.gate[g] = s /\ ~Terminal(g)
  <2>1. nested \in SUBSET Nodes /\ Waiting(s) \in SUBSET Nodes
    BY DEF Waiting, AfterDependents, Dependents
  <2>2. \A g \in nested : s \in dag.deps[g] /\ ~Terminal(g) BY DEF Dependents
  <2>3. \A g \in nested : g \in gated <=> dag.gate[g] = s BY DEF GatedOn
  <2>4. gated \subseteq nested /\ freed = nested \ gated OBVIOUS
  <2> HIDE DEF nested, gated, freed
  <2> QED BY <2>1, <2>2, <2>3, <2>4
<1> HIDE DEF nested, gated, freed
<1>3. /\ s \notin settled /\ Walked(dag.gate[s], s)
      /\ dag.gate[s] \in dag.deps[s] /\ dag.gate[s] \notin released[s]
  BY <1>1 DEF SkipInv
<1>4. s \notin enqueued /\ s \notin tasks /\ dag.gate[s] # NoNode
  <2>1. s \notin enqueued BY <1>3 DEF EnqueuedReady
  <2>2. dag.deps[s] \in SUBSET Nodes BY DEF ValidDag, DagType
  <2> QED BY <1>3, <2>1, <2>2, NodesAssumption DEF TypeOK
<1>5. \A g \in Nodes : s \notin released[g] BY <1>3 DEF ReleasedSettled
<1>6. nodeState[s] \in {"Pending", "Blocked"}
  BY <1>3 DEF SettledTerminal, TypeOK, Statuses
<1>7. /\ \A g \in Nodes \ {s} : nodeState'[g] = nodeState[g]
      /\ nodeState'[s] = IF nodeState[s] = "Pending" THEN "Done" ELSE "Blocked"
  BY <1>1, <1>6 DEF TypeOK, Terminal
<1>8. /\ Terminal(s)' /\ \A g \in Nodes \ {s} : Terminal(g)' = Terminal(g)
  BY <1>7 DEF Terminal
<1>9. /\ \A g \in Nodes : g \notin freed =>
           inDegree'[g] = inDegree[g] /\ released'[g] = released[g]
      /\ \A g \in freed : /\ released'[g] = released[g] \cup {s}
                          /\ inDegree[g] > 0 => inDegree'[g] = inDegree[g] - 1
  BY <1>1, <1>2, CountDegreeEffect
<1>10. \A g \in Nodes : afterPending[g] = 0 => afterPending'[g] = 0
  BY <1>1, CountAfterEffect
<1>11. enqueued \subseteq enqueued' BY <1>1, <1>2, TryEnqueueEffect
<1>12. \A d, g : Walked(d, g) => Walked(d, g)' BY <1>1 DEF Walked
<1>13. fin # s BY <1>3, NodesAssumption DEF WalkInv
<1>14. EdgeCountedOnce'
  <2> SUFFICES ASSUME NEW g \in Nodes
               PROVE  /\ released'[g] \subseteq dag.deps[g]
                      /\ inDegree'[g] = Cardinality(dag.deps[g] \ released'[g])
    BY <1>1 DEF EdgeCountedOnce
  <2>1. CASE g \notin freed BY <1>9, <2>1 DEF EdgeCountedOnce
  <2>2. CASE g \in freed
    <3> DEFINE left == dag.deps[g] \ released[g]
    <3>1. left \in SUBSET Nodes BY DEF ValidDag, DagType
    <3>2. s \in left BY <1>2, <1>5, <2>2
    <3>3. dag.deps[g] \ released'[g] = left \ {s} BY <1>9, <2>2
    <3>4. inDegree[g] = Cardinality(left) BY DEF EdgeCountedOnce
    <3>5. released'[g] \subseteq dag.deps[g]
      <4>1. released[g] \subseteq dag.deps[g] BY DEF EdgeCountedOnce
      <4>2. released'[g] = released[g] \cup {s} BY <1>9, <2>2
      <4> QED BY <3>2, <4>1, <4>2
    <3> HIDE DEF left
    <3>6. Cardinality(left \ {s}) = Cardinality(left) - 1 /\ Cardinality(left) > 0
      BY <3>1, <3>2, OneLess
    <3> QED BY <1>9, <2>2, <3>3, <3>4, <3>5, <3>6
  <2> QED BY <2>1, <2>2
<1>15. EnqueuedReady'
  <2>1. \A g \in Nodes : released[g] \subseteq released'[g] BY <1>9
  <2> QED BY <1>1, <1>2, <1>10, <1>14, <2>1, EnqueuedReadyStep
<1>16. ReleasedSettled'
  BY <1>1, <1>2, <1>9 DEF ReleasedSettled
<1>17. SettledTerminal' /\ TasksPending'
  BY <1>1, <1>4, <1>7, <1>8 DEF SettledTerminal, TasksPending, TypeOK, Terminal
<1>18. WalkInv'
  <2>1. fin \in Nodes /\ fin \in settled /\ nodeState'[fin] \in {"Done", "Failed"}
    BY <1>1, <1>7, <1>13 DEF WalkInv, TypeOK
  <2>2. ASSUME NEW m \in todo PROVE fin \in dag.deps[m] /\ fin \notin released'[m]
    <3>1. m \in Nodes /\ fin \in dag.deps[m] /\ fin \notin released[m]
      BY DEF WalkInv, TypeOK
    <3> QED BY <1>9, <1>13, <3>1
  <2> QED BY <1>1, <2>1, <2>2 DEF WalkInv
<1>19. SettledHow' BY <1>1, <1>3, <1>4, <1>11, <1>12 DEF SettledHow
<1>20. BlockedHow' BY <1>1, <1>6, <1>7, <1>12 DEF BlockedHow
<1>21. SkipInv'
  <2> SUFFICES ASSUME NEW g \in skipWork' \ skipDone'
               PROVE  /\ g \notin settled'
                      /\ dag.gate[g] \in dag.deps[g] \ released'[g]
                      /\ Walked(dag.gate[g], g)'
    BY <1>1 DEF SkipInv
  <2>1. g \in Nodes /\ g # s BY <1>1, <1>2 DEF TypeOK
  <2>2. CASE g \in skipWork
    <3>1. g \in skipWork \ skipDone BY <1>1, <2>2
    <3>2. /\ g \notin settled /\ dag.gate[g] \in dag.deps[g] \ released[g]
          /\ Walked(dag.gate[g], g)
      BY <3>1 DEF SkipInv
    <3> QED BY <1>1, <1>2, <1>9, <1>12, <2>1, <3>2
  <2>3. CASE g \in gated
    <3>1. g \notin settled BY <1>2, <2>1, <2>3 DEF SettledTerminal
    <3>2. g \notin freed BY <1>2, <2>3
    <3>3. released'[g] = released[g] BY <1>9, <2>1, <3>2
    <3>4. Walked(s, g)' BY <1>1, <1>13 DEF Walked
    <3> QED BY <1>1, <1>2, <1>5, <2>1, <2>3, <3>1, <3>3, <3>4
  <2> QED BY <1>1, <2>2, <2>3
<1>22. EdgeState'
  <2>1. OneFate(s) => nodeState'[s] = "Done"
    BY <1>4, <1>6, <1>7 DEF OneFate, BlockedHow
  <2>2. \A g \in Nodes : released[g] \subseteq Nodes BY DEF TypeOK
  <2> QED BY <1>1, <1>2, <1>5, <1>7, <1>9, <2>1, <2>2 DEF EdgeState, OneFate, GatedOn
<1>23. AfterCounted'
  <2>1. ASSUME NEW g \in Nodes, s \in dag.after[g], CountedOnce(g) PROVE ~Terminal(s)
    <3>1. dag.deps[s] \in SUBSET Nodes BY DEF ValidDag, DagType
    <3>2. \A d \in dag.deps[s] : d = dag.gate[s]
      BY <1>3, <2>1, <3>1, OnlyOne DEF CountedOnce
    <3> QED BY <1>6, <3>2 DEF BlockedHow, Terminal
  <2> QED BY <1>1, <1>8, <2>1, AfterCountedStep
<1>24. VerdictDispatched' BY <1>1, <1>11 DEF VerdictDispatched
<1>25. QuorumVerdictStands' BY <1>1 DEF QuorumVerdictStands, CountedOnce, Quorum
<1> QED BY <1>14, <1>15, <1>16, <1>17, <1>18, <1>19, <1>20, <1>21, <1>22, <1>23, <1>24, <1>25

LEMMA NextInv == IInv /\ [Next]_vars => IInv'
<1> SUFFICES ASSUME IInv, [Next]_vars PROVE IInv'
  OBVIOUS
<1>1. TypeOK' /\ ValidDag(dag)' BY NextType DEF IInv
<1> SUFFICES LoopInv' BY <1>1 DEF IInv
<1> USE DEF walkVars, history
<1>3. ASSUME NEW n \in Nodes, Dispatch(n) PROVE LoopInv'
  BY <1>1, <1>3, DispatchKept
<1>4. ASSUME NEW n \in Nodes, Refuse(n) PROVE LoopInv'
  BY <1>1, <1>4, QuietSteps DEF Refuse
<1>5. CASE Drained BY <1>1, <1>5, QuietSteps DEF Drained
<1>6. CASE TripCeiling BY <1>1, <1>6, QuietSteps DEF TripCeiling
<1>7. ASSUME NEW n \in Nodes, NEW outcome \in {"Done", "Failed"}, NEW says \in BOOLEAN,
             Join(n, outcome, says)
      PROVE LoopInv'
  BY <1>1, <1>7, JoinKept
<1>8. ASSUME NEW n \in Nodes, JoinPanicked(n) PROVE LoopInv'
  <2>1. tasks' \in SUBSET tasks BY <1>8 DEF JoinPanicked
  <2> QED BY <1>1, <1>8, <2>1, QuietSteps DEF JoinPanicked
<1>9. ASSUME NEW m \in Nodes, Release(m) PROVE LoopInv'
  BY <1>1, <1>9, ReleaseKept
<1>10. ASSUME NEW m \in Nodes, StartSkip(m) PROVE LoopInv'
  BY <1>1, <1>10, StartSkipKept
<1>11. ASSUME NEW s \in Nodes, Skip(s) PROVE LoopInv'
  BY <1>1, <1>11, SkipKept
<1>12. ASSUME NEW m \in Nodes, Block(m) PROVE LoopInv'
  BY <1>1, <1>12, BlockKept
<1>13. CASE EndSkip BY <1>1, <1>13, QuietSteps DEF EndSkip
<1>14. CASE EndWalk BY <1>1, <1>14, QuietSteps DEF EndWalk
<1>15. CASE Finish BY <1>1, <1>15, QuietSteps DEF Finish
<1>16. CASE UNCHANGED vars BY <1>1, <1>16, QuietSteps DEF vars
<1> HIDE DEF walkVars, history
<1> QED
  BY <1>3, <1>4, <1>5, <1>6, <1>7, <1>8, <1>9, <1>10, <1>11, <1>12, <1>13, <1>14,
     <1>15, <1>16 DEF Next, Loop, JoinNext

\* The inductive invariant holds in every reachable state of every run.
THEOREM Invariance == Spec => []IInv
<1>1. Init => IInv BY InitInv
<1>2. IInv /\ [Next]_vars => IInv' BY NextInv
<1> QED BY <1>1, <1>2, PTL DEF Spec

\* Every variable of the loop keeps its type, whatever the DAG.
THEOREM TypeCorrect == Spec => []TypeOK
<1>1. IInv => TypeOK BY DEF IInv
<1> QED BY <1>1, Invariance, PTL

\* in_degree is exact: no edge is counted off twice, so saturating_sub never has
\* anything to hide.
THEOREM InDegreeExact == Spec => []EdgeCountedOnce
<1>1. IInv => EdgeCountedOnce BY DEF IInv, LoopInv
<1> QED BY <1>1, Invariance, PTL

\* A task runs only when each dependency that has one fate is settled the way the
\* edge asks for.
THEOREM RunsWhenSettled == Spec => []DependenciesSettled
<1>1. IInv => DependenciesSettled
  <2> SUFFICES ASSUME IInv, NEW n \in tasks, NEW d \in dag.deps[n], OneFate(d)
               PROVE  nodeState[d] = IF GatedOn(n, d) THEN "Failed" ELSE "Done"
    BY DEF DependenciesSettled
  <2>1. n \in enqueued /\ n \in Nodes BY DEF IInv, TypeOK
  <2>2. d \in released[n] BY <2>1 DEF IInv, LoopInv, EnqueuedReady
  <2> QED BY <2>1, <2>2 DEF IInv, LoopInv, EdgeState
<1> QED BY <1>1, Invariance, PTL

\* An after edge holds its node back until the other end is terminal, where no
\* node that it waits for can be blocked twice.
THEOREM AfterEdgesOrder == Spec => []AfterEdgesHold
<1>1. IInv => AfterEdgesHold
  BY AfterEdgesSettled DEF IInv, TypeOK, AfterEdgesHold
<1> QED BY <1>1, Invariance, PTL

\* A quorum verdict never goes stale, under the same condition.
THEOREM QuorumSound == Spec => []QuorumVerdictStands
<1>1. IInv => QuorumVerdictStands BY DEF IInv, LoopInv
<1> QED BY <1>1, Invariance, PTL

\* The terminal state of a node with one fate is never rewritten.
THEOREM TerminalFinal == Spec => TerminalStateFinal
<1> DEFINE Kept == \A n \in Nodes : OneFate(n) /\ Terminal(n) => nodeState'[n] = nodeState[n]
<1>1. IInv /\ [Next]_vars => [Kept]_vars
  <2> SUFFICES ASSUME IInv, Next, NEW n \in Nodes, OneFate(n), Terminal(n)
               PROVE  nodeState'[n] = nodeState[n]
    OBVIOUS
  <2> USE DEF IInv, LoopInv
  <2>1. ASSUME NEW k \in Nodes, NEW outcome \in {"Done", "Failed"}, NEW says \in BOOLEAN,
               Join(k, outcome, says)
        PROVE  nodeState'[n] = nodeState[n]
    BY <2>1 DEF Join, TasksPending, TypeOK
  <2>2. ASSUME NEW s \in Nodes, Skip(s) PROVE nodeState'[n] = nodeState[n]
    BY <2>2 DEF Skip, TypeOK
  <2>3. ASSUME NEW m \in Nodes, Block(m) PROVE nodeState'[n] = nodeState[n]
    <3>1. /\ m \in todo /\ nodeState' = [nodeState EXCEPT ![m] = "Blocked"]
          /\ dag.gate[m] # fin /\ pc = "walk"
      BY <2>3 DEF Block, GatedOn
    <3>2. fin \in settled /\ fin \in dag.deps[m] /\ fin \notin released[m]
      BY <3>1 DEF WalkInv, TypeOK
    <3>3. CASE m = n
      <4>1. n \notin enqueued BY <3>2, <3>3 DEF EnqueuedReady
      <4>2. dag.gate[n] = NoNode BY <3>1, <3>2, <3>3 DEF OneFate
      <4>3. n \notin settled BY <4>1, <4>2 DEF SettledHow
      <4>4. nodeState[n] = "Blocked"
        BY <4>3 DEF SettledTerminal, TypeOK, Statuses, Terminal
      <4> QED BY <3>1, <3>3, <4>4 DEF TypeOK
    <3> QED BY <3>1, <3>3 DEF TypeOK
  <2>4. (UNCHANGED nodeState) => nodeState'[n] = nodeState[n] OBVIOUS
  <2>5. \/ UNCHANGED nodeState
        \/ \E k \in Nodes, outcome \in {"Done", "Failed"}, says \in BOOLEAN :
             Join(k, outcome, says)
        \/ \E s \in Nodes : Skip(s)
        \/ \E m \in Nodes : Block(m)
    BY DEF Next, Loop, JoinNext, Dispatch, Refuse, Drained, TripCeiling,
           JoinPanicked, Release, StartSkip, EndSkip, EndWalk, Finish
  <2> QED BY <2>1, <2>2, <2>3, <2>4, <2>5
<1> QED BY <1>1, Invariance, PTL DEF Spec, TerminalStateFinal

-----------------------------------------------------------------------------
(* No wakeup is lost                                                       *)

LEMMA InitWake == Init /\ IInv => WakeInv
<1> SUFFICES ASSUME Init, IInv PROVE WakeInv
  OBVIOUS
<1>1. ZeroEnqueued /\ EnqueuedLives /\ UncountedEnds /\ SkippedSettled /\ QueueDrained
  BY DEF Init, ZeroEnqueued, EnqueuedLives, UncountedEnds, Walked, SkippedSettled,
         QueueDrained
<1>2. AfterAtMost
  <2>1. \A n \in Nodes : {a \in dag.after[n] : ~Terminal(a)} = dag.after[n]
    BY DEF Init, Terminal, IInv, ValidDag, DagType
  <2>2. \A n \in Nodes : afterPending[n] = Cardinality(dag.after[n]) BY DEF Init
  <2>3. \A n \in Nodes : afterPending[n] \in Nat BY DEF IInv, TypeOK
  <2> SUFFICES ASSUME NEW n \in Nodes
               PROVE  afterPending[n] <= Cardinality({a \in dag.after[n] : ~Terminal(a)})
    BY DEF AfterAtMost
  <2>4. afterPending[n] = Cardinality({a \in dag.after[n] : ~Terminal(a)}) BY <2>1, <2>2
  <2>5. afterPending[n] \in Nat BY <2>3
  <2> QED BY <2>4, <2>5
<1> QED BY <1>1, <1>2 DEF WakeInv

\* Counting off the after edges of a node that is terminal from now on.
LEMMA AfterAtMostStep ==
  ASSUME IInv, AfterAtMost, UNCHANGED dag, NEW n \in Nodes, CountAfter(n),
         Terminal(n)', \A m \in Nodes \ {n} : Terminal(m)' = Terminal(m)
  PROVE  AfterAtMost'
<1> SUFFICES ASSUME NEW m \in Nodes
             PROVE  afterPending'[m] <= Cardinality({a \in dag.after[m] : ~Terminal(a)'})
  BY DEF AfterAtMost
<1> DEFINE W == {a \in dag.after[m] : ~Terminal(a)}
<1>1. dag.after[m] \in SUBSET Nodes BY DEF IInv, ValidDag, DagType
<1>2. W \in SUBSET Nodes BY <1>1
<1>3. afterPending[m] <= Cardinality(W) BY DEF AfterAtMost
<1>4. /\ afterPending'[m] = IF n \in dag.after[m] /\ afterPending[m] > 0
                            THEN afterPending[m] - 1 ELSE afterPending[m]
      /\ afterPending[m] \in Nat
  BY CountAfterEffect DEF IInv, TypeOK
<1>5. {a \in dag.after[m] : ~Terminal(a)'} = W \ {n} BY <1>1
<1>6. n \in W => n \in dag.after[m] OBVIOUS
<1> HIDE DEF W
<1>7. W \ {n} \in SUBSET Nodes BY <1>2
<1>8. Cardinality(W) \in Nat /\ Cardinality(W \ {n}) \in Nat BY <1>2, <1>7, NodeSets
<1>9. ASSUME n \in W PROVE afterPending'[m] <= Cardinality(W \ {n})
  <2>1. Cardinality(W \ {n}) = Cardinality(W) - 1 BY <1>2, <1>9, OneLess
  <2> QED BY <1>3, <1>4, <1>6, <1>8, <1>9, <2>1
<1>10. ASSUME n \notin W PROVE afterPending'[m] <= Cardinality(W \ {n})
  <2>1. W \ {n} = W BY <1>10
  <2>2. afterPending'[m] <= Cardinality(W) BY <1>3, <1>4, <1>8
  <2> QED BY <2>1, <2>2, Zenon
<1>11. afterPending'[m] <= Cardinality(W \ {n}) BY <1>9, <1>10
<1> QED BY <1>5, <1>11, Zenon

\* The nodes whose counters a step changed are given to try_enqueue!.
LEMMA ZeroEnqueuedStep ==
  ASSUME IInv, ZeroEnqueued, EnqueuedLives, NEW S \in SUBSET Nodes, TryEnqueue(S),
         \A m \in Nodes \ S : inDegree'[m] = inDegree[m] /\ afterPending'[m] = afterPending[m]
  PROVE  /\ ZeroEnqueued'
         /\ \A m \in enqueued' : m \in enqueued \/ m \in ready'
         /\ ready \subseteq ready'
<1>1. TypeOK BY DEF IInv
<1>2. /\ enqueued \subseteq enqueued'
      /\ \A m \in S : inDegree'[m] = 0 /\ afterPending'[m] = 0 => m \in enqueued'
      /\ ready' = ready \cup (enqueued' \ enqueued)
  BY <1>1, TryEnqueueEffect
<1> QED BY <1>2 DEF ZeroEnqueued

\* The steps that change no counter, no node state and no history.
LEMMA QuietWake ==
  ASSUME IInv, WakeInv, TypeOK',
         UNCHANGED <<dag, nodeState, inDegree, afterPending, enqueued, released, settled>>,
         \A n \in enqueued : n \in tasks \/ n \in ready =>
           Terminal(n) \/ n \in tasks' \/ n \in ready' \/ MayPanic,
         \A d, m : Walked(d, m)' => Walked(d, m),
         \A n \in Nodes : n \in skipWork \ skipDone => n \in skipWork' \ skipDone',
         skipDone' \subseteq skipDone,
         QueueDrained'
  PROVE  WakeInv'
<1> USE DEF WakeInv
<1>1. ZeroEnqueued' BY DEF ZeroEnqueued
<1>2. EnqueuedLives' BY DEF EnqueuedLives, Terminal
<1>3. AfterAtMost' BY DEF AfterAtMost, Terminal
<1>4. UncountedEnds' BY DEF UncountedEnds, Terminal
<1>5. SkippedSettled' BY DEF SkippedSettled
<1> QED BY <1>1, <1>2, <1>3, <1>4, <1>5

LEMMA JoinWake ==
  ASSUME IInv, IInv', WakeInv, NEW n \in Nodes, NEW outcome \in {"Done", "Failed"},
         NEW says \in BOOLEAN, Join(n, outcome, says)
  PROVE  WakeInv'
<1> USE DEF WakeInv
<1>1. /\ pc = "join" /\ n \in tasks /\ pc' = "walk"
      /\ tasks' = tasks \ {n}
      /\ nodeState' = [nodeState EXCEPT ![n] = outcome]
      /\ CountAfter(n) /\ TryEnqueue(Waiting(n))
      /\ settled' = settled \cup {n} /\ fin' = n /\ todo' = Dependents(n)
      /\ UNCHANGED <<dag, inDegree, released, skipWork, skipDone>>
  BY DEF Join
<1>2. /\ Terminal(n)' /\ \A m \in Nodes \ {n} : Terminal(m)' = Terminal(m)
  BY <1>1 DEF IInv, TypeOK, Terminal
<1>3. Waiting(n) \in SUBSET Nodes BY DEF Waiting, AfterDependents
<1>4. \A m \in Nodes \ Waiting(n) :
        inDegree'[m] = inDegree[m] /\ afterPending'[m] = afterPending[m]
  BY <1>1 DEF CountAfter
<1>5. /\ ZeroEnqueued'
      /\ \A m \in enqueued' : m \in enqueued \/ m \in ready'
      /\ ready \subseteq ready'
  BY <1>1, <1>3, <1>4, ZeroEnqueuedStep
<1>6. EnqueuedLives'
  <2> SUFFICES ASSUME NEW m \in enqueued', m # n
               PROVE  Terminal(m)' \/ m \in tasks' \/ m \in ready' \/ MayPanic
    BY <1>2 DEF EnqueuedLives
  <2>1. m \in Nodes BY DEF IInv, TypeOK
  <2>2. m \in ready' \/ m \in enqueued BY <1>5
  <2>3. Terminal(m)' = Terminal(m) /\ (m \in tasks => m \in tasks') BY <1>1, <1>2, <2>1
  <2> QED BY <1>5, <2>2, <2>3 DEF EnqueuedLives
<1>7. AfterAtMost' BY <1>1, <1>2, AfterAtMostStep
<1>8. fin \notin Nodes BY <1>1, NodesAssumption DEF IInv, TypeOK
<1>9. UncountedEnds'
  <2> SUFFICES ASSUME NEW m \in Nodes, NEW d \in dag.deps[m] \ released[m], Walked(d, m)'
               PROVE  Terminal(m)' \/ m \in skipWork' \ skipDone'
    BY <1>1 DEF UncountedEnds
  <2>1. d \in Nodes BY DEF IInv, ValidDag, DagType
  <2>2. d # n BY <1>1 DEF Walked, Dependents
  <2>3. Walked(d, m) BY <1>1, <1>8, <2>1, <2>2 DEF Walked
  <2> QED BY <1>1, <1>2, <2>3 DEF UncountedEnds
<1>10. SkippedSettled' /\ QueueDrained' BY <1>1 DEF SkippedSettled, QueueDrained
<1> QED BY <1>5, <1>6, <1>7, <1>9, <1>10

LEMMA ReleaseWake ==
  ASSUME IInv, IInv', WakeInv, NEW m \in Nodes, Release(m)
  PROVE  WakeInv'
<1> USE DEF WakeInv
<1>1. /\ pc = "walk" /\ m \in todo
      /\ todo' = todo \ {m} /\ CountDegree(fin, {m}) /\ TryEnqueue({m})
      /\ UNCHANGED <<dag, nodeState, afterPending, tasks, pc, fin, skipWork,
                     skipDone, settled>>
  BY DEF Release
<1>2. fin \in Nodes BY <1>1 DEF IInv, TypeOK
<1>3. /\ \A g \in Nodes \ {m} : inDegree'[g] = inDegree[g] /\ released'[g] = released[g]
      /\ released'[m] = released[m] \cup {fin}
  BY <1>1, <1>2, CountDegreeEffect DEF IInv
<1>4. /\ ZeroEnqueued'
      /\ \A g \in enqueued' : g \in enqueued \/ g \in ready'
      /\ ready \subseteq ready'
  BY <1>1, <1>3, ZeroEnqueuedStep
<1>5. EnqueuedLives' BY <1>1, <1>4 DEF EnqueuedLives, Terminal
<1>6. AfterAtMost' BY <1>1 DEF AfterAtMost, Terminal
<1>7. UncountedEnds'
  <2> SUFFICES ASSUME NEW g \in Nodes, NEW d \in dag.deps[g] \ released'[g], Walked(d, g)'
               PROVE  Terminal(g) \/ g \in skipWork \ skipDone
    BY <1>1 DEF UncountedEnds, Terminal
  <2>1. d \notin released[g] /\ ~(d = fin /\ g = m) BY <1>3
  <2>2. Walked(d, g) BY <1>1, <2>1 DEF Walked
  <2> QED BY <2>1, <2>2 DEF UncountedEnds
<1>8. SkippedSettled' /\ QueueDrained' BY <1>1 DEF SkippedSettled, QueueDrained
<1> QED BY <1>4, <1>5, <1>6, <1>7, <1>8

LEMMA StartSkipWake ==
  ASSUME IInv, IInv', WakeInv, NEW m \in Nodes, StartSkip(m)
  PROVE  WakeInv'
<1> USE DEF WakeInv
<1>1. /\ pc = "walk" /\ m \in todo /\ todo' = todo \ {m} /\ skipWork' = {m}
      /\ skipDone' = {} /\ pc' = "skip"
      /\ UNCHANGED <<dag, nodeState, inDegree, afterPending, ready, enqueued, tasks,
                     fin, released, settled>>
  BY DEF StartSkip, history
<1>2. ZeroEnqueued' /\ EnqueuedLives' /\ AfterAtMost' /\ SkippedSettled' /\ QueueDrained'
  BY <1>1 DEF ZeroEnqueued, EnqueuedLives, AfterAtMost, SkippedSettled, QueueDrained,
              Terminal
<1>3. skipWork = {} BY <1>1 DEF IInv, LoopInv, SkipInv
<1>4. \A d, g : Walked(d, g)' => Walked(d, g) \/ g = m BY <1>1 DEF Walked
<1>5. UncountedEnds' BY <1>1, <1>3, <1>4 DEF UncountedEnds, Terminal
<1> QED BY <1>2, <1>5

LEMMA BlockWake ==
  ASSUME IInv, IInv', WakeInv, NEW m \in Nodes, Block(m)
  PROVE  WakeInv'
<1> USE DEF WakeInv
<1>1. /\ pc = "walk" /\ todo' = todo \ {m}
      /\ nodeState' = [nodeState EXCEPT ![m] = "Blocked"]
      /\ CountAfter(m) /\ TryEnqueue(Waiting(m))
      /\ UNCHANGED <<dag, inDegree, released, tasks, pc, fin, skipWork, skipDone, settled>>
  BY DEF Block
<1>2. /\ Terminal(m)' /\ \A g \in Nodes \ {m} : Terminal(g)' = Terminal(g)
  BY <1>1 DEF IInv, TypeOK, Terminal
<1>3. Waiting(m) \in SUBSET Nodes BY DEF Waiting, AfterDependents
<1>4. \A g \in Nodes \ Waiting(m) :
        inDegree'[g] = inDegree[g] /\ afterPending'[g] = afterPending[g]
  BY <1>1 DEF CountAfter
<1>5. /\ ZeroEnqueued'
      /\ \A g \in enqueued' : g \in enqueued \/ g \in ready'
      /\ ready \subseteq ready'
  BY <1>1, <1>3, <1>4, ZeroEnqueuedStep
<1>6. EnqueuedLives' BY <1>1, <1>2, <1>5 DEF EnqueuedLives, IInv, TypeOK
<1>7. AfterAtMost' BY <1>1, <1>2, AfterAtMostStep
<1>8. \A d, g : Walked(d, g)' => Walked(d, g) \/ g = m BY <1>1 DEF Walked
<1>9. UncountedEnds' BY <1>1, <1>2, <1>8 DEF UncountedEnds
<1>10. SkippedSettled' /\ QueueDrained' BY <1>1 DEF SkippedSettled, QueueDrained
<1> QED BY <1>5, <1>6, <1>7, <1>9, <1>10

LEMMA SkipWake ==
  ASSUME IInv, IInv', WakeInv, NEW s \in Nodes, Skip(s)
  PROVE  WakeInv'
<1> USE DEF WakeInv
<1> DEFINE nested == {g \in Dependents(s) : ~Terminal(g)}
           gated  == {g \in nested : GatedOn(g, s)}
           freed  == nested \ gated
<1>1. /\ pc = "skip" /\ s \in skipWork \ skipDone
      /\ skipDone' = skipDone \cup {s} /\ settled' = settled \cup {s}
      /\ skipWork' = (skipWork \ {s}) \cup gated
      /\ IF Terminal(s) THEN nodeState' = nodeState
         ELSE nodeState' = [nodeState EXCEPT ![s] = "Done"]
      /\ CountAfter(s) /\ CountDegree(s, freed) /\ TryEnqueue(Waiting(s) \cup freed)
      /\ UNCHANGED <<dag, tasks, pc, fin, todo>>
  BY DEF Skip
<1>2. /\ freed \in SUBSET Nodes /\ Waiting(s) \cup freed \in SUBSET Nodes
      /\ \A g \in gated : ~Terminal(g)
      /\ \A g \in Nodes : s \in dag.deps[g] => Terminal(g) \/ g \in freed \/ g \in gated
  <2>1. nested \in SUBSET Nodes /\ Waiting(s) \in SUBSET Nodes
    BY DEF Waiting, AfterDependents, Dependents
  <2>2. /\ \A g \in nested : ~Terminal(g)
        /\ \A g \in Nodes : s \in dag.deps[g] => Terminal(g) \/ g \in nested
    BY DEF Dependents
  <2>3. gated \subseteq nested /\ freed = nested \ gated OBVIOUS
  <2> HIDE DEF nested, gated, freed
  <2> QED BY <2>1, <2>2, <2>3
<1> HIDE DEF nested, gated, freed
<1>3. /\ Terminal(s)' /\ \A g \in Nodes \ {s} : Terminal(g)' = Terminal(g)
  BY <1>1 DEF IInv, TypeOK, Terminal
<1>4. /\ \A g \in Nodes : g \notin freed =>
           inDegree'[g] = inDegree[g] /\ released'[g] = released[g]
      /\ \A g \in freed : released'[g] = released[g] \cup {s}
  BY <1>1, <1>2, CountDegreeEffect DEF IInv
<1>5. \A g \in Nodes \ (Waiting(s) \cup freed) :
        inDegree'[g] = inDegree[g] /\ afterPending'[g] = afterPending[g]
  BY <1>1, <1>4 DEF CountAfter
<1>6. /\ ZeroEnqueued'
      /\ \A g \in enqueued' : g \in enqueued \/ g \in ready'
      /\ ready \subseteq ready'
  BY <1>1, <1>2, <1>5, ZeroEnqueuedStep
<1>7. EnqueuedLives' BY <1>1, <1>3, <1>6 DEF EnqueuedLives, IInv, TypeOK
<1>8. AfterAtMost' BY <1>1, <1>3, AfterAtMostStep
<1>9. UncountedEnds'
  <2> SUFFICES ASSUME NEW g \in Nodes, NEW d \in dag.deps[g] \ released'[g], Walked(d, g)'
               PROVE  Terminal(g)' \/ g \in skipWork' \ skipDone'
    BY <1>1 DEF UncountedEnds
  <2>1. d \notin released[g] BY <1>4
  <2>2. CASE d = s
    <3>1. g \notin freed BY <1>4, <2>2
    <3>2. CASE Terminal(g) BY <1>3, <3>2
    <3>3. CASE g \in gated
      <4>1. g \notin settled
        BY <1>2, <3>3 DEF IInv, LoopInv, SettledTerminal
      <4> QED BY <1>1, <1>3, <3>3, <4>1 DEF SkippedSettled
    <3> QED BY <1>2, <2>2, <3>1, <3>2, <3>3
  <2>3. CASE d # s
    <3>1. Walked(d, g) BY <1>1, <2>3 DEF Walked
    <3> QED BY <1>1, <1>3, <2>1, <3>1 DEF UncountedEnds
  <2> QED BY <2>2, <2>3
<1>10. SkippedSettled' /\ QueueDrained' BY <1>1 DEF SkippedSettled, QueueDrained
<1> QED BY <1>6, <1>7, <1>8, <1>9, <1>10

LEMMA NextWake == IInv /\ IInv' /\ WakeInv /\ [Next]_vars => WakeInv'
<1> SUFFICES ASSUME IInv, IInv', WakeInv, [Next]_vars PROVE WakeInv'
  OBVIOUS
<1> USE DEF walkVars, history
<1>1. TypeOK /\ TypeOK' BY DEF IInv
<1>3. ASSUME NEW n \in Nodes, Dispatch(n) PROVE WakeInv'
  BY <1>1, <1>3, QuietWake DEF Dispatch, Walked, WakeInv, QueueDrained
<1>4. ASSUME NEW n \in Nodes, Refuse(n) PROVE WakeInv'
  BY <1>1, <1>4, QuietWake DEF Refuse, Walked, WakeInv, QueueDrained
<1>5. CASE Drained
  BY <1>1, <1>5, QuietWake DEF Drained, Walked, WakeInv, QueueDrained
<1>6. CASE TripCeiling
  BY <1>1, <1>6, QuietWake DEF TripCeiling, Walked, WakeInv, QueueDrained
<1>7. ASSUME NEW n \in Nodes, NEW outcome \in {"Done", "Failed"}, NEW says \in BOOLEAN,
             Join(n, outcome, says)
      PROVE WakeInv'
  BY <1>7, JoinWake
<1>8. ASSUME NEW n \in Nodes, JoinPanicked(n) PROVE WakeInv'
  BY <1>1, <1>8, QuietWake DEF JoinPanicked, Walked, WakeInv, QueueDrained
<1>9. ASSUME NEW m \in Nodes, Release(m) PROVE WakeInv'
  BY <1>9, ReleaseWake
<1>10. ASSUME NEW m \in Nodes, StartSkip(m) PROVE WakeInv'
  BY <1>10, StartSkipWake
<1>11. ASSUME NEW s \in Nodes, Skip(s) PROVE WakeInv'
  BY <1>11, SkipWake
<1>12. ASSUME NEW m \in Nodes, Block(m) PROVE WakeInv'
  BY <1>12, BlockWake
<1>13. CASE EndSkip
  BY <1>1, <1>13, QuietWake DEF EndSkip, Walked, WakeInv, QueueDrained
<1>14. CASE EndWalk
  BY <1>1, <1>14, QuietWake DEF EndWalk, Walked, WakeInv, QueueDrained
<1>15. CASE Finish
  BY <1>1, <1>15, QuietWake DEF Finish, Walked, WakeInv, QueueDrained
<1>16. CASE UNCHANGED vars
  BY <1>1, <1>16, QuietWake DEF vars, Walked, WakeInv, QueueDrained
<1> QED
  BY <1>3, <1>4, <1>5, <1>6, <1>7, <1>8, <1>9, <1>10, <1>11, <1>12, <1>13, <1>14,
     <1>15, <1>16 DEF Next, Loop, JoinNext

\* When the loop ends, whatever is still Pending hangs on something Blocked or
\* Pending, was refused by the budget gate, or lost its task to a panic.
THEOREM NoLostWakeup == Spec => []NothingRunnableLeft
<1>1. IInv /\ WakeInv => NothingRunnableLeft
  <2> SUFFICES ASSUME IInv, WakeInv, pc = "done", NEW n \in Nodes, ~Terminal(n),
                      \A d \in dag.deps[n] : nodeState[d] \notin {"Blocked", "Pending"},
                      \A a \in dag.after[n] : Terminal(a)
               PROVE  \/ breach /\ n \in ready
                      \/ MayPanic /\ n \in enqueued \ ready
    BY DEF NothingRunnableLeft
  <2> USE DEF IInv, LoopInv, WakeInv
  <2>1. /\ dag.deps[n] \in SUBSET Nodes /\ dag.after[n] \in SUBSET Nodes
    BY DEF ValidDag, DagType
  <2>2. fin \notin Nodes /\ skipWork = {} BY NodesAssumption DEF TypeOK, SkipInv
  <2>3. \A d \in dag.deps[n] : Walked(d, n)
    BY <2>1, <2>2 DEF SettledTerminal, TypeOK, Statuses, Walked
  <2>4. dag.deps[n] \ released[n] = {} BY <2>2, <2>3 DEF UncountedEnds
  <2>5. inDegree[n] = 0
    <3>1. inDegree[n] = Cardinality(dag.deps[n] \ released[n]) BY DEF EdgeCountedOnce
    <3> QED BY <2>4, <3>1, FS_EmptySet, Zenon
  <2>6. afterPending[n] = 0
    <3>1. {a \in dag.after[n] : ~Terminal(a)} = {} OBVIOUS
    <3>2. afterPending[n] <= Cardinality({a \in dag.after[n] : ~Terminal(a)})
      BY DEF AfterAtMost
    <3>3. Cardinality({a \in dag.after[n] : ~Terminal(a)}) = 0
      BY <3>1, FS_EmptySet, Zenon
    <3>4. afterPending[n] <= 0 BY <3>2, <3>3, Zenon
    <3> QED BY <3>4 DEF TypeOK
  <2>7. n \in enqueued BY <2>5, <2>6 DEF ZeroEnqueued
  <2>8. n \in ready \/ MayPanic BY <2>7 DEF EnqueuedLives, QueueDrained
  <2>9. n \in ready => breach BY DEF QueueDrained
  <2> QED BY <2>7, <2>8, <2>9
<1>2. Init => IInv /\ WakeInv BY InitInv, InitWake
<1>3. (IInv /\ WakeInv) /\ [Next]_vars => (IInv /\ WakeInv)' BY NextInv, NextWake
<1> QED BY <1>1, <1>2, <1>3, PTL DEF Spec
-----------------------------------------------------------------------------
(* The queue holds Pending nodes only                                      *)

\* What a step must do about its nodes for the queue to stay sound: a queued node
\* does not end, and a node that has ended outside the queue stays outside.
LEMMA QueueStep ==
  ASSUME IInv, IInv', QueueInv,
         enqueued \subseteq enqueued', ready' = ready \cup (enqueued' \ enqueued),
         tasks' \in SUBSET tasks,
         \A n \in ready : Terminal(n)' => Terminal(n),
         \A n \in Nodes \ enqueued : Terminal(n)' => UnqueuedEnd(n)'
  PROVE  QueueInv'
<1> USE DEF IInv, LoopInv, QueueInv
<1>1. enqueued' \subseteq Nodes /\ tasks \subseteq enqueued BY DEF TypeOK
<1>2. \A n \in enqueued' : released'[n] = dag'.deps[n] BY DEF EnqueuedReady
<1>3. \A n \in enqueued' \ enqueued : ~Terminal(n)' BY <1>1, <1>2 DEF UnqueuedEnd
<1>4. QueuedPending' BY <1>3 DEF QueuedPending
<1>5. tasks' \cap ready' = {} BY <1>1
<1>6. \A n \in Nodes : Terminal(n)' => n \in enqueued' \/ UnqueuedEnd(n)' OBVIOUS
<1> QED BY <1>4, <1>5, <1>6

\* The steps that end no node and count no edge.
LEMMA QuietQueue ==
  ASSUME IInv, IInv', QueueInv,
         UNCHANGED <<dag, nodeState, enqueued, released>>,
         ready' \cup tasks' \subseteq ready \cup tasks,
         tasks' \cap ready' = {},
         ready' \subseteq ready,
         \A d, m : Walked(d, m) => Walked(d, m)'
  PROVE  QueueInv'
BY DEF QueueInv, QueuedPending, Terminal, UnqueuedEnd

LEMMA JoinQueue ==
  ASSUME IInv, IInv', QueueInv, NEW n \in Nodes, NEW outcome \in {"Done", "Failed"},
         NEW says \in BOOLEAN, Join(n, outcome, says)
  PROVE  QueueInv'
<1>1. /\ pc = "join" /\ n \in tasks /\ tasks' = tasks \ {n}
      /\ nodeState' = [nodeState EXCEPT ![n] = outcome]
      /\ TryEnqueue(Waiting(n)) /\ todo' = Dependents(n)
      /\ settled' = settled \cup {n} /\ fin' = n
      /\ UNCHANGED <<dag, released>>
  BY DEF Join
<1>2. TypeOK /\ TypeOK' /\ n \in enqueued BY <1>1 DEF IInv, TypeOK
<1>3. /\ enqueued \subseteq enqueued'
      /\ ready' = ready \cup (enqueued' \ enqueued)
  <2>1. Waiting(n) \in SUBSET Nodes BY DEF Waiting, AfterDependents
  <2> QED BY <1>1, <1>2, <2>1, TryEnqueueEffect
<1>4. \A k \in Nodes \ {n} : nodeState'[k] = nodeState[k] BY <1>1, <1>2 DEF TypeOK
<1>5. n \notin ready BY <1>1 DEF QueueInv
<1>6. \A k \in ready : Terminal(k)' => Terminal(k)
  BY <1>2, <1>4, <1>5 DEF Terminal, TypeOK
<1>7. \A d \in Nodes, m \in Nodes : Walked(d, m) => Walked(d, m)'
  <2>1. n \notin settled
    BY <1>1 DEF IInv, LoopInv, TasksPending, SettledTerminal
  <2> QED BY <1>1, <2>1 DEF Walked
<1>8. ASSUME NEW k \in Nodes \ enqueued, Terminal(k)' PROVE UnqueuedEnd(k)'
  <2>1. Terminal(k) BY <1>2, <1>4, <1>8 DEF Terminal
  <2>2. PICK d \in dag.deps[k] \ released[k] : Walked(d, k)
    BY <1>8, <2>1 DEF QueueInv, UnqueuedEnd
  <2>3. d \in Nodes BY <1>8, <2>2 DEF IInv, ValidDag, DagType
  <2> QED BY <1>1, <1>7, <2>2, <2>3 DEF UnqueuedEnd
<1>9. tasks' \in SUBSET tasks BY <1>1
<1> QED BY <1>3, <1>6, <1>8, <1>9, QueueStep

LEMMA ReleaseQueue ==
  ASSUME IInv, IInv', QueueInv, NEW m \in Nodes, Release(m)
  PROVE  QueueInv'
<1>1. /\ pc = "walk" /\ m \in todo /\ todo' = todo \ {m}
      /\ CountDegree(fin, {m}) /\ TryEnqueue({m})
      /\ UNCHANGED <<dag, nodeState, tasks, fin, settled>>
  BY DEF Release
<1>2. TypeOK /\ TypeOK' /\ fin \in Nodes BY <1>1, NodesAssumption DEF IInv, TypeOK
<1>3. /\ enqueued \subseteq enqueued'
      /\ ready' = ready \cup (enqueued' \ enqueued)
  BY <1>1, <1>2, TryEnqueueEffect
<1>4. /\ \A k \in Nodes : k # m => released'[k] = released[k]
      /\ released'[m] = released[m] \cup {fin}
  BY <1>1, <1>2, CountDegreeEffect
<1>5. ASSUME NEW k \in Nodes \ enqueued, Terminal(k)' PROVE UnqueuedEnd(k)'
  <2>1. PICK d \in dag.deps[k] \ released[k] : Walked(d, k)
    BY <1>1, <1>5 DEF QueueInv, UnqueuedEnd, Terminal
  <2>2. Walked(d, k)' BY <1>1, <2>1 DEF Walked
  <2>3. d \notin released'[k]
    <3>1. CASE k = m /\ d = fin BY <1>1, <2>1, <3>1 DEF Walked
    <3>2. CASE ~(k = m /\ d = fin) BY <1>4, <2>1, <3>2
    <3> QED BY <3>1, <3>2
  <2> QED BY <1>1, <2>1, <2>2, <2>3 DEF UnqueuedEnd
<1>6. \A k \in ready : Terminal(k)' => Terminal(k) BY <1>1 DEF Terminal
<1> QED BY <1>1, <1>3, <1>5, <1>6, QueueStep

LEMMA BlockQueue ==
  ASSUME IInv, IInv', QueueInv, NEW m \in Nodes, Block(m)
  PROVE  QueueInv'
<1>1. /\ pc = "walk" /\ m \in todo /\ todo' = todo \ {m}
      /\ nodeState' = [nodeState EXCEPT ![m] = "Blocked"]
      /\ TryEnqueue(Waiting(m))
      /\ UNCHANGED <<dag, released, tasks, fin, settled>>
  BY DEF Block
<1>2. TypeOK /\ TypeOK' /\ fin \in Nodes BY <1>1, NodesAssumption DEF IInv, TypeOK
<1>3. /\ fin \in settled /\ fin \in dag.deps[m] /\ fin \notin released[m]
  BY <1>1, <1>2, NodesAssumption DEF IInv, LoopInv, WalkInv
<1>4. m \notin enqueued BY <1>3 DEF IInv, LoopInv, EnqueuedReady
<1>5. /\ enqueued \subseteq enqueued'
      /\ ready' = ready \cup (enqueued' \ enqueued)
  <2>1. Waiting(m) \in SUBSET Nodes BY DEF Waiting, AfterDependents
  <2> QED BY <1>1, <1>2, <2>1, TryEnqueueEffect
<1>6. \A k \in Nodes \ {m} : nodeState'[k] = nodeState[k] BY <1>1, <1>2 DEF TypeOK
<1>7. \A k \in ready : Terminal(k)' => Terminal(k)
  BY <1>2, <1>4, <1>6 DEF Terminal, TypeOK
<1>8. ASSUME NEW k \in Nodes \ enqueued, Terminal(k)' PROVE UnqueuedEnd(k)'
  <2>1. CASE k = m
    <3>1. Walked(fin, m)' BY <1>1, <1>3 DEF Walked
    <3> QED BY <1>1, <1>3, <2>1, <3>1 DEF UnqueuedEnd
  <2>2. CASE k # m
    <3>1. Terminal(k) BY <1>6, <1>8, <2>2 DEF Terminal
    <3>2. PICK d \in dag.deps[k] \ released[k] : Walked(d, k)
      BY <1>8, <3>1 DEF QueueInv, UnqueuedEnd
    <3>3. Walked(d, k)' BY <1>1, <3>2 DEF Walked
    <3> QED BY <1>1, <3>2, <3>3 DEF UnqueuedEnd
  <2> QED BY <2>1, <2>2
<1>9. tasks' \in SUBSET tasks BY <1>1
<1> QED BY <1>5, <1>7, <1>8, <1>9, QueueStep

LEMMA SkipQueue ==
  ASSUME IInv, IInv', QueueInv, NEW s \in Nodes, Skip(s)
  PROVE  QueueInv'
<1> DEFINE nested == {g \in Dependents(s) : ~Terminal(g)}
           gated  == {g \in nested : GatedOn(g, s)}
           freed  == nested \ gated
<1>1. /\ pc = "skip" /\ s \in skipWork \ skipDone
      /\ settled' = settled \cup {s}
      /\ IF Terminal(s) THEN nodeState' = nodeState
         ELSE nodeState' = [nodeState EXCEPT ![s] = "Done"]
      /\ CountDegree(s, freed) /\ TryEnqueue(Waiting(s) \cup freed)
      /\ UNCHANGED <<dag, tasks, fin, todo>>
  BY DEF Skip
<1>2. /\ TypeOK /\ TypeOK' /\ Waiting(s) \in SUBSET Nodes /\ freed \in SUBSET Nodes
  BY DEF IInv, Waiting, AfterDependents, Dependents
<1>3. /\ s \notin settled
      /\ dag.gate[s] \in dag.deps[s] \ released[s]
      /\ Walked(dag.gate[s], s)
  BY <1>1 DEF IInv, LoopInv, SkipInv
<1>4. s \notin enqueued BY <1>3 DEF IInv, LoopInv, EnqueuedReady
<1>5. /\ enqueued \subseteq enqueued'
      /\ ready' = ready \cup (enqueued' \ enqueued)
  <2>1. Waiting(s) \cup freed \in SUBSET Nodes BY <1>2
  <2> QED BY <1>1, <1>2, <2>1, TryEnqueueEffect
<1>6. \A k \in Nodes : released'[k] \subseteq released[k] \cup {s}
  <2> HIDE DEF freed
  <2>1. /\ \A k \in Nodes : k \notin freed => released'[k] = released[k]
        /\ \A k \in freed : released'[k] = released[k] \cup {s}
    BY <1>1, <1>2, CountDegreeEffect
  <2> QED BY <2>1
<1>7. \A k \in Nodes \ {s} : nodeState'[k] = nodeState[k] BY <1>1, <1>2 DEF TypeOK
<1>8. \A k \in ready : Terminal(k)' => Terminal(k)
  BY <1>2, <1>4, <1>7 DEF Terminal, TypeOK
<1>9. \A d, k : Walked(d, k) => Walked(d, k)' BY <1>1 DEF Walked
<1>10. ASSUME NEW k \in Nodes \ enqueued, Terminal(k)' PROVE UnqueuedEnd(k)'
  <2>1. PICK d \in dag.deps[k] \ released[k] : Walked(d, k)
    <3>1. CASE k = s BY <1>3, <3>1
    <3>2. CASE k # s
      <4>1. Terminal(k) BY <1>7, <1>10, <3>2 DEF Terminal
      <4> QED BY <1>10, <4>1 DEF QueueInv, UnqueuedEnd
    <3> QED BY <3>1, <3>2
  <2>2. d # s BY <1>3, <2>1 DEF Walked
  <2>3. d \notin released'[k] BY <1>6, <2>1, <2>2
  <2> QED BY <1>1, <1>9, <2>1, <2>3 DEF UnqueuedEnd
<1>11. tasks' \in SUBSET tasks BY <1>1
<1> QED BY <1>5, <1>8, <1>10, <1>11, QueueStep

LEMMA NextQueue == IInv /\ IInv' /\ QueueInv /\ [Next]_vars => QueueInv'
<1> SUFFICES ASSUME IInv, IInv', QueueInv, [Next]_vars PROVE QueueInv'
  OBVIOUS
<1> USE DEF walkVars, history
<1>3. ASSUME NEW n \in Nodes, Dispatch(n) PROVE QueueInv'
  BY <1>3, QuietQueue DEF Dispatch, Walked, QueueInv
<1>4. ASSUME NEW n \in Nodes, Refuse(n) PROVE QueueInv'
  BY <1>4, QuietQueue DEF Refuse, Walked, QueueInv
<1>5. CASE Drained BY <1>5, QuietQueue DEF Drained, Walked, QueueInv
<1>6. CASE TripCeiling BY <1>6, QuietQueue DEF TripCeiling, Walked, QueueInv
<1>7. ASSUME NEW n \in Nodes, NEW outcome \in {"Done", "Failed"}, NEW says \in BOOLEAN,
             Join(n, outcome, says)
      PROVE QueueInv'
  BY <1>7, JoinQueue
<1>8. ASSUME NEW n \in Nodes, JoinPanicked(n) PROVE QueueInv'
  BY <1>8, QuietQueue DEF JoinPanicked, Walked, QueueInv
<1>9. ASSUME NEW m \in Nodes, Release(m) PROVE QueueInv'
  BY <1>9, ReleaseQueue
<1>10. ASSUME NEW m \in Nodes, StartSkip(m) PROVE QueueInv'
  BY <1>10, QuietQueue DEF StartSkip, Walked, QueueInv
<1>11. ASSUME NEW s \in Nodes, Skip(s) PROVE QueueInv'
  BY <1>11, SkipQueue
<1>12. ASSUME NEW m \in Nodes, Block(m) PROVE QueueInv'
  BY <1>12, BlockQueue
<1>13. CASE EndSkip BY <1>13, QuietQueue DEF EndSkip, Walked, QueueInv
<1>14. CASE EndWalk
  <2>1. \A d, m : Walked(d, m) => Walked(d, m)' BY <1>14 DEF EndWalk, Walked
  <2> QED BY <1>14, <2>1, QuietQueue DEF EndWalk, QueueInv
<1>15. CASE Finish BY <1>15, QuietQueue DEF Finish, Walked, QueueInv
<1>16. CASE UNCHANGED vars BY <1>16, QuietQueue DEF vars, Walked, QueueInv
<1> HIDE DEF walkVars, history
<1> QED
  BY <1>3, <1>4, <1>5, <1>6, <1>7, <1>8, <1>9, <1>10, <1>11, <1>12, <1>13, <1>14,
     <1>15, <1>16 DEF Next, Loop, JoinNext

\* A node in the queue is Pending, whatever the DAG: the check the drain makes when it
\* pops one finds nothing.
THEOREM QueueSound == Spec => []QueuedPending
<1>1. Init => IInv /\ QueueInv
  BY InitInv DEF Init, QueueInv, QueuedPending, Terminal
<1>2. (IInv /\ QueueInv) /\ [Next]_vars => (IInv /\ QueueInv)' BY NextInv, NextQueue
<1>3. QueueInv => QueuedPending BY DEF QueueInv
<1> QED BY <1>1, <1>2, <1>3, PTL DEF Spec
-----------------------------------------------------------------------------
(* The loop implements WatchSnapshot                                       *)

\* A node that is recorded is in the order afterwards, and the others as before.
LEMMA RecordTerminalEffect ==
  ASSUME TypeOK, NEW n \in Nodes, RecordTerminal(n)
  PROVE  /\ n \in Range(terminalOrder')
         /\ \A m \in Nodes \ {n} : m \in Range(terminalOrder') <=> m \in Range(terminalOrder)
<1>1. CASE n \in Range(terminalOrder) BY <1>1 DEF RecordTerminal
<1>2. CASE n \notin Range(terminalOrder)
  <2>1. terminalOrder' = Append(terminalOrder, n) /\ terminalOrder \in Seq(Nodes)
    BY <1>2 DEF RecordTerminal, TypeOK
  <2>2. /\ Len(terminalOrder') = Len(terminalOrder) + 1
        /\ terminalOrder'[Len(terminalOrder) + 1] = n
        /\ \A i \in 1..Len(terminalOrder) : terminalOrder'[i] = terminalOrder[i]
    BY <2>1
  <2>3. /\ DOMAIN terminalOrder = 1..Len(terminalOrder)
        /\ DOMAIN terminalOrder' = 1..(Len(terminalOrder) + 1)
        /\ Len(terminalOrder) \in Nat
    BY <2>1, <2>2
  <2>4. \A i \in 1..(Len(terminalOrder) + 1) :
          i \in 1..Len(terminalOrder) \/ i = Len(terminalOrder) + 1
    BY <2>3
  <2>5. n \in Range(terminalOrder')
    <3>1. Len(terminalOrder) + 1 \in 1..(Len(terminalOrder) + 1) BY <2>3
    <3> QED BY <2>2, <2>3, <3>1 DEF Range
  <2>6. ASSUME NEW m \in Nodes \ {n}
        PROVE  m \in Range(terminalOrder') <=> m \in Range(terminalOrder)
    <3>1. ASSUME m \in Range(terminalOrder) PROVE m \in Range(terminalOrder')
      <4>1. PICK i \in 1..Len(terminalOrder) : terminalOrder[i] = m BY <2>3, <3>1 DEF Range
      <4>2. i \in 1..(Len(terminalOrder) + 1) BY <2>3
      <4> QED BY <2>2, <2>3, <4>1, <4>2 DEF Range
    <3>2. ASSUME m \in Range(terminalOrder') PROVE m \in Range(terminalOrder)
      <4>1. PICK i \in 1..(Len(terminalOrder) + 1) : terminalOrder'[i] = m
        BY <2>3, <3>2 DEF Range
      <4>2. i \in 1..Len(terminalOrder) BY <2>2, <2>4, <4>1
      <4> QED BY <2>2, <2>3, <4>1, <4>2 DEF Range
    <3> QED BY <3>1, <3>2
  <2> QED BY <2>5, <2>6
<1> QED BY <1>1, <1>2

\* The steps that publish a node are Join, Skip and Block; the others leave the
\* snapshot alone, except that Finish ends it.
LEMMA PublishingSteps ==
  ASSUME Next
  PROVE  \/ UNCHANGED <<nodeState, terminalOrder>>
            /\ ((pc' = "done" <=> pc = "done") \/ Finish)
         \/ \E n \in Nodes, outcome \in {"Done", "Failed"}, says \in BOOLEAN :
              Join(n, outcome, says)
         \/ \E s \in Nodes : Skip(s)
         \/ \E m \in Nodes : Block(m)
BY DEF Next, Loop, JoinNext, Dispatch, Refuse, Drained, TripCeiling, JoinPanicked,
       Release, StartSkip, EndSkip, EndWalk, Finish

\* What a join publishes: a node that was Pending, with the outcome of its task.
LEMMA JoinPublishes ==
  ASSUME IInv, WatchInv, NEW n \in Nodes, NEW outcome \in {"Done", "Failed"},
         NEW says \in BOOLEAN, Join(n, outcome, says)
  PROVE  Watched!Publish(n, outcome) /\ WatchInv'
<1> USE DEF IInv
<1>1. /\ pc = "join" /\ pc' = "walk" /\ n \in tasks /\ n \in enqueued
      /\ nodeState' = [nodeState EXCEPT ![n] = outcome]
      /\ RecordTerminal(n)
  BY DEF Join, TypeOK
<1>2. nodeState[n] = "Pending" BY <1>1 DEF LoopInv, TasksPending, Terminal
<1>3. n \notin Range(terminalOrder) BY <1>2 DEF WatchInv, OrderListed, Terminal
<1>4. terminalOrder' = Append(terminalOrder, n) BY <1>1, <1>3 DEF RecordTerminal
<1>5. Watched!Publish(n, outcome) BY <1>1, <1>2, <1>4 DEF Watched!Publish
<1>6. /\ nodeState'[n] = outcome
      /\ \A m \in Nodes \ {n} : nodeState'[m] = nodeState[m]
  BY <1>1 DEF TypeOK
<1>7. enqueued \subseteq enqueued' BY DEF Join, TryEnqueue
<1>8. FailedRan' BY <1>1, <1>6, <1>7 DEF WatchInv, FailedRan
<1>9. OrderListed'
  BY <1>1, <1>6, RecordTerminalEffect DEF WatchInv, OrderListed, Terminal
<1> QED BY <1>5, <1>8, <1>9 DEF WatchInv

\* What a turn of the skip worklist publishes: a Pending node as Done, or nothing.
LEMMA SkipPublishes ==
  ASSUME IInv, WatchInv, NEW s \in Nodes, Skip(s)
  PROVE  /\ Watched!Publish(s, "Done") \/ UNCHANGED <<nodeState, terminalOrder, pc>>
         /\ WatchInv'
<1> USE DEF IInv
<1>1. pc = "skip" /\ pc' = "skip" /\ enqueued \subseteq enqueued'
  BY DEF Skip, TryEnqueue
<1>2. CASE Terminal(s)
  <2>1. UNCHANGED <<nodeState, terminalOrder, pc>> BY <1>1, <1>2 DEF Skip
  <2> QED BY <1>1, <2>1 DEF WatchInv, FailedRan, OrderListed, Terminal
<1>3. CASE ~Terminal(s)
  <2>1. nodeState' = [nodeState EXCEPT ![s] = "Done"] /\ RecordTerminal(s)
    BY <1>3 DEF Skip
  <2>2. s \notin Range(terminalOrder) /\ nodeState[s] = "Pending"
    BY <1>3 DEF WatchInv, OrderListed, Terminal
  <2>3. terminalOrder' = Append(terminalOrder, s) BY <2>1, <2>2 DEF RecordTerminal
  <2>4. Watched!Publish(s, "Done") BY <1>1, <2>1, <2>2, <2>3 DEF Watched!Publish
  <2>5. /\ nodeState'[s] = "Done"
        /\ \A m \in Nodes \ {s} : nodeState'[m] = nodeState[m]
    BY <2>1 DEF TypeOK
  <2>6. FailedRan' BY <1>1, <2>5 DEF WatchInv, FailedRan
  <2>7. OrderListed'
    BY <2>1, <2>5, RecordTerminalEffect DEF WatchInv, OrderListed, Terminal
  <2> QED BY <2>4, <2>6, <2>7 DEF WatchInv
<1> QED BY <1>2, <1>3

\* What a failed node's walk publishes: a Pending node as Blocked, or a skipped one that
\* is Done and becomes Blocked in its place.  A node that failed itself is not met: it
\* was dispatched, so no edge into it is left to be walked.
LEMMA BlockPublishes ==
  ASSUME IInv, WatchInv, NEW m \in Nodes, Block(m)
  PROVE  /\ \/ Watched!Publish(m, "Blocked") \/ Watched!Overwrite(m)
            \/ UNCHANGED <<nodeState, terminalOrder, pc>>
         /\ WatchInv'
<1> USE DEF IInv, LoopInv
<1>1. /\ pc = "walk" /\ pc' = "walk" /\ m \in todo
      /\ nodeState' = [nodeState EXCEPT ![m] = "Blocked"]
      /\ RecordTerminal(m) /\ enqueued \subseteq enqueued'
  BY DEF Block, TryEnqueue
<1>2. m \notin enqueued BY <1>1 DEF WalkInv, EnqueuedReady, TypeOK
<1>3. nodeState[m] # "Failed" BY <1>2 DEF WatchInv, FailedRan
<1>4. /\ nodeState'[m] = "Blocked"
      /\ \A n \in Nodes \ {m} : nodeState'[n] = nodeState[n]
  BY <1>1 DEF TypeOK
<1>5. WatchInv'
  <2>1. FailedRan' BY <1>1, <1>4 DEF WatchInv, FailedRan
  <2>2. OrderListed'
    BY <1>1, <1>4, RecordTerminalEffect DEF WatchInv, OrderListed, Terminal
  <2> QED BY <2>1, <2>2 DEF WatchInv
<1>6. CASE nodeState[m] = "Pending"
  <2>1. m \notin Range(terminalOrder) BY <1>6 DEF WatchInv, OrderListed, Terminal
  <2>2. terminalOrder' = Append(terminalOrder, m) BY <1>1, <2>1 DEF RecordTerminal
  <2>3. Watched!Publish(m, "Blocked") BY <1>1, <1>6, <2>2 DEF Watched!Publish
  <2> QED BY <1>5, <2>3
<1>7. CASE nodeState[m] # "Pending"
  <2>1. m \in Range(terminalOrder) BY <1>7 DEF WatchInv, OrderListed, Terminal
  <2>2. terminalOrder' = terminalOrder BY <1>1, <2>1 DEF RecordTerminal
  <2>3. CASE nodeState[m] = "Done"
    <3>1. Watched!Overwrite(m) BY <1>1, <2>2, <2>3 DEF Watched!Overwrite
    <3> QED BY <1>5, <3>1
  <2>4. CASE nodeState[m] = "Blocked"
    <3>1. nodeState' = nodeState BY <1>1, <2>4 DEF TypeOK
    <3> QED BY <1>1, <1>5, <2>2, <3>1
  <2> QED BY <1>3, <1>7, <2>3, <2>4 DEF TypeOK, Statuses
<1> QED BY <1>6, <1>7

\* Every step of the loop is a step of WatchSnapshot, or leaves the snapshot alone.
LEMMA StepWatched ==
  IInv /\ WatchInv /\ [Next]_vars => [Watched!Next]_(Watched!snapVars) /\ WatchInv'
<1> SUFFICES ASSUME IInv, WatchInv, [Next]_vars
             PROVE  [Watched!Next]_(Watched!snapVars) /\ WatchInv'
  OBVIOUS
<1>1. ASSUME UNCHANGED <<nodeState, terminalOrder, pc>>
      PROVE  UNCHANGED Watched!snapVars
  BY <1>1 DEF Watched!snapVars
<1>2. ASSUME NEW n \in Nodes, NEW outcome \in {"Done", "Failed"}, NEW says \in BOOLEAN,
             Join(n, outcome, says)
      PROVE  Watched!Next /\ WatchInv'
  BY <1>2, JoinPublishes DEF Watched!Next, Watched!Outcomes
<1>3. ASSUME NEW s \in Nodes, Skip(s)
      PROVE  [Watched!Next]_(Watched!snapVars) /\ WatchInv'
  BY <1>1, <1>3, SkipPublishes DEF Watched!Next, Watched!Outcomes
<1>4. ASSUME NEW m \in Nodes, Block(m)
      PROVE  [Watched!Next]_(Watched!snapVars) /\ WatchInv'
  BY <1>1, <1>4, BlockPublishes DEF Watched!Next, Watched!Outcomes
<1>5. ASSUME UNCHANGED <<nodeState, terminalOrder>>, enqueued \subseteq enqueued'
      PROVE  WatchInv'
  BY <1>5 DEF WatchInv, FailedRan, OrderListed, Terminal
<1>6. CASE UNCHANGED vars BY <1>1, <1>5, <1>6 DEF vars
<1>7. CASE Finish
  <2>1. /\ pc = "join" /\ pc' = "done" /\ UNCHANGED <<nodeState, terminalOrder, enqueued>>
    BY <1>7 DEF Finish
  <2>2. Watched!End BY <2>1 DEF Watched!End
  <2> QED BY <1>5, <2>1, <2>2 DEF Watched!Next
<1>8. CASE Next /\ UNCHANGED <<nodeState, terminalOrder>> /\ (pc' = "done" <=> pc = "done")
  <2>1. enqueued \subseteq enqueued'
    BY <1>8 DEF Next, Loop, JoinNext, Dispatch, Refuse, Drained, TripCeiling, JoinPanicked,
       Release, StartSkip, EndSkip, EndWalk, Finish, Join, Skip, Block, TryEnqueue, history
  <2>2. UNCHANGED Watched!snapVars BY <1>8 DEF Watched!snapVars
  <2> QED BY <1>5, <1>8, <2>1, <2>2
<1> QED BY <1>2, <1>3, <1>4, <1>6, <1>7, <1>8, PublishingSteps

\* What the run publishes is what its watchers rely on: a node is listed once, when it
\* becomes terminal, only Done may turn into Blocked, and nothing changes after dag_done.
\* This is the safety part of RunContract; its liveness part is checked on instances.
THEOREM ImplementsWatch == Spec => Watched!Spec
<1>1. Init => Watched!Init BY DEF Init, Watched!Init
<1>2. Init => WatchInv
  BY DEF Init, WatchInv, FailedRan, OrderListed, Terminal, Range
<1>3. IInv /\ WatchInv /\ [Next]_vars => [Watched!Next]_(Watched!snapVars) /\ WatchInv'
  BY StepWatched
<1> QED BY <1>1, <1>2, <1>3, Invariance, PTL DEF Spec, Watched!Spec

=============================================================================
