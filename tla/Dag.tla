--------------------------------- MODULE Dag ---------------------------------
(***************************************************************************)
(* What the scheduling loop reads of a DAG (src/core/dag.rs), and what it  *)
(* may rely on.  Module DagExpand shows that Dag::expand and Dag::validate *)
(* deliver it.                                                             *)
(***************************************************************************)
EXTENDS Integers, FiniteSets

CONSTANTS
  Nodes,        \* node ids
  NoNode        \* "no gate", and "no node being processed"

\* A gate "<X>:fail" is X; a gate on a node that is not in depends_on is never looked at,
\* so it is the same as no gate.  minPass[n] = 0 says that n is not a quorum node.
DagType == [deps    : [Nodes -> SUBSET Nodes],
            after   : [Nodes -> SUBSET Nodes],
            gate    : [Nodes -> Nodes \cup {NoNode}],
            of      : [Nodes -> SUBSET Nodes],
            minPass : [Nodes -> Nat]]

\* Dag::validate, and what Dag::expand leaves behind for quorum nodes.
ValidDag(d) ==
  /\ d \in DagType
  /\ \A S \in (SUBSET Nodes) \ {{}} :        \* no cycle, over both kinds of edge
       \E n \in S : (d.deps[n] \cup d.after[n]) \cap S = {}
  /\ \A n \in Nodes :
       /\ d.gate[n] \in d.deps[n] \cup {NoNode}
       /\ d.of[n] \subseteq d.after[n]
       /\ d.minPass[n] <= Cardinality(d.of[n])
       /\ d.minPass[n] = 0 => d.of[n] = {}

ASSUME NodesAssumption == IsFiniteSet(Nodes) /\ NoNode \notin Nodes
=============================================================================
