---------------------------- MODULE MCScheduler ----------------------------
(***************************************************************************)
(* Families of DAGs for model checking Scheduler.  Node ids are numbers,   *)
(* and edges point to smaller ones, which loses no DAG up to renaming.     *)
(***************************************************************************)
EXTENDS SchedulerInv

CONSTANTS N,         \* number of nodes
          MaxGates,  \* bound on the number of gated nodes in one DAG
          MinJoin,   \* the least number of nodes the joining node waits for
          MinPasses  \* values of min_pass for the joining node (0: not a quorum)

MCNodes == 1 .. N

\* The functions that map each of 1 .. n to a set of smaller numbers.
RECURSIVE EdgeSets(_)
EdgeSets(n) == IF n = 0 THEN {<<>>}
               ELSE {Append(f, S) : f \in EdgeSets(n - 1), S \in SUBSET (1 .. n - 1)}

RECURSIVE GatesOf(_, _)
GatesOf(deps, n) ==
  IF n = 0 THEN {<<>>}
  ELSE {Append(g, x) : g \in GatesOf(deps, n - 1), x \in deps[n] \cup {0}}

FewGates(g) == Cardinality({n \in MCNodes : g[n] # 0}) <= MaxGates

\* depends_on edges and gates, for the nodes of a DAG with these edges.
Gated(edges) ==
  UNION {{<<dp, g>> : g \in {g \in GatesOf(dp, N) : FewGates(g)}} : dp \in edges}

Const(x) == [n \in MCNodes |-> x]
AtLast(x, other) == [n \in MCNodes |-> IF n = N THEN x ELSE other]

\* Every DAG on N nodes without a quorum: two nodes have no edge, a depends_on
\* edge or an after edge between them.
PlainDags ==
  {[deps |-> x[1][1], gate |-> x[1][2], after |-> x[2], of |-> Const({}), minPass |-> Const(0)] :
     x \in {x \in Gated(EdgeSets(N)) \X EdgeSets(N) :
              \A n \in MCNodes : x[1][1][n] \cap x[2][n] = {}}}

\* Node N only waits, with after edges, as a validator or a quorum over the nodes
\* it waits for; the others have depends_on edges only.
JoinDags ==
  {[deps |-> x[1], gate |-> x[2], after |-> AtLast(A, {}),
    of |-> AtLast(IF k > 0 THEN A ELSE {}, {}), minPass |-> AtLast(k, 0)] :
     x \in Gated({dp \in EdgeSets(N) : dp[N] = {}}),
     A \in {A \in SUBSET (1 .. N - 1) : Cardinality(A) >= MinJoin},
     k \in MinPasses}

AllDags == PlainDags \cup JoinDags
=============================================================================
