------------------------------ MODULE DagExpand ------------------------------
(***************************************************************************)
(* Dag::expand and Dag::validate (src/core/dag.rs): from the DAG an author *)
(* writes, with for_each lists and quorums, to the one the scheduler runs. *)
(* Both are functions; the properties state what they promise of a         *)
(* document, and the MC module asks it of a family of documents.           *)
(*                                                                         *)
(* An id is the sequence of its parts, which the code joins by "-"; an     *)
(* item of a for_each list is its slug.  A document is a sequence of       *)
(* records: id, fans and items (for_each), deps, after, gate, counts, of   *)
(* and minPass (quorum), refs (the ids of the placeholders in the prompt). *)
(* Texts, malformed placeholders and ids with a ":" are left out.          *)
(***************************************************************************)
EXTENDS Naturals, Sequences, SequencesExt, FiniteSets, TLC

NoId == <<>>

-----------------------------------------------------------------------------
(* Dag::expand *)

\* The child for the i-th item; with an index instead when the name is taken or empty.
ChildId(base, used, slug, i) ==
  LET indexed == Append(base, ToString(i - 1))
      named   == IF slug = "" THEN indexed ELSE Append(base, slug)
  IN  IF named \in used THEN indexed ELSE named

ChildIds(n) ==
  FoldLeft(LAMBDA ids, i : Append(ids, ChildId(n.id, ToSet(ids), n.items[i], i)),
           <<>>, [i \in DOMAIN n.items |-> i])

Children(n) ==
  IF ~n.fans THEN <<n>>
  ELSE [i \in DOMAIN n.items |-> [n EXCEPT !.id = ChildIds(n)[i], !.fans = FALSE, !.items = <<>>]]

IsParent(doc, id) == \E i \in DOMAIN doc : doc[i].fans /\ doc[i].id = id

\* parent_to_children, for one id.
ChildrenOf(doc, id) ==
  IF IsParent(doc, id)
  THEN ChildIds(doc[SelectLastInSeq(doc, LAMBDA n : n.fans /\ n.id = id)])
  ELSE <<id>>

\* Mutant: a reference to a fan-out is one to its first child.
FirstChildOnly(doc, list) == [i \in DOMAIN list |-> Head(ChildrenOf(doc, list[i]))]

\* expand_ref_list, and expand_output_refs: a reference to a fan-out is one to each child.
ExpandRefs(doc, list) == FlattenSeq([i \in DOMAIN list |-> ChildrenOf(doc, list[i])])

Rewritten(doc, n) ==
  [n EXCEPT !.deps = ExpandRefs(doc, @), !.after = ExpandRefs(doc, @),
            !.of = ExpandRefs(doc, @), !.refs = ExpandRefs(doc, @)]

\* A quorum waits for the nodes it counts, but does not depend on them.
Counting(n) ==
  [n EXCEPT !.after = FoldLeft(LAMBDA list, id : IF Contains(list, id) THEN list
                                                 ELSE Append(list, id), @, n.of)]

\* A for_each list may not be empty, and a gate may not name a fan-out.
Expands(doc) ==
  \A i \in DOMAIN doc : /\ doc[i].fans => doc[i].items # <<>>
                        /\ ~IsParent(doc, doc[i].gate)

Expand(doc) ==
  LET nodes == FlattenSeq([i \in DOMAIN doc |-> Children(doc[i])])
  IN  [i \in DOMAIN nodes |-> Counting(Rewritten(doc, nodes[i]))]

-----------------------------------------------------------------------------
(* Dag::validate *)

Ids(nodes)        == {nodes[i].id : i \in DOMAIN nodes}
First(nodes, id)  == nodes[SelectInSeq(nodes, LAMBDA n : n.id = id)]

\* Mutant: only depends_on edges are followed.
DependsOnly(n) == n.deps

Edges(n) == n.deps \o n.after

\* has_cycle_dfs: depth first from id; path is the recursion stack.
RECURSIVE Dfs(_, _, _, _)
Dfs(nodes, id, path, search) ==
  LET here  == path \cup {id}
      Visit(s, next) ==
        IF s.cyclic THEN s
        ELSE IF next \notin s.visited THEN Dfs(nodes, next, here, s)
        ELSE [s EXCEPT !.cyclic = next \in here]
  IN  FoldLeft(Visit, [search EXCEPT !.visited = @ \cup {id}],
               IF id \in Ids(nodes) THEN Edges(First(nodes, id)) ELSE <<>>)

HasCycle(nodes) ==
  LET From(s, n) == IF s.cyclic \/ n.id \in s.visited THEN s ELSE Dfs(nodes, n.id, {}, s)
  IN  FoldLeft(From, [visited |-> {}, cyclic |-> FALSE], nodes).cyclic

QuorumPossible(nodes, n) ==
  n.counts => ToSet(n.of) \subseteq Ids(nodes) /\ n.minPass \in 1 .. Len(n.of)

Validate(nodes) ==
  /\ \A n \in ToSet(nodes) :
       /\ QuorumPossible(nodes, n)
       /\ ToSet(Edges(n)) \subseteq Ids(nodes)
       /\ ToSet(n.refs) \subseteq Ids(nodes) \cap ToSet(Edges(n))
  /\ ~HasCycle(nodes)

\* dag.submit, `pidag run` and a workflow run a document that expands and validates.
Accepted(doc) == Expands(doc) /\ Validate(Expand(doc))

-----------------------------------------------------------------------------
(* Properties of a document *)

Indices == {"0", "1", "2"}

Distinct(nodes) == Cardinality(Ids(nodes)) = Len(nodes)

\* The nodes as the scheduler reads them.
AsDag(nodes) ==
  LET Node(id) == First(nodes, id) IN
  [deps    |-> [id \in Ids(nodes) |-> ToSet(Node(id).deps)],
   after   |-> [id \in Ids(nodes) |-> ToSet(Node(id).after)],
   gate    |-> [id \in Ids(nodes) |-> IF Contains(Node(id).deps, Node(id).gate)
                                      THEN Node(id).gate ELSE NoId],
   of      |-> [id \in Ids(nodes) |-> ToSet(Node(id).of)],
   minPass |-> [id \in Ids(nodes) |-> Node(id).minPass]]

Shape(ids) == INSTANCE Dag WITH Nodes <- ids, NoNode <- NoId

\* A document that expands is accepted exactly when the scheduler can rely on the result:
\* every edge leads to a node, there is no cycle over both kinds of edge, a quorum waits
\* for all it counts and may pass or fail, and a prompt quotes only nodes waited for;
\* provided ids are distinct, and no quorum counts a node twice.
ExpansionValid(doc) ==
  LET nodes == Expand(doc) IN
  Expands(doc) /\ Distinct(nodes) /\ (\A n \in ToSet(nodes) : Len(n.of) = Cardinality(ToSet(n.of)))
  => (Validate(nodes) <=>
        /\ Shape(Ids(nodes))!ValidDag(AsDag(nodes))
        /\ \A n \in ToSet(nodes) : (n.counts => n.minPass > 0)
                                   /\ ToSet(n.refs) \subseteq ToSet(Edges(n)))

\* No node has an id that a child may get, and no item is named like an index.  (Items whose
\* slug contains a "-" are left out.)
NoClash(doc) ==
  \A n \in {m \in ToSet(doc) : m.fans} :
    /\ \A m \in ToSet(doc) : m.id = NoId \/ Front(m.id) # n.id
    /\ ToSet(n.items) \cap Indices = {}

\* Every child waits for every child of what its parent waits for, and for nothing else;
\* a document may name a child too.  To expand again, as the scheduler does, changes
\* nothing.  Two nodes never get one id, which validate does not look at, unless the
\* author gave a child's id to another node or an index to an item.
ExpansionFaithful(doc) ==
  LET nodes == Expand(doc)
      Meant(n, list) == ToSet(ChildrenOf(doc, n.id))
                        \X UNION {ToSet(ChildrenOf(doc, id)) : id \in ToSet(list)}
  IN
  /\ Distinct(doc) /\ Expands(doc) /\ NoClash(doc) => Distinct(nodes)
  /\ Accepted(doc) /\ Distinct(nodes) /\ Distinct(doc) =>
       /\ UNION {{n.id} \X ToSet(n.deps) : n \in ToSet(nodes)}
            = UNION {Meant(n, n.deps) : n \in ToSet(doc)}
       /\ UNION {{n.id} \X ToSet(n.after) : n \in ToSet(nodes)}
            = UNION {Meant(n, n.after \o n.of) : n \in ToSet(doc)}
       /\ Expands(nodes) /\ Expand(nodes) = nodes
=============================================================================
