------------------------------ MODULE Workflow ------------------------------
(***************************************************************************)
(* Workflow templates (src/workflow/mod.rs): how WorkflowEngine::expand    *)
(* makes the DAG document of `pidag sdd` from a template and a number of   *)
(* iterations, and the two templates that are built in.                    *)
(*                                                                         *)
(* An id in a template is, as in DagExpand, the sequence of its parts;     *)
(* "{n}" and "{n-1}" are parts.  The texts of commands and prompts, their  *)
(* other placeholders and the models are left out.                         *)
(***************************************************************************)
EXTENDS DagExpand

This     == "{n}"
Previous == "{n-1}"

\* substitute(), in iteration n; static nodes are expanded with n = 0.
Substituted(id, n) ==
  [i \in DOMAIN id |-> CASE id[i] = This     -> ToString(n)
                         [] id[i] = Previous -> IF n > 0 THEN ToString(n - 1) ELSE ""
                         [] OTHER            -> id[i]]

SubstitutedAll(list, n) == [i \in DOMAIN list |-> Substituted(list[i], n)]

\* expand_node; the items of a for_each list are taken as they are.
ExpandNode(node, n) ==
  [node EXCEPT !.id = Substituted(@, n), !.deps = SubstitutedAll(@, n),
               !.after = SubstitutedAll(@, n), !.gate = Substituted(@, n),
               !.refs = SubstitutedAll(@, n)]

LooksBack(id) == Contains(id, Previous)

\* Mutant: the gate on the previous iteration is dropped in every iteration.
PrunedGates(node, n) ==
  LET kept(list) == SelectSeq(list, LAMBDA id : n > 1 \/ ~LooksBack(id))
  IN  [node EXCEPT !.deps = kept(@), !.after = kept(@),
                   !.gate = IF LooksBack(@) THEN NoId ELSE @]

\* The first iteration has no edges to a previous one.
Pruned(node, n) ==
  LET kept(list) == SelectSeq(list, LAMBDA id : ~LooksBack(id))
  IN  IF n > 1 THEN node
      ELSE [node EXCEPT !.deps = kept(@), !.after = kept(@),
                        !.gate = IF LooksBack(@) THEN NoId ELSE @]

\* The nodes of iteration n, section by section.
Iteration(template, n) ==
  FlattenSeq([k \in DOMAIN template.repeat |->
    LET section == template.repeat[k]
    IN  IF n < section.start THEN <<>>
        ELSE [i \in DOMAIN section.nodes |-> ExpandNode(Pruned(section.nodes[i], n), n)]])

\* WorkflowEngine::expand, up to Dag::expand and Dag::validate.
ExpandTemplate(template, iterations) ==
  [i \in DOMAIN template.nodes |-> ExpandNode(template.nodes[i], 0)]
    \o FlattenSeq([n \in 1 .. iterations |-> Iteration(template, n)])

\* How many iterations: --iterations, else the project's configuration unless it says 0,
\* else the template's own; an option not given is <<>>.
IterationsOf(override, configured, template) ==
  CASE override # <<>>            -> override[1]
    [] configured > 0             -> configured
    [] template.iterations # <<>> -> template.iterations[1]
    [] OTHER                      -> 3

-----------------------------------------------------------------------------
(* The built-in templates *)

Plain == [id |-> NoId, fans |-> FALSE, items |-> <<>>, deps |-> <<>>, after |-> <<>>,
          gate |-> NoId, counts |-> FALSE, of |-> <<>>, minPass |-> 0, refs |-> <<>>]

\* templates/sdd.toml
SddTemplate ==
  [iterations |-> <<3>>,
   nodes  |-> <<[Plain EXCEPT !.id = <<"validate-baseline">>],
                [Plain EXCEPT !.id = <<"implement-iter", "1">>]>>,
   repeat |->
     <<[start |-> 2,
        nodes |-> <<[Plain EXCEPT !.id   = <<"implement-iter", This>>,
                                  !.deps = <<<<"validate-iter", Previous>>>>,
                                  !.gate = <<"validate-iter", Previous>>,
                                  !.refs = <<<<"validate-iter", Previous>>>>]>>],
       [start |-> 1,
        nodes |-> <<[Plain EXCEPT !.id    = <<"quality-gate", This>>,
                                  !.after = <<<<"implement-iter", This>>>>],
                    [Plain EXCEPT !.id    = <<"validate-iter", This>>,
                                  !.after = <<<<"implement-iter", This>>,
                                              <<"quality-gate", This>>>>]>>]>>]

\* templates/research.toml
ResearchTemplate ==
  LET topics == [k \in 1 .. 3 |-> <<"investigate", ToString(k)>>] IN
  [iterations |-> <<>>,
   nodes  |-> [k \in 1 .. 3 |-> [Plain EXCEPT !.id = topics[k]]]
              \o <<[Plain EXCEPT !.id = <<"synthesize">>, !.deps = topics, !.refs = topics],
                   [Plain EXCEPT !.id = <<"validate-research">>, !.after = <<<<"synthesize">>>>]>>,
   repeat |-> <<>>]
=============================================================================
