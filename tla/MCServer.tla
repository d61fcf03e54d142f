------------------------------ MODULE MCServer ------------------------------
(* Vaults and batches of events for model checking Server.                 *)
EXTENDS Server, DagExpand

MCNodes == {1, 2}

\* A run of a version 1 vault that was interrupted when node 1 had ended.
Old(bad) ==
  [Empty(1) EXCEPT !.log = <<Event("Submitted", 0), Event("Dispatched", 1), Event("Done", 1),
                             Event("Dispatched", 2)>>,
                   !.state = <<"Done", "Running">>, !.artifact = <<3, 0>>,
                   !.timing = <<[start |-> 2, ended |-> TRUE], [start |-> 4, ended |-> FALSE]>>,
                   !.old = {1, 2}, !.bad = bad, !.row = "open"]

\* A new file, which has no version yet; one of each version; one that does not parse.
Files == {Empty(1), Old({}), Old({2}), Empty(3)}

NewFile == {Empty(1)}

\* Node 1 is dispatched; node 2 is one that is skipped or blocked.
MCBatches ==
  <<{<<"Dispatched", "Retry", "Failed">>, <<"Dispatched", "Critic", "Budget", "Done">>},
    {<<"Done">>}>>

-----------------------------------------------------------------------------
(* The documents that dag.submit may be given.                             *)

Plain(id) == [id |-> id, fans |-> FALSE, items |-> <<>>, deps |-> <<>>, after |-> <<>>,
              gate |-> NoId, counts |-> FALSE, of |-> <<>>, minPass |-> 0, refs |-> <<>>]

A == <<"a">>
B == <<"b">>
C == <<"c">>
AX == <<"a", "x">>
Z == <<"z">>

\* Three nodes with any edges of either kind between them, loops included.
EdgeDocs ==
  LET ids == <<A, B, C>>
      To(f, n, kind) == SelectSeq(ids, LAMBDA m : f[n, m] = kind)
  IN  {[i \in 1 .. 3 |-> [Plain(ids[i]) EXCEPT !.deps = To(f, ids[i], 1),
                                                !.after = To(f, ids[i], 2)]] :
         f \in [{A, B, C} \X {A, B, C} -> 0 .. 2]}

Fan(n, items) == [n EXCEPT !.fans = TRUE, !.items = items]
Count(n, of, k) == [n EXCEPT !.counts = TRUE, !.of = of, !.minPass = k]

\* Node a may be fanned out, with items whose names are taken; b refers to it, to one of
\* its children or to nothing there is; c may count them; a node may have a child's id.
ItemLists == {<<>>, <<"x">>, <<"x", "y">>, <<"x", "x">>, <<"2", "x", "x">>}
FanDocs ==
  {<<a, b, c>> \o rest :
     a \in {Plain(A)} \cup {Fan(Plain(A), items) : items \in ItemLists},
     b \in {[Plain(B) EXCEPT !.deps = d, !.gate = g, !.refs = r, !.fans = f,
                             !.items = IF f THEN <<"">> ELSE <<>>] :
              d \in {<<>>, <<A>>, <<AX>>, <<A, Z>>, <<C>>}, g \in {NoId, A, AX},
              r \in {<<>>, <<A>>}, f \in BOOLEAN},
     c \in {Plain(C), [Plain(C) EXCEPT !.after = <<B>>]} \cup
           {Count([Plain(C) EXCEPT !.after = f], of, k) : f \in {<<>>, <<A>>},
              of \in {<<A>>, <<A, B>>, <<Z>>}, k \in 0 .. 3},
     rest \in {<<>>, <<Plain(AX)>>}}

\* The server has been given nothing yet.
AtFirst == kept /\ db = Empty(1) /\ sessions = 0 /\ holder = Nobody

\* dag.submit accepts, of any document, just what the scheduler can run (ExpansionValid).
SubmittedValid == AtFirst => \A doc \in EdgeDocs \cup FanDocs : ExpansionValid(doc)

\* What it runs is what the author wrote, for each item of a list (ExpansionFaithful).
SubmittedFaithful == AtFirst => \A doc \in EdgeDocs \cup FanDocs : ExpansionFaithful(doc)
=============================================================================
