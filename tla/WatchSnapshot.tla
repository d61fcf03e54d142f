--------------------------- MODULE WatchSnapshot ---------------------------
(***************************************************************************)
(* What a run promises to whoever watches it: the Snapshot that execute()  *)
(* publishes on the watch channel (src/scheduler/mod.rs).  The scheduling  *)
(* loop of module Scheduler implements this specification, and the waiting *)
(* loops of module AwaitLoop rely on nothing else.                         *)
(***************************************************************************)
EXTENDS Naturals, Sequences, Functions

CONSTANT Nodes

VARIABLES
  state,   \* Snapshot.node_state; "Pending" when the node has no entry
  order,   \* Snapshot.terminal_order
  done     \* Snapshot.dag_done, published together with the report

snapVars == <<state, order, done>>

Outcomes == {"Done", "Failed", "Blocked"}

Init ==
  /\ state = [n \in Nodes |-> "Pending"]
  /\ order = <<>>
  /\ done = FALSE

\* A node becomes terminal, once, and is listed then.
Publish(n, outcome) ==
  /\ ~done /\ state[n] = "Pending"
  /\ state' = [state EXCEPT ![n] = outcome]
  /\ order' = Append(order, n)
  /\ UNCHANGED done

\* A node that was skipped, or succeeded, may still be blocked by a later failure.
\* It keeps its place in the order.
Overwrite(n) ==
  /\ ~done /\ state[n] = "Done"
  /\ state' = [state EXCEPT ![n] = "Blocked"]
  /\ UNCHANGED <<order, done>>

End ==
  /\ ~done /\ done' = TRUE
  /\ UNCHANGED <<state, order>>

Next == \/ \E n \in Nodes, outcome \in Outcomes : Publish(n, outcome)
        \/ \E n \in Nodes : Overwrite(n)
        \/ End

Spec     == Init /\ [][Next]_snapVars
FairSpec == Spec /\ WF_snapVars(Next)
=============================================================================
