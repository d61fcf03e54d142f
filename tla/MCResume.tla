------------------------------ MODULE MCResume ------------------------------
(* Commands and DAGs for model checking Resume. *)
EXTENDS Resume, MCScheduler

JustResume == {[resume |-> TRUE, retry |-> FALSE]}
AnyCommand == CommandType

\* The DAGs with depends_on edges only, and those with ordering edges to roots only.
DependsOnly == {d \in PlainDags : d.after = Const({})}
RootAfters  == {d \in PlainDags : /\ d.gate = Const(0)
                                  /\ \A n \in MCNodes : \A a \in d.after[n] : d.deps[a] = {}}
=============================================================================
