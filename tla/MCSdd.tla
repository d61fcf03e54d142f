------------------------------- MODULE MCSdd -------------------------------
(* The nodes of the recovery loop with three rounds, for model checking Sdd. *)
EXTENDS Sdd

MCNodes == {<<"validate-baseline">>}
           \cup ({"implement-iter", "quality-gate", "validate-iter"} \X {"1", "2", "3"})
MCDags  == {SddDag}
=============================================================================
