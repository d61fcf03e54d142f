------------------------------ MODULE MCQueue ------------------------------
(* A workspace for model checking Queue.                                   *)
EXTENDS Queue

\* Two projects that share a file name.
MCSpecs   == <<{1, 2}, {2}>>
MCWeights == {<<2, 4>>}
=============================================================================
