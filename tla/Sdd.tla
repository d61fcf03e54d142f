--------------------------------- MODULE Sdd ---------------------------------
(***************************************************************************)
(* `pidag sdd <spec> --run` (src/sdd/mod.rs, src/cli/sdd.rs): the DAG that *)
(* the sdd template gives, run by the scheduling loop; and what `pidag     *)
(* auto` may do before, the split of a large spec.                         *)
(***************************************************************************)
EXTENDS Scheduler, Workflow, Split

CONSTANTS
  Configured,   \* max_iterations of the project's configuration
  MaxCriteria,  \* bound on the exit criteria of a spec, for SplitKeepsAll
  Names         \* modules that exit criteria may name

Rounds   == IterationsOf(<<>>, Configured, SddTemplate)
Document == ExpandTemplate(SddTemplate, Rounds)
SddDag   == AsDag(Expand(Document))

\* This DAG is run; no budget is configured and no task panics.
ASSUME SddAssumption == /\ Nodes = Ids(Expand(Document)) /\ Dags = {SddDag}
                        /\ ~MayPanic /\ ~MayBreach /\ Rounds \in Nat \ {0}

\* The built-in templates pass Dag::validate, whatever the number of iterations.
ASSUME TemplatesAccepted ==
  \A template \in {SddTemplate, ResearchTemplate}, n \in 0 .. 5 :
    Accepted(ExpandTemplate(template, n))

\* `pidag run` exits with 0 only if no node has failed (there is no breach).
ExitCode == IF \E n \in Nodes : nodeState[n] = "Failed" THEN 1 ELSE 0

-----------------------------------------------------------------------------
(* Properties *)

TheLoop == INSTANCE SddLoop WITH state <- nodeState, running <- tasks

\* Template, expansion and scheduling loop together implement the recovery loop: its steps
\* one at a time and in order, a repair only after a failed validation, and every round
\* validated, whatever fails.
LoopKept == TheLoop!FairSpec

\* KeepsAll for all these specs, asked before anything runs.
SplitKeepsAll ==
  terminalOrder = <<>> /\ tasks = {} =>
    KeepsAll(1 .. MaxCriteria, UNION {[1 .. k -> Names \cup {""}] : k \in 2 .. 5})

-----------------------------------------------------------------------------
(* What the documents promise, and the code does not keep: a run finds it violated. *)

\* "a DAG whose final validate passes after an earlier failure is still an overall
\* success - the recovery loop working is the point" (specs/25, T7).
RecoveredRunSucceeds ==
  pc = "done" /\ nodeState[<<"validate-iter", ToString(Rounds)>>] = "Done" => ExitCode = 0
=============================================================================
