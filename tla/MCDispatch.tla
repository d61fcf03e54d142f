----------------------------- MODULE MCDispatch -----------------------------
(* Batches, ceilings and carried counters for model checking Dispatch.     *)
EXTENDS Dispatch, Sequences

MCNodes == {1, 2}

Llm(models, attempts, backoff, critic) ==
  [shell |-> FALSE, models |-> models, attempts |-> attempts, backoff |-> backoff,
   critic |-> critic, baseline |-> FALSE]

\* One model tried twice, with a critic; a fallback model; a shell node with a critic;
\* verify_pre; a node left without a model.
Checked     == Llm(1, 2, FALSE, 1)
Fallback    == Llm(2, 1, TRUE, 0)
ShellCritic == [Checked EXCEPT !.shell = TRUE, !.models = 0]
Baseline    == [Llm(1, 1, FALSE, 0) EXCEPT !.baseline = TRUE]
NoModel     == Llm(0, 1, FALSE, 0)

MixedBatches ==
  {<<Checked, Checked>>, <<Checked, ShellCritic>>,
   <<Fallback, Baseline>>, <<ShellCritic, ShellCritic>>, <<ShellCritic, NoModel>>}
SimpleBatches == {[n \in MCNodes |-> Llm(1, 1, FALSE, 0)]}

Run(calls, tokens, permits) == [calls |-> calls, tokens |-> tokens, permits |-> permits]
MixedLimits == {Run(c[1], c[2], permits) :
                  c \in {<<1, NoLimit>>, <<3, 1>>, <<NoLimit, 1>>}, permits \in {1, 2}}
NoLimits    == {Run(NoLimit, NoLimit, 2)}

Zero    == {[calls |-> 0, tokens |-> 0]}
Resumed == Zero \cup {[calls |-> 2, tokens |-> 0]}
=============================================================================
