------------------------------- MODULE SddLoop -------------------------------
(***************************************************************************)
(* What the recovery loop of `pidag sdd` promises (specs/25): implement,   *)
(* quality gate and validate follow each other, round after round, one at  *)
(* a time; a later round implements only if the validation before it       *)
(* failed, but every round is gated and validated, whatever fails; and the *)
(* loop ends.  The validation of the untouched project runs beside it.     *)
(***************************************************************************)
EXTENDS Naturals, TLC

CONSTANT Rounds   \* at least one

Baseline     == <<"validate-baseline">>
Implement(n) == <<"implement-iter", ToString(n)>>
Gate(n)      == <<"quality-gate", ToString(n)>>
Validate(n)  == <<"validate-iter", ToString(n)>>
Steps == {Baseline} \cup UNION {{Implement(n), Gate(n), Validate(n)} : n \in 1 .. Rounds}

VARIABLES
  state,     \* of each step: "Pending", "Done" or "Failed"
  running    \* the steps that are running

loopVars == <<state, running>>

Over(s) == state[s] # "Pending"

Init == state = [s \in Steps |-> "Pending"] /\ running = {}

Start(s) ==
  /\ ~Over(s) /\ s \notin running
  /\ running' = running \cup {s}
  /\ UNCHANGED state

End(s) ==
  /\ s \in running
  /\ running' = running \ {s}
  /\ \E outcome \in {"Done", "Failed"} : state' = [state EXCEPT ![s] = outcome]

Repairs(n)   == IF n = 1 THEN TRUE ELSE state[Validate(n - 1)] = "Failed"
Gates(n)     == Over(Implement(n))
Validates(n) == Over(Gate(n))

\* Nothing to repair: the step counts as done.
Skip(n) ==
  /\ n > 1 /\ state[Validate(n - 1)] = "Done" /\ ~Over(Implement(n))
  /\ state' = [state EXCEPT ![Implement(n)] = "Done"]
  /\ UNCHANGED running

Round(n) ==
  \/ Repairs(n) /\ Start(Implement(n))
  \/ Gates(n) /\ Start(Gate(n))
  \/ Validates(n) /\ Start(Validate(n))
  \/ End(Implement(n)) \/ End(Gate(n)) \/ End(Validate(n))
  \/ Skip(n)

Next == Start(Baseline) \/ End(Baseline) \/ \E n \in 1 .. Rounds : Round(n)

Spec     == Init /\ [][Next]_loopVars
FairSpec == Spec /\ WF_loopVars(Next)
=============================================================================
