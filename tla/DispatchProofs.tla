--------------------------- MODULE DispatchProofs ---------------------------
(***************************************************************************)
(* Proofs about node tasks and the budget they share, for every set of     *)
(* nodes, every batch of plans, all ceilings and carried counters.         *)
(***************************************************************************)
EXTENDS Dispatch, FiniteSetTheorems, TLAPS

-----------------------------------------------------------------------------
(* The inductive invariant.                                                *)

Phases == {"none", "spawned", "call", "snap", "verify", "ended", "joined"}

DispatchTypeOK ==
  /\ plan \in [Nodes -> PlanType] /\ limits \in LimitType
  /\ pc \in {"drain", "join", "done"} /\ ready \subseteq Nodes
  /\ phase \in [Nodes -> Phases]
  /\ nested \in [Nodes -> BOOLEAN]
  /\ model \in [Nodes -> Nat] /\ attempt \in [Nodes -> Nat]
  /\ first \in [Nodes -> BOOLEAN]
  /\ answer \in [Nodes -> {"none", "ok", "invalid", "fail", "retryable"}]
  /\ posted \in [Nodes -> CounterType \cup {NoUsage}]
  /\ told \in [Nodes -> BOOLEAN]
  /\ result \in [Nodes -> {"none", "Done", "Failed"}]
  /\ counters \in CounterType /\ breach \in BOOLEAN
  /\ announced \in BOOLEAN /\ stored \in CounterType /\ start \in CounterType
  /\ reserved \in Nat /\ answers \in Nat

\* The flag is_first_call through a dispatch: up until the first answer, and up again when
\* the critic's dispatch begins.
FirstUntilAnswered ==
  \A n \in Nodes :
    /\ n \in ready => phase[n] = "none"
    /\ phase[n] \in {"none", "spawned"} => ~nested[n] /\ first[n]
    /\ phase[n] \in {"snap", "verify"} /\ Billed(n) => ~first[n]

\* The nodes whose slot is reserved for a first call that has not been answered.
Unanswered == {n \in Nodes : phase[n] # "none" /\ Billed(n) /\ first[n]}

CallsCounted == counters.calls = start.calls + answers + Cardinality(Unanswered)

\* What a task posts, and the vault stores, are counters that there were.
PostedSeen ==
  /\ start.calls + reserved <= counters.calls
  /\ stored.calls \in start.calls .. counters.calls
  /\ \A n \in Nodes : posted[n] # NoUsage => posted[n].calls \in start.calls .. counters.calls

\* A breach that the vault has not heard of is told by a task that is not joined yet, or
\* was there from the start, and the gate has not been asked.
BreachOnItsWay ==
  /\ breach /\ ~announced =>
       \/ \E n \in Nodes : told[n] /\ phase[n] \notin {"none", "joined"}
       \/ pc = "drain" /\ ready = Nodes
  /\ pc = "done" => \A n \in Nodes : phase[n] \in {"none", "joined"}

DispatchIInv ==
  /\ DispatchTypeOK /\ FirstUntilAnswered /\ CallsCounted /\ PostedSeen
  /\ ReservationsWithinLimit /\ OverspendNoticed

-----------------------------------------------------------------------------
(* What the parts of a step do.                                            *)

LEMMA TaskSets ==
  ASSUME NEW S \in SUBSET Nodes
  PROVE  IsFiniteSet(S) /\ Cardinality(S) \in Nat
BY DispatchAssumption, FS_Subset, FS_CardinalityType

\* A slot is reserved only below the ceiling.
LEMMA ReserveEffect ==
  ASSUME DispatchTypeOK, Reserve
  PROVE  /\ ~breach /\ breach' = breach
         /\ counters' \in CounterType
         /\ counters'.calls = counters.calls + 1 /\ counters'.tokens = counters.tokens
         /\ limits.calls # NoLimit => counters'.calls <= limits.calls
         /\ reserved' = reserved + 1
BY DispatchAssumption DEF Reserve, AtLimit, DispatchTypeOK, CounterType, LimitType

LEMMA NextTryEffect ==
  ASSUME DispatchTypeOK, NEW n \in Nodes, NEW same \in BOOLEAN, NextTry(n, same)
  PROVE  /\ \E ph \in {"call", "ended"} : phase' = [phase EXCEPT ![n] = ph]
         /\ model' \in [Nodes -> Nat] /\ attempt' \in [Nodes -> Nat]
         /\ result' \in [Nodes -> {"none", "Done", "Failed"}]
BY DEF NextTry, End, DispatchTypeOK

LEMMA DecideEffect ==
  ASSUME DispatchTypeOK, NEW n \in Nodes, NEW verdict \in Outcomes, Decide(n, verdict)
  PROVE  /\ phase[n] = "snap"
         /\ \E ph \in {"call", "ended", "verify"} : phase' = [phase EXCEPT ![n] = ph]
         /\ model' \in [Nodes -> Nat] /\ attempt' \in [Nodes -> Nat]
         /\ result' \in [Nodes -> {"none", "Done", "Failed"}]
<1> DEFINE Checked == verdict = "Done" /\ Criticised(n)
           Goal == /\ \E ph \in {"call", "ended", "verify"} : phase' = [phase EXCEPT ![n] = ph]
                   /\ model' \in [Nodes -> Nat] /\ attempt' \in [Nodes -> Nat]
                   /\ result' \in [Nodes -> {"none", "Done", "Failed"}]
<1>1. CASE answer[n] = "ok" /\ Checked
  <2>1. phase' = [phase EXCEPT ![n] = "verify"] /\ UNCHANGED <<model, attempt, result>>
    BY <1>1 DEF Decide
  <2> QED BY <2>1 DEF Decide, DispatchTypeOK
<1>2. CASE answer[n] = "ok" /\ ~Checked
  <2>1. End(n, verdict) BY <1>2 DEF Decide
  <2> QED BY <2>1 DEF Decide, End, DispatchTypeOK, Outcomes
<1>3. CASE answer[n] # "ok"
  <2>1. NextTry(n, answer[n] = "retryable" /\ Billed(n) => plan[n].backoff)
    BY <1>3 DEF Decide
  <2>2. (answer[n] = "retryable" /\ Billed(n) => plan[n].backoff) \in BOOLEAN OBVIOUS
  <2> QED BY <2>1, <2>2, NextTryEffect DEF Decide
<1> QED BY <1>1, <1>2, <1>3

\* An answer is counted if a model was called: with its first call, if that is what it
\* answers, and as one more call otherwise; and the breach is noticed and told.
LEMMA AnsweredEffect ==
  ASSUME DispatchTypeOK, NEW n \in Nodes, NEW how \in {"ok", "invalid", "fail", "retryable"},
         NEW usage \in Usages, Answered(n, how, usage)
  PROVE  /\ phase[n] = "call" /\ phase' = [phase EXCEPT ![n] = "snap"]
         /\ answer' = [answer EXCEPT ![n] = how]
         /\ counters' \in CounterType /\ counters.tokens <= counters'.tokens
         /\ ~Billed(n) => UNCHANGED <<counters, breach, told, first, answers>>
         /\ Billed(n) =>
              /\ counters'.calls = counters.calls + IF first[n] THEN 0 ELSE 1
              /\ first' = [first EXCEPT ![n] = FALSE] /\ answers' = answers + 1
              /\ breach' \in BOOLEAN /\ told' \in [Nodes -> BOOLEAN]
              /\ breach => breach'
              /\ \A m \in Nodes : told[m] => told'[m]
              /\ breach' => breach \/ told'[n]
              /\ Over(counters'.tokens, limits.tokens) /\ counters'.tokens # counters.tokens
                   => breach'
              /\ ~first[n] /\ Over(counters'.calls, limits.calls) => breach'
         /\ UNCHANGED <<plan, limits, pc, ready, nested, model, attempt, posted, result,
                        announced, stored, start, reserved>>
<1> USE DispatchAssumption DEF DispatchTypeOK, CounterType
<1>1. Spent(~first[n], usage) \in CounterType BY DEF Spent
<1>2. /\ Spent(~first[n], usage).calls = counters.calls + IF first[n] THEN 0 ELSE 1
      /\ Spent(~first[n], usage).tokens = counters.tokens + IF usage = NoUsage THEN 0 ELSE usage
  BY DEF Spent
<1>3. CASE Billed(n)
  <2>1. /\ counters' = Spent(~first[n], usage)
        /\ breach' = (breach \/ Breaches(~first[n], usage, counters'))
        /\ told' = [told EXCEPT ![n] = Tells(n, ~first[n], usage)]
        /\ first' = [first EXCEPT ![n] = FALSE]
        /\ answers' = answers + 1
    BY <1>3 DEF Answered
  <2>2. Tells(n, ~first[n], usage) = (told[n] \/ (~breach /\ breach'))
    BY <2>1 DEF Tells
  <2>3. /\ told' \in [Nodes -> BOOLEAN] /\ \A m \in Nodes : told[m] => told'[m]
        /\ breach' /\ ~breach => told'[n]
    BY <2>1, <2>2
  <2>4. Over(counters'.tokens, limits.tokens) /\ counters'.tokens # counters.tokens => breach'
    <3>1. CASE usage = NoUsage
      <4>1. counters'.tokens = counters.tokens BY <1>2, <2>1, <3>1
      <4> QED BY <4>1
    <3>2. CASE usage # NoUsage
      <4>1. Over(counters'.tokens, limits.tokens) => Breaches(~first[n], usage, counters')
        BY <3>2 DEF Breaches
      <4> QED BY <2>1, <4>1
    <3> QED BY <3>1, <3>2
  <2>5. ~first[n] /\ Over(counters'.calls, limits.calls) => breach'
    BY <2>1 DEF Breaches
  <2>6. breach' \in BOOLEAN /\ (breach => breach') BY <2>1
  <2>7. counters' \in CounterType /\ counters.tokens <= counters'.tokens BY <1>1, <1>2, <2>1
  <2> QED BY <1>2, <1>3, <2>1, <2>3, <2>4, <2>5, <2>6, <2>7 DEF Answered
<1>4. CASE ~Billed(n)
  BY <1>4 DEF Answered
<1> QED BY <1>3, <1>4

\* Whoever raises the flag by recording an answer has the breach among its events.
LEMMA AnsweredTells ==
  ASSUME DispatchTypeOK, NEW n \in Nodes, NEW how \in {"ok", "invalid", "fail", "retryable"},
         NEW usage \in Usages, Answered(n, how, usage)
  PROVE  told' \in [Nodes -> BOOLEAN] /\ (\A m \in Nodes : told[m] => told'[m])
         /\ (breach' => breach \/ told'[n])
<1>1. CASE Billed(n)
  <2>1. /\ breach' = (breach \/ Breaches(~first[n], usage, counters'))
        /\ told' = [told EXCEPT ![n] = Tells(n, ~first[n], usage)]
    BY <1>1 DEF Answered
  <2>2. counters' = Spent(~first[n], usage) BY <1>1 DEF Answered
  <2>3. Tells(n, ~first[n], usage) = (told[n] \/ (~breach /\ breach'))
    BY <2>1, <2>2 DEF Tells
  <2>4. told \in [Nodes -> BOOLEAN] BY DEF DispatchTypeOK
  <2> QED BY <2>1, <2>3, <2>4
<1>2. CASE ~Billed(n)
  <2>1. UNCHANGED <<told, breach>> BY <1>2 DEF Answered
  <2> QED BY <2>1 DEF DispatchTypeOK
<1> QED BY <1>1, <1>2
-----------------------------------------------------------------------------
(* Type correctness                                                        *)

LEMMA DispatchInitType == DispatchInit => DispatchTypeOK
<1> SUFFICES ASSUME DispatchInit PROVE DispatchTypeOK OBVIOUS
<1>1. plan \in [Nodes -> PlanType] /\ limits \in LimitType /\ counters \in CounterType
  BY DispatchAssumption DEF DispatchInit
<1> QED BY <1>1 DEF DispatchInit, DispatchTypeOK, Phases

LEMMA DispatchNextType == DispatchTypeOK /\ [DispatchNext]_dispatchVars => DispatchTypeOK'
<1> SUFFICES ASSUME DispatchTypeOK, [DispatchNext]_dispatchVars PROVE DispatchTypeOK'
  OBVIOUS
<1>r. ASSUME Reserve
      PROVE  counters' \in CounterType /\ breach' \in BOOLEAN /\ reserved' \in Nat
  BY <1>r, ReserveEffect DEF DispatchTypeOK
<1>j. ASSUME Reject
      PROVE  counters' \in CounterType /\ breach' \in BOOLEAN /\ reserved' \in Nat
  BY <1>j DEF Reject, DispatchTypeOK
<1> USE DEF DispatchTypeOK, Phases, taskVars, budgetVars, historyVars
<1>1. ASSUME NEW n \in Nodes, Spawn(n) PROVE DispatchTypeOK'
  <2>1. counters' \in CounterType /\ breach' \in BOOLEAN /\ reserved' \in Nat
    BY <1>1, <1>r DEF Spawn
  <2> QED BY <1>1, <2>1 DEF Spawn
<1>2. ASSUME NEW n \in Nodes, Gate(n) PROVE DispatchTypeOK'
  <2>1. counters' \in CounterType /\ breach' \in BOOLEAN /\ reserved' \in Nat
    BY <1>2, <1>j DEF Gate
  <2> QED BY <1>2, <2>1 DEF Gate
<1>3. CASE AllSpawned \/ RunDone BY <1>3 DEF AllSpawned, RunDone
<1>4. ASSUME NEW n \in Nodes, Joined(n) PROVE DispatchTypeOK'
  <2>1. stored' \in CounterType BY <1>4 DEF Joined
  <2> QED BY <1>4, <2>1 DEF Joined
<1>5. ASSUME NEW n \in Nodes, Start(n) PROVE DispatchTypeOK'
  BY <1>5 DEF Start, End
<1>6. ASSUME NEW n \in Nodes, NEW how \in {"ok", "invalid", "fail", "retryable"},
             NEW usage \in Usages, Answered(n, how, usage)
      PROVE  DispatchTypeOK'
  <2>1. /\ first' \in [Nodes -> BOOLEAN] /\ answers' \in Nat
        /\ breach' \in BOOLEAN /\ told' \in [Nodes -> BOOLEAN]
    <3>1. CASE Billed(n)
      <4>1. first' = [first EXCEPT ![n] = FALSE] /\ answers' = answers + 1
        BY <1>6, <3>1, AnsweredEffect
      <4>2. breach' \in BOOLEAN /\ told' \in [Nodes -> BOOLEAN]
        BY <1>6, <3>1, AnsweredEffect, Zenon
      <4>3. first' \in [Nodes -> BOOLEAN] BY <4>1, Zenon
      <4>4. answers' \in Nat BY <4>1
      <4> QED BY <4>2, <4>3, <4>4, Zenon
    <3>2. CASE ~Billed(n) BY <1>6, <3>2, AnsweredEffect
    <3> QED BY <3>1, <3>2
  <2>2. /\ phase' \in [Nodes -> Phases] /\ counters' \in CounterType
        /\ answer' \in [Nodes -> {"none", "ok", "invalid", "fail", "retryable"}]
    BY <1>6, AnsweredEffect
  <2>3. UNCHANGED <<plan, limits, pc, ready, nested, model, attempt, posted, result,
                    announced, stored, start, reserved>>
    BY <1>6, AnsweredEffect
  <2> QED BY <2>1, <2>2, <2>3
<1>7. ASSUME NEW n \in Nodes, NEW verdict \in Outcomes, Decide(n, verdict)
      PROVE  DispatchTypeOK'
  <2>1. /\ phase' \in [Nodes -> Phases]
        /\ model' \in [Nodes -> Nat] /\ attempt' \in [Nodes -> Nat]
        /\ result' \in [Nodes -> {"none", "Done", "Failed"}]
    BY <1>7, DecideEffect
  <2>2. posted' \in [Nodes -> CounterType \cup {NoUsage}] BY <1>7 DEF Decide
  <2>3. UNCHANGED <<plan, limits, pc, ready, nested, first, answer, told, budgetVars,
                    announced, stored, historyVars>>
    BY <1>7 DEF Decide
  <2> QED BY <2>1, <2>2, <2>3
<1>8. ASSUME NEW n \in Nodes, Errs(n) \/ TimesOut(n) PROVE DispatchTypeOK'
  <2>1. CASE Errs(n)
    <3>1. NextTry(n, TRUE) BY <2>1 DEF Errs
    <3>2. PICK ph \in {"call", "ended"} : phase' = [phase EXCEPT ![n] = ph]
      BY <3>1, NextTryEffect
    <3>3. phase' \in [Nodes -> Phases] BY <3>2 DEF Phases
    <3>4. /\ model' \in [Nodes -> Nat] /\ attempt' \in [Nodes -> Nat]
          /\ result' \in [Nodes -> {"none", "Done", "Failed"}]
      BY <3>1, NextTryEffect
    <3> QED BY <2>1, <3>3, <3>4 DEF Errs
  <2>2. CASE TimesOut(n) BY <2>2 DEF TimesOut, End
  <2> QED BY <1>8, <2>1, <2>2
<1>9. ASSUME NEW n \in Nodes, VerifyByCritic(n) PROVE DispatchTypeOK'
  <2>1. counters' \in CounterType /\ breach' \in BOOLEAN /\ reserved' \in Nat
    BY <1>9, <1>r DEF VerifyByCritic
  <2> QED BY <1>9, <2>1 DEF VerifyByCritic
<1>10. ASSUME NEW n \in Nodes, CriticRejected(n) PROVE DispatchTypeOK'
  <2>1. counters' \in CounterType /\ breach' \in BOOLEAN /\ reserved' \in Nat
    BY <1>10, <1>j DEF CriticRejected
  <2> QED BY <1>10, <2>1 DEF CriticRejected, End
<1>11. CASE UNCHANGED dispatchVars BY <1>11 DEF dispatchVars
<1> QED
  BY <1>1, <1>2, <1>3, <1>4, <1>5, <1>6, <1>7, <1>8, <1>9, <1>10, <1>11
     DEF DispatchNext, LoopStep, TaskStep

-----------------------------------------------------------------------------
(* The ceilings                                                            *)

\* Only a reservation raises `reserved`, and it is the one that is checked; only the start
\* of a task adds one to those that work.
LEMMA LimitStep ==
  DispatchIInv /\ [DispatchNext]_dispatchVars => ReservationsWithinLimit'
<1> SUFFICES ASSUME DispatchIInv, [DispatchNext]_dispatchVars PROVE ReservationsWithinLimit'
  OBVIOUS
<1>0. DispatchTypeOK /\ DispatchTypeOK' /\ PostedSeen /\ ReservationsWithinLimit
  BY DispatchNextType DEF DispatchIInv
<1>p. limits.permits \in Nat /\ counters.calls \in Nat /\ start.calls \in Nat /\ reserved \in Nat
  BY <1>0 DEF DispatchTypeOK, LimitType, CounterType
<1> DEFINE Room == Cardinality(Active') <= limits.permits
           Held == limits.calls # NoLimit /\ reserved' > 0
                     => start.calls + reserved' <= limits.calls
<1>a. ASSUME Active' \subseteq Active PROVE Room
  <2>1. /\ IsFiniteSet(Active) /\ Cardinality(Active) \in Nat
        /\ IsFiniteSet(Active') /\ Cardinality(Active') \in Nat
    BY TaskSets DEF Active
  <2>2. Cardinality(Active') <= Cardinality(Active) BY <1>a, <2>1, FS_Subset
  <2>3. Cardinality(Active) <= limits.permits BY <1>0 DEF ReservationsWithinLimit
  <2> QED BY <1>p, <2>1, <2>2, <2>3
<1>b. ASSUME Reserve PROVE Held
  <2>1. /\ counters'.calls = counters.calls + 1 /\ reserved' = reserved + 1
        /\ limits.calls # NoLimit => counters'.calls <= limits.calls
    BY <1>0, <1>b, ReserveEffect
  <2>2. limits.calls # NoLimit => limits.calls \in Nat BY <1>0 DEF DispatchTypeOK, LimitType
  <2> QED BY <1>0, <1>p, <2>1, <2>2 DEF PostedSeen
<1>c. ASSUME reserved' = reserved PROVE Held
  BY <1>0, <1>c DEF ReservationsWithinLimit
<1>d. ASSUME Room, Held, UNCHANGED <<limits, start>> PROVE ReservationsWithinLimit'
  BY <1>d DEF ReservationsWithinLimit
<1> HIDE DEF Room, Held
<1> USE <1>0 DEF DispatchTypeOK, Phases, taskVars, budgetVars, historyVars
<1>1. ASSUME NEW n \in Nodes, Spawn(n) PROVE ReservationsWithinLimit'
  <2>1. Room BY <1>1, <1>a DEF Spawn, Active
  <2>2. Held BY <1>1, <1>b, <1>c DEF Spawn
  <2> QED BY <1>1, <1>d, <2>1, <2>2 DEF Spawn
<1>2. ASSUME NEW n \in Nodes, Gate(n) PROVE ReservationsWithinLimit'
  <2>1. Room BY <1>2, <1>a DEF Gate, Active
  <2>2. Held BY <1>2, <1>c DEF Gate, Reject
  <2> QED BY <1>2, <1>d, <2>1, <2>2 DEF Gate
<1>3. CASE AllSpawned \/ RunDone \/ UNCHANGED dispatchVars
  <2>1. Room BY <1>3, <1>a DEF AllSpawned, RunDone, dispatchVars, Active
  <2>2. Held BY <1>3, <1>c DEF AllSpawned, RunDone, dispatchVars
  <2> QED BY <1>3, <1>d, <2>1, <2>2 DEF AllSpawned, RunDone, dispatchVars
<1>4. ASSUME NEW n \in Nodes, Joined(n) PROVE ReservationsWithinLimit'
  <2>1. Room BY <1>4, <1>a DEF Joined, Active
  <2>2. Held BY <1>4, <1>c DEF Joined
  <2> QED BY <1>4, <1>d, <2>1, <2>2 DEF Joined
<1>5. ASSUME NEW n \in Nodes, Start(n) PROVE ReservationsWithinLimit'
  <2>1. Room
    <3>1. Active' \subseteq Active \cup {n} BY <1>5 DEF Start, End, Active
    <3>2. /\ IsFiniteSet(Active) /\ Cardinality(Active) \in Nat
          /\ IsFiniteSet(Active') /\ Cardinality(Active') \in Nat
      BY TaskSets DEF Active
    <3>3. /\ IsFiniteSet(Active \cup {n})
          /\ Cardinality(Active \cup {n}) \in {Cardinality(Active), Cardinality(Active) + 1}
      BY <3>2, FS_AddElement
    <3>4. Cardinality(Active') <= Cardinality(Active \cup {n}) BY <3>1, <3>3, FS_Subset
    <3>5. Cardinality(Active) < limits.permits BY <1>5 DEF Start
    <3> QED BY <1>p, <3>2, <3>3, <3>4, <3>5 DEF Room
  <2>2. Held BY <1>5, <1>c DEF Start
  <2> QED BY <1>5, <1>d, <2>1, <2>2 DEF Start
<1>6. ASSUME NEW n \in Nodes, NEW how \in {"ok", "invalid", "fail", "retryable"},
             NEW usage \in Usages, Answered(n, how, usage)
      PROVE  ReservationsWithinLimit'
  <2>1. Room BY <1>6, <1>a, AnsweredEffect DEF Active
  <2>2. Held BY <1>6, <1>c, AnsweredEffect
  <2> QED BY <1>6, <1>d, <2>1, <2>2, AnsweredEffect
<1>7. ASSUME NEW n \in Nodes, NEW verdict \in Outcomes, Decide(n, verdict)
      PROVE  ReservationsWithinLimit'
  <2>1. Room BY <1>7, <1>a, DecideEffect DEF Active
  <2>2. UNCHANGED <<limits, start, reserved>> BY <1>7 DEF Decide
  <2> QED BY <1>c, <1>d, <2>1, <2>2
<1>8. ASSUME NEW n \in Nodes, Errs(n) PROVE ReservationsWithinLimit'
  <2>1. Room BY <1>8, <1>a, NextTryEffect DEF Errs, Active
  <2>2. UNCHANGED <<limits, start, reserved>> BY <1>8 DEF Errs
  <2> QED BY <1>c, <1>d, <2>1, <2>2
<1>9. ASSUME NEW n \in Nodes, TimesOut(n) PROVE ReservationsWithinLimit'
  <2>1. Room BY <1>9, <1>a DEF TimesOut, End, Active
  <2>2. UNCHANGED <<limits, start, reserved>> BY <1>9 DEF TimesOut
  <2> QED BY <1>c, <1>d, <2>1, <2>2
<1>10. ASSUME NEW n \in Nodes, VerifyByCritic(n) PROVE ReservationsWithinLimit'
  <2>1. Room BY <1>10, <1>a DEF VerifyByCritic, Active
  <2>2. Held BY <1>10, <1>b DEF VerifyByCritic
  <2> QED BY <1>10, <1>d, <2>1, <2>2 DEF VerifyByCritic
<1>11. ASSUME NEW n \in Nodes, CriticRejected(n) PROVE ReservationsWithinLimit'
  <2>1. Room BY <1>11, <1>a DEF CriticRejected, End, Active
  <2>2. Held BY <1>11, <1>c DEF CriticRejected, Reject
  <2> QED BY <1>11, <1>d, <2>1, <2>2 DEF CriticRejected
<1> QED
  BY <1>1, <1>2, <1>3, <1>4, <1>5, <1>6, <1>7, <1>8, <1>9, <1>10, <1>11
     DEF DispatchNext, LoopStep, TaskStep

-----------------------------------------------------------------------------
(* The count of the calls                                                  *)

LEMMA FirstStep ==
  DispatchTypeOK /\ FirstUntilAnswered /\ [DispatchNext]_dispatchVars => FirstUntilAnswered'
<1> SUFFICES ASSUME DispatchTypeOK, FirstUntilAnswered, [DispatchNext]_dispatchVars
             PROVE  FirstUntilAnswered'
  OBVIOUS
<1> USE DEF DispatchTypeOK, FirstUntilAnswered, Phases, Billed, taskVars, budgetVars, historyVars
\* A task that goes to another place without an answer.
<1>m. ASSUME NEW n \in Nodes, NEW ph \in {"call", "ended", "joined", "verify"},
             phase[n] # "none", phase' = [phase EXCEPT ![n] = ph],
             UNCHANGED <<plan, ready, nested, first>>,
             ph = "verify" => phase[n] = "snap"
      PROVE  FirstUntilAnswered'
  BY <1>m
<1>s. ASSUME UNCHANGED <<plan, ready, phase, nested, first>> PROVE FirstUntilAnswered'
  BY <1>s
<1>1. ASSUME NEW n \in Nodes, Spawn(n) PROVE FirstUntilAnswered'
  BY <1>1 DEF Spawn
<1>2. ASSUME NEW n \in Nodes, Gate(n) PROVE FirstUntilAnswered' BY <1>2, <1>s DEF Gate
<1>3. CASE AllSpawned \/ RunDone BY <1>3, <1>s DEF AllSpawned, RunDone
<1>4. ASSUME NEW n \in Nodes, Joined(n) PROVE FirstUntilAnswered' BY <1>4, <1>m DEF Joined
<1>5. ASSUME NEW n \in Nodes, Start(n) PROVE FirstUntilAnswered'
  BY <1>5, <1>m DEF Start, End
<1>6. ASSUME NEW n \in Nodes, NEW how \in {"ok", "invalid", "fail", "retryable"},
             NEW usage \in Usages, Answered(n, how, usage)
      PROVE  FirstUntilAnswered'
  BY <1>6 DEF Answered
<1>7. ASSUME NEW n \in Nodes, NEW verdict \in Outcomes, Decide(n, verdict)
      PROVE  FirstUntilAnswered'
  <2>1. PICK ph \in {"call", "ended", "verify"} : phase' = [phase EXCEPT ![n] = ph]
    BY <1>7, DecideEffect
  <2>2. phase[n] = "snap" /\ UNCHANGED <<plan, ready, nested, first>> BY <1>7 DEF Decide
  <2> QED BY <1>m, <2>1, <2>2
<1>8. ASSUME NEW n \in Nodes, Errs(n) PROVE FirstUntilAnswered'
  <2>1. PICK ph \in {"call", "ended"} : phase' = [phase EXCEPT ![n] = ph]
    BY <1>8, NextTryEffect DEF Errs
  <2>2. phase[n] = "call" /\ UNCHANGED <<plan, ready, nested, first>> BY <1>8 DEF Errs
  <2> QED BY <1>m, <2>1, <2>2
<1>9. ASSUME NEW n \in Nodes, TimesOut(n) PROVE FirstUntilAnswered'
  BY <1>9, <1>m DEF TimesOut, End
<1>10. ASSUME NEW n \in Nodes, VerifyByCritic(n) PROVE FirstUntilAnswered'
  BY <1>10 DEF VerifyByCritic
<1>11. ASSUME NEW n \in Nodes, CriticRejected(n) PROVE FirstUntilAnswered'
  BY <1>11, <1>m DEF CriticRejected, End
<1>12. CASE UNCHANGED dispatchVars BY <1>12, <1>s DEF dispatchVars
<1> QED
  BY <1>1, <1>2, <1>3, <1>4, <1>5, <1>6, <1>7, <1>8, <1>9, <1>10, <1>11, <1>12
     DEF DispatchNext, LoopStep, TaskStep

\* A slot that is reserved, here or for a critic, is one more call and one more node that
\* has not been answered; a first answer takes the node out and counts as an answer; any
\* other answer is a call and an answer; and nothing else changes a number or the set, which
\* a task that errs or times out does not leave.
LEMMA CountStep ==
  /\ DispatchTypeOK /\ FirstUntilAnswered /\ CallsCounted
  /\ [DispatchNext]_dispatchVars
  => CallsCounted'
<1> SUFFICES ASSUME DispatchTypeOK, FirstUntilAnswered, CallsCounted, [DispatchNext]_dispatchVars
             PROVE  CallsCounted'
  OBVIOUS
<1> DEFINE U == Unanswered
<1>f. IsFiniteSet(U) /\ Cardinality(U) \in Nat BY TaskSets DEF Unanswered
<1>t. counters.calls \in Nat /\ start.calls \in Nat /\ answers \in Nat
  BY DEF DispatchTypeOK, CounterType
<1>c. counters.calls = start.calls + answers + Cardinality(U) BY DEF CallsCounted
<1>s. ASSUME U' = U, UNCHANGED <<counters, start, answers>> PROVE CallsCounted'
  BY <1>c, <1>s DEF CallsCounted
<1>a. ASSUME NEW n \in Nodes, n \notin U, U' = U \cup {n}, counters'.calls = counters.calls + 1,
             UNCHANGED <<start, answers>>
      PROVE  CallsCounted'
  <2> HIDE DEF U
  <2>1. Cardinality(U') = Cardinality(U) + 1 BY <1>a, <1>f, FS_AddElement
  <2>2. counters'.calls = start.calls + answers + Cardinality(U') BY <1>a, <1>c, <1>f, <1>t, <2>1
  <2> QED BY <1>a, <2>2 DEF CallsCounted, U
<1> USE DEF DispatchTypeOK, FirstUntilAnswered, Phases, taskVars, budgetVars, historyVars
\* A task goes to another place, which says nothing of the first call.
<1>m. ASSUME NEW n \in Nodes, NEW ph \in Phases \ {"none"}, phase[n] # "none",
             phase' = [phase EXCEPT ![n] = ph],
             UNCHANGED <<plan, nested, first, counters, start, answers>>
      PROVE  CallsCounted'
  <2>1. U' = U BY <1>m DEF Unanswered, Billed
  <2> QED BY <1>m, <1>s, <2>1
<1>1. ASSUME NEW n \in Nodes, Spawn(n) PROVE CallsCounted'
  <2>1. phase[n] = "none" /\ phase' = [phase EXCEPT ![n] = "spawned"]
    BY <1>1 DEF Spawn
  <2>2. ~nested[n] /\ first[n] /\ UNCHANGED <<plan, nested, first, start, answers>>
    BY <1>1, <2>1 DEF Spawn
  <2>3. CASE plan[n].shell
    <3>1. U' = U BY <2>1, <2>2, <2>3 DEF Unanswered, Billed
    <3> QED BY <1>1, <1>s, <2>2, <2>3, <3>1 DEF Spawn
  <2>4. CASE ~plan[n].shell
    <3>1. n \notin U /\ U' = U \cup {n} BY <2>1, <2>2, <2>4 DEF Unanswered, Billed
    <3>2. counters'.calls = counters.calls + 1 BY <1>1, <2>4, ReserveEffect DEF Spawn
    <3> QED BY <1>a, <2>2, <3>1, <3>2
  <2> QED BY <2>3, <2>4
<1>2. ASSUME NEW n \in Nodes, Gate(n) PROVE CallsCounted'
  <2>1. U' = U BY <1>2 DEF Gate, Unanswered, Billed
  <2> QED BY <1>2, <1>s, <2>1 DEF Gate, Reject
<1>3. CASE AllSpawned \/ RunDone \/ UNCHANGED dispatchVars
  <2>1. U' = U BY <1>3 DEF AllSpawned, RunDone, dispatchVars, Unanswered, Billed
  <2> QED BY <1>3, <1>s, <2>1 DEF AllSpawned, RunDone, dispatchVars
<1>4. ASSUME NEW n \in Nodes, Joined(n) PROVE CallsCounted'
  BY <1>4, <1>m DEF Joined
<1>5. ASSUME NEW n \in Nodes, Start(n) PROVE CallsCounted'
  BY <1>5, <1>m DEF Start, End
<1>6. ASSUME NEW n \in Nodes, NEW how \in {"ok", "invalid", "fail", "retryable"},
             NEW usage \in Usages, Answered(n, how, usage)
      PROVE  CallsCounted'
  <2>0. /\ phase[n] = "call" /\ phase' = [phase EXCEPT ![n] = "snap"]
        /\ UNCHANGED <<plan, nested, start>>
    BY <1>6, AnsweredEffect
  <2>1. CASE ~Billed(n)
    <3>1. UNCHANGED <<counters, first, answers>> BY <1>6, <2>1, AnsweredEffect
    <3> QED BY <1>m, <2>0, <3>1
  <2>2. CASE Billed(n) /\ first[n]
    <3>1. /\ counters'.calls = counters.calls /\ answers' = answers + 1
          /\ first' = [first EXCEPT ![n] = FALSE]
      BY <1>6, <1>t, <2>2, AnsweredEffect
    <3>2. n \in U /\ U' = U \ {n} BY <2>0, <2>2, <3>1 DEF Unanswered, Billed
    <3> HIDE DEF U
    <3>3. Cardinality(U') = Cardinality(U) - 1 BY <1>f, <3>2, FS_RemoveElement
    <3>4. counters'.calls = start'.calls + answers' + Cardinality(U')
      BY <1>c, <1>f, <1>t, <2>0, <3>1, <3>3
    <3> QED BY <3>4 DEF CallsCounted, U
  <2>3. CASE Billed(n) /\ ~first[n]
    <3>1. /\ counters'.calls = counters.calls + 1 /\ answers' = answers + 1
          /\ first' = [first EXCEPT ![n] = FALSE]
      BY <1>6, <2>3, AnsweredEffect
    <3>2. U' = U BY <2>0, <2>3, <3>1 DEF Unanswered, Billed
    <3>3. counters'.calls = start'.calls + answers' + Cardinality(U')
      BY <1>c, <1>f, <1>t, <2>0, <3>1, <3>2
    <3> QED BY <3>3 DEF CallsCounted
  <2> QED BY <2>1, <2>2, <2>3
<1>7. ASSUME NEW n \in Nodes, NEW verdict \in Outcomes, Decide(n, verdict)
      PROVE  CallsCounted'
  <2>1. PICK ph \in {"call", "ended", "verify"} : phase' = [phase EXCEPT ![n] = ph]
    BY <1>7, DecideEffect
  <2>2. phase[n] = "snap" /\ UNCHANGED <<plan, nested, first, counters, start, answers>>
    BY <1>7 DEF Decide
  <2> QED BY <1>m, <2>1, <2>2
<1>8. ASSUME NEW n \in Nodes, Errs(n) PROVE CallsCounted'
  <2>1. PICK ph \in {"call", "ended"} : phase' = [phase EXCEPT ![n] = ph]
    BY <1>8, NextTryEffect DEF Errs
  <2>2. phase[n] = "call" /\ UNCHANGED <<plan, nested, first, counters, start, answers>>
    BY <1>8 DEF Errs
  <2> QED BY <1>m, <2>1, <2>2
<1>9. ASSUME NEW n \in Nodes, TimesOut(n) PROVE CallsCounted'
  BY <1>9, <1>m DEF TimesOut, End
<1>10. ASSUME NEW n \in Nodes, VerifyByCritic(n) PROVE CallsCounted'
  <2>1. /\ phase[n] = "verify" /\ phase' = [phase EXCEPT ![n] = "call"]
        /\ nested' = [nested EXCEPT ![n] = TRUE] /\ first' = [first EXCEPT ![n] = TRUE]
        /\ UNCHANGED <<plan, start, answers>>
    BY <1>10 DEF VerifyByCritic
  <2>2. n \notin U /\ U' = U \cup {n} BY <2>1 DEF Unanswered, Billed
  <2>3. counters'.calls = counters.calls + 1 BY <1>10, ReserveEffect DEF VerifyByCritic
  <2> QED BY <1>a, <2>1, <2>2, <2>3
<1>11. ASSUME NEW n \in Nodes, CriticRejected(n) PROVE CallsCounted'
  BY <1>11, <1>m DEF CriticRejected, Reject, End
<1> QED
  BY <1>1, <1>2, <1>3, <1>4, <1>5, <1>6, <1>7, <1>8, <1>9, <1>10, <1>11
     DEF DispatchNext, LoopStep, TaskStep

-----------------------------------------------------------------------------
(* What is posted and stored                                               *)

\* The counters never go down, and what a task posts is what it reads.
LEMMA PostedStep ==
  DispatchTypeOK /\ PostedSeen /\ [DispatchNext]_dispatchVars => PostedSeen'
<1> SUFFICES ASSUME DispatchTypeOK, PostedSeen, [DispatchNext]_dispatchVars PROVE PostedSeen'
  OBVIOUS
<1>t. /\ counters.calls \in Nat /\ start.calls \in Nat /\ stored.calls \in Nat /\ reserved \in Nat
      /\ \A n \in Nodes : posted[n] # NoUsage => posted[n].calls \in Nat
  BY DEF DispatchTypeOK, CounterType
<1> USE DEF PostedSeen
\* The counter grows by at least what `reserved` does.
<1>g. ASSUME NEW k \in Nat, NEW r \in Nat, r <= k,
             counters'.calls = counters.calls + k, reserved' = reserved + r,
             UNCHANGED <<start, posted, stored>>
      PROVE  PostedSeen'
  BY <1>t, <1>g
<1>s. ASSUME counters'.calls = counters.calls, UNCHANGED <<start, reserved, posted, stored>>
      PROVE  PostedSeen'
  BY <1>t, <1>s
<1>r. ASSUME Reserve, UNCHANGED <<start, posted, stored>> PROVE PostedSeen'
  <2>1. counters'.calls = counters.calls + 1 /\ reserved' = reserved + 1
    BY <1>r, ReserveEffect
  <2> QED BY <1>g, <1>r, <2>1
<1> USE DEF taskVars, budgetVars, historyVars
<1>1. ASSUME NEW n \in Nodes, Spawn(n) PROVE PostedSeen'
  BY <1>1, <1>r, <1>s DEF Spawn
<1>2. ASSUME NEW n \in Nodes, Gate(n) PROVE PostedSeen'
  BY <1>2, <1>s DEF Gate, Reject
<1>3. CASE AllSpawned \/ RunDone \/ UNCHANGED dispatchVars
  BY <1>3, <1>s DEF AllSpawned, RunDone, dispatchVars
<1>4. ASSUME NEW n \in Nodes, Joined(n) PROVE PostedSeen'
  BY <1>4, <1>t DEF Joined
<1>5. ASSUME NEW n \in Nodes, Start(n) PROVE PostedSeen'
  BY <1>5, <1>s DEF Start
<1>6. ASSUME NEW n \in Nodes, NEW how \in {"ok", "invalid", "fail", "retryable"},
             NEW usage \in Usages, Answered(n, how, usage)
      PROVE  PostedSeen'
  <2>1. UNCHANGED <<start, posted, stored, reserved>> BY <1>6, AnsweredEffect
  <2>2. \E k \in {0, 1} : counters'.calls = counters.calls + k
    <3>1. CASE Billed(n) BY <1>6, <3>1, AnsweredEffect
    <3>2. CASE ~Billed(n)
      <4>1. counters' = counters BY <1>6, <3>2, AnsweredEffect
      <4> QED BY <1>t, <4>1
    <3> QED BY <3>1, <3>2
  <2> QED BY <1>t, <2>1, <2>2
<1>7. ASSUME NEW n \in Nodes, NEW verdict \in Outcomes, Decide(n, verdict)
      PROVE  PostedSeen'
  <2>1. \A m \in Nodes : posted'[m] \in {posted[m], counters}
    BY <1>7 DEF Decide, DispatchTypeOK
  <2>2. UNCHANGED <<counters, start, stored, reserved>> BY <1>7 DEF Decide
  <2> QED BY <1>t, <2>1, <2>2
<1>8. ASSUME NEW n \in Nodes, Errs(n) \/ TimesOut(n) PROVE PostedSeen'
  BY <1>8, <1>s DEF Errs, TimesOut
<1>9. ASSUME NEW n \in Nodes, VerifyByCritic(n) PROVE PostedSeen'
  BY <1>9, <1>r DEF VerifyByCritic
<1>10. ASSUME NEW n \in Nodes, CriticRejected(n) PROVE PostedSeen'
  BY <1>10, <1>s DEF CriticRejected, Reject
<1> QED
  BY <1>1, <1>2, <1>3, <1>4, <1>5, <1>6, <1>7, <1>8, <1>9, <1>10
     DEF DispatchNext, LoopStep, TaskStep

-----------------------------------------------------------------------------
(* Breaches                                                                *)

\* A reservation stays within the ceiling, and the answer that takes a counter over one
\* raises the flag.
LEMMA OverspendStep ==
  DispatchTypeOK /\ OverspendNoticed /\ [DispatchNext]_dispatchVars => OverspendNoticed'
<1> SUFFICES ASSUME DispatchTypeOK, OverspendNoticed, [DispatchNext]_dispatchVars
             PROVE  OverspendNoticed'
  OBVIOUS
<1>t. counters.calls \in Nat /\ counters.tokens \in Nat
  BY DEF DispatchTypeOK, CounterType
<1>s. ASSUME UNCHANGED <<limits, counters>>, breach => breach' PROVE OverspendNoticed'
  BY <1>s DEF OverspendNoticed
<1>r. ASSUME Reserve, UNCHANGED limits PROVE OverspendNoticed'
  <2>1. /\ ~breach /\ counters'.tokens = counters.tokens
        /\ counters'.calls = counters.calls + 1
        /\ limits.calls # NoLimit => counters'.calls <= limits.calls
    BY <1>r, ReserveEffect
  <2>2. ~Over(counters'.calls, limits'.calls)
    BY <1>r, <1>t, <2>1 DEF Over, DispatchTypeOK, LimitType
  <2>3. ~Over(counters'.tokens, limits'.tokens)
    BY <1>r, <2>1 DEF OverspendNoticed
  <2> QED BY <2>2, <2>3 DEF OverspendNoticed
<1> USE DEF taskVars, budgetVars, historyVars
<1>1. ASSUME NEW n \in Nodes, Spawn(n) PROVE OverspendNoticed'
  BY <1>1, <1>r, <1>s DEF Spawn
<1>2. ASSUME NEW n \in Nodes, Gate(n) PROVE OverspendNoticed'
  BY <1>2, <1>s DEF Gate, Reject
<1>3. CASE AllSpawned \/ RunDone \/ UNCHANGED dispatchVars
  BY <1>3, <1>s DEF AllSpawned, RunDone, dispatchVars
<1>4. ASSUME NEW n \in Nodes, Joined(n) PROVE OverspendNoticed' BY <1>4, <1>s DEF Joined
<1>5. ASSUME NEW n \in Nodes, Start(n) PROVE OverspendNoticed' BY <1>5, <1>s DEF Start
<1>6. ASSUME NEW n \in Nodes, NEW how \in {"ok", "invalid", "fail", "retryable"},
             NEW usage \in Usages, Answered(n, how, usage)
      PROVE  OverspendNoticed'
  <2>0. limits' = limits BY <1>6, AnsweredEffect
  <2>1. CASE ~Billed(n) BY <1>6, <1>s, <2>0, <2>1, AnsweredEffect
  <2>2. CASE Billed(n)
    <3>1. /\ counters'.calls = counters.calls + IF first[n] THEN 0 ELSE 1
          /\ breach => breach'
          /\ Over(counters'.tokens, limits.tokens) /\ counters'.tokens # counters.tokens
               => breach'
          /\ ~first[n] /\ Over(counters'.calls, limits.calls) => breach'
      BY <1>6, <2>2, AnsweredEffect
    <3>2. first[n] => counters'.calls = counters.calls BY <1>t, <3>1
    <3>3. Over(counters'.calls, limits.calls) => breach'
      BY <3>1, <3>2 DEF OverspendNoticed
    <3>4. Over(counters'.tokens, limits.tokens) => breach'
      BY <3>1 DEF OverspendNoticed
    <3> QED BY <2>0, <3>3, <3>4 DEF OverspendNoticed
  <2> QED BY <2>1, <2>2
<1>7. ASSUME NEW n \in Nodes, NEW verdict \in Outcomes, Decide(n, verdict)
      PROVE  OverspendNoticed'
  BY <1>7, <1>s DEF Decide
<1>8. ASSUME NEW n \in Nodes, Errs(n) \/ TimesOut(n) PROVE OverspendNoticed'
  <2>1. UNCHANGED <<limits, counters, breach>> BY <1>8 DEF Errs, TimesOut
  <2> QED BY <1>s, <2>1
<1>9. ASSUME NEW n \in Nodes, VerifyByCritic(n) PROVE OverspendNoticed'
  BY <1>9, <1>r DEF VerifyByCritic
<1>10. ASSUME NEW n \in Nodes, CriticRejected(n) PROVE OverspendNoticed'
  BY <1>10, <1>s DEF CriticRejected, Reject
<1> QED
  BY <1>1, <1>2, <1>3, <1>4, <1>5, <1>6, <1>7, <1>8, <1>9, <1>10
     DEF DispatchNext, LoopStep, TaskStep

\* Who raises the flag tells so, or is the gate; what is told is announced when the task is
\* joined; and with the flag up from the start nothing is spawned before the gate is asked.
LEMMA BreachStep ==
  DispatchTypeOK /\ BreachOnItsWay /\ Nodes # {} /\ [DispatchNext]_dispatchVars
  => BreachOnItsWay'
<1> SUFFICES ASSUME DispatchTypeOK, BreachOnItsWay, Nodes # {}, [DispatchNext]_dispatchVars
             PROVE  BreachOnItsWay'
  OBVIOUS
<1> USE DEF DispatchTypeOK, BreachOnItsWay, taskVars, budgetVars, historyVars
\* A task at work stays at work, or ends; the run is not done while it is.
<1>m. ASSUME NEW n \in Nodes, NEW ph \in Phases \ {"none", "joined"},
             phase[n] \notin {"none", "joined"}, phase' = [phase EXCEPT ![n] = ph],
             told' \in [Nodes -> BOOLEAN], \A m \in Nodes : told[m] => told'[m],
             breach' => breach \/ told'[n], UNCHANGED <<pc, ready, announced>>
      PROVE  BreachOnItsWay'
  <2>1. pc' # "done" BY <1>m
  <2>2. breach' /\ ~announced' =>
          \/ \E a \in Nodes : told'[a] /\ phase'[a] \notin {"none", "joined"}
          \/ pc' = "drain" /\ ready' = Nodes
    <3>1. phase'[n] \notin {"none", "joined"} BY <1>m
    <3>2. \A a \in Nodes : phase[a] \notin {"none", "joined"} => phase'[a] \notin {"none", "joined"}
      BY <1>m
    <3>3. CASE told'[n] BY <3>1, <3>3
    <3>4. CASE breach BY <1>m, <3>2, <3>4
    <3> QED BY <1>m, <3>3, <3>4
  <2> QED BY <2>1, <2>2
<1>1. ASSUME NEW n \in Nodes, Spawn(n) PROVE BreachOnItsWay'
  <2>1. ~breach' BY <1>1 DEF Spawn, Reserve
  <2>2. pc' # "done" BY <1>1 DEF Spawn
  <2> QED BY <2>1, <2>2
<1>2. ASSUME NEW n \in Nodes, Gate(n) PROVE BreachOnItsWay'
  BY <1>2 DEF Gate
<1>3. CASE AllSpawned BY <1>3 DEF AllSpawned
<1>4. CASE RunDone BY <1>4 DEF RunDone
<1>5. ASSUME NEW n \in Nodes, Joined(n) PROVE BreachOnItsWay'
  <2>1. /\ pc = "join" /\ pc' = "drain" /\ breach' = breach /\ ready' = ready /\ told' = told
        /\ phase' = [phase EXCEPT ![n] = "joined"]
        /\ announced' = (announced \/ told[n])
    BY <1>5 DEF Joined
  <2>2. ASSUME breach', ~announced'
        PROVE  \E a \in Nodes : told'[a] /\ phase'[a] \notin {"none", "joined"}
    <3>1. PICK a \in Nodes : told[a] /\ phase[a] \notin {"none", "joined"} BY <2>1, <2>2
    <3>2. a # n BY <2>1, <2>2, <3>1
    <3> QED BY <2>1, <3>1, <3>2
  <2> QED BY <2>1, <2>2
<1>6. ASSUME NEW n \in Nodes, Start(n) PROVE BreachOnItsWay'
  <2>1. PICK ph \in {"call", "ended"} : phase' = [phase EXCEPT ![n] = ph] BY <1>6 DEF Start, End
  <2>2. phase[n] = "spawned" /\ UNCHANGED <<told, breach, pc, ready, announced>>
    BY <1>6 DEF Start
  <2> QED BY <1>m, <2>1, <2>2 DEF Phases
<1>7. ASSUME NEW n \in Nodes, NEW how \in {"ok", "invalid", "fail", "retryable"},
             NEW usage \in Usages, Answered(n, how, usage)
      PROVE  BreachOnItsWay'
  <2>1. /\ phase[n] = "call" /\ phase' = [phase EXCEPT ![n] = "snap"]
        /\ UNCHANGED <<pc, ready, announced>>
    BY <1>7, AnsweredEffect
  <2>2. /\ told' \in [Nodes -> BOOLEAN] /\ \A m \in Nodes : told[m] => told'[m]
        /\ breach' => breach \/ told'[n]
    BY <1>7, AnsweredTells
  <2> QED BY <1>m, <2>1, <2>2 DEF Phases
<1>8. ASSUME NEW n \in Nodes, NEW verdict \in Outcomes, Decide(n, verdict)
      PROVE  BreachOnItsWay'
  <2>1. PICK ph \in {"call", "ended", "verify"} : phase' = [phase EXCEPT ![n] = ph]
    BY <1>8, DecideEffect
  <2>2. phase[n] = "snap" /\ UNCHANGED <<told, breach, pc, ready, announced>>
    BY <1>8 DEF Decide
  <2> QED BY <1>m, <2>1, <2>2 DEF Phases
<1>9. ASSUME NEW n \in Nodes, Errs(n) \/ TimesOut(n) PROVE BreachOnItsWay'
  <2>1. PICK ph \in {"call", "ended"} : phase' = [phase EXCEPT ![n] = ph]
    BY <1>9, NextTryEffect DEF Errs, TimesOut, End
  <2>2. phase[n] = "call" /\ UNCHANGED <<told, breach, pc, ready, announced>>
    BY <1>9 DEF Errs, TimesOut
  <2> QED BY <1>m, <2>1, <2>2 DEF Phases
<1>10. ASSUME NEW n \in Nodes, VerifyByCritic(n) PROVE BreachOnItsWay'
  BY <1>10, <1>m DEF VerifyByCritic, Reserve, Phases
<1>11. ASSUME NEW n \in Nodes, CriticRejected(n) PROVE BreachOnItsWay'
  BY <1>11, <1>m DEF CriticRejected, Reject, End, Phases
<1>12. CASE UNCHANGED dispatchVars BY <1>12 DEF dispatchVars
<1> QED
  BY <1>1, <1>2, <1>3, <1>4, <1>5, <1>6, <1>7, <1>8, <1>9, <1>10, <1>11, <1>12
     DEF DispatchNext, LoopStep, TaskStep

-----------------------------------------------------------------------------
(* The theorems                                                            *)

LEMMA DispatchInitIInv == DispatchInit => DispatchIInv
<1> SUFFICES ASSUME DispatchInit PROVE DispatchIInv OBVIOUS
<1>1. DispatchTypeOK BY DispatchInitType
<1>2. /\ Unanswered = {} /\ Active = {}
      /\ counters = start /\ stored = start /\ reserved = 0 /\ answers = 0
      /\ \A n \in Nodes : phase[n] = "none" /\ ~nested[n] /\ first[n] /\ posted[n] = NoUsage
      /\ breach = (Over(counters.calls, limits.calls) \/ Over(counters.tokens, limits.tokens))
  BY DEF DispatchInit, Unanswered, Active
<1>3. start.calls \in Nat /\ limits.permits \in Nat
  BY <1>1 DEF DispatchTypeOK, CounterType, LimitType
<1>4. FirstUntilAnswered BY <1>2 DEF FirstUntilAnswered
<1>5. CallsCounted BY <1>2, <1>3, FS_EmptySet DEF CallsCounted
<1>6. PostedSeen BY <1>2, <1>3 DEF PostedSeen
<1>7. ReservationsWithinLimit BY <1>2, <1>3, FS_EmptySet DEF ReservationsWithinLimit
<1>8. OverspendNoticed BY <1>2 DEF OverspendNoticed
<1> QED BY <1>1, <1>4, <1>5, <1>6, <1>7, <1>8 DEF DispatchIInv

\* Every critical section of every task, and every step of the loop, preserves the invariant.
THEOREM DispatchInvariance == DispatchSpec => []DispatchIInv
<1>1. DispatchIInv /\ [DispatchNext]_dispatchVars => DispatchIInv'
  BY DispatchNextType, FirstStep, CountStep, PostedStep, LimitStep, OverspendStep
     DEF DispatchIInv
<1> QED BY DispatchInitIInv, <1>1, PTL DEF DispatchSpec

\* reserve() counts before it lets a dispatch begin: whatever tasks and critics run side by
\* side, no more are begun than the ceiling has room for, and no more work than there are
\* permits.
THEOREM ReservationsSound == DispatchSpec => []ReservationsWithinLimit
<1>1. DispatchIInv => ReservationsWithinLimit BY DEF DispatchIInv
<1> QED BY <1>1, DispatchInvariance, PTL

\* model_calls is the number of calls answered and of slots reserved for a first answer, and
\* the vault never shows more.
THEOREM CallsAccountedSound == DispatchSpec => []CallsAccounted
<1>1. DispatchIInv => CallsAccounted
  BY DEF DispatchIInv, CallsCounted, PostedSeen, Unanswered, CallsAccounted
<1> QED BY <1>1, DispatchInvariance, PTL

\* No counter is over its ceiling with the breach flag down, between any two critical
\* sections.
THEOREM OverspendSound == DispatchSpec => []OverspendNoticed
<1>1. DispatchIInv => OverspendNoticed BY DEF DispatchIInv
<1> QED BY <1>1, DispatchInvariance, PTL

\* A run that has something to run, and was breached at any time, its carried counters
\* included, has told the vault so when it is done.
THEOREM BreachSound == Nodes # {} => (DispatchSpec => []BreachAnnounced)
<1> SUFFICES ASSUME Nodes # {} PROVE DispatchSpec => []BreachAnnounced OBVIOUS
<1>1. DispatchInit => DispatchTypeOK /\ BreachOnItsWay
  <2> SUFFICES ASSUME DispatchInit PROVE BreachOnItsWay BY DispatchInitType
  <2> QED BY DEF DispatchInit, BreachOnItsWay
<1>2. DispatchTypeOK /\ BreachOnItsWay /\ [DispatchNext]_dispatchVars
      => DispatchTypeOK' /\ BreachOnItsWay'
  BY DispatchNextType, BreachStep
<1>3. DispatchTypeOK /\ BreachOnItsWay => BreachAnnounced
  BY DEF BreachOnItsWay, BreachAnnounced
<1> QED BY <1>1, <1>2, <1>3, PTL DEF DispatchSpec

=============================================================================
