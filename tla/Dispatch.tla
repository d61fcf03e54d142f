------------------------------ MODULE Dispatch ------------------------------
(***************************************************************************)
(* Node tasks and the budget they share: dispatch_node, eval_critic and    *)
(* BudgetInner in src/scheduler/execute.rs (spec-37, spec-39, spec-93).    *)
(*                                                                         *)
(* A batch of nodes without edges is run under ceilings on model calls and *)
(* on tokens.  Every task runs concurrently, bounded by the semaphore, and *)
(* touches the counters under a mutex: one step here per critical section. *)
(* A node's dispatch goes through its models and, for each, its attempts;  *)
(* a critic verify is a second dispatch nested in the first one.           *)
(***************************************************************************)
EXTENDS Integers, FiniteSets

CONSTANTS
  Nodes,
  Batches,      \* the plans of the nodes
  Limits,       \* the ceilings and the permits a run may be given
  Carried,      \* the counters a run may start from (B7: those of the checkpoint)
  Usages,       \* what a backend may report for one call: tokens, or NoUsage
  NoLimit,      \* no ceiling
  NoUsage,      \* the backend reported no usage
  MayTimeout,   \* whether a node has a deadline that may elapse during a call
  MayErr        \* whether a worker may return Err instead of a failed output

\* models: those left by the paid gate; none are called by a shell node.  critic:
\* the critic's models left by the paid gate (0: no critic arm in node.verify).
\* baseline: node.verify_pre is set.  backoff: retry.backoff_ms > 0.
PlanType == [shell : BOOLEAN, models : Nat, attempts : Nat \ {0}, backoff : BOOLEAN,
             critic : Nat, baseline : BOOLEAN]

\* permits: the semaphore's.
LimitType == [calls : Nat \cup {NoLimit}, tokens : Nat \cup {NoLimit}, permits : Nat \ {0}]
CounterType == [calls : Nat, tokens : Nat]

ASSUME DispatchAssumption ==
  /\ IsFiniteSet(Nodes)
  /\ Batches \subseteq [Nodes -> PlanType] /\ Limits \subseteq LimitType
  /\ Carried \subseteq CounterType
  /\ Usages \subseteq Nat \cup {NoUsage}
  /\ NoLimit \notin Nat /\ NoUsage \notin Nat
  /\ MayTimeout \in BOOLEAN /\ MayErr \in BOOLEAN

VARIABLES
  plan, limits,
  pc,        \* the loop: "drain", "join" or "done"
  ready,     \* nodes not yet popped
  phase,     \* of each task: "none", "spawned", "call", "snap", "verify", "ended", "joined"
  nested,    \* the dispatch in progress is the critic's
  model,     \* index of the model it tries
  attempt,   \* attempt on that model
  first,     \* is_first_call
  answer,    \* how the last call ended
  posted,    \* the last BudgetUpdated among the task's events, or NoUsage
  told,      \* whether a BudgetBreached is among them
  result,    \* what the task returns: "none", "Done" or "Failed"
  counters, breach,          \* BudgetInner
  announced,                 \* breach_announced: the event reached the vault
  stored,                    \* the counters in the vault
  start, reserved, answers  \* history, see below

taskVars == <<phase, nested, model, attempt, first, answer, posted, told, result>>
budgetVars == <<counters, breach>>
historyVars == <<start, reserved, answers>>
dispatchVars == <<plan, limits, pc, ready, taskVars, budgetVars, announced, stored,
                  historyVars>>

-----------------------------------------------------------------------------
(* BudgetInner.                                                            *)

Over(c, lim) == lim # NoLimit /\ c > lim

\* Mutant: an off-by-one in reserve().
PastLimit(c, lim) == lim # NoLimit /\ c > lim

AtLimit(c, lim) == lim # NoLimit /\ c >= lim

\* reserve() succeeds: the first call of a dispatch is counted before it is made.
Reserve ==
  /\ ~breach /\ ~AtLimit(counters.calls, limits.calls)
  /\ counters' = [counters EXCEPT !.calls = @ + 1]
  /\ reserved' = reserved + 1
  /\ UNCHANGED breach

\* reserve() refuses: the ceiling was breached before, or is now.
Reject ==
  /\ breach \/ AtLimit(counters.calls, limits.calls)
  /\ breach' = TRUE
  /\ UNCHANGED <<counters, reserved>>

\* Mutant: the model-calls ceiling is not rechecked after an extra call.
BreachesByTokens(extra, usage, c) ==
  IF usage = NoUsage THEN limits.tokens # NoLimit ELSE Over(c.tokens, limits.tokens)

\* Whether record_usage trips a ceiling, given the counters it leaves.
Breaches(extra, usage, c) ==
  \/ IF usage = NoUsage THEN limits.tokens # NoLimit ELSE Over(c.tokens, limits.tokens)
  \/ extra /\ Over(c.calls, limits.calls)

\* Mutant: a retry is taken for the first call, which is already counted.
SpentOnce(extra, usage) ==
  [calls  |-> counters.calls,
   tokens |-> counters.tokens + IF usage = NoUsage THEN 0 ELSE usage]

\* The counters after record_first_usage or record_extra_call.
Spent(extra, usage) ==
  [calls  |-> counters.calls + IF extra THEN 1 ELSE 0,
   tokens |-> counters.tokens + IF usage = NoUsage THEN 0 ELSE usage]

\* Mutant: only the call that trips the ceiling counts as told, and the event is lost
\* when usage is missing.
TellsUsage(n, extra, usage) ==
  told[n] \/ (~breach /\ usage # NoUsage /\ Breaches(extra, usage, Spent(extra, usage)))

Tells(n, extra, usage) ==
  told[n] \/ (~breach /\ Breaches(extra, usage, Spent(extra, usage)))

-----------------------------------------------------------------------------
DispatchInit ==
  /\ plan \in Batches /\ limits \in Limits
  /\ counters \in Carried
  /\ breach = (Over(counters.calls, limits.calls) \/ Over(counters.tokens, limits.tokens))
  /\ stored = counters /\ start = counters /\ announced = FALSE
  /\ pc = "drain" /\ ready = Nodes
  /\ phase = [n \in Nodes |-> "none"]
  /\ nested = [n \in Nodes |-> FALSE]
  /\ model = [n \in Nodes |-> 1]
  /\ attempt = [n \in Nodes |-> 1]
  /\ first = [n \in Nodes |-> TRUE]
  /\ answer = [n \in Nodes |-> "none"]
  /\ posted = [n \in Nodes |-> NoUsage]
  /\ told = [n \in Nodes |-> FALSE]
  /\ result = [n \in Nodes |-> "none"]
  /\ reserved = 0 /\ answers = 0

-----------------------------------------------------------------------------
(* The scheduling loop, as far as the budget is concerned.                 *)

\* The gate: a model-consuming node reserves its first call and is spawned.
Spawn(n) ==
  /\ pc = "drain" /\ n \in ready
  /\ IF plan[n].shell THEN ~breach /\ UNCHANGED <<counters, breach, reserved>>
     ELSE Reserve
  /\ ready' = ready \ {n}
  /\ phase' = [phase EXCEPT ![n] = "spawned"]
  /\ UNCHANGED <<plan, limits, pc, nested, model, attempt, first, answer, posted, told,
                 result, announced, stored, start, answers>>

\* The gate refuses the node: it stays ready, and no other node is tried.
Gate(n) ==
  /\ pc = "drain" /\ n \in ready
  /\ IF plan[n].shell THEN breach /\ UNCHANGED <<counters, breach, reserved>>
     ELSE Reject
  /\ announced' = TRUE
  /\ pc' = "join"
  /\ UNCHANGED <<plan, limits, ready, taskVars, stored, start, answers>>

AllSpawned ==
  /\ pc = "drain" /\ ready = {}
  /\ pc' = "join"
  /\ UNCHANGED <<plan, limits, ready, taskVars, budgetVars, announced, stored, historyVars>>

\* join_next: the task's events go to the vault in the order of the joins.
Joined(n) ==
  /\ pc = "join" /\ phase[n] = "ended"
  /\ phase' = [phase EXCEPT ![n] = "joined"]
  /\ stored' = IF posted[n] = NoUsage THEN stored ELSE posted[n]
  /\ announced' = (announced \/ told[n])
  /\ pc' = "drain"
  /\ UNCHANGED <<plan, limits, ready, nested, model, attempt, first, answer, posted,
                 told, result, budgetVars, historyVars>>

RunDone ==
  /\ pc = "join" /\ \A n \in Nodes : phase[n] \in {"none", "joined"}
  /\ pc' = "done"
  /\ UNCHANGED <<plan, limits, ready, taskVars, budgetVars, announced, stored, historyVars>>

-----------------------------------------------------------------------------
(* The node tasks.                                                         *)

Billed(n) == nested[n] \/ ~plan[n].shell       \* it calls a model
Models(n) == IF nested[n] THEN plan[n].critic
             ELSE IF plan[n].shell THEN 1 ELSE plan[n].models
Criticised(n) == ~nested[n] /\ plan[n].critic > 0
Active    == {n \in Nodes : phase[n] \in {"call", "snap", "verify"}}

End(n, outcome) ==
  /\ phase' = [phase EXCEPT ![n] = "ended"]
  /\ result' = [result EXCEPT ![n] = outcome]
  /\ UNCHANGED <<model, attempt>>

\* The next attempt on the same model, else the next model, else the dispatch failed
\* (and so did the node, when this is its critic's dispatch).
NextTry(n, sameModel) ==
  \/ /\ sameModel /\ attempt[n] < plan[n].attempts
     /\ attempt' = [attempt EXCEPT ![n] = @ + 1]
     /\ phase' = [phase EXCEPT ![n] = "call"]
     /\ UNCHANGED <<model, result>>
  \/ /\ ~(sameModel /\ attempt[n] < plan[n].attempts)
     /\ model[n] < Models(n)
     /\ model' = [model EXCEPT ![n] = @ + 1]
     /\ attempt' = [attempt EXCEPT ![n] = 1]
     /\ phase' = [phase EXCEPT ![n] = "call"]
     /\ UNCHANGED result
  \/ /\ ~(sameModel /\ attempt[n] < plan[n].attempts)
     /\ model[n] = Models(n)
     /\ End(n, "Failed")

\* The task gets its permit.  It ends at once when verify_pre fails or the paid gate
\* left no model: the slot it reserved is spent without a call.
Start(n) ==
  /\ phase[n] = "spawned" /\ Cardinality(Active) < limits.permits
  /\ \/ /\ Models(n) > 0
        /\ phase' = [phase EXCEPT ![n] = "call"]
        /\ UNCHANGED <<model, attempt, result>>
     \/ /\ plan[n].baseline \/ Models(n) = 0
        /\ End(n, "Failed")
  /\ UNCHANGED <<plan, limits, pc, ready, nested, first, answer, posted, told, budgetVars,
                 announced, stored, start, reserved, answers>>

\* The worker returns an output.  "invalid": a success without node.validate in it.
Answered(n, how, usage) ==
  /\ phase[n] = "call"
  /\ how = "invalid" => Billed(n) /\ ~nested[n]
  /\ phase' = [phase EXCEPT ![n] = "snap"]
  /\ answer' = [answer EXCEPT ![n] = how]
  /\ IF Billed(n)
     THEN /\ counters' = Spent(~first[n], usage)
          /\ breach' = (breach \/ Breaches(~first[n], usage, counters'))
          /\ told' = [told EXCEPT ![n] = Tells(n, ~first[n], usage)]
          /\ first' = [first EXCEPT ![n] = FALSE]
          /\ answers' = answers + 1
     ELSE UNCHANGED <<counters, breach, told, first, answers>>
  /\ UNCHANGED <<plan, limits, pc, ready, nested, model, attempt, posted, result,
                 announced, stored, start, reserved>>

\* The second critical section: the counters as they are by now are posted.  Then the
\* answer decides: the critic, another attempt, another model, or the end.  verdict: what
\* the shell arms of verify say of the node, or the critic's own text.
Decide(n, verdict) ==
  /\ phase[n] = "snap"
  /\ posted' = [posted EXCEPT ![n] = IF Billed(n) THEN counters ELSE @]
  /\ CASE answer[n] = "ok" /\ verdict = "Done" /\ Criticised(n) ->
            phase' = [phase EXCEPT ![n] = "verify"] /\ UNCHANGED <<model, attempt, result>>
       [] answer[n] = "ok" /\ ~(verdict = "Done" /\ Criticised(n)) -> End(n, verdict)
       [] OTHER ->
            NextTry(n, answer[n] = "retryable" /\ Billed(n) => plan[n].backoff)
  /\ UNCHANGED <<plan, limits, pc, ready, nested, first, answer, told, budgetVars,
                 announced, stored, historyVars>>

\* The worker returns Err: nothing is recorded, the attempt is used up.
Errs(n) ==
  /\ MayErr /\ phase[n] = "call"
  /\ NextTry(n, TRUE)
  /\ UNCHANGED <<plan, limits, pc, ready, nested, first, answer, posted, told, budgetVars,
                 announced, stored, historyVars>>

\* The node's deadline elapses during a call: nothing is recorded and there is no retry.
TimesOut(n) ==
  /\ MayTimeout /\ phase[n] = "call"
  /\ End(n, "Failed")
  /\ UNCHANGED <<plan, limits, pc, ready, nested, first, answer, posted, told, budgetVars,
                 announced, stored, historyVars>>

\* Mutant: the critic's dispatch takes a permit of its own.
CriticTakesPermit(n) ==
  /\ phase[n] = "verify" /\ plan[n].critic > 0
  /\ Cardinality(Active) < limits.permits
  /\ Reserve
  /\ nested' = [nested EXCEPT ![n] = TRUE]
  /\ first' = [first EXCEPT ![n] = TRUE]
  /\ model' = [model EXCEPT ![n] = 1]
  /\ attempt' = [attempt EXCEPT ![n] = 1]
  /\ phase' = [phase EXCEPT ![n] = "call"]
  /\ UNCHANGED <<plan, limits, pc, ready, answer, posted, told, result, announced, stored,
                 start, answers>>

\* eval_critic reserves the critic's first call and dispatches it, under the permit
\* that the node already holds.
VerifyByCritic(n) ==
  /\ phase[n] = "verify" /\ plan[n].critic > 0
  /\ Reserve
  /\ nested' = [nested EXCEPT ![n] = TRUE]
  /\ first' = [first EXCEPT ![n] = TRUE]
  /\ model' = [model EXCEPT ![n] = 1]
  /\ attempt' = [attempt EXCEPT ![n] = 1]
  /\ phase' = [phase EXCEPT ![n] = "call"]
  /\ UNCHANGED <<plan, limits, pc, ready, answer, posted, told, result, announced, stored,
                 start, answers>>

\* A critic without budget: the verification fails closed.
CriticRejected(n) ==
  /\ phase[n] = "verify" /\ plan[n].critic > 0
  /\ Reject
  /\ told' = [told EXCEPT ![n] = TRUE]
  /\ End(n, "Failed")
  /\ UNCHANGED <<plan, limits, pc, ready, nested, first, answer, posted, announced,
                 stored, start, answers>>

Outcomes == {"Done", "Failed"}

LoopStep == \/ \E n \in Nodes : Spawn(n) \/ Gate(n) \/ Joined(n)
            \/ AllSpawned \/ RunDone

TaskStep(n) ==
  \/ Start(n)
  \/ \E how \in {"ok", "invalid", "fail", "retryable"}, usage \in Usages :
       Answered(n, how, usage)
  \/ \E outcome \in Outcomes : Decide(n, outcome)
  \/ Errs(n) \/ TimesOut(n)
  \/ VerifyByCritic(n) \/ CriticRejected(n)

DispatchNext == LoopStep \/ \E n \in Nodes : TaskStep(n)

\* The loop runs when it can, and every task is polled: a worker call always ends.
DispatchFairness == WF_dispatchVars(LoopStep)
                    /\ \A n \in Nodes : WF_dispatchVars(TaskStep(n))

DispatchSpec     == DispatchInit /\ [][DispatchNext]_dispatchVars
DispatchFairSpec == DispatchSpec /\ DispatchFairness

-----------------------------------------------------------------------------
(* Properties *)

\* However many nodes and critics compete, no more of them work at once than
\* --concurrency says, and no more dispatches are begun than the model-calls ceiling
\* leaves room for.
ReservationsWithinLimit ==
  /\ Cardinality(Active) <= limits.permits
  /\ limits.calls # NoLimit /\ reserved > 0 => start.calls + reserved <= limits.calls

\* model_calls is exact: the calls answered, to nodes and critics, first or repeated, and
\* the slots reserved for a first call that has not been answered.  A first call that
\* errs or outlives its deadline keeps its slot; a repeated one is not counted.  The vault
\* never shows more than was counted, and may show less, also at the end: the tasks post
\* what they saw, but not in that order.
CallsAccounted ==
  /\ counters.calls = start.calls + answers
                      + Cardinality({n \in Nodes : phase[n] # "none" /\ Billed(n) /\ first[n]})
  /\ stored.calls \in start.calls .. counters.calls

\* A ceiling is never exceeded unnoticed.
OverspendNoticed ==
  Over(counters.calls, limits.calls) \/ Over(counters.tokens, limits.tokens) => breach

\* A run that stops on a breach says so before it is done: otherwise the vault marks
\* it complete, and it cannot be resumed with a raised ceiling (B6).
BreachAnnounced == pc = "done" /\ breach => announced

\* Every task ends and the run is over, though a critic is dispatched while its node
\* holds a permit.
DispatchEnds == <>(pc = "done")
=============================================================================
