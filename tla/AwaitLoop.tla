----------------------------- MODULE AwaitLoop -----------------------------
(***************************************************************************)
(* Waiting for a run: await_dag, wait_any and resume_await of a Scheduler  *)
(* handle (src/scheduler/mod.rs, src/scheduler/await_loop.rs), over the    *)
(* published snapshot of module WatchSnapshot.                             *)
(*                                                                         *)
(* The calls take &mut self, so one is in progress at a time.  A receiver  *)
(* of the watch channel holds the version it has seen: changed() returns   *)
(* at once when the current version is another one and parks otherwise.    *)
(* The check of the snapshot and the parking are separate steps, and the   *)
(* run publishes between them.                                             *)
(***************************************************************************)
EXTENDS WatchSnapshot, FiniteSets

CONSTANTS MayAbort,   \* whether execute() may return an error (no dag_done then)
          MaxTokens   \* bound on the resume tokens held at once

ASSUME AwaitAssumption == IsFiniteSet(Nodes) /\ MayAbort \in BOOLEAN /\ MaxTokens \in Nat

VARIABLES
  version,   \* version of the watch channel: the number of send_modify so far
  run,       \* the background task: "none", "going", "over", "aborted"
  call,      \* the call in progress: "none", "dag" or "any"
  timed,     \* whether it was given a timeout
  at,        \* where it is: "check" (the snapshot), "checked" or "parked" in changed()
  seen,      \* the version its receiver has seen
  consumed,  \* Scheduler.consumed
  tokens,    \* versions seen by the receivers of the resume tokens held
  handed,    \* history: the nodes wait_any handed back, in order
  outcome    \* how the last call returned

clientVars == <<call, timed, at, seen, consumed, tokens, handed, outcome>>
awaitVars  == <<snapVars, version, run, clientVars>>

NoCall == call = "none"

AwaitInit ==
  /\ Init
  /\ version = 0 /\ run = "none"
  /\ call = "none" /\ timed = FALSE /\ at = "check" /\ seen = 0
  /\ consumed = {} /\ tokens = {} /\ handed = <<>> /\ outcome = "none"

-----------------------------------------------------------------------------
(* The background task.                                                    *)

\* One publication.  The channel's version goes up even when the value a watcher
\* cares about is the same.
RunStep ==
  /\ run = "going"
  /\ Next
  /\ version' = version + 1
  /\ run' = IF done' THEN "over" ELSE "going"
  /\ UNCHANGED clientVars

\* execute() returns an error: the DAG does not expand or validate, before anything
\* is published, or the event consumer is gone when DagDone is sent.  ensure_started
\* drops the result.
RunAborts ==
  /\ MayAbort /\ run = "going"
  /\ run' = "aborted"
  /\ UNCHANGED <<snapVars, version, clientVars>>

-----------------------------------------------------------------------------
(* The calls.                                                              *)

\* ensure_started spawns the run on the first call; subscribe() yields a receiver
\* that has seen the current version.
Call(kind, limit) ==
  /\ NoCall
  /\ run' = IF run = "none" THEN "going" ELSE run
  /\ call' = kind /\ timed' = limit /\ at' = "check"
  /\ seen' = version
  /\ outcome' = "none"
  /\ UNCHANGED <<snapVars, version, consumed, tokens, handed>>

\* resume_await goes on with the receiver of a token, and waits for the whole DAG
\* whichever call returned the token.
Resume(token, limit) ==
  /\ NoCall /\ token \in tokens
  /\ tokens' = tokens \ {token}
  /\ call' = "dag" /\ timed' = limit /\ at' = "check"
  /\ seen' = token
  /\ outcome' = "none"
  /\ UNCHANGED <<snapVars, version, run, consumed, handed>>

Return(what) ==
  /\ call' = "none" /\ at' = "check"
  /\ outcome' = what
  /\ UNCHANGED <<snapVars, version, run, timed, seen>>

\* Mutant: only the newest entry of terminal_order is looked at.
NewestOnly == {i \in {Len(order)} \ {0} : order[i] \notin consumed}

\* Where terminal_order has nodes that wait_any has not handed back yet; the loop over it
\* stops at the first.
Fresh == {i \in 1 .. Len(order) : order[i] \notin consumed}
First == order[CHOOSE i \in Fresh : \A j \in Fresh : i <= j]

\* done_report, or the fallback of next_terminal_node once nothing is fresh.
ReturnDone ==
  /\ ~NoCall /\ at = "check" /\ done
  /\ call = "any" => Fresh = {}
  /\ Return("Done")
  /\ UNCHANGED <<consumed, tokens, handed>>

ReturnNode ==
  /\ call = "any" /\ at = "check" /\ Fresh # {}
  /\ consumed' = consumed \cup {First}
  /\ handed' = Append(handed, First)
  /\ Return("Node")
  /\ UNCHANGED tokens

\* Nothing to return yet.
Check ==
  /\ ~NoCall /\ at = "check"
  /\ ~done /\ (call = "any" => Fresh = {})
  /\ at' = "checked"
  /\ UNCHANGED <<snapVars, version, run, call, timed, seen, consumed, tokens, handed, outcome>>

\* Mutant: changed() notices only what is published after it is called.
ParkUnseen ==
  /\ at = "checked"
  /\ at' = "parked"
  /\ seen' = version
  /\ UNCHANGED <<snapVars, version, run, call, timed, consumed, tokens, handed, outcome>>

\* The receiver is up to date: it waits in changed().
Park ==
  /\ at = "checked" /\ seen = version
  /\ at' = "parked"
  /\ UNCHANGED <<snapVars, version, run, call, timed, seen, consumed, tokens, handed, outcome>>

\* changed() delivers every publication since the version seen as one change, at once
\* when there is one already.
Wake ==
  /\ at # "check" /\ seen # version
  /\ seen' = version
  /\ at' = "check"
  /\ UNCHANGED <<snapVars, version, run, call, timed, consumed, tokens, handed, outcome>>

\* The deadline passes; a change that is already there is delivered first.  The
\* token keeps the receiver.
Timeout ==
  /\ at = "parked" /\ timed /\ seen = version
  /\ Cardinality(tokens) < MaxTokens \/ seen \in tokens
  /\ tokens' = tokens \cup {seen}
  /\ Return("Running")
  /\ UNCHANGED <<consumed, handed>>

\* The channel is never closed under a parked call: the handle it borrows holds
\* the sender, so the wait_result.is_err() branches have no action here.
Serve == ReturnDone \/ ReturnNode \/ Check \/ Park \/ Wake \/ Timeout

AwaitNext ==
  \/ RunStep
  \/ RunAborts
  \/ \E limit \in BOOLEAN :
       \/ \E kind \in {"dag", "any"} : Call(kind, limit)
       \/ \E token \in tokens : Resume(token, limit)
  \/ Serve

\* The run makes progress (RunContract of module Scheduler), and the runtime polls
\* a call that can go on.  Nobody has to make a call.
AwaitFairness == WF_awaitVars(RunStep) /\ WF_awaitVars(Serve)

AwaitSpec     == AwaitInit /\ [][AwaitNext]_awaitVars
AwaitFairSpec == AwaitSpec /\ AwaitFairness

-----------------------------------------------------------------------------
(* Properties *)

\* wait_any hands back every node once and in the order they became terminal,
\* however its calls, timeouts and other waits interleave with the run.
HandedInOrder ==
  /\ Len(handed) <= Len(order)
  /\ handed = SubSeq(order, 1, Len(handed))

\* No publication falls between the check of the snapshot and the parking: a call
\* whose receiver is up to date has nothing it should return.
NothingSleptThrough ==
  at = "parked" /\ seen = version => ~done /\ (call = "any" => Fresh = {})

\* Every call returns, with or without a timeout, unless the run ends in an error: nothing
\* marks the end of that run, its sender lives on, and a call without a timeout hangs.
CallReturns == ~NoCall ~> NoCall \/ run = "aborted"
=============================================================================
