------------------------------- MODULE Resume -------------------------------
(***************************************************************************)
(* A run that crashes and is resumed (spec-08, spec-10): the scheduling    *)
(* loop of module Scheduler, the event channel and its consumer, the vault *)
(* that RedbSink projects the events into, and `pidag run` starting again  *)
(* from what load_checkpoint reads there.                                  *)
(*                                                                         *)
(* The loop sends its events and moves on; one consumer writes them to the *)
(* vault, one transaction each.  A crash loses the loop's state and every  *)
(* event still in the channel.  One process at a time has the vault open   *)
(* (RedbStore::open locks the file), so one at a time works on the run.    *)
(***************************************************************************)
EXTENDS Scheduler, SequencesExt

CONSTANTS Commands,       \* how `pidag run --run-id` may be invoked again
          MayVerifyFail,  \* whether a node may fail its verification
          MaxCrashes      \* bound on the number of crashes

\* --resume and --retry-failed.  --fresh changes nothing of its own: a run without
\* --resume starts afresh with it and without it.
CommandType == [resume : BOOLEAN, retry : BOOLEAN]

ASSUME ResumeAssumption ==
  Commands \subseteq CommandType /\ MayVerifyFail \in BOOLEAN /\ MaxCrashes \in Nat

VARIABLES
  up,        \* the process is alive
  chan,      \* events sent and not yet written
  rec,       \* NodeRecord.state in the vault, "none" when there is no record
  artifact,  \* the artifact in the vault: "none", "blank" (empty), "text" or "pass"
  complete,  \* RunMeta.completed_at is set
  output,    \* NodeState.output: as artifact
  exit,      \* how the last process ended: "none", "crash", "ok", "failed", "breach"
  crashes,   \* number of crashes so far
  last       \* history: how the node last ended in this run: "none" or a state

vault      == <<rec, artifact, complete>>
resumeVars == <<up, chan, rec, artifact, complete, output, exit, crashes, last>>
runVars    == <<vars, resumeVars>>

-----------------------------------------------------------------------------
(* The loop and its events.                                                *)

Event(n, to, text) == [node |-> n, to |-> to, text |-> text]

\* The text of an artifact is that of the last event that carries one.
Emit(events) == chan' = chan \o events

\* Mutant: a run with failed nodes is left open, to be resumed.
CompletesClean == ~breach /\ \A n \in Nodes : nodeState[n] # "Failed"

\* completed_at is set unless a ceiling was breached (spec-39, B6).
Completes == ~breach

ResumeInit ==
  /\ Init
  /\ up = TRUE /\ chan = <<>>
  /\ rec = [n \in Nodes |-> "none"]
  /\ artifact = [n \in Nodes |-> "none"] /\ output = artifact
  /\ complete = FALSE /\ exit = "none" /\ crashes = 0
  /\ last = [n \in Nodes |-> "none"]

\* Steps of the loop that send nothing.
QuietStep ==
  /\ up
  /\ \/ \E n \in Nodes : Dispatch(n) \/ Refuse(n)
                         \/ Release(n) \/ StartSkip(n)
     \/ Drained \/ EndSkip \/ EndWalk \/ TripCeiling
  /\ UNCHANGED resumeVars

\* NodeDispatched is sent when the node has ended, together with how it ended.  A
\* failed verification is sent as NodeVerifyFailed, which no table records.
JoinStep(n, outcome, says, unverified) ==
  LET text == IF says THEN "pass" ELSE "text" IN
  /\ up
  /\ Join(n, outcome, says)
  /\ unverified => MayVerifyFail /\ outcome = "Failed" /\ ~IsQuorum(n)
  /\ Emit(<<Event(n, "Running", "none")>>
          \o IF unverified THEN <<>> ELSE <<Event(n, outcome, text)>>)
  /\ output' = [output EXCEPT ![n] = text]
  /\ last' = [last EXCEPT ![n] = outcome]
  /\ UNCHANGED <<up, vault, exit, crashes>>

SkipStep(s) ==
  /\ up
  /\ Skip(s)
  /\ Emit(IF Terminal(s) THEN <<>> ELSE <<Event(s, "Done", "blank")>>)
  /\ last' = IF Terminal(s) THEN last ELSE [last EXCEPT ![s] = "Done"]
  /\ UNCHANGED <<up, vault, output, exit, crashes>>

BlockStep(m) ==
  /\ up
  /\ Block(m)
  /\ Emit(<<Event(m, "Blocked", "none")>>)
  /\ last' = [last EXCEPT ![m] = "Blocked"]
  /\ UNCHANGED <<up, vault, output, exit, crashes>>

FinishStep ==
  /\ up
  /\ Finish
  /\ Emit(<<Event(NoNode, IF Completes THEN "Completed" ELSE "Stopped", "none")>>)
  /\ UNCHANGED <<up, vault, output, exit, crashes, last>>

-----------------------------------------------------------------------------
(* The consumer: RedbSink::emit of the oldest event.                       *)

Write(e) ==
  IF e.node = NoNode
  THEN /\ complete' = (complete \/ e.to = "Completed")
       /\ UNCHANGED <<rec, artifact>>
  ELSE /\ rec' = [rec EXCEPT ![e.node] = e.to]
       /\ artifact' = IF e.text = "none" THEN artifact
                      ELSE [artifact EXCEPT ![e.node] = e.text]
       /\ UNCHANGED complete

Consume ==
  /\ up /\ chan # <<>>
  /\ chan' = Tail(chan)
  /\ Write(Head(chan))
  /\ UNCHANGED <<vars, up, output, exit, crashes, last>>

-----------------------------------------------------------------------------
(* The process.                                                            *)

\* Mutant: the process does not wait for its consumer.
ExitUndrained ==
  /\ up /\ pc = "done"
  /\ up' = FALSE /\ chan' = <<>>
  /\ complete' = Completes
  /\ exit' = IF breach THEN "breach"
             ELSE IF \E n \in Nodes : nodeState[n] = "Failed" THEN "failed" ELSE "ok"
  /\ UNCHANGED <<vars, rec, artifact, output, crashes, last>>

\* The consumer has drained the channel: the run is recorded once more and the
\* process exits.
Exit ==
  /\ up /\ pc = "done" /\ chan = <<>>
  /\ up' = FALSE
  /\ complete' = Completes
  /\ exit' = IF breach THEN "breach"
             ELSE IF \E n \in Nodes : nodeState[n] = "Failed" THEN "failed" ELSE "ok"
  /\ UNCHANGED <<vars, chan, rec, artifact, output, crashes, last>>

Crash ==
  /\ up /\ crashes < MaxCrashes
  /\ up' = FALSE /\ chan' = <<>>
  /\ exit' = "crash" /\ crashes' = crashes + 1
  /\ UNCHANGED <<vars, vault, output, last>>

\* Mutant: only a node with an output counts as completed.
CompletedWithOutput == {n \in Nodes : rec[n] = "Done" /\ artifact[n] # "blank"}

\* The checkpoint that load_checkpoint builds.
Completed == {n \in Nodes : rec[n] = "Done"}
FailedIn(c) == {n \in Nodes : rec[n] = "Failed" /\ ~c.retry}
BlockedBefore == {n \in Nodes : rec[n] = "Blocked"}

\* Step 4 of the replay: the nodes found, in file order, to depend on a terminal node
\* that is Failed or Blocked, the ones found before included.  The file order is the
\* author's: any order gives one of these sequences.
Cascades(bad, terminal) ==
  {s \in SetToAllKPermutations({n \in Nodes \ terminal : dag.deps[n] # {}}) :
     /\ \A i \in DOMAIN s :
          dag.deps[s[i]] \cap (bad \cup Range(SubSeq(s, 1, i - 1))) # {}
     /\ \A n \in Nodes \ terminal : dag.deps[n] \cap bad # {} => n \in Range(s)}

\* Mutant: the replay of completed nodes does not count their dependents down.
LoadWithoutDegrees(done, failed, blocked, cascade) ==
  LET terminal == done \cup failed \cup blocked IN
  /\ nodeState' = [n \in Nodes |-> CASE n \in done -> "Done"
                                     [] n \in failed -> "Failed"
                                     [] n \in blocked \cup cascade -> "Blocked"
                                     [] OTHER -> "Pending"]
  /\ inDegree' = [n \in Nodes |-> Cardinality(dag.deps[n])]
  /\ afterPending' = [n \in Nodes |-> Cardinality(dag.after[n] \ terminal)]
  /\ ready' = {n \in Nodes \ (terminal \cup cascade) : inDegree'[n] = 0 /\ afterPending'[n] = 0}
  /\ released' = [n \in Nodes |-> dag.deps[n] \cap done]
  /\ settled' = done \cup failed

\* The maps of execute() after the replay: only completed nodes count the in-degree of
\* their dependents down, and the nodes of the cascade count nothing down.
Load(done, failed, blocked, cascade) ==
  LET terminal == done \cup failed \cup blocked IN
  /\ nodeState' = [n \in Nodes |-> CASE n \in done -> "Done"
                                     [] n \in failed -> "Failed"
                                     [] n \in blocked \cup cascade -> "Blocked"
                                     [] OTHER -> "Pending"]
  /\ inDegree' = [n \in Nodes |-> Cardinality(dag.deps[n] \ done)]
  /\ afterPending' = [n \in Nodes |-> Cardinality(dag.after[n] \ terminal)]
  /\ ready' = {n \in Nodes \ (terminal \cup cascade) : inDegree'[n] = 0 /\ afterPending'[n] = 0}
  /\ released' = [n \in Nodes |-> dag.deps[n] \cap done]
  /\ settled' = done \cup failed

\* The replayed nodes keep the output that the vault holds, and are sent again as
\* events: NodeDone with an empty output, NodeFailed with a fixed text.  The sets are
\* hash sets; one order of their members is enough, as their records are disjoint.
Replay(done, failed, blocked, cascade) ==
  LET seen == done \cup failed \cup blocked
      Sent(S, to, text) == [i \in 1 .. Cardinality(S) |-> Event(SetToSeq(S)[i], to, text)]
  IN
  /\ terminalOrder' = SetToSeq(done) \o SetToSeq(failed) \o SetToSeq(blocked) \o cascade
  /\ chan' = Sent(done, "Done", "blank") \o Sent(failed, "Failed", "blank")
             \o Sent(blocked, "Blocked", "none")
             \o [i \in DOMAIN cascade |-> Event(cascade[i], "Blocked", "none")]
  /\ output' = [n \in Nodes |-> IF n \in seen THEN artifact[n] ELSE "none"]
  /\ passes' = {n \in seen : artifact[n] = "pass"}
  /\ last' = [n \in Nodes |-> IF n \in Range(cascade) THEN "Blocked" ELSE last[n]]

\* The maps that start empty in every process.
Blank ==
  /\ enqueued' = ready' /\ tasks' = {} /\ verdict' = [n \in Nodes |-> "Pending"]
  /\ breach' = FALSE /\ pc' = "drain" /\ fin' = NoNode
  /\ todo' = {} /\ skipWork' = {} /\ skipDone' = {}

\* `pidag run --run-id --resume` of a run that is not complete.
Restart(c) ==
  /\ ~up /\ c.resume /\ ~complete
  /\ \E cascade \in Cascades(FailedIn(c) \cup BlockedBefore,
                             Completed \cup FailedIn(c) \cup BlockedBefore) :
       /\ Load(Completed, FailedIn(c), BlockedBefore, Range(cascade))
       /\ Replay(Completed, FailedIn(c), BlockedBefore, cascade)
  /\ Blank
  /\ up' = TRUE /\ exit' = "none"
  /\ UNCHANGED <<dag, vault, crashes>>

\* Mutant: the cached report lists the blocked nodes as failed.
ReportedWithBlocked == {n \in Nodes : rec[n] \in {"Failed", "Blocked"}}

\* RunReport.failed of the cached report.
ReportedFailed == {n \in Nodes : rec[n] = "Failed"}

\* AlreadyDone: the cached report is printed.
ShowCached(c) ==
  /\ ~up /\ c.resume /\ complete
  /\ exit' = IF ReportedFailed # {} THEN "failed" ELSE "ok"
  /\ UNCHANGED <<vars, up, chan, vault, output, crashes, last>>

\* Without --resume the run starts afresh under the same id: the run record is
\* overwritten, the node records and artifacts are not.
StartFresh(c) ==
  /\ ~up /\ ~c.resume
  /\ Load({}, {}, {}, {})
  /\ Blank
  /\ terminalOrder' = <<>> /\ chan' = <<>> /\ passes' = {}
  /\ output' = [n \in Nodes |-> "none"]
  /\ last' = [n \in Nodes |-> "none"]
  /\ up' = TRUE /\ exit' = "none" /\ complete' = FALSE
  /\ UNCHANGED <<dag, rec, artifact, crashes>>

RunStep ==
  \/ QuietStep
  \/ \E n \in Nodes : SkipStep(n) \/ BlockStep(n)
  \/ FinishStep \/ Exit

TaskEnds ==
  \E n \in Nodes, outcome \in {"Done", "Failed"}, says, unverified \in BOOLEAN :
    JoinStep(n, outcome, says, unverified)

Invoke == \E c \in Commands : Restart(c) \/ ShowCached(c) \/ StartFresh(c)

ResumeNext == RunStep \/ TaskEnds \/ Consume \/ Crash \/ Invoke

\* As in Scheduler; the consumer is polled; and somebody resumes an interrupted run
\* (`pidag auto` passes --resume every time).
ResumeFairness == /\ WF_runVars(RunStep) /\ WF_runVars(TaskEnds) /\ WF_runVars(Consume)
                  /\ WF_runVars(\E c \in Commands : Restart(c))

ResumeSpec     == ResumeInit /\ [][ResumeNext]_runVars
ResumeFairSpec == ResumeSpec /\ ResumeFairness

-----------------------------------------------------------------------------
(* Properties *)

\* The DAGs on which a resumed run keeps every promise: no gates, and ordering edges
\* only to nodes that nothing can block.
NoGates   == \A n \in Nodes : dag.gate[n] = NoNode
RootAfter == \A n \in Nodes : \A a \in dag.after[n] : dag.deps[a] = {}

\* A run that was interrupted, however often and wherever, and resumed ends as an
\* uninterrupted one could have: a node has run if and only if all its dependencies
\* succeeded, and its state is what its last execution, in whichever process, gave.
ResumedRunIsARun ==
  pc = "done" /\ ~breach /\ NoGates /\ RootAfter =>
    \A n \in Nodes :
      IF \A d \in dag.deps[n] : nodeState[d] = "Done"
      THEN nodeState[n] \in {"Done", "Failed"} /\ nodeState[n] = last[n]
      ELSE nodeState[n] \in {"Blocked", "Pending"}

\* No completed work is lost: a node that the vault records as Done is never dispatched
\* again, and neither is a Blocked one.
NoRework ==
  [][\A n \in tasks' \ tasks : rec[n] \notin {"Done", "Blocked"}]_runVars

\* A run marked complete left nothing behind in the channel: what the vault says of a
\* node is how the node ended.
CompleteVaultAgrees ==
  complete => \A n \in Nodes :
    rec[n] = IF nodeState[n] = "Pending" THEN "none" ELSE nodeState[n]

\* No node failed its verification in this run, which the vault would not know of.
FailuresRecorded == \A n \in Nodes : last[n] = "Failed" => rec[n] = "Failed"

\* No node that this run left Pending is Failed in the vault, from an earlier run: without
\* --resume the records of the nodes stay.
NoOldFailure == \A n \in Nodes : nodeState[n] = "Pending" => rec[n] # "Failed"

\* Asking again for a run that is complete gives the exit status it had, except that
\* failed verifications are forgotten and failures of an earlier run remembered.
CachedExitAgrees ==
  [][complete /\ ~up /\ ~up' =>
       /\ exit = "ok" /\ NoOldFailure => exit' = "ok"
       /\ exit = "failed" /\ FailuresRecorded => exit' = "failed"]_runVars

\* An interrupted run that is resumed is complete in the end, unless it breaches its
\* ceiling over and over.
RunCompletes == <>[](exit # "breach") => <>complete

-----------------------------------------------------------------------------
(* What the documents promise of every DAG: a run finds it violated.            *)

\* "resume hydrates outputs from the vault" (specs/29, I7), so that a prompt that
\* refers to an output does not resolve to empty: the replay stores an empty output
\* over the one it hydrated, and the next resume reads that.
OutputSurvives ==
  \A n \in tasks : \A d \in dag.deps[n] : NoGates => output[d] \in {"text", "pass"}

=============================================================================
