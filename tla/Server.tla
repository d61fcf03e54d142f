------------------------------- MODULE Server -------------------------------
(***************************************************************************)
(* `pidag serve` and `pidag mcp` (src/rpc, src/mcp): the handlers that     *)
(* submit a run, wait for it, report on it, cancel it and mark a node for  *)
(* retry, over the vault of module Vault, which they open once per         *)
(* operation, like the sink of the run, while a UI polls it.               *)
(*                                                                         *)
(* Each request is a task of its own.  A handler looks into the map of     *)
(* runs under its mutex, lets go of it and then awaits the store: what it  *)
(* has seen may be past by then.                                           *)
(***************************************************************************)
EXTENDS Vault

CONSTANT MayCancel   \* whether dag.cancel is ever called

ASSUME ServerAssumption == MayCancel \in BOOLEAN

VARIABLES
  entry,    \* the run in the map of runs: "none", "listed", "gone" or, when the server is, "dead"
  over,     \* RunState.completed_at is set
  task,     \* the spawned task: "none", "running", "aborting", "aborted", "ended"
  call,     \* of each handler: what it does, and about which node
  retried   \* history: the nodes marked for retry

serverVars == <<entry, over, task, call, retried>>
allVars    == <<vaultVars, serverVars>>

ServerInit ==
  /\ VaultInit
  /\ entry = "none" /\ over = FALSE /\ task = "none"
  /\ call = [h \in Handlers |-> [what |-> "none", node |-> NoNode]]
  /\ retried = {}

\* RunState::is_terminal of the run, if it is in the map.
IsTerminal == entry = "listed" /\ over

-----------------------------------------------------------------------------
(* The run.                                                                *)

\* dag.submit: the run is spawned and put in the map; a DAG that does not expand or
\* validate is refused before that.  No row is written: DagSubmitted makes one.
Submit ==
  /\ ~kept /\ task = "none"
  /\ task' = "running" /\ entry' = "listed"
  /\ up' = "going" /\ todo' = Nodes
  /\ chan' = <<Event("Submitted", NoNode)>>
  /\ UNCHANGED <<fileVars, callVars, kept, fate, sessions, readerVars, faultVars,
                 over, call, retried>>

\* Mutant: the run is over when DagDone is sent.
TaskEndsEarly ==
  /\ task \in {"running", "aborting"} /\ up = "ending"
  /\ task' = "ended" /\ over' = TRUE /\ up' = "no"
  /\ UNCHANGED <<fileVars, callVars, kept, chan, todo, fate, sessions, readerVars,
                 faultVars, entry, call, retried>>

\* run() returns when the consumer has drained the channel, and completed_at is set.
TaskEnds ==
  /\ task \in {"running", "aborting"} /\ up = "ending" /\ Drained
  /\ task' = "ended" /\ over' = TRUE /\ up' = "no"
  /\ UNCHANGED <<fileVars, callVars, kept, chan, todo, fate, sessions, readerVars,
                 faultVars, entry, call, retried>>

\* dag.cancel: the entry is removed, the task told to abort, and completed_at of the
\* removed entry set.
Cancel ==
  /\ MayCancel /\ entry = "listed"
  /\ entry' = "gone" /\ over' = TRUE
  /\ task' = IF task = "running" THEN "aborting" ELSE task
  /\ UNCHANGED <<vaultVars, call, retried>>

\* The abort takes effect where the task waits; what it has sent is still written.
TaskAborts ==
  /\ task = "aborting"
  /\ task' = "aborted" /\ up' = "no" /\ todo' = {}
  /\ UNCHANGED <<fileVars, callVars, kept, chan, fate, sessions, readerVars,
                 faultVars, entry, over, call, retried>>

\* The cleanup task removes a run some time after it is over.
Sweep ==
  /\ IsTerminal
  /\ entry' = "gone"
  /\ UNCHANGED <<vaultVars, over, task, call, retried>>

-----------------------------------------------------------------------------
(* The requests.  Of a run that is not in the map they say "not found".    *)

NoCall == [what |-> "none", node |-> NoNode]
Free(h) == call[h] = NoCall

\* The handler goes on with some operations of the store; it has none when it only polls.
Goes(h, what, n, ops) ==
  /\ call' = [call EXCEPT ![h] = [what |-> what, node |-> n]]
  /\ script' = [script EXCEPT ![h] = ops]
  /\ UNCHANGED <<fileVars, got, cur, runVars, readerVars, faultVars, entry, over, task>>

Await(h) ==
  /\ Free(h) /\ entry = "listed"
  /\ Goes(h, "await", NoNode, <<>>)
  /\ UNCHANGED retried

\* dag.status; dag.result reads the records in the same way, and then the artifacts.
Status(h) ==
  /\ Free(h) /\ entry = "listed"
  /\ Goes(h, "status", NoNode, <<"nodes">>)
  /\ UNCHANGED retried

\* Every 100 ms dag.await looks whether the run is over: then it counts the records.
SeesEnd(h) ==
  /\ call[h].what = "await" /\ IsTerminal
  /\ Goes(h, "counting", NoNode, <<"nodes">>)
  /\ UNCHANGED retried

\* Mutant: a run that has left the map does not time out.
GivesUpListed(h) ==
  /\ call[h].what = "await" /\ entry = "listed" /\ ~over
  /\ Goes(h, "tokening", NoNode, <<"events">>)
  /\ UNCHANGED retried

\* ... and when it times out it asks for the events, for the token.  A run that has left
\* the map is not known to be over.
GivesUp(h) ==
  /\ call[h].what = "await" /\ ~IsTerminal
  /\ Goes(h, "tokening", NoNode, <<"events">>)
  /\ UNCHANGED retried

\* Mutant: a run in progress may be retried too.
RetryAnyTime(h, n) ==
  /\ Free(h) /\ entry = "listed" /\ n \notin retried
  /\ Goes(h, "retry", n, <<"state", "append">>)
  /\ retried' = retried \cup {n}

\* node.retry, of a run that is over: the record becomes Pending and an event is appended.
\* Nothing runs the node.  (Once per node is enough.)
Retry(h, n) ==
  /\ Free(h) /\ IsTerminal /\ n \notin retried
  /\ Goes(h, "retry", n, <<"state", "append">>)
  /\ retried' = retried \cup {n}

\* An operation succeeds; after the last one the answer is sent.
HandlerStep(h) ==
  /\ stage[h] = "open"
  /\ db' = Apply(Head(script[h]), db, Event("ManualRetry", call[h].node), 0)
  /\ script' = [script EXCEPT ![h] = Tail(@)]
  /\ call' = IF Len(script[h]) = 1 THEN [call EXCEPT ![h] = NoCall] ELSE call
  /\ Close(h)
  /\ UNCHANGED <<got, cur, runVars, readerVars, faultVars, entry, over, task, retried>>

\* An operation fails: the answer is an error, whatever was done before it.
HandlerFails(h) ==
  /\ Refused(h) \/ Unreadable(h)
  /\ script' = [script EXCEPT ![h] = <<>>]
  /\ call' = [call EXCEPT ![h] = NoCall]
  /\ lost' = (lost \/ call[h].what = "retry")
  /\ Close(h)
  /\ UNCHANGED <<db, got, cur, runVars, readerVars, torn, entry, over, task, retried>>

\* The server is killed.
Dies ==
  /\ task # "none" /\ entry # "dead"
  /\ entry' = "dead" /\ task' = "aborted" /\ over' = FALSE
  /\ call' = [h \in Handlers |-> NoCall]
  /\ up' = "no" /\ chan' = <<>> /\ todo' = {}
  /\ script' = [c \in Clients |-> <<>>]
  /\ holder' = IF holder = Reader THEN Reader ELSE Nobody
  /\ stage' = [c \in Clients |-> IF c = Reader THEN stage[c] ELSE "closed"]
  /\ done' = IF holder = Reader THEN done ELSE {}
  /\ torn' = (torn \/ \E c \in Clients : script[c] # <<>>)
  /\ got' = 0 /\ cur' = NoEvent
  /\ UNCHANGED <<db, kept, fate, sessions, readerVars, lost, clashes, retried>>

-----------------------------------------------------------------------------
HandlerMoves(h) ==
  \/ SeesEnd(h) \/ GivesUp(h) \/ HandlerStep(h) \/ HandlerFails(h)
  \/ (Open(h) \/ MigrateRecord(h) \/ MigrateCommit(h)) /\ UNCHANGED serverVars

ServerNext ==
  \/ VaultStep /\ UNCHANGED serverVars
  \/ Submit \/ TaskEnds \/ Cancel \/ TaskAborts \/ Sweep \/ Dies
  \/ \E h \in Handlers :
       \/ Await(h) \/ Status(h) \/ \E n \in Nodes : Retry(h, n)
       \/ HandlerMoves(h)

ServerSpec == ServerInit /\ [][ServerNext]_allVars

\* Whoever has the file open closes it again, the tasks of the process are polled, and a
\* wait times out.  No operation waits for the file; where the bound on clashes makes one
\* wait, it gets it in the end.
Holding(c)  == ReaderStep \/ ReaderFails \/ MigrateRecord(c) \/ MigrateCommit(c)
SinkMoves   == Take \/ SinkStep \/ SinkFails \/ Open(Sink) \/ MigrateRecord(Sink)
               \/ MigrateCommit(Sink) \/ Started \/ StartFails \/ RunProgress \/ Exit
ServerFairness ==
  /\ WF_allVars(SinkMoves /\ UNCHANGED serverVars)
  /\ WF_allVars(Holding(Reader) /\ UNCHANGED serverVars)
  /\ \A h \in Handlers : WF_allVars(HandlerMoves(h)) /\ SF_allVars(Open(h) /\ UNCHANGED serverVars)

ServerFairSpec == ServerSpec /\ ServerFairness

-----------------------------------------------------------------------------
(* Properties *)

\* node.retry writes into the vault only when the run, its consumer included, is done
\* with it, though the check is past when the writes are made.
RetryAfterRun == \A h \in Handlers : call[h].what = "retry" => up = "no" /\ Drained

\* handle_dag_status.
Verdict(t) ==
  LET known == {n \in Nodes : t.state[n] # "none"} IN
  CASE \E n \in known : t.state[n] = "Failed"                    -> "failed"
    [] known # {} /\ ~t.extra /\ \A n \in known : t.state[n] = "Done" -> "done"
    [] OTHER                                                      -> "running"

Misrecorded == {n \in Nodes : db.state[n] # fate[n]}

\* An await that says done says so of a run that has ended; and what it and a status after
\* the end report is how the scheduler ended each node, but for the nodes marked for retry
\* since: an operation that met the file open for another is not tried again, yet costs no
\* more than one record, and a later event of the node makes up for it.  With a critic's
\* record, a run without failures stays "running" for ever.
EndReported ==
  /\ \A h \in Handlers : call[h].what = "counting" => entry = "gone" \/ (task = "ended" /\ Drained)
  /\ task = "ended" /\ db.version = Current =>
       Cardinality(Misrecorded \ retried) <= clashes
  /\ task = "ended" /\ ~lost /\ retried = {} =>
       db.extra \/ Verdict(db) = IF \E n \in Nodes : fate[n] = "Failed" THEN "failed" ELSE "done"

\* Every request is answered, whatever is cancelled, swept or refused meanwhile.
RequestsAnswered == \A h \in Handlers : ~Free(h) ~> Free(h)
=============================================================================
