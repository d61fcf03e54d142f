-------------------------------- MODULE Vault --------------------------------
(***************************************************************************)
(* The vault (src/store) of one run: the redb file, its transactions, the  *)
(* migration of its schema, RedbSink (src/core/event.rs) that projects the *)
(* events of the run into its tables, and a reader of the event log that   *)
(* polls it from another process (the trace UI).                           *)
(*                                                                         *)
(* Whoever has the file open holds it exclusively.  `pidag run` keeps it   *)
(* open (RedbStore) and projects most events in one transaction.  Server   *)
(* and UI open it for each operation (RedbStorePool); there a projection   *)
(* is the trait's default, a sequence of operations, and an operation that *)
(* meets the file open elsewhere fails.  Tables are keyed by run, so other *)
(* runs only contend for the file.                                         *)
(*                                                                         *)
(* Texts, counters and timestamps are represented by the event that brings *)
(* them: its position in the log, from 1; its sequence number is one less. *)
(***************************************************************************)
EXTENDS Naturals, FiniteSets, FiniteSetsExt, Sequences, SequencesExt

CONSTANTS
  Nodes,       \* the nodes of the run
  NoNode,      \* the node of an event about the run as a whole
  Handlers,    \* calls of the store that the run's process may have in progress besides
  Vaults,      \* what the file may hold at first
  Batches,     \* for each node: the kinds of events it may end with, in sequence
  MaxSessions, \* bound on the number of processes that work on the run, one after another
  MaxClashes   \* bound on the number of operations that meet the file open elsewhere

Sink    == "sink"      \* the consumer of the run's events
Reader  == "reader"    \* the UI
Nobody  == "nobody"
Clients == {Sink, Reader} \cup Handlers

\* CURRENT_SCHEMA_VERSION
Current == 2

Outcomes == {"Done", "Failed"}
Ends     == Outcomes \cup {"Blocked"}

\* The kinds of events that a task sends of its node, and of all events.
TaskKinds == {"Dispatched", "Critic", "Retry", "Budget"} \cup Outcomes
Kinds     == TaskKinds \cup {"Submitted", "Blocked", "DagDone", "ManualRetry"}

ASSUME VaultAssumption ==
  /\ NoNode \notin Nodes /\ IsFiniteSet(Nodes) /\ MaxSessions \in Nat /\ MaxClashes \in Nat
  /\ Sink \notin Handlers /\ Reader \notin Handlers /\ Nobody \notin Clients
  /\ \A n \in Nodes : \A b \in Batches[n] :
       b \in Seq(TaskKinds) /\ b # <<>> /\ Last(b) \in Outcomes

VARIABLES
  kept,     \* whether the run's process keeps the file open: `pidag run`, not a server
  db,       \* the tables: version, old (nodes with a record in the version 1 format), bad
            \* (of these, one that does not parse), log, and per node state, artifact and
            \* timing; row (the run), budget, extra (a record of a node that is not in the DAG)
  holder,   \* who has the file open
  stage,    \* of each client: "closed", "migrating" or "open"
  done,     \* the records that the migration in progress has converted, uncommitted
  script,   \* of each client: the operations left of the call it is in
  got,      \* the started_at that the sink has read, 0 if there is none
  cur,      \* the event that the sink projects
  chan,     \* the events sent to the sink
  up,       \* the run: "no", "going" or "ending" (DagDone is sent)
  todo,     \* the nodes that have not ended in this process
  since,    \* the sequence number that the reader has seen last
  seen,     \* history: the events it has read
  fate,     \* history: how each node ended, for the scheduler
  lost,     \* history: an operation that writes failed
  clashes,  \* number of operations so far that met the file open elsewhere
  torn,     \* history: the process died between two operations of a projection
  sessions  \* number of processes so far

fileVars   == <<db, holder, stage, done>>
callVars   == <<script, got, cur>>
runVars    == <<kept, chan, up, todo, fate, sessions>>
readerVars == <<since, seen>>
faultVars  == <<lost, clashes, torn>>
vaultVars  == <<fileVars, callVars, runVars, readerVars, faultVars>>

Event(kind, n) == [kind |-> kind, node |-> n]
NoEvent  == Event("none", NoNode)
NoTiming == [start |-> 0, ended |-> FALSE]

\* The state that an event gives its node.
StateOf(kind) == CASE kind = "Dispatched"  -> "Running"
                   [] kind = "ManualRetry" -> "Pending"
                   [] OTHER                -> kind

\* The tables of a run that nothing is recorded of.
Empty(version) ==
  [version |-> version, old |-> {}, bad |-> {}, log |-> <<>>,
   state |-> [n \in Nodes |-> "none"], artifact |-> [n \in Nodes |-> 0],
   timing |-> [n \in Nodes |-> NoTiming],
   row |-> "none", budget |-> 0, extra |-> FALSE]

-----------------------------------------------------------------------------
(* The operations of the Store trait, as functions of the tables.          *)

\* append_event: the sequence number is the one after the last.
Append_(t, e) == [t EXCEPT !.log = Append(@, e)]

\* A critic is dispatched under the id "<node>::verify", and nothing says that it ends.
PutState(t, e) == IF e.kind = "Critic" THEN [t EXCEPT !.extra = TRUE]
                  ELSE [t EXCEPT !.state[e.node] = StateOf(e.kind)]
PutArtifact(t, e) == [t EXCEPT !.artifact[e.node] = Len(t.log)]
PutRow(t, what)   == [t EXCEPT !.row = what]
PutBudget(t)      == [t EXCEPT !.budget = Len(t.log)]

\* started_at is kept if there is one, and ended_at set or cleared.
PutTiming(t, e, start) ==
  IF e.kind = "Critic" THEN t
  ELSE [t EXCEPT !.timing[e.node] = [start |-> IF start = 0 THEN Len(t.log) ELSE start,
                                     ended |-> e.kind \in Outcomes]]

\* project_node_dispatched, _done, _failed and _retry of RedbStore: one transaction each.
Started_(t, e)          == t.timing[e.node].start
ProjectDispatched(t, e) == PutTiming(PutState(Append_(t, e), e), e, Started_(t, e))
ProjectEnded(t, e)      == PutTiming(PutArtifact(PutState(Append_(t, e), e), e), e, Started_(t, e))
ProjectRetry(t, e)      == PutTiming(Append_(t, e), e, Started_(t, e))

Project(t, e) ==
  CASE e.kind \in {"Dispatched", "Critic"} -> ProjectDispatched(t, e)
    [] e.kind \in Outcomes                 -> ProjectEnded(t, e)
    [] OTHER                               -> ProjectRetry(t, e)

\* Mutant: the range begins with the event seen last.
EventsFrom(t, last) == SubSeq(t.log, last + 1, Len(t.log))

\* load_events_since
EventsSince(t, last) == SubSeq(t.log, last + 2, Len(t.log))

-----------------------------------------------------------------------------
(* The calls of the sink.                                                  *)

InTransaction == {"Dispatched", "Critic", "Done", "Failed", "Retry"}
Projected     == InTransaction \cup {"Blocked", "Budget"}

\* The default projections of the Store trait.
Steps(kind) ==
  CASE kind \in {"Dispatched", "Critic"} -> <<"append", "state", "readTiming", "timing">>
    [] kind \in Outcomes             -> <<"append", "state", "artifact", "readTiming", "timing">>
    [] kind = "Retry"                -> <<"append", "readTiming", "timing">>
    [] kind = "Blocked"              -> <<"append", "state">>
    [] kind = "Budget"               -> <<"append", "budget">>
    [] kind \in {"Submitted", "DagDone"} -> <<"append", "readRow", "row">>
    [] OTHER                         -> <<"append">>

\* Mutant: RedbStore projects like the trait, operation by operation.
ScriptByParts(kind) == Steps(kind)

\* What RedbSink::emit has to do for an event.
Script(kind) == IF kept /\ kind \in InTransaction THEN <<"project">> ELSE Steps(kind)

\* The row that DagSubmitted and DagDone leave, of a run that keeps within its budget (a
\* breach is the business of module Resume).
RowAfter(kind, row) ==
  CASE kind = "Submitted"          -> IF row = "none" THEN "open" ELSE row
    [] kind = "DagDone"            -> IF row = "none" THEN row ELSE "complete"
    [] OTHER                       -> row

\* The tables after an operation.
Apply(op, t, e, read) ==
  CASE op = "append"   -> Append_(t, e)
    [] op = "state"    -> PutState(t, e)
    [] op = "artifact" -> PutArtifact(t, e)
    [] op = "timing"   -> PutTiming(t, e, read)
    [] op = "row"      -> PutRow(t, RowAfter(e.kind, t.row))
    [] op = "budget"   -> PutBudget(t)
    [] op = "project"  -> Project(t, e)
    [] OTHER           -> t

-----------------------------------------------------------------------------
(* What a log says of a node, and the files there may be at first.         *)

\* The position of the first and of the last event of a node of these kinds, 0 if none.
Positions(log, n, kinds) == {i \in DOMAIN log : log[i].node = n /\ log[i].kind \in kinds}
FirstAt(log, n, kinds) ==
  IF Positions(log, n, kinds) = {} THEN 0 ELSE Min(Positions(log, n, kinds))
LastAt(log, n, kinds) ==
  IF Positions(log, n, kinds) = {} THEN 0 ELSE Max(Positions(log, n, kinds))

StateKinds  == {"Dispatched", "Done", "Failed", "Blocked", "ManualRetry"}
TimingKinds == {"Dispatched", "Done", "Failed", "Retry"}

StateInLog(log, n) ==
  LET i == LastAt(log, n, StateKinds) IN IF i = 0 THEN "none" ELSE StateOf(log[i].kind)
TimingInLog(log, n) ==
  LET i == LastAt(log, n, TimingKinds) IN
  IF i = 0 THEN NoTiming ELSE [start |-> FirstAt(log, n, TimingKinds),
                               ended |-> log[i].kind \in Outcomes]

Events == [kind : Kinds, node : Nodes \cup {NoNode}]
States == {"none", "Running", "Pending"} \cup Ends
Tables ==
  [version : Nat, old : SUBSET Nodes, bad : SUBSET Nodes, log : Seq(Events),
   state : [Nodes -> States], artifact : [Nodes -> Nat],
   timing : [Nodes -> [start : Nat, ended : BOOLEAN]],
   row : {"none", "open", "complete"}, budget : Nat, extra : BOOLEAN]

\* No earlier pidag has left a record that its events do not account for.
ASSUME VaultsAssumption ==
  \A t \in Vaults :
    /\ t \in Tables /\ t.bad \subseteq t.old
    /\ \A n \in Nodes : /\ t.state[n] = StateInLog(t.log, n)
                       /\ t.artifact[n] = LastAt(t.log, n, Outcomes)
                       /\ t.timing[n] = TimingInLog(t.log, n)

-----------------------------------------------------------------------------
(* Opening the file: RedbStore::open.                                      *)

VaultInit ==
  /\ kept \in BOOLEAN
  /\ db \in Vaults /\ (kept \/ db.log = <<>>) /\ holder = Nobody
  /\ stage = [c \in Clients |-> "closed"] /\ done = {}
  /\ script = [c \in Clients |-> <<>>] /\ got = 0 /\ cur = NoEvent
  /\ chan = <<>> /\ up = "no" /\ todo = {}
  /\ fate = [n \in Nodes |-> "none"]
  /\ since = 0 /\ seen = <<>>
  /\ lost = FALSE /\ clashes = 0 /\ torn = FALSE /\ sessions = 0

\* The reader polls whenever it likes.
Wants(c) == stage[c] = "closed" /\ (c = Reader \/ script[c] # <<>>)

Open(c) ==
  /\ Wants(c) /\ holder = Nobody /\ db.version <= Current
  /\ holder' = c
  /\ stage' = [stage EXCEPT ![c] = IF db.version = Current THEN "open" ELSE "migrating"]
  /\ UNCHANGED <<db, done, callVars, runVars, readerVars, faultVars>>

\* A newer pidag has written the file, or it is open elsewhere.
Refused(c) ==
  /\ Wants(c)
  /\ \/ db.version > Current /\ holder = Nobody /\ UNCHANGED clashes
     \/ holder # Nobody /\ clashes < MaxClashes /\ clashes' = clashes + 1

\* The next record is converted; nothing of it is committed.
MigrateRecord(c) ==
  /\ stage[c] = "migrating"
  /\ \E n \in db.old \ (db.bad \cup done) : done' = done \cup {n}
  /\ UNCHANGED <<db, holder, stage, callVars, runVars, readerVars, faultVars>>

\* A record that is no version 1 record aborts the transaction.
Unreadable(c) == stage[c] = "migrating" /\ db.bad \ done # {} /\ UNCHANGED clashes

\* Mutant: each record is written as it is converted, and the version last.
MigrateInPlace(c) ==
  /\ stage[c] = "migrating"
  /\ IF db.old = {} THEN /\ db' = [db EXCEPT !.version = Current]
                         /\ stage' = [stage EXCEPT ![c] = "open"]
     ELSE /\ \E n \in db.old \ db.bad : db' = [db EXCEPT !.old = @ \ {n}]
          /\ UNCHANGED stage
  /\ UNCHANGED <<done, holder, callVars, runVars, readerVars, faultVars>>

\* The version is stamped last and everything committed at once.
MigrateCommit(c) ==
  /\ stage[c] = "migrating" /\ done = db.old
  /\ db' = [db EXCEPT !.version = Current, !.old = {}]
  /\ stage' = [stage EXCEPT ![c] = "open"] /\ done' = {}
  /\ UNCHANGED <<holder, callVars, runVars, readerVars, faultVars>>

\* The store is dropped after the operation, except by `pidag run`.
Close(c) ==
  IF kept /\ c = Sink THEN UNCHANGED <<holder, stage, done>>
  ELSE /\ holder' = IF holder = c THEN Nobody ELSE holder
       /\ stage' = [stage EXCEPT ![c] = "closed"]
       /\ done' = IF holder = c THEN {} ELSE done

-----------------------------------------------------------------------------
(* The sink.                                                               *)

\* The next event is taken from the channel.
Take ==
  /\ script[Sink] = <<>> /\ chan # <<>>
  /\ cur' = Head(chan) /\ chan' = Tail(chan)
  /\ script' = [script EXCEPT ![Sink] = Script(Head(chan).kind)]
  /\ UNCHANGED <<fileVars, got, kept, up, todo, fate, sessions, readerVars, faultVars>>

\* One operation succeeds.  DagDone finds no row to complete if there is none.
SinkStep ==
  LET op == Head(script[Sink]) IN
  /\ stage[Sink] = "open" /\ script[Sink] # <<>> /\ op # "start"
  /\ db' = Apply(op, db, cur, got)
  /\ script' = [script EXCEPT ![Sink] = Tail(@)]
  /\ got' = IF op = "readTiming" THEN db.timing[cur.node].start ELSE 0
  /\ cur' = IF script'[Sink] = <<>> THEN NoEvent ELSE cur
  /\ Close(Sink)
  /\ UNCHANGED <<runVars, readerVars, faultVars>>

\* The rest of the emit is given up, except that a timing which cannot be read counts as
\* none, and that an event without a projection is handled though it was not appended.
SinkAfterFailure ==
  script' = [script EXCEPT ![Sink] =
    IF Head(@) = "readTiming" \/ (Head(@) = "append" /\ cur.kind \notin Projected)
    THEN Tail(@) ELSE <<>>]

\* The file cannot be opened: the failure is counted, or ignored, and the sink goes on.
SinkFails ==
  /\ Refused(Sink) \/ Unreadable(Sink)
  /\ Head(script[Sink]) # "start"
  /\ SinkAfterFailure
  /\ lost' = TRUE
  /\ Close(Sink)
  /\ got' = 0 /\ cur' = IF script'[Sink] = <<>> THEN NoEvent ELSE cur
  /\ UNCHANGED <<db, runVars, readerVars, torn>>

-----------------------------------------------------------------------------
(* The run, as far as the vault sees it.                                   *)

Terminal(n) == db.state[n] \in Ends

\* `pidag run --resume` of a run that is not complete.
Start ==
  /\ kept /\ up = "no" /\ script[Sink] = <<>> /\ sessions < MaxSessions
  /\ db.row # "complete"
  /\ script' = [script EXCEPT ![Sink] = <<"start">>]
  /\ sessions' = sessions + 1
  /\ UNCHANGED <<fileVars, got, cur, kept, chan, up, todo, fate, readerVars,
                 faultVars>>

\* The file is open: the checkpoint is read and the row written.  The nodes that were
\* terminal are replayed.
Started ==
  /\ stage[Sink] = "open" /\ script[Sink] = <<"start">>
  /\ up' = "going"
  /\ todo' = {n \in Nodes : ~Terminal(n)}
  /\ chan' = <<Event("Submitted", NoNode)>>
             \o SetToSeq({Event(db.state[n], n) : n \in Nodes \ todo'})
  /\ fate' = [n \in Nodes |-> IF n \in todo' THEN "none" ELSE db.state[n]]
  /\ db' = PutRow(db, "open")
  /\ script' = [script EXCEPT ![Sink] = <<>>]
  /\ UNCHANGED <<holder, stage, done, got, cur, kept, sessions, readerVars, faultVars>>

\* The process ends with an error.
StartFails ==
  /\ Refused(Sink) \/ Unreadable(Sink)
  /\ script[Sink] = <<"start">>
  /\ script' = [script EXCEPT ![Sink] = <<>>]
  /\ stage' = [stage EXCEPT ![Sink] = "closed"]
  /\ holder' = IF holder = Sink THEN Nobody ELSE holder
  /\ done' = IF holder = Sink THEN {} ELSE done
  /\ UNCHANGED <<db, got, cur, runVars, readerVars, lost, torn>>

\* A node ends: its events are sent at once when its task is joined.
NodeEnds(n, batch) ==
  /\ up = "going" /\ n \in todo
  /\ todo' = todo \ {n}
  /\ chan' = chan \o [i \in DOMAIN batch |-> Event(batch[i], n)]
  /\ fate' = [fate EXCEPT ![n] = Last(batch)]
  /\ UNCHANGED <<fileVars, callVars, kept, up, sessions, readerVars, faultVars>>

\* A node is blocked by another that failed.
NodeBlocks(n) ==
  /\ up = "going" /\ n \in todo
  /\ \E m \in Nodes : fate[m] = "Failed"
  /\ todo' = todo \ {n}
  /\ chan' = Append(chan, Event("Blocked", n))
  /\ fate' = [fate EXCEPT ![n] = "Blocked"]
  /\ UNCHANGED <<fileVars, callVars, kept, up, sessions, readerVars, faultVars>>

\* Nothing is left to do.
RunEnds ==
  /\ up = "going" /\ todo = {}
  /\ up' = "ending"
  /\ chan' = Append(chan, Event("DagDone", NoNode))
  /\ UNCHANGED <<fileVars, callVars, kept, todo, fate, sessions, readerVars, faultVars>>

Drained == chan = <<>> /\ script[Sink] = <<>>

\* The consumer has drained the channel; `pidag run` records the run once more and exits.
Exit ==
  /\ kept /\ up = "ending" /\ Drained
  /\ up' = "no"
  /\ db' = PutRow(db, "complete")
  /\ holder' = Nobody /\ stage' = [stage EXCEPT ![Sink] = "closed"]
  /\ UNCHANGED <<done, callVars, kept, chan, todo, fate, sessions, readerVars,
                 faultVars>>

\* Part of the projection of cur is done.
Midway == script[Sink] # <<>> /\ script[Sink] # <<"start">> /\ script[Sink] # Script(cur.kind)

\* The process is killed.  Transactions that are not committed leave no trace.
Crash ==
  /\ kept /\ stage[Sink] # "closed"
  /\ up' = "no" /\ chan' = <<>> /\ todo' = {}
  /\ script' = [script EXCEPT ![Sink] = <<>>]
  /\ holder' = Nobody /\ stage' = [stage EXCEPT ![Sink] = "closed"] /\ done' = {}
  /\ torn' = (torn \/ Midway)
  /\ got' = 0 /\ cur' = NoEvent
  /\ UNCHANGED <<db, kept, fate, sessions, readerVars, lost, clashes>>

-----------------------------------------------------------------------------
(* The reader.                                                             *)

\* GET /events?since: the page remembers the sequence number of the last event it got.
ReaderStep ==
  LET new == EventsSince(db, since) IN
  /\ stage[Reader] = "open"
  /\ seen' = seen \o new
  /\ since' = IF new = <<>> THEN since ELSE Len(db.log) - 1
  /\ Close(Reader)
  /\ UNCHANGED <<db, callVars, runVars, faultVars>>

\* The migration fails; the page polls again.
ReaderFails ==
  /\ Unreadable(Reader)
  /\ Close(Reader)
  /\ UNCHANGED <<db, callVars, runVars, readerVars, lost, torn>>

RunProgress ==
  \/ \E n \in Nodes : NodeBlocks(n) \/ \E batch \in Batches[n] : NodeEnds(n, batch)
  \/ RunEnds

VaultStep ==
  \/ \E c \in {Sink, Reader} : Open(c) \/ MigrateRecord(c) \/ MigrateCommit(c)
  \/ Take \/ SinkStep \/ SinkFails
  \/ Start \/ Started \/ StartFails \/ RunProgress \/ Exit \/ Crash
  \/ ReaderStep \/ ReaderFails

-----------------------------------------------------------------------------
(* Properties *)

\* The events table is the source of truth and the other tables a projection of it: each
\* record, artifact and timing is what the events of the node in the log say, started_at
\* being the first of them across retries and sessions.  In a file kept open this holds
\* in every state, wherever processes are killed, but for a NodeBlocked event, which is
\* projected in two transactions; in a file opened per operation, between two emits
\* (with no operation failed and no process killed within one).
ProjectionsFollowLog ==
  (\A c \in Clients \ (IF kept THEN {Sink} ELSE {}) : script[c] = <<>>)
  /\ (kept \/ ~(lost \/ torn)) =>
    \A n \in Nodes :
      /\ \/ db.state[n] = StateInLog(db.log, n)
         \/ kept /\ StateInLog(db.log, n) = "Blocked" /\ (torn \/ script[Sink] # <<>>)
      /\ db.artifact[n] = LastAt(db.log, n, Outcomes)
      /\ db.timing[n] = TimingInLog(db.log, n)

\* The migration is all or nothing: only a vault of the current version is written, except
\* for the one transaction that converts every record and changes no state.  A vault that
\* cannot be migrated, or is of a newer version, stays as it is.
MigrationWhole ==
  [][db' # db /\ db.version # Current =>
       db.bad = {} /\ db' = [db EXCEPT !.version = Current, !.old = {}]]_db

\* A reader that goes on from the last event it has seen gets every event once and in
\* order, however its polls interleave with the writers, except the first one, of
\* sequence number 0: that is where it starts, without having seen it.
ReaderContiguous == seen = (IF since = 0 THEN <<>> ELSE SubSeq(db.log, 2, since + 1))
=============================================================================
