---------------------------- MODULE ServerProofs ----------------------------
(***************************************************************************)
(* Proofs about the vault, its sink, its reader and the requests of the    *)
(* server that share its file (modules Vault and Server).                  *)
(***************************************************************************)
EXTENDS Server, FiniteSetTheorems, SequenceTheorems, WellFoundedInduction, TLAPS

Ops == {"append", "state", "artifact", "readTiming", "timing", "readRow", "row", "budget",
        "project", "start", "nodes", "events"}

LEMMA StepsLength ==
  ASSUME NEW kind \in Kinds
  PROVE  /\ Steps(kind) \in Seq(Ops) /\ Steps(kind)[1] = "append"
         /\ kind \in {"Dispatched", "Critic"} =>
              Len(Steps(kind)) = 4 /\ Steps(kind)[2] = "state"
              /\ Steps(kind)[3] = "readTiming" /\ Steps(kind)[4] = "timing"
         /\ kind \in Outcomes =>
              Len(Steps(kind)) = 5 /\ Steps(kind)[2] = "state" /\ Steps(kind)[3] = "artifact"
              /\ Steps(kind)[4] = "readTiming" /\ Steps(kind)[5] = "timing"
         /\ kind = "Retry" =>
              Len(Steps(kind)) = 3 /\ Steps(kind)[2] = "readTiming" /\ Steps(kind)[3] = "timing"
         /\ kind = "Blocked" => Len(Steps(kind)) = 2 /\ Steps(kind)[2] = "state"
         /\ kind = "Budget" => Len(Steps(kind)) = 2 /\ Steps(kind)[2] = "budget"
         /\ kind \in {"Submitted", "DagDone"} =>
              Len(Steps(kind)) = 3 /\ Steps(kind)[2] = "readRow" /\ Steps(kind)[3] = "row"
         /\ kind = "ManualRetry" => Len(Steps(kind)) = 1
<1> USE DEF Steps, Ops, Outcomes
<1>1. CASE kind = "Dispatched" BY <1>1
<1>2. CASE kind = "Critic" BY <1>2
<1>3. CASE kind = "Done" BY <1>3
<1>4. CASE kind = "Failed" BY <1>4
<1>5. CASE kind = "Retry" BY <1>5
<1>6. CASE kind = "Blocked" BY <1>6
<1>7. CASE kind = "Budget" BY <1>7
<1>8. CASE kind = "Submitted" BY <1>8
<1>9. CASE kind = "DagDone" BY <1>9
<1>10. CASE kind = "ManualRetry" BY <1>10
<1> QED
  BY <1>1, <1>2, <1>3, <1>4, <1>5, <1>6, <1>7, <1>8, <1>9, <1>10 DEF Kinds, TaskKinds

-----------------------------------------------------------------------------
(* The tables and the logs.                                                *)

\* What the run sends to the sink.
Sent == [kind : TaskKinds \cup {"Blocked"}, node : Nodes]
        \cup {Event("Submitted", NoNode), Event("DagDone", NoNode)}

LEMMA SentAreEvents == Sent \subseteq Events
BY DEF Sent, Events, Event, Kinds

\* An operation leaves tables, and of the log at most one more event.
LEMMA ApplyType ==
  ASSUME NEW t \in Tables, NEW e \in Events, NEW read \in Nat, NEW op \in Ops,
         op = "state" => e.kind \in StateKinds \cup {"Critic"},
         op = "project" => e.kind \in InTransaction /\ e.node \in Nodes
  PROVE  /\ Apply(op, t, e, read) \in Tables
         /\ Apply(op, t, e, read).log = t.log \/ Apply(op, t, e, read).log = Append(t.log, e)
         /\ Apply(op, t, e, read).version = t.version
         /\ Apply(op, t, e, read).old = t.old
         /\ Apply(op, t, e, read).bad = t.bad
<1> DEFINE Ok(u) == /\ u \in Tables
                    /\ u.version = t.version /\ u.old = t.old /\ u.bad = t.bad
<1>s. ASSUME NEW u \in Tables PROVE Len(u.log) \in Nat
  BY LenProperties DEF Tables
<1>1. ASSUME NEW u, Ok(u) PROVE Ok(Append_(u, e)) /\ Append_(u, e).log = Append(u.log, e)
  <2>1. Append(u.log, e) \in Seq(Events) BY <1>1, AppendProperties DEF Tables
  <2> QED BY <1>1, <2>1 DEF Append_, Tables
<1>2. ASSUME NEW u, Ok(u), e.kind \in StateKinds \cup {"Critic"}
      PROVE  Ok(PutState(u, e)) /\ PutState(u, e).log = u.log
  <2>1. CASE e.kind = "Critic" BY <1>2, <2>1 DEF PutState, Tables
  <2>2. CASE e.kind # "Critic"
    <3>1. StateOf(e.kind) \in States
      BY <1>2, <2>2 DEF StateOf, StateKinds, States, Ends, Outcomes
    <3> QED BY <1>2, <2>2, <3>1 DEF PutState, Tables
  <2> QED BY <2>1, <2>2
<1>3. ASSUME NEW u, Ok(u) PROVE Ok(PutArtifact(u, e)) /\ PutArtifact(u, e).log = u.log
  BY <1>3, <1>s DEF PutArtifact, Tables
<1>4. ASSUME NEW u, Ok(u), NEW r \in Nat
      PROVE  Ok(PutTiming(u, e, r)) /\ PutTiming(u, e, r).log = u.log
  <2>1. (IF r = 0 THEN Len(u.log) ELSE r) \in Nat BY <1>4, <1>s
  <2>2. (e.kind \in Outcomes) \in BOOLEAN OBVIOUS
  <2>3. CASE e.kind = "Critic" BY <1>4, <2>3 DEF PutTiming, Tables
  <2>4. CASE e.kind # "Critic" BY <1>4, <2>1, <2>2, <2>4 DEF PutTiming, Tables
  <2> QED BY <2>3, <2>4
<1>5. Ok(PutRow(t, RowAfter(e.kind, t.row))) /\ PutRow(t, RowAfter(e.kind, t.row)).log = t.log
  BY DEF PutRow, RowAfter, Tables
<1>6. Ok(PutBudget(t)) /\ PutBudget(t).log = t.log BY <1>s DEF PutBudget, Tables
<1>7. Ok(t) OBVIOUS
<1> HIDE DEF Ok
<1>8. ASSUME e.kind \in InTransaction, e.node \in Nodes
      PROVE  Ok(Project(t, e)) /\ Project(t, e).log = Append(t.log, e)
  <2>1. Started_(t, e) \in Nat BY <1>8 DEF Started_, Tables
  <2>2. Ok(Append_(t, e)) /\ Append_(t, e).log = Append(t.log, e) BY <1>1, <1>7
  <2>3. CASE e.kind \in {"Dispatched", "Critic"}
    <3>0. e.kind \in StateKinds \cup {"Critic"} BY <2>3 DEF StateKinds
    <3>1. /\ Ok(PutState(Append_(t, e), e))
          /\ PutState(Append_(t, e), e).log = Append(t.log, e)
      BY <1>2, <2>2, <3>0
    <3>2. Ok(ProjectDispatched(t, e)) /\ ProjectDispatched(t, e).log = Append(t.log, e)
      BY <1>4, <2>1, <3>1 DEF ProjectDispatched
    <3> QED BY <2>3, <3>2 DEF Project, Outcomes
  <2>4. CASE e.kind \in Outcomes
    <3>1. Ok(ProjectEnded(t, e)) /\ ProjectEnded(t, e).log = Append(t.log, e)
      BY <1>2, <1>3, <1>4, <2>1, <2>2, <2>4 DEF ProjectEnded, StateKinds, Outcomes
    <3> QED BY <2>4, <3>1 DEF Project, Outcomes
  <2>5. CASE e.kind \notin {"Dispatched", "Critic"} \cup Outcomes
    <3>1. Ok(ProjectRetry(t, e)) /\ ProjectRetry(t, e).log = Append(t.log, e)
      BY <1>4, <2>1, <2>2 DEF ProjectRetry
    <3> QED BY <2>5, <3>1 DEF Project
  <2> QED BY <2>3, <2>4, <2>5
<1> QED
  BY <1>1, <1>2, <1>3, <1>4, <1>5, <1>6, <1>7, <1>8 DEF Apply, Ops, Ok

-----------------------------------------------------------------------------
(* The invariant.                                                          *)

VaultTypeOK ==
  /\ kept \in BOOLEAN /\ db \in Tables /\ holder \in Clients \cup {Nobody}
  /\ stage \in [Clients -> {"closed", "migrating", "open"}] /\ done \subseteq Nodes
  /\ script \in [Clients -> Seq(Ops)] /\ got \in Nat /\ cur \in Sent \cup {NoEvent}
  /\ chan \in Seq(Sent) /\ up \in {"no", "going", "ending"} /\ todo \subseteq Nodes
  /\ fate \in [Nodes -> {"none"} \cup Ends] /\ sessions \in Nat
  /\ since \in Nat /\ seen \in Seq(Events)
  /\ lost \in BOOLEAN /\ torn \in BOOLEAN /\ clashes \in Nat

CallTypeOK ==
  /\ entry \in {"none", "listed", "gone", "dead"} /\ over \in BOOLEAN
  /\ task \in {"none", "running", "aborting", "aborted", "ended"}
  /\ call \in [Handlers -> [what : {"none", "await", "status", "counting", "tokening", "retry"},
                            node : Nodes \cup {NoNode}]]
  /\ retried \subseteq Nodes

\* The sink has j - 1 operations of its call behind it.
Place(j) ==
  /\ cur \in Sent /\ j \in 1 .. Len(Script(cur.kind))
  /\ script[Sink] = SubSeq(Script(cur.kind), j, Len(Script(cur.kind)))

SinkScript ==
  /\ \/ script[Sink] = <<>>
     \/ script[Sink] = <<"start">> /\ kept /\ up = "no"
     \/ (\E j \in Nat : Place(j)) /\ (kept => up # "no")
  /\ kept /\ up = "no" => chan = <<>>

\* What is left of each request.
CallScript(h) ==
  CASE call[h].what \in {"none", "await"}      -> script[h] = <<>>
    [] call[h].what \in {"status", "counting"} -> script[h] = <<"nodes">>
    [] call[h].what = "tokening"               -> script[h] = <<"events">>
    [] OTHER -> /\ script[h] \in {<<"state", "append">>, <<"append">>}
                /\ call[h].node \in retried

ScriptsFollow ==
  /\ SinkScript /\ script[Reader] = <<>>
  /\ \A h \in Handlers : /\ CallScript(h)
                         /\ stage[h] # "closed" => script[h] # <<>>
                         /\ call[h].what = "none" => Free(h)
  /\ stage[Sink] = "migrating" => script[Sink] # <<>>
  /\ kept /\ up # "no" => stage[Sink] = "open"

\* Only one client has the file open; the version says how far it has got with it.
FileHeld ==
  /\ \A c \in Clients : stage[c] # "closed" <=> holder = c
  /\ \A c \in Clients : /\ stage[c] = "open" => db.version = Current
                        /\ stage[c] = "migrating" => db.version < Current
  /\ db.bad \subseteq db.old /\ done \subseteq db.old \ db.bad

\* A run is submitted once, and nothing of it is left to do when it has ended.
OneTask ==
  /\ kept => task = "none"
  /\ task = "none" => entry = "none" /\ ~over /\ \A h \in Handlers : Free(h)
  /\ entry = "listed" /\ over => task = "ended"
  /\ task = "ended" => up = "no" /\ Drained
  /\ \A h \in Handlers : call[h].what = "retry" => task = "ended"

\* The reader is somewhere in the log.
ReaderPlace ==
  /\ since = 0 \/ since + 1 <= Len(db.log)
  /\ ReaderContiguous

ServerIInv ==
  VaultTypeOK /\ CallTypeOK /\ ScriptsFollow /\ FileHeld /\ OneTask /\ ReaderPlace

-----------------------------------------------------------------------------
(* The call the sink is in.                                                *)

LEMMA ScriptFacts ==
  ASSUME NEW kind \in Kinds
  PROVE  /\ Script(kind) \in Seq(Ops) /\ Len(Script(kind)) >= 1
         /\ \A j \in 1 .. Len(Script(kind)) :
              LET op == Script(kind)[j] IN
              /\ op \in Ops \ {"start", "nodes", "events"}
              /\ op = "state" =>
                   kind \in {"Dispatched", "Critic", "Done", "Failed", "Blocked"}
              /\ op = "project" => kept /\ kind \in InTransaction
<1>1. CASE kept /\ kind \in InTransaction
  <2>1. Script(kind) = <<"project">> BY <1>1 DEF Script
  <2> QED BY <1>1, <2>1 DEF Ops
<1>2. CASE ~(kept /\ kind \in InTransaction)
  <2>1. Script(kind) = Steps(kind) BY <1>2 DEF Script
  <2> USE <2>1, StepsLength DEF Ops, Outcomes
  <2>2. CASE kind \in {"Dispatched", "Critic"} BY <2>2
  <2>3. CASE kind \in {"Done", "Failed"} BY <2>3
  <2>4. CASE kind = "Retry" BY <2>4
  <2>5. CASE kind = "Blocked" BY <2>5
  <2>6. CASE kind = "Budget" BY <2>6
  <2>7. CASE kind \in {"Submitted", "DagDone"} BY <2>7
  <2>8. CASE kind = "ManualRetry" BY <2>8
  <2> QED BY <2>2, <2>3, <2>4, <2>5, <2>6, <2>7, <2>8 DEF Kinds, TaskKinds
<1> QED BY <1>1, <1>2

LEMMA RestFacts ==
  ASSUME NEW s \in Seq(Ops), NEW j \in 1 .. Len(s)
  PROVE  /\ SubSeq(s, j, Len(s)) # <<>>
         /\ Head(SubSeq(s, j, Len(s))) = s[j]
         /\ Tail(SubSeq(s, j, Len(s))) = SubSeq(s, j + 1, Len(s))
         /\ j = Len(s) => Tail(SubSeq(s, j, Len(s))) = <<>>
<1>1. Len(s) \in Nat BY LenProperties
<1>2. \A i \in j .. Len(s) : s[i] \in Ops BY <1>1, ElementOfSeq
<1>3. Len(SubSeq(s, j, Len(s))) = Len(s) - j + 1 BY <1>1, <1>2, SubSeqProperties
<1>4. SubSeq(s, j, Len(s)) # <<>>
  <2> DEFINE r == SubSeq(s, j, Len(s))
  <2>1. Len(r) >= 1 BY <1>1, <1>3
  <2> HIDE DEF r
  <2>2. r # <<>> BY <2>1
  <2> QED BY <2>2 DEF r
<1>5. /\ Head(SubSeq(s, j, Len(s))) = s[j]
      /\ Tail(SubSeq(s, j, Len(s))) = SubSeq(s, j + 1, Len(s))
  BY <1>1, HeadTailOfSubSeq
<1>6. ASSUME j = Len(s) PROVE SubSeq(s, j + 1, Len(s)) = <<>>
  <2>1. j + 1 \in Int /\ Len(s) \in Int /\ Len(s) < j + 1 BY <1>1, <1>6
  <2> QED BY <2>1, SubSeqEmpty
<1> QED BY <1>4, <1>5, <1>6

LEMMA PlaceFacts ==
  ASSUME NEW j \in Nat, Place(j)
  PROVE  /\ cur \in Events /\ cur.kind \in Kinds /\ Script(cur.kind) \in Seq(Ops)
         /\ Len(Script(cur.kind)) \in Nat
         /\ script[Sink] # <<>> /\ script[Sink] # <<"start">>
         /\ Head(script[Sink]) = Script(cur.kind)[j]
         /\ Tail(script[Sink]) = SubSeq(Script(cur.kind), j + 1, Len(Script(cur.kind)))
         /\ j = Len(Script(cur.kind)) => Tail(script[Sink]) = <<>>
<1> DEFINE s == Script(cur.kind)
<1>1. cur \in Events /\ cur.kind \in Kinds BY SentAreEvents DEF Place, Events
<1>2. s \in Seq(Ops) /\ Len(s) >= 1 /\ Len(s) \in Nat BY <1>1, ScriptFacts, LenProperties
<1>3. j \in 1 .. Len(s) /\ script[Sink] = SubSeq(s, j, Len(s)) BY DEF Place
<1>4. s[j] \in Ops \ {"start", "nodes", "events"} BY <1>1, <1>3, ScriptFacts
<1> HIDE DEF s
<1>5. script[Sink] # <<"start">>
  <2>1. Head(<<"start">>) = "start" OBVIOUS
  <2>2. Head(script[Sink]) = s[j] BY <1>2, <1>3, RestFacts
  <2> QED BY <1>4, <2>1, <2>2
<1>6. /\ script[Sink] # <<>> /\ Head(script[Sink]) = s[j]
      /\ Tail(script[Sink]) = SubSeq(s, j + 1, Len(s))
      /\ j = Len(s) => Tail(script[Sink]) = <<>>
  BY <1>2, <1>3, RestFacts
<1> QED BY <1>1, <1>2, <1>5, <1>6 DEF s

\* The sink goes on to the next operation of its call, if there is one.
LEMMA PlaceNext ==
  ASSUME NEW j \in Nat, Place(j), j < Len(Script(cur.kind)), UNCHANGED <<kept, cur>>,
         script'[Sink] = Tail(script[Sink])
  PROVE  Place(j + 1)' /\ script'[Sink] # <<>>
<1>1. Script(cur.kind)' = Script(cur.kind) BY DEF Script
<1>2. /\ Len(Script(cur.kind)) \in Nat /\ Script(cur.kind) \in Seq(Ops)
      /\ script'[Sink] = SubSeq(Script(cur.kind), j + 1, Len(Script(cur.kind)))
  BY PlaceFacts
<1> DEFINE r == Script(cur.kind)
<1>3. r \in Seq(Ops) BY <1>2
<1>4. j + 1 \in 1 .. Len(r) BY <1>2
<1>5. script'[Sink] = SubSeq(r, j + 1, Len(r)) BY <1>2
<1>6. Place(j + 1)' BY <1>1, <1>4, <1>5 DEF Place
<1> HIDE DEF r
<1>7. script'[Sink] # <<>> BY <1>3, <1>4, <1>5, RestFacts
<1> QED BY <1>6, <1>7

-----------------------------------------------------------------------------
(* Types.                                                                  *)

LEMMA SetToSeqType ==
  ASSUME NEW S, IsFiniteSet(S)
  PROVE  SetToSeq(S) \in Seq(S)
<1>1. Cardinality(S) \in Nat /\ ExistsBijection(1 .. Cardinality(S), S) BY FS_CardinalityType
<1>2. PICK f \in [1 .. Cardinality(S) -> S] : IsInjective(f)
  BY <1>1 DEF ExistsBijection, Bijection, Injection
<1>3. SetToSeq(S) \in [1 .. Cardinality(S) -> S] BY <1>2 DEF SetToSeq
<1> QED BY <1>1, <1>3, IsASeq

LEMMA ClientsDiffer ==
  /\ Sink # Reader /\ Sink \notin Handlers /\ Reader \notin Handlers
  /\ Sink \in Clients /\ Reader \in Clients /\ Handlers \subseteq Clients
  /\ Nobody \notin Clients /\ Nobody # Sink /\ Nobody # Reader
BY VaultAssumption DEF Clients, Sink, Reader, Nobody

LEMMA ServerInitIInv == ServerInit => ServerIInv
<1> SUFFICES ASSUME ServerInit PROVE ServerIInv OBVIOUS
<1> USE DEF ServerInit, VaultInit
<1>1. db \in Tables /\ db.bad \subseteq db.old BY VaultsAssumption
<1>2. VaultTypeOK
  <2>1. <<>> \in Seq(Ops) /\ <<>> \in Seq(Sent) /\ <<>> \in Seq(Events) BY EmptySeq
  <2>2. script \in [Clients -> Seq(Ops)] BY <2>1
  <2>3. stage \in [Clients -> {"closed", "migrating", "open"}] OBVIOUS
  <2>4. fate \in [Nodes -> {"none"} \cup Ends] OBVIOUS
  <2> QED BY <1>1, <2>1, <2>2, <2>3, <2>4 DEF VaultTypeOK
<1>3. CallTypeOK BY DEF CallTypeOK, NoCall
<1>4. ScriptsFollow
  BY ClientsDiffer DEF ScriptsFollow, SinkScript, CallScript, Free, NoCall
<1>5. FileHeld BY <1>1, ClientsDiffer DEF FileHeld
<1>6. OneTask BY DEF OneTask, Free, NoCall
<1>7. ReaderPlace BY DEF ReaderPlace, ReaderContiguous
<1> QED BY <1>2, <1>3, <1>4, <1>5, <1>6, <1>7 DEF ServerIInv

\* Closing the file.
LEMMA CloseType ==
  ASSUME VaultTypeOK, NEW c \in Clients, Close(c)
  PROVE  /\ holder' \in Clients \cup {Nobody} /\ done' \subseteq Nodes
         /\ stage' \in [Clients -> {"closed", "migrating", "open"}]
BY DEF VaultTypeOK, Close

\* What the sink does in one operation.
LEMMA SinkStepEffect ==
  ASSUME VaultTypeOK, SinkScript, SinkStep
  PROVE  \E j \in Nat :
           /\ Place(j) /\ db' = Apply(Script(cur.kind)[j], db, cur, got)
           /\ j = Len(Script(cur.kind)) => script'[Sink] = <<>>
           /\ j < Len(Script(cur.kind)) =>
                Place(j + 1)' /\ script'[Sink] # <<>> /\ cur' = cur
           /\ script' \in [Clients -> Seq(Ops)] /\ cur' \in Sent \cup {NoEvent}
           /\ got' \in Nat
           /\ db' \in Tables /\ (db'.log = db.log \/ db'.log = Append(db.log, cur))
           /\ db'.version = db.version /\ db'.old = db.old /\ db'.bad = db.bad
<1>1. script[Sink] # <<>> /\ script[Sink] # <<"start">>
  BY DEF SinkStep
<1>2. PICK j \in Nat : Place(j) BY <1>1 DEF SinkScript
<1>3. /\ cur \in Events /\ cur.kind \in Kinds /\ Script(cur.kind) \in Seq(Ops)
      /\ Len(Script(cur.kind)) \in Nat /\ j \in 1 .. Len(Script(cur.kind))
      /\ Head(script[Sink]) = Script(cur.kind)[j]
  BY <1>2, PlaceFacts DEF Place
<1> DEFINE op == Script(cur.kind)[j]
<1>4. /\ op \in Ops
      /\ op = "state" => cur.kind \in StateKinds \cup {"Critic"}
      /\ op = "project" => cur.kind \in InTransaction
  BY <1>3, ScriptFacts DEF StateKinds
<1>5. cur.kind \in InTransaction => cur.node \in Nodes
  BY <1>2 DEF Place, Sent, InTransaction, Event
<1>6. db' = Apply(op, db, cur, got) BY <1>3 DEF SinkStep
<1>7. db \in Tables /\ got \in Nat BY DEF VaultTypeOK
<1> HIDE DEF op
<1>8. /\ db' \in Tables /\ (db'.log = db.log \/ db'.log = Append(db.log, cur))
      /\ db'.version = db.version /\ db'.old = db.old /\ db'.bad = db.bad
  BY <1>3, <1>4, <1>5, <1>6, <1>7, ApplyType
<1>9. /\ script' = [script EXCEPT ![Sink] = Tail(script[Sink])]
      /\ UNCHANGED kept
      /\ cur' = IF script'[Sink] = <<>> THEN NoEvent ELSE cur
  BY DEF SinkStep, runVars
<1>10. script'[Sink] = Tail(script[Sink]) BY <1>9, ClientsDiffer DEF VaultTypeOK
<1>11. j = Len(Script(cur.kind)) => script'[Sink] = <<>> BY <1>2, <1>10, PlaceFacts
<1>12. ASSUME j < Len(Script(cur.kind))
       PROVE  Place(j + 1)' /\ script'[Sink] # <<>> /\ cur' = cur
  <2>1. Tail(script[Sink]) = SubSeq(Script(cur.kind), j + 1, Len(Script(cur.kind)))
    BY <1>2, PlaceFacts
  <2> DEFINE r == Script(cur.kind)
  <2>2. r \in Seq(Ops) BY <1>3
  <2>3. j + 1 \in 1 .. Len(r) BY <1>3, <1>12
  <2>4. script'[Sink] = SubSeq(r, j + 1, Len(r)) BY <1>10, <2>1
  <2> HIDE DEF r
  <2>5. script'[Sink] # <<>> BY <2>2, <2>3, <2>4, RestFacts
  <2>6. cur' = cur BY <1>9, <2>5
  <2> QED BY <1>2, <1>9, <1>10, <1>12, <2>5, <2>6, PlaceNext
<1>13. Tail(script[Sink]) \in Seq(Ops)
  BY <1>1, ClientsDiffer, HeadTailProperties DEF VaultTypeOK
<1>14. script' \in [Clients -> Seq(Ops)] BY <1>9, <1>13 DEF VaultTypeOK
<1>15. cur' \in Sent \cup {NoEvent} BY <1>9 DEF VaultTypeOK
<1>16. got' \in Nat
  <2>1. CASE op # "readTiming" BY <1>3, <2>1 DEF SinkStep, op
  <2>2. CASE op = "readTiming"
    <3>1. got' = db.timing[cur.node].start BY <1>3, <2>2 DEF SinkStep, op
    <3>2. cur.node \in Nodes
      <4>1. cur.kind \notin {"Submitted", "DagDone"}
        <5>1. cur.kind \in {"Submitted", "DagDone"} => Script(cur.kind) = Steps(cur.kind)
          BY DEF Script, InTransaction, Outcomes
        <5>2. cur.kind \in {"Submitted", "DagDone"} => op # "readTiming"
          BY <1>3, <5>1, StepsLength DEF op
        <5> QED BY <2>2, <5>2
      <4> QED BY <1>2, <4>1 DEF Place, Sent, Event
    <3> QED BY <1>7, <3>1, <3>2 DEF Tables
  <2> QED BY <2>1, <2>2
<1> QED BY <1>2, <1>6, <1>8, <1>11, <1>12, <1>14, <1>15, <1>16 DEF op

\* What a request does in one operation; only node.retry writes.
LEMMA HandlerStepEffect ==
  ASSUME VaultTypeOK, CallTypeOK, ScriptsFollow, NEW h \in Handlers, HandlerStep(h)
  PROVE  LET e == Event("ManualRetry", call[h].node) IN
         /\ script' \in [Clients -> Seq(Ops)]
         /\ \A c \in Clients \ {h} : script'[c] = script[c]
         /\ \/ /\ call[h].what \in {"status", "counting", "tokening"} /\ db' = db
               /\ script'[h] = <<>> /\ call' = [call EXCEPT ![h] = NoCall]
            \/ /\ call[h].what = "retry" /\ script[h] = <<"state", "append">>
               /\ db' = PutState(db, e)
               /\ script'[h] = <<"append">> /\ call' = call
            \/ /\ call[h].what = "retry" /\ script[h] = <<"append">>
               /\ db' = Append_(db, e)
               /\ script'[h] = <<>> /\ call' = [call EXCEPT ![h] = NoCall]
         /\ db' \in Tables /\ (db'.log = db.log \/ db'.log = Append(db.log, e))
         /\ db'.version = db.version /\ db'.old = db.old /\ db'.bad = db.bad
<1> DEFINE e == Event("ManualRetry", call[h].node)
<1>1. h \in Clients /\ script[h] # <<>> /\ CallScript(h) /\ db \in Tables
  BY ClientsDiffer DEF ScriptsFollow, HandlerStep, VaultTypeOK
<1>2. script' = [script EXCEPT ![h] = Tail(script[h])] BY DEF HandlerStep
<1>3. Tail(script[h]) \in Seq(Ops) BY <1>1, HeadTailProperties DEF VaultTypeOK
<1>4. script' \in [Clients -> Seq(Ops)] /\ \A c \in Clients \ {h} : script'[c] = script[c]
  BY <1>2, <1>3 DEF VaultTypeOK
<1>5. script'[h] = Tail(script[h]) BY <1>1, <1>2 DEF VaultTypeOK
<1>6. e \in Events /\ e.kind = "ManualRetry" BY DEF Event, Events, CallTypeOK, Kinds
<1>7. db' = Apply(Head(script[h]), db, e, 0) BY DEF HandlerStep
<1>8. call' = IF Len(script[h]) = 1 THEN [call EXCEPT ![h] = NoCall] ELSE call
  BY DEF HandlerStep
<1>9. CASE call[h].what \in {"status", "counting", "tokening"}
  <2>1. script[h] = <<"nodes">> \/ script[h] = <<"events">> BY <1>1, <1>9 DEF CallScript
  <2>2. Head(script[h]) \in {"nodes", "events"} /\ Len(script[h]) = 1
        /\ Tail(script[h]) = <<>>
    <3>1. CASE script[h] = <<"nodes">> BY <3>1
    <3>2. CASE script[h] = <<"events">> BY <3>2
    <3> QED BY <2>1, <3>1, <3>2
  <2>3. db' = db BY <1>7, <2>2 DEF Apply
  <2> QED BY <1>1, <1>4, <1>5, <1>8, <1>9, <2>2, <2>3
<1>10. CASE call[h].what = "retry"
  <2>1. script[h] = <<"state", "append">> \/ script[h] = <<"append">>
    BY <1>1, <1>10 DEF CallScript
  <2>2. CASE script[h] = <<"state", "append">>
    <3>1. Head(script[h]) = "state" /\ Len(script[h]) = 2 /\ Tail(script[h]) = <<"append">>
      BY <2>2
    <3>2. db' = PutState(db, e) BY <1>7, <3>1 DEF Apply
    <3>3. /\ db' \in Tables /\ db'.log = db.log
          /\ db'.version = db.version /\ db'.old = db.old /\ db'.bad = db.bad
      BY <1>1, <1>6, <3>2 DEF PutState, Tables, StateOf, States, Ends
    <3> QED BY <1>4, <1>5, <1>8, <1>10, <2>2, <3>1, <3>2, <3>3
  <2>3. CASE script[h] = <<"append">>
    <3>1. Head(script[h]) = "append" /\ Len(script[h]) = 1 /\ Tail(script[h]) = <<>>
      BY <2>3
    <3>2. db' = Append_(db, e) BY <1>7, <3>1 DEF Apply
    <3>3. Append(db.log, e) \in Seq(Events) BY <1>1, <1>6, AppendProperties DEF Tables
    <3>4. /\ db' \in Tables /\ db'.log = Append(db.log, e)
          /\ db'.version = db.version /\ db'.old = db.old /\ db'.bad = db.bad
      BY <1>1, <3>2, <3>3 DEF Append_, Tables
    <3> QED BY <1>4, <1>5, <1>8, <1>10, <2>3, <3>1, <3>2, <3>4
  <2> QED BY <2>1, <2>2, <2>3
<1>11. CASE call[h].what \in {"none", "await"} BY <1>1, <1>11 DEF CallScript
<1> QED BY <1>9, <1>10, <1>11 DEF CallTypeOK

\* A handler that goes on has operations left, and touches nothing else.
LEMMA GoesType ==
  ASSUME VaultTypeOK, CallTypeOK, NEW h \in Handlers,
         NEW what \in {"await", "status", "counting", "tokening", "retry"},
         NEW n \in Nodes \cup {NoNode}, NEW ops \in Seq(Ops), Goes(h, what, n, ops),
         retried' \subseteq Nodes
  PROVE  VaultTypeOK' /\ CallTypeOK'
<1>1. /\ script' = [script EXCEPT ![h] = ops]
      /\ call' = [call EXCEPT ![h] = [what |-> what, node |-> n]]
      /\ UNCHANGED <<fileVars, got, cur, runVars, readerVars, faultVars, entry, over, task>>
  BY DEF Goes
<1>2. script' \in [Clients -> Seq(Ops)] BY <1>1 DEF VaultTypeOK
<1>3. VaultTypeOK' BY <1>1, <1>2 DEF VaultTypeOK, fileVars, runVars, readerVars, faultVars
<1> DEFINE CallType == [what : {"none", "await", "status", "counting", "tokening", "retry"},
                        node : Nodes \cup {NoNode}]
<1>4. [what |-> what, node |-> n] \in CallType OBVIOUS
<1>5. call \in [Handlers -> CallType] BY DEF CallTypeOK
<1> HIDE DEF CallType
<1>6. call' \in [Handlers -> CallType] BY <1>1, <1>4, <1>5
<1>7. CallTypeOK' BY <1>1, <1>6 DEF CallTypeOK, CallType
<1> QED BY <1>3, <1>7

LEMMA VaultTypeStep ==
  ServerIInv /\ [ServerNext]_allVars => VaultTypeOK' /\ CallTypeOK'
<1> SUFFICES ASSUME ServerIInv, [ServerNext]_allVars PROVE VaultTypeOK' /\ CallTypeOK'
  OBVIOUS
<1>i. VaultTypeOK /\ CallTypeOK /\ ScriptsFollow /\ FileHeld BY DEF ServerIInv
<1>c. Clients \subseteq Clients \cup {Nobody} /\ Sink \in Clients /\ Reader \in Clients
      /\ Handlers \subseteq Clients
  BY ClientsDiffer
<1>e. <<>> \in Seq(Ops) /\ <<>> \in Seq(Sent) BY EmptySeq
<1>v. \A t \in Tables : t.log \in Seq(Events) /\ t.version \in Nat /\ t.old \subseteq Nodes
  BY DEF Tables
<1> USE DEF fileVars, callVars, runVars, readerVars, faultVars, vaultVars, serverVars
<1>k. ASSUME UNCHANGED serverVars, VaultTypeOK' PROVE VaultTypeOK' /\ CallTypeOK'
  BY <1>i, <1>k DEF CallTypeOK
<1>1. ASSUME NEW c \in Clients, Open(c) PROVE VaultTypeOK'
  BY <1>i, <1>1 DEF Open, VaultTypeOK
<1>2. ASSUME NEW c \in Clients, MigrateRecord(c) PROVE VaultTypeOK'
  <2>1. db \in Tables /\ done' \subseteq Nodes
    BY <1>i, <1>v, <1>2 DEF MigrateRecord, VaultTypeOK
  <2> QED BY <1>i, <1>2, <2>1 DEF MigrateRecord, VaultTypeOK
<1>3. ASSUME NEW c \in Clients, MigrateCommit(c) PROVE VaultTypeOK'
  <2>1. db' \in Tables
    <3>1. Current \in Nat BY DEF Current
    <3> QED BY <1>i, <1>3, <3>1 DEF MigrateCommit, VaultTypeOK, Tables
  <2> QED BY <1>i, <1>3, <2>1 DEF MigrateCommit, VaultTypeOK
<1>4. ASSUME Take PROVE VaultTypeOK'
  <2>1. /\ Head(chan) \in Sent /\ Tail(chan) \in Seq(Sent)
    BY <1>i, <1>4, HeadTailProperties DEF Take, VaultTypeOK
  <2>2. Script(Head(chan).kind) \in Seq(Ops)
    <3>1. Head(chan).kind \in Kinds BY <2>1, SentAreEvents DEF Events
    <3> QED BY <3>1, ScriptFacts
  <2>3. script' \in [Clients -> Seq(Ops)] BY <1>i, <1>4, <2>2 DEF Take, VaultTypeOK
  <2>4. cur' \in Sent /\ chan' \in Seq(Sent) BY <1>4, <2>1 DEF Take
  <2> QED BY <1>i, <1>4, <2>3, <2>4 DEF Take, VaultTypeOK
<1>5. ASSUME SinkStep PROVE VaultTypeOK'
  <2>1. /\ script' \in [Clients -> Seq(Ops)] /\ cur' \in Sent \cup {NoEvent}
        /\ got' \in Nat /\ db' \in Tables
    BY <1>i, <1>5, SinkStepEffect DEF ScriptsFollow
  <2>2. Close(Sink) BY <1>5 DEF SinkStep
  <2>3. /\ holder' \in Clients \cup {Nobody} /\ done' \subseteq Nodes
        /\ stage' \in [Clients -> {"closed", "migrating", "open"}]
    BY <1>i, <1>c, <2>2, CloseType
  <2> QED BY <1>i, <1>5, <2>1, <2>3 DEF SinkStep, VaultTypeOK
<1>6. ASSUME SinkFails PROVE VaultTypeOK'
  <2>1. Close(Sink) /\ script[Sink] # <<>> /\ clashes' \in Nat
    BY <1>i, <1>6 DEF SinkFails, Refused, Unreadable, Wants, ScriptsFollow, VaultTypeOK,
                      Sink, Reader
  <2>2. Tail(script[Sink]) \in Seq(Ops)
    BY <1>i, <1>c, <2>1, HeadTailProperties DEF VaultTypeOK
  <2>3. script' \in [Clients -> Seq(Ops)]
    BY <1>i, <1>e, <1>6, <2>2 DEF SinkFails, SinkAfterFailure, VaultTypeOK
  <2>4. /\ holder' \in Clients \cup {Nobody} /\ done' \subseteq Nodes
        /\ stage' \in [Clients -> {"closed", "migrating", "open"}]
    BY <1>i, <1>c, <2>1, CloseType
  <2>5. cur' \in Sent \cup {NoEvent} BY <1>i, <1>6 DEF SinkFails, VaultTypeOK
  <2> QED BY <1>i, <1>6, <2>1, <2>3, <2>4, <2>5 DEF SinkFails, VaultTypeOK
<1>7. ASSUME Start PROVE VaultTypeOK'
  <2>1. <<"start">> \in Seq(Ops) BY DEF Ops
  <2>2. script' \in [Clients -> Seq(Ops)] BY <1>i, <1>7, <2>1 DEF Start, VaultTypeOK
  <2> QED BY <1>i, <1>7, <2>2 DEF Start, VaultTypeOK
<1>8. ASSUME Started PROVE VaultTypeOK'
  <2> DEFINE old == {Event(db.state[n], n) : n \in Nodes \ todo'}
  <2>1. db \in Tables /\ db' \in Tables
    BY <1>i, <1>8 DEF Started, VaultTypeOK, PutRow, Tables
  <2>2. \A n \in Nodes \ todo' : db.state[n] \in Ends BY <1>8 DEF Started, Terminal
  <2>3. old \subseteq Sent BY <2>2 DEF Sent, Event, TaskKinds, Ends, Outcomes
  <2>4. IsFiniteSet(old)
    <3>1. IsFiniteSet(Nodes \ todo') BY VaultAssumption, FS_Subset
    <3> DEFINE T == Nodes \ todo'
               f == [n \in T |-> Event(db.state[n], n)]
    <3>2. f \in Surjection(T, old) BY DEF Surjection
    <3> HIDE DEF f, T, old
    <3>3. IsFiniteSet(T) BY <3>1 DEF T
    <3> QED BY <3>2, <3>3, FS_Surjection
  <2>5. SetToSeq(old) \in Seq(old) BY <2>4, SetToSeqType
  <2>6. SetToSeq(old) \in Seq(Sent) BY <2>3, <2>5, SeqMonotonic
  <2>7. <<Event("Submitted", NoNode)>> \in Seq(Sent) BY DEF Sent
  <2>8. chan' = <<Event("Submitted", NoNode)>> \o SetToSeq(old) BY <1>8 DEF Started
  <2> HIDE DEF old
  <2>9. chan' \in Seq(Sent) BY <2>6, <2>7, <2>8, ConcatProperties
  <2>10. fate' \in [Nodes -> {"none"} \cup Ends] BY <1>8 DEF Started, Terminal
  <2>11. todo' \subseteq Nodes BY <1>8 DEF Started
  <2>12. script' \in [Clients -> Seq(Ops)] BY <1>i, <1>e, <1>8 DEF Started, VaultTypeOK
  <2> QED BY <1>i, <1>8, <2>1, <2>9, <2>10, <2>11, <2>12 DEF Started, VaultTypeOK
<1>9. ASSUME StartFails PROVE VaultTypeOK'
  <2>1. script' \in [Clients -> Seq(Ops)] BY <1>i, <1>e, <1>9 DEF StartFails, VaultTypeOK
  <2>2. clashes' \in Nat BY <1>i, <1>9 DEF StartFails, Refused, Unreadable, VaultTypeOK
  <2>3. /\ holder' \in Clients \cup {Nobody} /\ done' \subseteq Nodes
        /\ stage' \in [Clients -> {"closed", "migrating", "open"}]
    BY <1>i, <1>9 DEF StartFails, VaultTypeOK
  <2> QED BY <1>i, <1>9, <2>1, <2>2, <2>3 DEF StartFails, VaultTypeOK
<1>10. ASSUME NEW n \in Nodes, NodeBlocks(n) PROVE VaultTypeOK'
  <2>1. Event("Blocked", n) \in Sent BY DEF Event, Sent
  <2>2. chan' \in Seq(Sent) BY <1>i, <1>10, <2>1, AppendProperties DEF NodeBlocks, VaultTypeOK
  <2> QED BY <1>i, <1>10, <2>2 DEF NodeBlocks, VaultTypeOK, Ends
<1>11. ASSUME NEW n \in Nodes, NEW batch \in Batches[n], NodeEnds(n, batch) PROVE VaultTypeOK'
  <2>1. batch \in Seq(TaskKinds) /\ Last(batch) \in Outcomes BY VaultAssumption
  <2> DEFINE evs == [i \in DOMAIN batch |-> Event(batch[i], n)]
  <2>2. evs \in Seq(Sent)
    <3>1. DOMAIN batch = 1 .. Len(batch) /\ Len(batch) \in Nat BY <2>1, LenProperties
    <3>2. \A i \in 1 .. Len(batch) : Event(batch[i], n) \in Sent
      BY <2>1, ElementOfSeq DEF Event, Sent
    <3> QED BY <3>1, <3>2, IsASeq
  <2>3. chan' = chan \o evs BY <1>11 DEF NodeEnds
  <2> HIDE DEF evs
  <2>4. chan' \in Seq(Sent) BY <1>i, <2>2, <2>3, ConcatProperties DEF VaultTypeOK
  <2>5. fate' \in [Nodes -> {"none"} \cup Ends] BY <1>i, <1>11, <2>1 DEF NodeEnds, VaultTypeOK, Ends
  <2> QED BY <1>i, <1>11, <2>4, <2>5 DEF NodeEnds, VaultTypeOK
<1>12. ASSUME RunEnds PROVE VaultTypeOK'
  <2>1. Event("DagDone", NoNode) \in Sent BY DEF Sent
  <2>2. chan' \in Seq(Sent) BY <1>i, <1>12, <2>1, AppendProperties DEF RunEnds, VaultTypeOK
  <2>3. UNCHANGED <<fileVars, callVars, kept, todo, fate, sessions, readerVars, faultVars>>
        /\ up' = "ending"
    BY <1>12 DEF RunEnds
  <2> QED BY <1>i, <2>2, <2>3 DEF VaultTypeOK
<1>13. ASSUME Exit PROVE VaultTypeOK'
  <2>1. db' \in Tables BY <1>i, <1>13 DEF Exit, PutRow, VaultTypeOK, Tables
  <2>2. stage' \in [Clients -> {"closed", "migrating", "open"}]
    BY <1>i, <1>13 DEF Exit, VaultTypeOK
  <2> QED BY <1>i, <1>13, <2>1, <2>2 DEF Exit, VaultTypeOK
<1>14. ASSUME Crash PROVE VaultTypeOK'
  <2>1. torn' \in BOOLEAN BY <1>14 DEF Crash
  <2>2. script' \in [Clients -> Seq(Ops)] BY <1>i, <1>e, <1>14 DEF Crash, VaultTypeOK
  <2>3. stage' \in [Clients -> {"closed", "migrating", "open"}]
    BY <1>i, <1>14 DEF Crash, VaultTypeOK
  <2> QED BY <1>i, <1>e, <1>14, <2>1, <2>2, <2>3 DEF Crash, VaultTypeOK
<1>15. ASSUME ReaderStep PROVE VaultTypeOK'
  <2>1. db.log \in Seq(Events) /\ Len(db.log) \in Nat /\ since \in Nat
    BY <1>i, <1>v, LenProperties DEF VaultTypeOK
  <2>2. EventsSince(db, since) \in Seq(Events)
    <3>1. \A i \in since + 2 .. Len(db.log) : db.log[i] \in Events BY <2>1, ElementOfSeq
    <3> QED BY <2>1, <3>1, SubSeqProperties DEF EventsSince
  <2>3. seen' \in Seq(Events)
    BY <1>i, <1>15, <2>2, ConcatProperties DEF ReaderStep, VaultTypeOK
  <2>4. since' \in Nat
    <3>1. Len(db.log) = 0 => EventsSince(db, since) = <<>>
      BY <2>1, SubSeqEmpty DEF EventsSince
    <3> QED BY <1>15, <2>1, <3>1 DEF ReaderStep
  <2>5. Close(Reader) BY <1>15 DEF ReaderStep
  <2>6. /\ holder' \in Clients \cup {Nobody} /\ done' \subseteq Nodes
        /\ stage' \in [Clients -> {"closed", "migrating", "open"}]
    BY <1>i, <1>c, <2>5, CloseType
  <2> QED BY <1>i, <1>15, <2>3, <2>4, <2>6 DEF ReaderStep, VaultTypeOK
<1>16. ASSUME ReaderFails PROVE VaultTypeOK'
  <2>1. Close(Reader) /\ UNCHANGED clashes BY <1>16 DEF ReaderFails, Unreadable
  <2>2. /\ holder' \in Clients \cup {Nobody} /\ done' \subseteq Nodes
        /\ stage' \in [Clients -> {"closed", "migrating", "open"}]
    BY <1>i, <1>c, <2>1, CloseType
  <2> QED BY <1>i, <1>16, <2>1, <2>2 DEF ReaderFails, VaultTypeOK
<1>17. CASE Submit
  <2>1. <<Event("Submitted", NoNode)>> \in Seq(Sent) BY DEF Sent
  <2> QED BY <1>i, <1>17, <2>1 DEF Submit, VaultTypeOK, CallTypeOK
<1>18. CASE TaskEnds \/ TaskAborts
  BY <1>i, <1>18 DEF TaskEnds, TaskAborts, VaultTypeOK, CallTypeOK
<1>19. CASE Cancel \/ Sweep
  <2>1. UNCHANGED <<vaultVars, call, retried>> BY <1>19 DEF Cancel, Sweep
  <2>2. VaultTypeOK' BY <1>i, <2>1 DEF VaultTypeOK
  <2>3. /\ entry' = "gone" /\ over' \in BOOLEAN
        /\ task' \in {"none", "running", "aborting", "aborted", "ended"}
    BY <1>i, <1>19 DEF Cancel, Sweep, CallTypeOK
  <2>4. CallTypeOK' BY <1>i, <2>1, <2>3 DEF CallTypeOK
  <2> QED BY <2>2, <2>4
<1>20. CASE Dies
  <2>1. script' \in [Clients -> Seq(Ops)] BY <1>e, <1>20 DEF Dies
  <2>2. stage' \in [Clients -> {"closed", "migrating", "open"}]
    BY <1>i, <1>20 DEF Dies, VaultTypeOK
  <2>3. CallTypeOK' BY <1>i, <1>20 DEF Dies, CallTypeOK, NoCall
  <2>4. torn' \in BOOLEAN BY <1>20 DEF Dies
  <2> QED BY <1>i, <1>e, <1>c, <1>20, <2>1, <2>2, <2>3, <2>4 DEF Dies, VaultTypeOK
<1>21. ASSUME NEW h \in Handlers,
              \/ Await(h) \/ Status(h) \/ SeesEnd(h) \/ GivesUp(h)
              \/ \E n \in Nodes : Retry(h, n)
       PROVE  VaultTypeOK' /\ CallTypeOK'
  <2>1. <<"nodes">> \in Seq(Ops) /\ <<"events">> \in Seq(Ops) /\ <<"state", "append">> \in Seq(Ops)
    BY DEF Ops
  <2>t. retried \subseteq Nodes BY <1>i DEF CallTypeOK
  <2>2. CASE Await(h)
    <3>1. Goes(h, "await", NoNode, <<>>) /\ retried' = retried BY <2>2 DEF Await
    <3> QED BY <1>i, <1>e, <2>t, <3>1, GoesType
  <2>3. CASE Status(h)
    <3>1. Goes(h, "status", NoNode, <<"nodes">>) /\ retried' = retried BY <2>3 DEF Status
    <3> QED BY <1>i, <2>1, <2>t, <3>1, GoesType
  <2>4. CASE SeesEnd(h)
    <3>1. Goes(h, "counting", NoNode, <<"nodes">>) /\ retried' = retried BY <2>4 DEF SeesEnd
    <3> QED BY <1>i, <2>1, <2>t, <3>1, GoesType
  <2>5. CASE GivesUp(h)
    <3>1. Goes(h, "tokening", NoNode, <<"events">>) /\ retried' = retried BY <2>5 DEF GivesUp
    <3> QED BY <1>i, <2>1, <2>t, <3>1, GoesType
  <2>6. ASSUME NEW n \in Nodes, Retry(h, n) PROVE VaultTypeOK' /\ CallTypeOK'
    <3>1. Goes(h, "retry", n, <<"state", "append">>) /\ retried' \subseteq Nodes
      BY <2>t, <2>6 DEF Retry
    <3> QED BY <1>i, <2>1, <3>1, GoesType
  <2> QED BY <1>21, <2>2, <2>3, <2>4, <2>5, <2>6
<1>22. ASSUME NEW h \in Handlers, HandlerStep(h) PROVE VaultTypeOK' /\ CallTypeOK'
  <2>1. script' \in [Clients -> Seq(Ops)] /\ db' \in Tables
    BY <1>i, <1>22, HandlerStepEffect
  <2>2. Close(h) /\ h \in Clients BY <1>c, <1>22 DEF HandlerStep
  <2>3. CallTypeOK' BY <1>i, <1>22 DEF HandlerStep, CallTypeOK, NoCall
  <2> QED BY <1>i, <1>22, <2>1, <2>2, <2>3, CloseType DEF HandlerStep, VaultTypeOK
<1>23. ASSUME NEW h \in Handlers, HandlerFails(h) PROVE VaultTypeOK' /\ CallTypeOK'
  <2>1. Close(h) /\ h \in Clients BY <1>c, <1>23 DEF HandlerFails
  <2>2. CallTypeOK' BY <1>i, <1>23 DEF HandlerFails, CallTypeOK, NoCall
  <2>3. lost' \in BOOLEAN BY <1>23 DEF HandlerFails
  <2>4. clashes' \in Nat BY <1>i, <1>23 DEF HandlerFails, Refused, Unreadable, VaultTypeOK
  <2>5. script' \in [Clients -> Seq(Ops)] BY <1>i, <1>e, <1>23 DEF HandlerFails, VaultTypeOK
  <2> QED BY <1>i, <1>23, <2>1, <2>2, <2>3, <2>4, <2>5, CloseType DEF HandlerFails, VaultTypeOK
<1>24. CASE UNCHANGED allVars BY <1>i, <1>24 DEF allVars, VaultTypeOK, CallTypeOK
<1> QED
  BY <1>c, <1>k, <1>1, <1>2, <1>3, <1>4, <1>5, <1>6, <1>7, <1>8, <1>9, <1>10, <1>11, <1>12,
     <1>13, <1>14, <1>15, <1>16, <1>17, <1>18, <1>19, <1>20, <1>21, <1>22, <1>23, <1>24
     DEF ServerNext, VaultStep, RunProgress, HandlerMoves

-----------------------------------------------------------------------------
(* The file.                                                               *)

LEMMA FileStep == ServerIInv /\ [ServerNext]_allVars => FileHeld'
<1> SUFFICES ASSUME ServerIInv, [ServerNext]_allVars PROVE FileHeld'
  OBVIOUS
<1>i. VaultTypeOK /\ CallTypeOK /\ ScriptsFollow /\ FileHeld BY DEF ServerIInv
<1>t. /\ stage \in [Clients -> {"closed", "migrating", "open"}] /\ db.version \in Nat
      /\ db \in Tables
  BY <1>i DEF VaultTypeOK, Tables
<1>d. /\ Sink \in Clients /\ Reader \in Clients /\ Handlers \subseteq Clients
      /\ Nobody \notin Clients /\ Sink # Reader /\ Reader # Nobody
  BY ClientsDiffer
<1> USE DEF fileVars, callVars, runVars, readerVars, faultVars, vaultVars, serverVars
\* Nothing of the file changes, or it is closed, or one operation is done on it.
<1>s. ASSUME db'.version = db.version, db'.old = db.old, db'.bad = db.bad,
             UNCHANGED <<holder, stage, done>>
      PROVE  FileHeld'
  BY <1>i, <1>s DEF FileHeld
<1>r. ASSUME NEW c \in Clients, db'.version = db.version, db'.old = db.old, db'.bad = db.bad,
             Close(c)
      PROVE  FileHeld'
  BY <1>i, <1>t, <1>d, <1>r DEF FileHeld, Close
<1>1. ASSUME NEW c \in Clients, Open(c) PROVE FileHeld'
  BY <1>i, <1>t, <1>d, <1>1 DEF Open, FileHeld, Wants, Current
<1>2. ASSUME NEW c \in Clients, MigrateRecord(c) PROVE FileHeld'
  BY <1>i, <1>t, <1>2 DEF MigrateRecord, FileHeld
<1>3. ASSUME NEW c \in Clients, MigrateCommit(c) PROVE FileHeld'
  <2>1. stage[c] = "migrating" /\ holder = c /\ done = db.old
    BY <1>i, <1>3 DEF MigrateCommit, FileHeld
  <2>2. \A d \in Clients : d # c => stage[d] = "closed" BY <1>i, <1>t, <2>1 DEF FileHeld
  <2>3. db.bad = {} BY <1>i, <2>1 DEF FileHeld
  <2>4. /\ db'.version = Current /\ db'.old = {} /\ db'.bad = {} /\ done' = {}
        /\ stage' = [stage EXCEPT ![c] = "open"] /\ holder' = holder
    BY <1>t, <1>3, <2>3 DEF MigrateCommit, Tables
  <2> QED BY <1>t, <2>1, <2>2, <2>4 DEF FileHeld
<1>4. ASSUME SinkStep PROVE FileHeld'
  BY <1>i, <1>d, <1>r, <1>4, SinkStepEffect DEF SinkStep, ScriptsFollow
<1>5. ASSUME SinkFails PROVE FileHeld' BY <1>d, <1>r, <1>5 DEF SinkFails
<1>6. ASSUME Started PROVE FileHeld' BY <1>s, <1>t, <1>6 DEF Started, PutRow, Tables
<1>7. ASSUME StartFails PROVE FileHeld'
  BY <1>i, <1>t, <1>d, <1>7 DEF StartFails, FileHeld
<1>8. ASSUME Exit PROVE FileHeld'
  <2>1. stage[Sink] = "open" BY <1>i, <1>8 DEF Exit, ScriptsFollow
  <2>2. db'.version = db.version /\ db'.old = db.old /\ db'.bad = db.bad
    BY <1>t, <1>8 DEF Exit, PutRow, Tables
  <2>3. holder' = Nobody /\ stage' = [stage EXCEPT ![Sink] = "closed"] /\ done' = done
    BY <1>8 DEF Exit
  <2> QED BY <1>i, <1>t, <1>d, <2>1, <2>2, <2>3 DEF FileHeld
<1>9. ASSUME Crash PROVE FileHeld'
  <2>1. /\ holder' = Nobody /\ stage' = [stage EXCEPT ![Sink] = "closed"] /\ done' = {}
        /\ stage[Sink] # "closed" /\ db' = db
    BY <1>9 DEF Crash
  <2> QED BY <1>i, <1>t, <1>d, <2>1 DEF FileHeld
<1>10. ASSUME ReaderStep \/ ReaderFails PROVE FileHeld'
  BY <1>d, <1>r, <1>10 DEF ReaderStep, ReaderFails
<1>11. CASE \/ Take \/ Start \/ RunEnds \/ Submit \/ TaskEnds \/ TaskAborts
            \/ Cancel \/ Sweep \/ UNCHANGED allVars
  BY <1>s, <1>11 DEF Take, Start, RunEnds, Submit, TaskEnds, TaskAborts, Cancel, Sweep, allVars
<1>12. ASSUME NEW n \in Nodes, NodeBlocks(n) \/ \E batch \in Batches[n] : NodeEnds(n, batch)
       PROVE  FileHeld'
  BY <1>s, <1>12 DEF NodeBlocks, NodeEnds
<1>13. CASE Dies
  <2>1. /\ holder' = (IF holder = Reader THEN Reader ELSE Nobody)
        /\ stage' = [c \in Clients |-> IF c = Reader THEN stage[c] ELSE "closed"]
        /\ done' = (IF holder = Reader THEN done ELSE {}) /\ db' = db
    BY <1>13 DEF Dies
  <2> QED BY <1>i, <1>t, <1>d, <2>1 DEF FileHeld
<1>14. ASSUME NEW h \in Handlers,
              \/ Await(h) \/ Status(h) \/ SeesEnd(h) \/ GivesUp(h)
              \/ \E n \in Nodes : Retry(h, n)
       PROVE  FileHeld'
  BY <1>s, <1>14 DEF Await, Status, SeesEnd, GivesUp, Retry, Goes
<1>15. ASSUME NEW h \in Handlers, HandlerStep(h) PROVE FileHeld'
  <2>1. db'.version = db.version /\ db'.old = db.old /\ db'.bad = db.bad
    BY <1>i, <1>15, HandlerStepEffect
  <2> QED BY <1>d, <1>r, <1>15, <2>1 DEF HandlerStep
<1>16. ASSUME NEW h \in Handlers, HandlerFails(h) PROVE FileHeld'
  BY <1>d, <1>r, <1>16 DEF HandlerFails
<1> QED
  BY <1>d, <1>1, <1>2, <1>3, <1>4, <1>5, <1>6, <1>7, <1>8, <1>9, <1>10, <1>11, <1>12,
     <1>13, <1>14, <1>15, <1>16
     DEF ServerNext, VaultStep, RunProgress, HandlerMoves

\* Between two states the tables keep their version, but for a migration, and the log
\* gains at most one event.
LEMMA LogStep ==
  ASSUME ServerIInv, [ServerNext]_allVars
  PROVE  /\ db'.log = db.log \/ \E e \in Events : db'.log = Append(db.log, e)
         /\ \/ db' = db
            \/ \E c \in Clients : stage[c] = "open"
            \/ \E c \in Clients : MigrateCommit(c)
<1>i. VaultTypeOK /\ CallTypeOK /\ ScriptsFollow BY DEF ServerIInv
<1>t. db \in Tables BY <1>i DEF VaultTypeOK
<1>d. /\ Sink \in Clients /\ Handlers \subseteq Clients /\ Reader \in Clients BY ClientsDiffer
<1> DEFINE Goal == /\ db'.log = db.log \/ \E e \in Events : db'.log = Append(db.log, e)
                   /\ \/ db' = db
                      \/ \E c \in Clients : stage[c] = "open"
                      \/ \E c \in Clients : MigrateCommit(c)
<1> USE DEF fileVars, callVars, runVars, readerVars, faultVars, vaultVars, serverVars
<1>1. ASSUME NEW c \in Clients, Open(c) \/ MigrateRecord(c) PROVE Goal
  BY <1>1 DEF Open, MigrateRecord
<1>2. ASSUME NEW c \in Clients, MigrateCommit(c) PROVE Goal
  BY <1>t, <1>2 DEF MigrateCommit, Tables
<1>3. ASSUME SinkStep PROVE Goal
  <2>1. cur \in Events
    <3>1. \E j \in Nat : Place(j) BY <1>i, <1>3, SinkStepEffect DEF ScriptsFollow
    <3> QED BY <3>1, PlaceFacts
  <2>2. stage[Sink] = "open" BY <1>3 DEF SinkStep
  <2>3. db'.log = db.log \/ db'.log = Append(db.log, cur)
    BY <1>i, <1>3, SinkStepEffect DEF ScriptsFollow
  <2> QED BY <1>d, <2>1, <2>2, <2>3
<1>4. ASSUME Started PROVE Goal BY <1>t, <1>d, <1>4 DEF Started, PutRow, Tables
<1>5. ASSUME Exit PROVE Goal
  <2>1. stage[Sink] = "open" BY <1>i, <1>5 DEF Exit, ScriptsFollow
  <2> QED BY <1>t, <1>d, <1>5, <2>1 DEF Exit, PutRow, Tables
<1>6. ASSUME NEW h \in Handlers, HandlerStep(h) PROVE Goal
  <2>1. Event("ManualRetry", call[h].node) \in Events BY <1>i DEF CallTypeOK, Event, Events, Kinds
  <2>2. db'.log = db.log \/ db'.log = Append(db.log, Event("ManualRetry", call[h].node))
    BY <1>i, <1>6, HandlerStepEffect
  <2>3. stage[h] = "open" BY <1>6 DEF HandlerStep
  <2> QED BY <1>d, <2>1, <2>2, <2>3
<1>8. ASSUME \/ Take \/ SinkFails \/ Start \/ StartFails \/ RunEnds \/ Crash \/ ReaderStep
             \/ ReaderFails \/ Submit \/ TaskEnds \/ TaskAborts \/ Cancel \/ Sweep \/ Dies
             \/ UNCHANGED allVars
      PROVE  Goal
  BY <1>8 DEF Take, SinkFails, Start, StartFails, RunEnds, Crash, ReaderStep, ReaderFails,
              Submit, TaskEnds, TaskAborts, Cancel, Sweep, Dies, allVars
<1>9. ASSUME NEW n \in Nodes, NodeBlocks(n) \/ \E batch \in Batches[n] : NodeEnds(n, batch)
      PROVE  Goal
  BY <1>9 DEF NodeBlocks, NodeEnds
<1>10. ASSUME NEW h \in Handlers,
              \/ Await(h) \/ Status(h) \/ SeesEnd(h) \/ GivesUp(h) \/ HandlerFails(h)
              \/ \E n \in Nodes : Retry(h, n)
       PROVE  Goal
  BY <1>10 DEF Await, Status, SeesEnd, GivesUp, Retry, HandlerFails, Goes
<1> HIDE DEF Goal
<1>11. ASSUME VaultStep PROVE Goal
  BY <1>d, <1>1, <1>2, <1>3, <1>4, <1>5, <1>8, <1>9, <1>11 DEF VaultStep, RunProgress
<1>12. Goal
  BY <1>d, <1>1, <1>2, <1>6, <1>8, <1>10, <1>11 DEF ServerNext, HandlerMoves
<1> QED BY <1>12 DEF Goal

-----------------------------------------------------------------------------
(* The reader.                                                             *)

LEMMA ReaderPlaceStep == ServerIInv /\ [ServerNext]_allVars => ReaderPlace'
<1> SUFFICES ASSUME ServerIInv, [ServerNext]_allVars PROVE ReaderPlace'
  OBVIOUS
<1>i. VaultTypeOK /\ ReaderPlace BY DEF ServerIInv
<1> DEFINE log == db.log
<1>1. log \in Seq(Events) /\ Len(log) \in Nat /\ since \in Nat /\ seen \in Seq(Events)
  BY <1>i, LenProperties DEF VaultTypeOK, Tables
<1>2. log' = log \/ \E e \in Events : log' = Append(log, e) BY LogStep
<1>3. /\ since = 0 \/ since + 1 <= Len(log)
      /\ seen = (IF since = 0 THEN <<>> ELSE SubSeq(log, 2, since + 1))
  BY <1>i DEF ReaderPlace, ReaderContiguous
<1>4. ASSUME UNCHANGED readerVars PROVE ReaderPlace'
  <2>1. since' = since /\ seen' = seen BY <1>4 DEF readerVars
  <2>2. ASSUME NEW e \in Events, log' = Append(log, e), since # 0
        PROVE  /\ since + 1 <= Len(log')
               /\ SubSeq(log', 2, since + 1) = SubSeq(log, 2, since + 1)
    <3> HIDE DEF log
    <3>1. log' = log \o <<e>> BY <1>1, <2>2, AppendIsConcat
    <3>2. 2 \in 1 .. Len(log) /\ since + 1 \in 1 .. Len(log) BY <1>1, <1>3, <2>2
    <3>3. <<e>> \in Seq(Events) OBVIOUS
    <3>4. SubSeq(log \o <<e>>, 2, since + 1) = SubSeq(log, 2, since + 1)
      BY <1>1, <3>2, <3>3, SubSeqOfConcat1
    <3>5. Len(log') = Len(log) + 1 BY <1>1, <2>2, AppendProperties
    <3> QED BY <1>1, <3>1, <3>2, <3>4, <3>5
  <2>3. since = 0 \/ since + 1 <= Len(log') BY <1>2, <1>3, <2>2
  <2>4. since # 0 => SubSeq(log', 2, since + 1) = SubSeq(log, 2, since + 1) BY <1>2, <2>2
  <2> QED BY <1>3, <2>1, <2>3, <2>4 DEF ReaderPlace, ReaderContiguous
<1>5. CASE ReaderStep
  <2> DEFINE new == SubSeq(log, since + 2, Len(log))
  <2>1. log' = log /\ seen' = seen \o new
        /\ since' = IF new = <<>> THEN since ELSE Len(log) - 1
    BY <1>5 DEF ReaderStep, EventsSince
  <2>2. CASE new = <<>>
    <3>1. seen' = seen BY <1>1, <2>1, <2>2, ConcatEmptySeq
    <3> QED BY <1>3, <2>1, <2>2, <3>1 DEF ReaderPlace, ReaderContiguous
  <2>3. CASE new # <<>>
    <3> HIDE DEF log
    <3>1. since + 2 <= Len(log)
      <4>1. since + 2 \in Int /\ Len(log) \in Int BY <1>1
      <4>2. Len(log) < since + 2 => new = <<>> BY <4>1, SubSeqEmpty
      <4> QED BY <2>3, <4>1, <4>2
    <3>2. since' = Len(log) - 1 BY <2>1, <2>3
    <3>3. since' # 0 /\ since' + 1 = Len(log)
      <4>1. \A m, k \in Nat : k + 2 <= m => m - 1 # 0 /\ (m - 1) + 1 = m OBVIOUS
      <4>2. Len(log) \in Nat /\ since \in Nat BY <1>1
      <4>3. Len(log) - 1 # 0 /\ (Len(log) - 1) + 1 = Len(log) BY <3>1, <4>1, <4>2
      <4> QED BY <3>2, <4>3
    <3>4. seen' = SubSeq(log, 2, Len(log))
      <4>1. CASE since = 0
        <5>1. new \in Seq(Events)
          <6>1. \A i \in since + 2 .. Len(log) : log[i] \in Events BY <1>1, ElementOfSeq
          <6> QED BY <1>1, <6>1, SubSeqProperties
        <5>2. seen' = new BY <1>3, <2>1, <4>1, <5>1, ConcatEmptySeq
        <5> QED BY <4>1, <5>2
      <4>2. CASE since # 0
        <5>1. seen' = SubSeq(log, 2, since + 1) \o SubSeq(log, since + 2, Len(log))
          BY <1>3, <2>1, <4>2
        <5>2. /\ 2 \in 1 .. Len(log) + 1 /\ since + 1 \in 2 - 1 .. Len(log)
              /\ Len(log) \in since + 1 .. Len(log) /\ since + 2 = (since + 1) + 1
          BY <1>1, <3>1, <4>2
        <5>3. SubSeq(log, 2, since + 1) \o SubSeq(log, (since + 1) + 1, Len(log))
              = SubSeq(log, 2, Len(log))
          BY <1>1, <5>2, ConcatAdjacentSubSeq
        <5> QED BY <5>1, <5>2, <5>3
      <4> QED BY <4>1, <4>2
    <3>5. log' = log BY <2>1
    <3>6. since' + 1 <= Len(log') BY <1>1, <3>3, <3>5
    <3>7. seen' = SubSeq(log', 2, since' + 1) BY <3>3, <3>4, <3>5
    <3> QED BY <3>3, <3>6, <3>7 DEF ReaderPlace, ReaderContiguous, log
  <2> QED BY <2>2, <2>3
<1>6. CASE UNCHANGED readerVars BY <1>4, <1>6
<1>7. ReaderStep \/ UNCHANGED readerVars
  <2> USE DEF vaultVars
  <2>1. ASSUME NEW c \in Clients, Open(c) \/ MigrateRecord(c) \/ MigrateCommit(c)
        PROVE  UNCHANGED readerVars
    BY <2>1 DEF Open, MigrateRecord, MigrateCommit
  <2>2. ASSUME VaultStep PROVE ReaderStep \/ UNCHANGED readerVars
    BY <2>1, <2>2, ClientsDiffer
       DEF VaultStep, RunProgress, Take, SinkStep, SinkFails, Start, Started, StartFails,
           NodeBlocks, NodeEnds, RunEnds, Exit, Crash, ReaderFails
  <2>3. ASSUME NEW h \in Handlers,
               \/ Await(h) \/ Status(h) \/ SeesEnd(h) \/ GivesUp(h) \/ HandlerFails(h)
               \/ HandlerStep(h) \/ \E n \in Nodes : Retry(h, n)
        PROVE  UNCHANGED readerVars
    BY <2>3 DEF Await, Status, SeesEnd, GivesUp, Retry, HandlerFails, HandlerStep, Goes
  <2> QED
    BY <2>1, <2>2, <2>3, ClientsDiffer
       DEF ServerNext, HandlerMoves, Submit, TaskEnds, TaskAborts, Cancel, Sweep, Dies, allVars
<1> QED BY <1>5, <1>6, <1>7

-----------------------------------------------------------------------------
(* The run and the requests.                                               *)

LEMMA KeptStays == [ServerNext]_allVars => kept' = kept
<1> SUFFICES ASSUME [ServerNext]_allVars PROVE kept' = kept OBVIOUS
<1> USE DEF fileVars, callVars, runVars, readerVars, faultVars, vaultVars, serverVars
<1>1. ASSUME NEW c \in Clients, Open(c) \/ MigrateRecord(c) \/ MigrateCommit(c)
      PROVE  kept' = kept
  BY <1>1 DEF Open, MigrateRecord, MigrateCommit
<1>2. ASSUME VaultStep PROVE kept' = kept
  BY <1>1, <1>2, ClientsDiffer
     DEF VaultStep, RunProgress, Take, SinkStep, SinkFails, Start, Started, StartFails,
         NodeBlocks, NodeEnds, RunEnds, Exit, Crash, ReaderStep, ReaderFails
<1>3. ASSUME NEW h \in Handlers,
             \/ Await(h) \/ Status(h) \/ SeesEnd(h) \/ GivesUp(h) \/ HandlerFails(h)
             \/ HandlerStep(h) \/ \E n \in Nodes : Retry(h, n)
      PROVE  kept' = kept
  BY <1>3 DEF Await, Status, SeesEnd, GivesUp, Retry, HandlerFails, HandlerStep, Goes
<1> QED
  BY <1>1, <1>2, <1>3, ClientsDiffer
     DEF ServerNext, HandlerMoves, Submit, TaskEnds, TaskAborts, Cancel, Sweep, Dies, allVars

LEMMA TaskStep == ServerIInv /\ [ServerNext]_allVars => OneTask'
<1> SUFFICES ASSUME ServerIInv, [ServerNext]_allVars PROVE OneTask'
  OBVIOUS
<1>i. VaultTypeOK /\ CallTypeOK /\ ScriptsFollow /\ OneTask BY DEF ServerIInv
<1>d. /\ Sink \in Clients /\ Reader \in Clients /\ Handlers \subseteq Clients
      /\ Sink \notin Handlers /\ Sink # Reader
  BY ClientsDiffer
<1>t. script \in [Clients -> Seq(Ops)] /\ kept' = kept
  BY <1>i, KeptStays DEF VaultTypeOK
<1>h. call \in [Handlers -> [what : {"none", "await", "status", "counting", "tokening", "retry"},
                             node : Nodes \cup {NoNode}]]
  BY <1>i DEF CallTypeOK
<1> USE DEF fileVars, callVars, runVars, readerVars, faultVars, vaultVars, serverVars
\* An ended run leaves the vault's own steps nothing to do.
<1>v. ASSUME UNCHANGED serverVars, task = "ended" => UNCHANGED <<up, chan, script>>
      PROVE  OneTask'
  BY <1>i, <1>t, <1>v DEF OneTask, Drained, Free
<1>1. ASSUME NEW c \in Clients, Open(c) \/ MigrateRecord(c) \/ MigrateCommit(c),
             UNCHANGED serverVars
      PROVE  OneTask'
  BY <1>v, <1>1 DEF Open, MigrateRecord, MigrateCommit
<1>2. ASSUME VaultStep, UNCHANGED serverVars PROVE OneTask'
  <2>1. task = "ended" => UNCHANGED <<up, chan, script>>
    <3> SUFFICES ASSUME task = "ended" PROVE UNCHANGED <<up, chan, script>> OBVIOUS
    <3>1. ~kept /\ up = "no" /\ chan = <<>> /\ script[Sink] = <<>> BY <1>i DEF OneTask, Drained
    <3>2. stage[Sink] # "migrating" BY <1>i, <3>1 DEF ScriptsFollow
    <3>3. ~Take /\ ~SinkStep /\ ~RunEnds /\ ~Start /\ ~Exit /\ ~Crash
      BY <3>1 DEF Take, SinkStep, RunEnds, Start, Exit, Crash
    <3>4. ~SinkFails /\ ~StartFails
      BY <1>d, <3>1, <3>2 DEF SinkFails, StartFails, Refused, Unreadable, Wants
    <3>5. ~Started BY <3>1 DEF Started
    <3>6. \A n \in Nodes : ~NodeBlocks(n) /\ \A batch \in Batches[n] : ~NodeEnds(n, batch)
      BY <3>1 DEF NodeBlocks, NodeEnds
    <3>7. \/ ReaderStep \/ ReaderFails
          \/ \E c \in {Sink, Reader} : Open(c) \/ MigrateRecord(c) \/ MigrateCommit(c)
      BY <1>2, <3>3, <3>4, <3>5, <3>6 DEF VaultStep, RunProgress
    <3> QED BY <3>7 DEF ReaderStep, ReaderFails, Open, MigrateRecord, MigrateCommit
  <2> QED BY <1>v, <1>2, <2>1
<1>3. CASE Submit BY <1>i, <1>t, <1>3 DEF Submit, OneTask, Free
<1>4. CASE TaskEnds
  BY <1>i, <1>t, <1>4 DEF TaskEnds, OneTask, Free, Drained
<1>5. CASE TaskAborts BY <1>i, <1>t, <1>5 DEF TaskAborts, OneTask, Free, Drained
<1>6. CASE Cancel
  <2>1. task # "none" /\ entry' = "gone" /\ task' # "none" /\ (task = "ended" <=> task' = "ended")
        /\ UNCHANGED <<up, chan, script, call>>
    BY <1>i, <1>6 DEF Cancel, OneTask
  <2> QED BY <1>i, <1>t, <2>1 DEF OneTask, Drained
<1>7. CASE Sweep BY <1>i, <1>t, <1>7 DEF Sweep, IsTerminal, OneTask, Drained, Free
<1>8. CASE Dies BY <1>i, <1>t, <1>8 DEF Dies, OneTask, NoCall
\* A request is begun, goes on or ends: the run is as it was.
<1>c. ASSUME NEW h \in Handlers, UNCHANGED <<entry, over, task, up, chan>>,
             script'[Sink] = script[Sink], task # "none",
             \A g \in Handlers \ {h} : call'[g] = call[g],
             call'[h].what = "retry" => task = "ended"
      PROVE  OneTask'
  BY <1>i, <1>t, <1>c DEF OneTask, Drained
<1>9. ASSUME NEW h \in Handlers,
             \/ Await(h) \/ Status(h) \/ SeesEnd(h) \/ GivesUp(h)
             \/ \E n \in Nodes : Retry(h, n)
      PROVE  OneTask'
  <2>1. PICK what \in {"await", "status", "counting", "tokening", "retry"},
             n \in Nodes \cup {NoNode}, ops \in Seq(Ops) :
          Goes(h, what, n, ops) /\ (what = "retry" => IsTerminal)
    <3>1. /\ <<>> \in Seq(Ops) /\ <<"nodes">> \in Seq(Ops) /\ <<"events">> \in Seq(Ops)
          /\ <<"state", "append">> \in Seq(Ops)
      BY EmptySeq DEF Ops
    <3>2. CASE Await(h) BY <3>1, <3>2 DEF Await
    <3>3. CASE Status(h) BY <3>1, <3>3 DEF Status
    <3>4. CASE SeesEnd(h) BY <3>1, <3>4 DEF SeesEnd
    <3>5. CASE GivesUp(h) BY <3>1, <3>5 DEF GivesUp
    <3>6. ASSUME NEW m \in Nodes, Retry(h, m)
          PROVE  \E n \in Nodes \cup {NoNode}, ops \in Seq(Ops) :
                   Goes(h, "retry", n, ops) /\ IsTerminal
      BY <3>1, <3>6 DEF Retry
    <3> QED BY <1>9, <3>2, <3>3, <3>4, <3>5, <3>6
  <2>2. /\ UNCHANGED <<entry, over, task, up, chan>> /\ h # Sink
        /\ script' = [script EXCEPT ![h] = ops]
        /\ call' = [call EXCEPT ![h] = [what |-> what, node |-> n]]
    BY <1>d, <2>1 DEF Goes
  <2>3. what = "retry" => task = "ended" BY <1>i, <2>1 DEF OneTask, IsTerminal
  <2>4. task # "none"
    <3>1. entry = "listed" \/ ~Free(h)
      BY <1>9 DEF Await, Status, SeesEnd, GivesUp, Retry, Free, NoCall, IsTerminal
    <3> QED BY <1>i, <3>1 DEF OneTask
  <2> QED BY <1>c, <1>t, <1>h, <1>d, <2>2, <2>3, <2>4
<1>10. ASSUME NEW h \in Handlers, HandlerStep(h) PROVE OneTask'
  <2>1. /\ UNCHANGED <<entry, over, task, up, chan>>
        /\ script' = [script EXCEPT ![h] = Tail(script[h])] /\ h # Sink
        /\ call' = call \/ call' = [call EXCEPT ![h] = NoCall]
    BY <1>d, <1>10 DEF HandlerStep
  <2>2. call[h].what # "none"
    <3>1. stage[h] = "open" BY <1>10 DEF HandlerStep
    <3> QED BY <1>i, <3>1 DEF ScriptsFollow, CallScript
  <2>3. task # "none" BY <1>i, <2>2 DEF OneTask, Free, NoCall
  <2>4. call'[h].what = "retry" => task = "ended" BY <1>i, <1>h, <2>1 DEF OneTask, NoCall
  <2> QED BY <1>c, <1>t, <1>h, <1>d, <2>1, <2>3, <2>4
<1>11. ASSUME NEW h \in Handlers, HandlerFails(h) PROVE OneTask'
  <2>1. /\ UNCHANGED <<entry, over, task, up, chan>>
        /\ script' = [script EXCEPT ![h] = <<>>] /\ h # Sink
        /\ call' = [call EXCEPT ![h] = NoCall]
    BY <1>d, <1>11 DEF HandlerFails
  <2>2. call[h].what # "none"
    <3>1. stage[h] # "closed" \/ script[h] # <<>>
      BY <1>d, <1>11, ClientsDiffer DEF HandlerFails, Refused, Unreadable, Wants
    <3> QED BY <1>i, <3>1 DEF ScriptsFollow, CallScript
  <2>3. task # "none" BY <1>i, <2>2 DEF OneTask, Free, NoCall
  <2>4. call'[h].what # "retry" BY <1>h, <2>1 DEF NoCall
  <2> QED BY <1>c, <1>t, <1>h, <1>d, <2>1, <2>3, <2>4
<1>12. CASE UNCHANGED allVars BY <1>v, <1>12 DEF allVars
<1> QED
  BY <1>d, <1>1, <1>2, <1>3, <1>4, <1>5, <1>6, <1>7, <1>8, <1>9, <1>10, <1>11, <1>12
     DEF ServerNext, HandlerMoves

LEMMA SinkScriptKept ==
  ASSUME SinkScript, script'[Sink] = script[Sink], UNCHANGED <<cur, kept>>,
         script[Sink] # <<>> /\ kept => up' = up \/ (up # "no" /\ up' # "no"),
         kept /\ up' = "no" => chan' = <<>>
  PROVE  SinkScript'
<1>2. ASSUME NEW j \in Nat, Place(j) PROVE Place(j)'
  <2>1. Script(cur.kind)' = Script(cur.kind) BY DEF Script
  <2> QED BY <1>2, <2>1 DEF Place
<1>3. CASE script[Sink] = <<>> BY <1>3 DEF SinkScript
<1>4. CASE script[Sink] = <<"start">> /\ kept /\ up = "no"
  <2>1. script[Sink] # <<>> BY <1>4
  <2> QED BY <1>4, <2>1 DEF SinkScript
<1>5. CASE \E j \in Nat : Place(j) /\ (kept => up # "no")
  <2>1. script[Sink] # <<>> BY <1>5, PlaceFacts
  <2> QED BY <1>2, <1>5, <2>1 DEF SinkScript
<1> QED BY <1>3, <1>4, <1>5 DEF SinkScript

LEMMA ScriptsStep == ServerIInv /\ [ServerNext]_allVars => ScriptsFollow'
<1> SUFFICES ASSUME ServerIInv, [ServerNext]_allVars PROVE ScriptsFollow'
  OBVIOUS
<1>i. VaultTypeOK /\ CallTypeOK /\ ScriptsFollow /\ OneTask BY DEF ServerIInv
<1>d. /\ Sink \in Clients /\ Reader \in Clients /\ Handlers \subseteq Clients
      /\ Sink \notin Handlers /\ Reader \notin Handlers /\ Sink # Reader
  BY ClientsDiffer
<1>t. /\ script \in [Clients -> Seq(Ops)] /\ kept' = kept
      /\ stage \in [Clients -> {"closed", "migrating", "open"}]
      /\ call \in [Handlers -> [what : {"none", "await", "status", "counting", "tokening", "retry"},
                                node : Nodes \cup {NoNode}]]
  BY <1>i, KeptStays DEF VaultTypeOK, CallTypeOK
<1> DEFINE SinkOk == /\ stage[Sink] = "migrating" => script[Sink] # <<>>
                     /\ kept /\ up # "no" => stage[Sink] = "open"
           CallOk(h) == /\ CallScript(h) /\ (stage[h] # "closed" => script[h] # <<>>)
                        /\ (call[h].what = "none" => Free(h))
<1>f. /\ SinkScript /\ script[Reader] = <<>> /\ SinkOk
      /\ \A h \in Handlers : CallOk(h)
  BY <1>i DEF ScriptsFollow
<1>g. SinkScript' /\ script'[Reader] = <<>> /\ SinkOk' /\ (\A h \in Handlers : CallOk(h)')
      => ScriptsFollow'
  BY DEF ScriptsFollow
<1>h. ASSUME NEW h \in Handlers, call'[h] = call[h], script'[h] = script[h], stage'[h] = stage[h],
             retried \subseteq retried'
      PROVE  CallOk(h)'
  BY <1>f, <1>h DEF CallScript, Free
<1> USE DEF fileVars, callVars, runVars, readerVars, faultVars, vaultVars, serverVars
<1>1. ASSUME NEW c \in Clients, Open(c), UNCHANGED serverVars PROVE ScriptsFollow'
  <2>1. /\ UNCHANGED <<script, cur, kept, chan, up>> /\ stage[c] = "closed"
        /\ c = Reader \/ script[c] # <<>>
        /\ stage' = [stage EXCEPT ![c] = IF db.version = Current THEN "open" ELSE "migrating"]
    BY <1>1 DEF Open, Wants
  <2>2. SinkScript' BY <1>f, <2>1, SinkScriptKept DEF SinkScript
  <2>3. SinkOk' BY <1>f, <1>t, <1>d, <2>1
  <2>4. ASSUME NEW h \in Handlers PROVE CallOk(h)'
    <3>1. CASE h = c BY <1>f, <1>1, <1>d, <2>1, <3>1 DEF CallScript, Free
    <3>2. CASE h # c BY <1>h, <1>1, <1>t, <1>d, <2>1, <3>2
    <3> QED BY <3>1, <3>2
  <2> QED BY <1>f, <1>g, <2>1, <2>2, <2>3, <2>4
<1>2. ASSUME NEW c \in Clients, MigrateRecord(c) \/ MigrateCommit(c), UNCHANGED serverVars
      PROVE  ScriptsFollow'
  <2>1. /\ UNCHANGED <<script, cur, kept, chan, up>> /\ stage[c] = "migrating"
        /\ stage' = stage \/ stage' = [stage EXCEPT ![c] = "open"]
    BY <1>2 DEF MigrateRecord, MigrateCommit
  <2>2. SinkScript' BY <1>f, <2>1, SinkScriptKept DEF SinkScript
  <2>3. SinkOk' BY <1>f, <1>t, <1>d, <2>1
  <2>4. ASSUME NEW h \in Handlers PROVE CallOk(h)'
    BY <1>f, <1>2, <1>t, <1>d, <2>1 DEF CallScript, Free
  <2> QED BY <1>f, <1>g, <2>1, <2>2, <2>3, <2>4
\* The calls of the handlers are as they were, and the reader's script.
<1>s. ASSUME UNCHANGED serverVars, SinkScript', SinkOk',
             \A c \in Clients \ {Sink} : script'[c] = script[c] /\ stage'[c] = stage[c]
      PROVE  ScriptsFollow'
  <2>1. \A h \in Handlers : CallOk(h)' BY <1>h, <1>s, <1>d
  <2> QED BY <1>f, <1>g, <1>s, <1>d, <2>1
<1>3. ASSUME Take, UNCHANGED serverVars PROVE ScriptsFollow'
  <2>1. /\ script' = [script EXCEPT ![Sink] = Script(Head(chan).kind)]
        /\ cur' = Head(chan) /\ chan # <<>> /\ script[Sink] = <<>>
        /\ UNCHANGED <<stage, kept, up>>
    BY <1>3 DEF Take
  <2>2. cur' \in Sent /\ cur'.kind \in Kinds
    BY <1>i, <2>1, HeadTailProperties, SentAreEvents DEF VaultTypeOK, Events
  <2> DEFINE r == Script(Head(chan).kind)
  <2>3. r \in Seq(Ops) /\ Len(r) >= 1 /\ Len(r) \in Nat
    BY <2>1, <2>2, ScriptFacts, LenProperties
  <2>4. script'[Sink] = r BY <1>t, <1>d, <2>1
  <2>5. Script(cur.kind)' = r BY <2>1 DEF Script
  <2> HIDE DEF r
  <2>6. r = SubSeq(r, 1, Len(r)) /\ r # <<>> BY <2>3, SubSeqFull, RestFacts
  <2>7. Place(1)' BY <2>2, <2>3, <2>4, <2>5, <2>6 DEF Place
  <2>8. kept => up # "no" BY <1>f, <2>1 DEF SinkScript
  <2>9. SinkScript' BY <2>1, <2>7, <2>8 DEF SinkScript
  <2>10. SinkOk' BY <1>f, <2>1, <2>4, <2>6
  <2> QED BY <1>s, <1>t, <1>3, <2>1, <2>9, <2>10
<1>4. ASSUME SinkStep, UNCHANGED serverVars PROVE ScriptsFollow'
  <2>1. PICK j \in Nat :
          /\ Place(j)
          /\ j = Len(Script(cur.kind)) => script'[Sink] = <<>>
          /\ j < Len(Script(cur.kind)) => Place(j + 1)'
    BY <1>4, <1>i, SinkStepEffect DEF ScriptsFollow
  <2>2. /\ script[Sink] # <<>> /\ script[Sink] # <<"start">> /\ j \in 1 .. Len(Script(cur.kind))
        /\ Len(Script(cur.kind)) \in Nat
    BY <2>1, PlaceFacts DEF Place
  <2>3. kept => up # "no" BY <1>f, <2>2 DEF SinkScript
  <2>4. UNCHANGED <<kept, up, chan>> /\ Close(Sink) /\ stage[Sink] = "open"
    BY <1>4 DEF SinkStep
  <2>5. SinkScript'
    <3>1. script'[Sink] = <<>> \/ Place(j + 1)' BY <2>1, <2>2
    <3>2. j + 1 \in Nat OBVIOUS
    <3> QED BY <2>3, <2>4, <3>1, <3>2 DEF SinkScript
  <2>6. stage'[Sink] = "closed" \/ (stage' = stage) BY <1>t, <1>d, <2>4 DEF Close
  <2>7. kept => stage' = stage BY <2>4 DEF Close
  <2>8. SinkOk' BY <1>f, <2>3, <2>4, <2>6, <2>7
  <2>9. \A c \in Clients \ {Sink} : script'[c] = script[c] /\ stage'[c] = stage[c]
    BY <1>t, <1>4, <2>4 DEF SinkStep, Close
  <2> QED BY <1>s, <1>4, <2>5, <2>8, <2>9
<1>5. ASSUME SinkFails, UNCHANGED serverVars PROVE ScriptsFollow'
  <2>1. script[Sink] # <<>> /\ stage[Sink] # "open" /\ Head(script[Sink]) # "start"
    BY <1>f, <1>d, <1>5 DEF SinkFails, Refused, Unreadable, Wants
  <2>2. script[Sink] # <<"start">>
    <3>1. Head(<<"start">>) = "start" OBVIOUS
    <3> QED BY <2>1, <3>1
  <2>3. PICK j \in Nat : Place(j) BY <1>f, <2>1, <2>2 DEF SinkScript
  <2>4. ~kept BY <1>f, <2>1, <2>2 DEF SinkScript
  <2>5. /\ Close(Sink) /\ UNCHANGED <<kept, up, chan>>
        /\ \/ script' = [script EXCEPT ![Sink] = Tail(script[Sink])]
           \/ script' = [script EXCEPT ![Sink] = <<>>]
        /\ cur' = IF script'[Sink] = <<>> THEN NoEvent ELSE cur
    BY <1>5 DEF SinkFails, SinkAfterFailure
  <2>6. stage' = [stage EXCEPT ![Sink] = "closed"] BY <2>4, <2>5 DEF Close
  <2>7. SinkScript'
    <3>1. CASE script'[Sink] = <<>> BY <2>4, <2>5, <3>1 DEF SinkScript
    <3>2. CASE script'[Sink] # <<>>
      <4>1. script'[Sink] = Tail(script[Sink]) /\ cur' = cur
        BY <1>t, <1>d, <2>5, <3>2
      <4>2. j \in 1 .. Len(Script(cur.kind)) /\ Len(Script(cur.kind)) \in Nat
            /\ (j = Len(Script(cur.kind)) => Tail(script[Sink]) = <<>>)
        BY <2>3, PlaceFacts DEF Place
      <4>3. j < Len(Script(cur.kind)) BY <3>2, <4>1, <4>2
      <4>4. Place(j + 1)' BY <2>3, <2>5, <4>1, <4>3, PlaceNext
      <4>5. j + 1 \in Nat OBVIOUS
      <4> QED BY <2>4, <2>5, <4>4, <4>5 DEF SinkScript
    <3> QED BY <3>1, <3>2
  <2>8. SinkOk' BY <1>t, <1>d, <2>4, <2>5, <2>6
  <2>9. \A c \in Clients \ {Sink} : script'[c] = script[c] /\ stage'[c] = stage[c]
    BY <1>t, <2>5, <2>6
  <2> QED BY <1>s, <1>5, <2>7, <2>8, <2>9
<1>6. ASSUME Start, UNCHANGED serverVars PROVE ScriptsFollow'
  <2>1. /\ kept /\ up = "no" /\ UNCHANGED <<kept, up, chan, stage>>
        /\ script' = [script EXCEPT ![Sink] = <<"start">>]
    BY <1>6 DEF Start
  <2>2. script'[Sink] = <<"start">> BY <1>t, <1>d, <2>1
  <2>3. SinkScript' BY <1>f, <2>1, <2>2 DEF SinkScript
  <2>4. SinkOk' BY <2>1, <2>2
  <2> QED BY <1>s, <1>t, <1>6, <2>1, <2>3, <2>4
<1>7. ASSUME Started, UNCHANGED serverVars PROVE ScriptsFollow'
  <2>1. /\ up' = "going" /\ UNCHANGED stage /\ stage[Sink] = "open"
        /\ script' = [script EXCEPT ![Sink] = <<>>]
    BY <1>7 DEF Started
  <2>2. script'[Sink] = <<>> BY <1>t, <1>d, <2>1
  <2> QED BY <1>s, <1>t, <1>7, <2>1, <2>2 DEF SinkScript
<1>8. ASSUME StartFails, UNCHANGED serverVars PROVE ScriptsFollow'
  <2>1. /\ script[Sink] = <<"start">> /\ UNCHANGED <<up, chan>>
        /\ script' = [script EXCEPT ![Sink] = <<>>]
        /\ stage' = [stage EXCEPT ![Sink] = "closed"]
    BY <1>8 DEF StartFails
  <2>2. script'[Sink] = <<>> /\ stage'[Sink] = "closed" BY <1>t, <1>d, <2>1
  <2>3. script[Sink] # <<>> BY <2>1
  <2>4. kept /\ up = "no" /\ chan = <<>> BY <1>f, <2>1, <2>3, PlaceFacts DEF SinkScript
  <2> QED BY <1>s, <1>t, <1>8, <2>1, <2>2, <2>4 DEF SinkScript
<1>9. ASSUME \/ RunEnds
             \/ \E n \in Nodes : NodeBlocks(n) \/ \E batch \in Batches[n] : NodeEnds(n, batch),
             UNCHANGED serverVars
      PROVE  ScriptsFollow'
  <2>1. up = "going" /\ up' # "no" /\ UNCHANGED <<script, cur, kept, stage>>
    BY <1>9 DEF RunEnds, NodeBlocks, NodeEnds
  <2>2. SinkScript' BY <1>f, <2>1, SinkScriptKept
  <2> QED BY <1>f, <1>s, <1>9, <2>1, <2>2
<1>10. ASSUME Exit, UNCHANGED serverVars PROVE ScriptsFollow'
  <2>1. /\ up' = "no" /\ UNCHANGED <<chan, script>> /\ chan = <<>> /\ script[Sink] = <<>>
        /\ stage' = [stage EXCEPT ![Sink] = "closed"]
    BY <1>10 DEF Exit, Drained
  <2> QED BY <1>s, <1>t, <1>d, <1>10, <2>1 DEF SinkScript
<1>11. ASSUME Crash, UNCHANGED serverVars PROVE ScriptsFollow'
  <2>1. /\ up' = "no" /\ chan' = <<>> /\ script' = [script EXCEPT ![Sink] = <<>>]
        /\ stage' = [stage EXCEPT ![Sink] = "closed"]
    BY <1>11 DEF Crash
  <2>2. script'[Sink] = <<>> /\ stage'[Sink] = "closed" BY <1>t, <1>d, <2>1
  <2> QED BY <1>s, <1>t, <1>11, <2>1, <2>2 DEF SinkScript
<1>12. ASSUME ReaderStep \/ ReaderFails, UNCHANGED serverVars PROVE ScriptsFollow'
  <2>1. UNCHANGED <<script, cur, kept, chan, up>> /\ Close(Reader)
    BY <1>12 DEF ReaderStep, ReaderFails
  <2>2. \A c \in Clients \ {Reader} : stage'[c] = stage[c] BY <1>t, <1>d, <2>1 DEF Close
  <2>3. SinkScript' BY <1>f, <2>1, SinkScriptKept DEF SinkScript
  <2>4. SinkOk' BY <1>f, <1>d, <2>1, <2>2
  <2>5. \A h \in Handlers : CallOk(h)' BY <1>h, <1>d, <1>12, <2>1, <2>2
  <2> QED BY <1>f, <1>g, <2>1, <2>3, <2>4, <2>5
<1>13. CASE Submit \/ TaskAborts
  <2>1. ~kept /\ UNCHANGED <<script, cur, kept, stage, call, retried>>
    BY <1>i, <1>13 DEF Submit, TaskAborts, OneTask
  <2>2. SinkScript' BY <1>f, <2>1, SinkScriptKept
  <2>3. \A h \in Handlers : CallOk(h)' BY <1>h, <2>1
  <2> QED BY <1>f, <1>g, <2>1, <2>2, <2>3
<1>14. CASE TaskEnds
  <2>1. ~kept /\ UNCHANGED <<script, cur, kept, stage, call, retried>>
    BY <1>i, <1>14 DEF TaskEnds, OneTask
  <2>2. SinkScript' BY <1>f, <2>1, SinkScriptKept
  <2>3. \A h \in Handlers : CallOk(h)' BY <1>h, <2>1
  <2> QED BY <1>f, <1>g, <2>1, <2>2, <2>3
<1>15. CASE Cancel \/ Sweep \/ UNCHANGED allVars
  <2>1. UNCHANGED <<script, cur, kept, stage, call, retried, up, chan>>
    BY <1>15 DEF Cancel, Sweep, allVars
  <2>2. SinkScript' BY <1>f, <2>1, SinkScriptKept DEF SinkScript
  <2>3. \A h \in Handlers : CallOk(h)' BY <1>h, <2>1
  <2> QED BY <1>f, <1>g, <2>1, <2>2, <2>3
<1>16. CASE Dies
  <2>1. /\ \A c \in Clients : script'[c] = <<>> /\ (c # Reader => stage'[c] = "closed")
        /\ up' = "no" /\ chan' = <<>> /\ call' = [h \in Handlers |-> NoCall]
    BY <1>16 DEF Dies
  <2>2. SinkScript' BY <1>d, <2>1 DEF SinkScript
  <2>3. \A h \in Handlers : CallOk(h)' BY <1>d, <2>1 DEF CallScript, Free, NoCall
  <2> QED BY <1>g, <1>d, <2>1, <2>2, <2>3
\* A step of one request leaves the sink and the others alone.
<1>o. ASSUME NEW h \in Handlers, UNCHANGED <<cur, kept, up, chan>>, retried \subseteq retried',
             \A c \in Clients \ {h} : script'[c] = script[c] /\ stage'[c] = stage[c],
             \A g \in Handlers \ {h} : call'[g] = call[g], CallOk(h)'
      PROVE  ScriptsFollow'
  <2>1. SinkScript' BY <1>f, <1>d, <1>o, SinkScriptKept DEF SinkScript
  <2>2. SinkOk' BY <1>f, <1>d, <1>o
  <2>3. \A g \in Handlers : CallOk(g)' BY <1>h, <1>d, <1>o
  <2> QED BY <1>f, <1>g, <1>d, <1>o, <2>1, <2>2, <2>3
<1>17. ASSUME NEW h \in Handlers, Await(h) \/ Status(h) \/ SeesEnd(h) \/ GivesUp(h)
       PROVE  ScriptsFollow'
  <2>1. call[h].what \in {"none", "await"}
    BY <1>17 DEF Await, Status, SeesEnd, GivesUp, Free, NoCall
  <2>2. script[h] = <<>> /\ stage[h] = "closed" BY <1>f, <1>t, <1>d, <2>1 DEF CallScript
  <2>3. PICK what \in {"await", "status", "counting", "tokening"}, ops \in Seq(Ops) :
          /\ Goes(h, what, NoNode, ops) /\ retried' = retried
          /\ what = "await" => ops = <<>>
          /\ what \in {"status", "counting"} => ops = <<"nodes">>
          /\ what = "tokening" => ops = <<"events">>
    <3>1. <<>> \in Seq(Ops) /\ <<"nodes">> \in Seq(Ops) /\ <<"events">> \in Seq(Ops)
      BY EmptySeq DEF Ops
    <3>2. CASE Await(h) BY <3>1, <3>2 DEF Await
    <3>3. CASE Status(h) BY <3>1, <3>3 DEF Status
    <3>4. CASE SeesEnd(h) BY <3>1, <3>4 DEF SeesEnd
    <3>5. CASE GivesUp(h) BY <3>1, <3>5 DEF GivesUp
    <3> QED BY <1>17, <3>2, <3>3, <3>4, <3>5
  <2>4. /\ call' = [call EXCEPT ![h] = [what |-> what, node |-> NoNode]]
        /\ script' = [script EXCEPT ![h] = ops] /\ UNCHANGED <<cur, kept, up, chan, stage>>
    BY <2>3 DEF Goes
  <2>5. CallOk(h)' BY <1>t, <1>d, <2>2, <2>3, <2>4 DEF CallScript
  <2> QED BY <1>o, <1>t, <2>3, <2>4, <2>5
<1>18. ASSUME NEW h \in Handlers, NEW n \in Nodes, Retry(h, n) PROVE ScriptsFollow'
  <2>1. call[h].what = "none" BY <1>18 DEF Retry, Free, NoCall
  <2>2. script[h] = <<>> /\ stage[h] = "closed" BY <1>f, <1>t, <1>d, <2>1 DEF CallScript
  <2>3. /\ call' = [call EXCEPT ![h] = [what |-> "retry", node |-> n]]
        /\ script' = [script EXCEPT ![h] = <<"state", "append">>]
        /\ UNCHANGED <<cur, kept, up, chan, stage>> /\ retried' = retried \cup {n}
    BY <1>18 DEF Retry, Goes
  <2>4. CallOk(h)' BY <1>t, <1>d, <2>2, <2>3 DEF CallScript
  <2> QED BY <1>o, <1>t, <2>3, <2>4
<1>19. ASSUME NEW h \in Handlers, HandlerStep(h) PROVE ScriptsFollow'
  <2>1. /\ \A c \in Clients \ {h} : script'[c] = script[c]
        /\ \/ script'[h] = <<>> /\ call' = [call EXCEPT ![h] = NoCall]
           \/ call[h].what = "retry" /\ script'[h] = <<"append">> /\ call' = call
    BY <1>i, <1>19, HandlerStepEffect
  <2>2. Close(h) /\ UNCHANGED <<cur, kept, up, chan, retried>> BY <1>19 DEF HandlerStep
  <2>3. stage' = [stage EXCEPT ![h] = "closed"] BY <1>d, <2>2 DEF Close
  <2>4. CASE script'[h] = <<>> /\ call' = [call EXCEPT ![h] = NoCall]
    <3>1. CallOk(h)' BY <1>t, <1>d, <2>3, <2>4 DEF CallScript, Free, NoCall
    <3> QED BY <1>o, <1>t, <2>1, <2>2, <2>3, <2>4, <3>1
  <2>5. CASE call[h].what = "retry" /\ script'[h] = <<"append">> /\ call' = call
    <3>1. call[h].node \in retried BY <1>f, <2>5 DEF CallScript
    <3>2. CallOk(h)' BY <1>t, <1>d, <2>2, <2>3, <2>5, <3>1 DEF CallScript
    <3> QED BY <1>o, <1>t, <2>1, <2>2, <2>3, <2>5, <3>2
  <2> QED BY <2>1, <2>4, <2>5
<1>20. ASSUME NEW h \in Handlers, HandlerFails(h) PROVE ScriptsFollow'
  <2>1. /\ script' = [script EXCEPT ![h] = <<>>] /\ call' = [call EXCEPT ![h] = NoCall]
        /\ Close(h) /\ UNCHANGED <<cur, kept, up, chan, retried>>
    BY <1>20 DEF HandlerFails
  <2>2. stage' = [stage EXCEPT ![h] = "closed"] BY <1>d, <2>1 DEF Close
  <2>3. CallOk(h)' BY <1>t, <1>d, <2>1, <2>2 DEF CallScript, Free, NoCall
  <2> QED BY <1>o, <1>t, <2>1, <2>2, <2>3
<1>21. ASSUME VaultStep, UNCHANGED serverVars PROVE ScriptsFollow'
  BY <1>d, <1>1, <1>2, <1>3, <1>4, <1>5, <1>6, <1>7, <1>8, <1>9, <1>10, <1>11, <1>12, <1>21
     DEF VaultStep, RunProgress
<1> QED
  BY <1>d, <1>1, <1>2, <1>13, <1>14, <1>15, <1>16, <1>17, <1>18, <1>19, <1>20, <1>21
     DEF ServerNext, HandlerMoves

-----------------------------------------------------------------------------
(* The theorems about the file, the reader and the requests.               *)

\* Whatever the run's process, the requests and the reader do with the file, and however
\* they fail, the invariant holds.
THEOREM ServerInvariance == ServerSpec => []ServerIInv
<1>1. ServerIInv /\ [ServerNext]_allVars => ServerIInv'
  BY VaultTypeStep, ScriptsStep, FileStep, TaskStep, ReaderPlaceStep DEF ServerIInv
<1> QED BY ServerInitIInv, <1>1, PTL DEF ServerSpec

\* migrate_v1_to_v2 is one transaction, and nothing else is written to a vault that is not
\* of the current version.
THEOREM MigrationSound == ServerSpec => MigrationWhole
<1>1. ServerIInv /\ [ServerNext]_allVars
      => [db' # db /\ db.version # Current =>
            db.bad = {} /\ db' = [db EXCEPT !.version = Current, !.old = {}]]_db
  <2> SUFFICES ASSUME ServerIInv, [ServerNext]_allVars, db' # db, db.version # Current
               PROVE  db.bad = {} /\ db' = [db EXCEPT !.version = Current, !.old = {}]
    OBVIOUS
  <2>1. \A c \in Clients : stage[c] # "open" BY DEF ServerIInv, FileHeld
  <2>2. PICK c \in Clients : MigrateCommit(c) BY <2>1, LogStep
  <2>3. done = db.old BY <2>2 DEF MigrateCommit
  <2>4. db.bad = {} BY <2>3 DEF ServerIInv, FileHeld
  <2> QED BY <2>2, <2>4 DEF MigrateCommit
<1> QED BY <1>1, ServerInvariance, PTL DEF ServerSpec, MigrationWhole

\* load_events_since, polled from another process with the last number seen, gives every
\* event but the first once and in order.
THEOREM ReaderSound == ServerSpec => []ReaderContiguous
<1>1. ServerIInv => ReaderContiguous BY DEF ServerIInv, ReaderPlace
<1> QED BY <1>1, ServerInvariance, PTL

\* What node.retry saw of the run still holds when it writes: a run that is over stays so.
THEOREM RetrySound == ServerSpec => []RetryAfterRun
<1>1. ServerIInv => RetryAfterRun BY DEF ServerIInv, OneTask, RetryAfterRun
<1> QED BY <1>1, ServerInvariance, PTL

=============================================================================
