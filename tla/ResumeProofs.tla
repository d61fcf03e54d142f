---------------------------- MODULE ResumeProofs ----------------------------
(***************************************************************************)
(* Proofs about a run that crashes and is resumed (module Resume): that it *)
(* does no completed work again, that in the end it is what a run without  *)
(* a crash could have been, and that a vault which is marked complete says *)
(* of every node how it ended.  For every set of nodes, every family of    *)
(* valid DAGs and any number of crashes, wherever they come.               *)
(***************************************************************************)
EXTENDS Resume, SchedulerProofs, SequenceTheorems

-----------------------------------------------------------------------------
(* Types                                                                   *)

Ends       == {"Done", "Failed", "Blocked"}
Texts      == {"none", "blank", "text", "pass"}
NodeEvents == [node : Nodes, to : {"Running"} \cup Ends, text : Texts]
EndEvents  == [node : {NoNode}, to : {"Completed", "Stopped"}, text : Texts]
Events     == NodeEvents \cup EndEvents

ResumeTypeOK ==
  /\ up \in BOOLEAN
  /\ chan \in Seq(Events)
  /\ rec \in [Nodes -> {"none", "Running"} \cup Ends]
  /\ artifact \in [Nodes -> Texts] /\ output \in [Nodes -> Texts]
  /\ complete \in BOOLEAN
  /\ exit \in {"none", "crash", "ok", "failed", "breach"}
  /\ crashes \in Nat
  /\ last \in [Nodes -> {"none"} \cup Ends]

Typed == TypeOK /\ ValidDag(dag) /\ ResumeTypeOK

-----------------------------------------------------------------------------
(* The inductive invariant                                                 *)

\* Of the loop, for a DAG without gates: no node is skipped, so a node that ended well
\* or badly was joined, by this process or by the one whose record is replayed.
NoSkips == pc # "skip" /\ skipWork = {}

\* A node that is queued, or has run, has had all its edges counted off.
RanReleased == \A n \in enqueued \cup settled : released[n] = dag.deps[n]

SettledEnded == \A n \in Nodes : n \in settled <=> nodeState[n] \in {"Done", "Failed"}

\* Exactly the edges from nodes that are Done are counted off, once they are walked.
ReleasedDone ==
  \A n \in Nodes : released[n] = {d \in dag.deps[n] : nodeState[d] = "Done" /\ Walked(d, n)}

FailedBlocks ==
  \A n \in Nodes : \A d \in dag.deps[n] :
    nodeState[d] = "Failed" /\ Walked(d, n) => nodeState[n] = "Blocked"

\* A node is Blocked for a reason: the replay blocks what depends on a Blocked node too.
BlockedBy ==
  \A n \in Nodes : nodeState[n] = "Blocked" =>
    \E d \in dag.deps[n] : nodeState[d] \in {"Failed", "Blocked"}

WalkFrom ==
  /\ fin # NoNode => nodeState[fin] \in {"Done", "Failed"}
  /\ \A m \in todo : fin \in dag.deps[m]

AfterExact ==
  \A n \in Nodes : afterPending[n] = Cardinality({a \in dag.after[n] : ~Terminal(a)})

\* A node whose counters are both zero has been put in the queue; a replayed one is
\* terminal and stays out of it.
PendingEnqueued ==
  \A n \in Nodes : ~Terminal(n) /\ inDegree[n] = 0 /\ afterPending[n] = 0 => n \in enqueued

RunInv ==
  /\ NoSkips /\ RanReleased /\ SettledEnded /\ ReleasedDone /\ FailedBlocks
  /\ BlockedBy /\ WalkFrom /\ EdgeCountedOnce /\ AfterExact /\ PendingEnqueued
  /\ TasksPending /\ EnqueuedLives /\ QueueDrained

\* The vault says that n went to one of the states S, or will say so when the events
\* before the i-th have been written.
Said(n, S, i) ==
  rec[n] \in S \/ \E j \in 1 .. i - 1 : chan[j].node = n /\ chan[j].to \in S

\* A record is behind the loop or agrees with it.
RecordBehind == \A n \in Nodes : rec[n] \in {"none", "Running", nodeState[n]}

\* An event on its way says how its node ended, or that it ran and one that says how it
\* ended comes later.
SentSays ==
  \A i \in DOMAIN chan : chan[i].node \in Nodes =>
    \/ chan[i].to = nodeState[chan[i].node]
    \/ /\ chan[i].to = "Running"
       /\ \E j \in i + 1 .. Len(chan) : /\ chan[j].node = chan[i].node
                                        /\ chan[j].to = nodeState[chan[i].node]

\* While the process lives, no end is lost.
EndsSaid ==
  up => \A n \in Nodes : Terminal(n) => Said(n, {nodeState[n]}, Len(chan) + 1)

\* That a node ran is said before anything else of it.
RunningFirst ==
  \A i \in DOMAIN chan : chan[i].to = "Running" =>
    /\ rec[chan[i].node] \in {"none", "Running"}
    /\ \A j \in 1 .. i - 1 : chan[j].node # chan[i].node

\* The vault never says that a node ran without saying that its dependencies are Done.
RanAfterDone ==
  /\ \A n \in Nodes : rec[n] \in {"Running", "Done", "Failed"} =>
       \A d \in dag.deps[n] : rec[d] = "Done"
  /\ \A i \in DOMAIN chan : chan[i].to \in {"Running", "Done", "Failed"} =>
       \A d \in dag.deps[chan[i].node] : Said(d, {"Done"}, i)

\* Nor that a node is Blocked without saying that one of them is Failed or Blocked.
BlockedAfter ==
  /\ \A n \in Nodes : rec[n] = "Blocked" =>
       \E d \in dag.deps[n] : rec[d] \in {"Failed", "Blocked"}
  /\ \A i \in DOMAIN chan : chan[i].to = "Blocked" =>
       \E d \in dag.deps[chan[i].node] : Said(d, {"Failed", "Blocked"}, i)

LastSaid == \A n \in Nodes : Terminal(n) => last[n] = nodeState[n]

\* The end of the run is the last event, and Completed is not sent after a breach.
EndIsLast ==
  \A i \in DOMAIN chan : chan[i].node = NoNode =>
    /\ i = Len(chan) /\ pc = "done"
    /\ chan[i].to = "Completed" => ~breach

DownEmpty    == ~up => chan = <<>>
CompleteDone == complete => pc = "done" /\ ~breach /\ chan = <<>>

ChanInv ==
  /\ RecordBehind /\ SentSays /\ EndsSaid /\ RunningFirst /\ RanAfterDone
  /\ BlockedAfter /\ LastSaid /\ EndIsLast /\ DownEmpty /\ CompleteDone

\* The DAGs of which it holds, and how the run is invoked: resumed each time, its failed
\* nodes not retried; no task panics and none fails its verification.
PlainDag == NoGates /\ RootAfter
PlainRun == /\ ~MayPanic /\ ~MayVerifyFail
            /\ \A c \in Commands : c.resume /\ ~c.retry

ResumeIInv == Typed /\ (PlainDag => RunInv /\ ChanInv /\ CompleteVaultAgrees)

-----------------------------------------------------------------------------
(* Sequences made of a set, and what the replay sends.                     *)

\* A finite set as a sequence: of its members, as long as the set is large.
LEMMA SetAsSeq ==
  ASSUME NEW S \in SUBSET Nodes
  PROVE  /\ SetToSeq(S) \in [1 .. Cardinality(S) -> S]
         /\ SetToSeq(S) \in Seq(S)
<1>1. IsFiniteSet(S) /\ Cardinality(S) \in Nat BY NodeSets
<1>2. ExistsBijection(1 .. Cardinality(S), S) BY <1>1, FS_CardinalityType
<1>3. \E f \in [1 .. Cardinality(S) -> S] : IsInjective(f)
  BY <1>2 DEF ExistsBijection, Bijection, Injection
<1>4. SetToSeq(S) \in [1 .. Cardinality(S) -> S] BY <1>3 DEF SetToSeq
<1> QED BY <1>1, <1>4

\* A cascade of the replay lists nodes that are not terminal and have dependencies; each
\* depends on a node that is bad or stands before it, and no dependent of a bad node is
\* left out.
LEMMA CascadeFacts ==
  ASSUME ValidDag(dag), NEW bad, NEW terminal, NEW s \in Cascades(bad, terminal)
  PROVE  /\ s \in Seq(Nodes) /\ DOMAIN s = 1 .. Len(s) /\ Len(s) \in Nat
         /\ Range(s) \subseteq {n \in Nodes \ terminal : dag.deps[n] # {}}
         /\ \A i \in 1 .. Len(s) : \E d \in dag.deps[s[i]] :
              d \in bad \/ \E j \in 1 .. i - 1 : s[j] = d
         /\ \A n \in Nodes \ terminal : dag.deps[n] \cap bad # {} => n \in Range(s)
<1> DEFINE Open == {n \in Nodes \ terminal : dag.deps[n] # {}}
<1>1. PICK T \in SUBSET Open : s \in SetToSeqs(T)
  BY DEF Cascades, SetToAllKPermutations
<1>2. s \in [1 .. Cardinality(T) -> T] /\ Cardinality(T) \in Nat
  <2>1. T \in SUBSET Nodes OBVIOUS
  <2> QED BY <1>1, <2>1, NodeSets DEF SetToSeqs
<1>3. s \in Seq(Nodes) /\ DOMAIN s = 1 .. Len(s) /\ Len(s) \in Nat
  BY <1>2
<1>4. Range(s) \subseteq Open BY <1>2 DEF Range
<1>5. ASSUME NEW i \in 1 .. Len(s)
      PROVE  \E d \in dag.deps[s[i]] : d \in bad \/ \E j \in 1 .. i - 1 : s[j] = d
  <2>1. dag.deps[s[i]] \cap (bad \cup Range(SubSeq(s, 1, i - 1))) # {}
    BY <1>3 DEF Cascades
  <2>2. PICK d \in dag.deps[s[i]] : d \in bad \/ d \in Range(SubSeq(s, 1, i - 1)) BY <2>1
  <2>3. ASSUME d \in Range(SubSeq(s, 1, i - 1)) PROVE \E j \in 1 .. i - 1 : s[j] = d
    <3>1. /\ DOMAIN SubSeq(s, 1, i - 1) = 1 .. i - 1
          /\ \A j \in 1 .. i - 1 : SubSeq(s, 1, i - 1)[j] = s[j]
      BY <1>3
    <3> QED BY <2>3, <3>1 DEF Range
  <2> QED BY <2>2, <2>3
<1>6. \A n \in Nodes \ terminal : dag.deps[n] \cap bad # {} => n \in Range(s)
  BY DEF Cascades
<1> QED BY <1>3, <1>4, <1>5, <1>6
\* One part of the replay: an event for each node of S.
LEMMA SentPart ==
  ASSUME NEW S \in SUBSET Nodes, NEW to, NEW text
  PROVE  [i \in 1 .. Cardinality(S) |-> Event(SetToSeq(S)[i], to, text)]
           \in Seq([node : S, to : {to}, text : {text}])
<1> DEFINE A == [i \in 1 .. Cardinality(S) |-> Event(SetToSeq(S)[i], to, text)]
           R == [node : S, to : {to}, text : {text}]
<1>1. Cardinality(S) \in Nat BY NodeSets
<1>2. \A i \in 1 .. Cardinality(S) : SetToSeq(S)[i] \in S BY SetAsSeq
<1>3. \A i \in 1 .. Cardinality(S) : Event(SetToSeq(S)[i], to, text) \in R
  BY <1>2 DEF Event
<1>4. A \in [1 .. Cardinality(S) -> R] BY <1>3
<1> HIDE DEF R, A
<1>5. A \in Seq(R) BY <1>1, <1>4
<1> QED BY <1>5 DEF A, R

\* k events that repeat what the vault says, then one for each node of the cascade s.
Replayed(done, failed, blocked, s, events, k) ==
  /\ Len(events) = k + Len(s)
  /\ \A i \in 1 .. k : \/ events[i].node \in done /\ events[i].to = "Done"
                       \/ events[i].node \in failed /\ events[i].to = "Failed"
                       \/ events[i].node \in blocked /\ events[i].to = "Blocked"
  /\ \A j \in 1 .. Len(s) : events[k + j].node = s[j] /\ events[k + j].to = "Blocked"

\* What the replay sends.
LEMMA ReplaySends ==
  ASSUME NEW done \in SUBSET Nodes, NEW failed \in SUBSET Nodes,
         NEW blocked \in SUBSET Nodes, NEW s \in Seq(Nodes),
         Replay(done, failed, blocked, s)
  PROVE  /\ terminalOrder' \in Seq(Nodes)
         /\ chan' \in Seq(NodeEvents)
         /\ \E k \in Nat : Replayed(done, failed, blocked, s, chan', k)
<1> DEFINE A == [i \in 1 .. Cardinality(done) |-> Event(SetToSeq(done)[i], "Done", "blank")]
           B == [i \in 1 .. Cardinality(failed) |->
                  Event(SetToSeq(failed)[i], "Failed", "blank")]
           C == [i \in 1 .. Cardinality(blocked) |->
                  Event(SetToSeq(blocked)[i], "Blocked", "none")]
           D == [i \in DOMAIN s |-> Event(s[i], "Blocked", "none")]
           Old == [node : done, to : {"Done"}, text : {"blank"}]
                    \cup [node : failed, to : {"Failed"}, text : {"blank"}]
                    \cup [node : blocked, to : {"Blocked"}, text : {"none"}]
           New == [node : Nodes, to : {"Blocked"}, text : {"none"}]
<1>1. chan' = A \o B \o C \o D BY DEF Replay
<1>2. A \in Seq(Old)
  <2>1. A \in Seq([node : done, to : {"Done"}, text : {"blank"}]) BY SentPart
  <2>2. [node : done, to : {"Done"}, text : {"blank"}] \subseteq Old OBVIOUS
  <2> HIDE DEF A, Old
  <2> QED BY <2>1, <2>2, SeqMonotonic
<1>3. B \in Seq(Old)
  <2>1. B \in Seq([node : failed, to : {"Failed"}, text : {"blank"}]) BY SentPart
  <2>2. [node : failed, to : {"Failed"}, text : {"blank"}] \subseteq Old OBVIOUS
  <2> HIDE DEF B, Old
  <2> QED BY <2>1, <2>2, SeqMonotonic
<1>4. C \in Seq(Old)
  <2>1. C \in Seq([node : blocked, to : {"Blocked"}, text : {"none"}]) BY SentPart
  <2>2. [node : blocked, to : {"Blocked"}, text : {"none"}] \subseteq Old OBVIOUS
  <2> HIDE DEF C, Old
  <2> QED BY <2>1, <2>2, SeqMonotonic
<1>5. /\ D \in Seq(New) /\ Len(D) = Len(s)
      /\ \A j \in 1 .. Len(s) : D[j] = Event(s[j], "Blocked", "none")
  <2>1. DOMAIN s = 1 .. Len(s) /\ Len(s) \in Nat OBVIOUS
  <2>2. \A i \in 1 .. Len(s) : s[i] \in Nodes BY <2>1
  <2>3. D \in [1 .. Len(s) -> New] BY <2>1, <2>2 DEF Event
  <2> HIDE DEF New
  <2>4. D \in Seq(New) /\ Len(D) = Len(s) BY <2>1, <2>3
  <2> QED BY <2>1, <2>4
<1>6. \A e \in Old : \/ e.node \in done /\ e.to = "Done"
                     \/ e.node \in failed /\ e.to = "Failed"
                     \/ e.node \in blocked /\ e.to = "Blocked"
  OBVIOUS
<1>7. Old \subseteq NodeEvents /\ New \subseteq NodeEvents
  BY DEF NodeEvents, Ends, Texts
<1>8. \A j \in 1 .. Len(s) : D[j].node = s[j] /\ D[j].to = "Blocked"
  BY <1>5 DEF Event
<1> DEFINE E == A \o B \o C
<1> HIDE DEF A, B, C, D, Old, New
<1>9. E \in Seq(Old) /\ Len(E) \in Nat BY <1>2, <1>3, <1>4
<1>10. chan' = E \o D BY <1>1
<1> HIDE DEF E
<1>11. /\ Len(chan') = Len(E) + Len(s)
       /\ \A i \in 1 .. Len(E) : chan'[i] = E[i] /\ E[i] \in Old
       /\ \A j \in 1 .. Len(s) : chan'[Len(E) + j] = D[j]
  <2>1. D \in Seq(New) /\ Len(D) = Len(s) /\ Len(s) \in Nat BY <1>5
  <2>2. E \in Seq(Old \cup New) /\ D \in Seq(Old \cup New) BY <1>9, <2>1, SeqMonotonic
  <2>3. Len(chan') = Len(E) + Len(s)
    <3>1. Len(E \o D) = Len(E) + Len(D) BY <2>2, ConcatProperties
    <3> QED BY <1>10, <2>1, <3>1
  <2>4. \A i \in 1 .. Len(E) + Len(D) :
          chan'[i] = IF i <= Len(E) THEN E[i] ELSE D[i - Len(E)]
    BY <1>10, <2>2, ConcatProperties
  <2>5. \A i \in 1 .. Len(E) : E[i] \in Old BY <1>9
  <2>6. \A i \in 1 .. Len(E) : chan'[i] = E[i] BY <1>9, <2>1, <2>4
  <2>7. ASSUME NEW j \in 1 .. Len(s) PROVE chan'[Len(E) + j] = D[j]
    <3>1. Len(E) + j \in 1 .. Len(E) + Len(D) /\ ~(Len(E) + j <= Len(E)) BY <1>9, <2>1
    <3>2. (Len(E) + j) - Len(E) = j BY <1>9
    <3> QED BY <2>4, <3>1, <3>2
  <2> QED BY <2>3, <2>5, <2>6, <2>7
<1>12. chan' \in Seq(NodeEvents)
  <2>1. E \in Seq(NodeEvents) /\ D \in Seq(NodeEvents) BY <1>5, <1>7, <1>9, SeqMonotonic
  <2> QED BY <1>10, <2>1
<1>13. terminalOrder' \in Seq(Nodes)
  <2>1. \A S \in SUBSET Nodes : SetToSeq(S) \in Seq(Nodes)
    <3> TAKE S \in SUBSET Nodes
    <3>1. SetToSeq(S) \in Seq(S) BY SetAsSeq
    <3> QED BY <3>1, SeqMonotonic
  <2>2. terminalOrder' = SetToSeq(done) \o SetToSeq(failed) \o SetToSeq(blocked) \o s
    BY DEF Replay
  <2> DEFINE a == SetToSeq(done)
             b == SetToSeq(failed)
             d == SetToSeq(blocked)
  <2>3. a \in Seq(Nodes) /\ b \in Seq(Nodes) /\ d \in Seq(Nodes) BY <2>1
  <2>4. terminalOrder' = a \o b \o d \o s BY <2>2
  <2> HIDE DEF a, b, d
  <2> QED BY <2>3, <2>4
<1>14. Replayed(done, failed, blocked, s, chan', Len(E))
  BY <1>6, <1>8, <1>11 DEF Replayed
<1> QED BY <1>9, <1>12, <1>13, <1>14

-----------------------------------------------------------------------------
(* Types are kept                                                          *)

\* The maps of execute() after a replay, or after none.
LEMMA LoadEffect ==
  ASSUME ValidDag(dag), dag' = dag,
         NEW done \in SUBSET Nodes, NEW failed \in SUBSET Nodes,
         NEW blocked \in SUBSET Nodes, NEW cascade \in SUBSET Nodes,
         done \cap failed = {}, (done \cup failed) \cap (blocked \cup cascade) = {},
         Load(done, failed, blocked, cascade), Blank,
         passes' \in SUBSET Nodes, terminalOrder' \in Seq(Nodes)
  PROVE  /\ TypeOK' /\ ValidDag(dag)'
         /\ \A n \in Nodes : /\ n \in done => nodeState'[n] = "Done"
                             /\ n \in failed => nodeState'[n] = "Failed"
                             /\ n \in blocked \cup cascade => nodeState'[n] = "Blocked"
                             /\ n \notin done \cup failed \cup blocked \cup cascade
                                  => nodeState'[n] = "Pending"
<1>1. ValidDag(dag)' /\ dag \in DagType BY DEF ValidDag, DagType
<1>2. nodeState' = [n \in Nodes |-> CASE n \in done -> "Done"
                                      [] n \in failed -> "Failed"
                                      [] n \in blocked \cup cascade -> "Blocked"
                                      [] OTHER -> "Pending"]
  BY DEF Load
<1>3. \A n \in Nodes : /\ n \in done => nodeState'[n] = "Done"
                       /\ n \in failed => nodeState'[n] = "Failed"
                       /\ n \in blocked \cup cascade => nodeState'[n] = "Blocked"
                       /\ n \notin done \cup failed \cup blocked \cup cascade
                            => nodeState'[n] = "Pending"
  BY <1>2
<1>4. nodeState' \in [Nodes -> Statuses] BY <1>2, <1>3 DEF Statuses
<1>5. inDegree' \in [Nodes -> Nat] /\ afterPending' \in [Nodes -> Nat]
  <2>1. \A n \in Nodes : /\ dag.deps[n] \ done \in SUBSET Nodes
                         /\ dag.after[n] \ (done \cup failed \cup blocked) \in SUBSET Nodes
    BY <1>1 DEF DagType
  <2>2. \A S \in SUBSET Nodes : Cardinality(S) \in Nat BY NodeSets
  <2>3. /\ inDegree' = [n \in Nodes |-> Cardinality(dag.deps[n] \ done)]
        /\ afterPending' =
             [n \in Nodes |-> Cardinality(dag.after[n] \ (done \cup failed \cup blocked))]
    BY DEF Load
  <2> QED BY <2>1, <2>2, <2>3
<1>6. ready' \in SUBSET Nodes BY DEF Load
<1>7. released' \in [Nodes -> SUBSET Nodes] /\ settled' \in SUBSET Nodes
  BY DEF Load
<1> QED BY <1>1, <1>3, <1>4, <1>5, <1>6, <1>7 DEF TypeOK, Blank

\* What a resume takes from the vault: three sets of nodes that have nothing in common.
LEMMA Recorded ==
  ASSUME Typed, NEW c \in Commands
  PROVE  /\ Completed \in SUBSET Nodes /\ FailedIn(c) \in SUBSET Nodes
         /\ BlockedBefore \in SUBSET Nodes
         /\ Completed \cap FailedIn(c) = {}
         /\ (Completed \cup FailedIn(c)) \cap BlockedBefore = {}
BY DEF Completed, FailedIn, BlockedBefore

\* What `pidag run --resume` leaves behind, of everything but the counters.
LEMMA RestartEffect ==
  ASSUME Typed, NEW c \in Commands, Restart(c)
  PROVE  \E s \in Cascades(FailedIn(c) \cup BlockedBefore,
                           Completed \cup FailedIn(c) \cup BlockedBefore) :
           /\ Load(Completed, FailedIn(c), BlockedBefore, Range(s))
           /\ Replay(Completed, FailedIn(c), BlockedBefore, s)
           /\ s \in Seq(Nodes) /\ Range(s) \in SUBSET Nodes
           /\ (Completed \cup FailedIn(c) \cup BlockedBefore) \cap Range(s) = {}
           /\ TypeOK' /\ ValidDag(dag)'
           /\ \A n \in Nodes : /\ n \in Completed => nodeState'[n] = "Done"
                               /\ n \in FailedIn(c) => nodeState'[n] = "Failed"
                               /\ n \in BlockedBefore \cup Range(s) => nodeState'[n] = "Blocked"
                               /\ n \notin Completed \cup FailedIn(c) \cup BlockedBefore
                                             \cup Range(s)
                                    => nodeState'[n] = "Pending"
<1> DEFINE old == Completed \cup FailedIn(c) \cup BlockedBefore
<1>1. PICK s \in Cascades(FailedIn(c) \cup BlockedBefore, old) :
        /\ Load(Completed, FailedIn(c), BlockedBefore, Range(s))
        /\ Replay(Completed, FailedIn(c), BlockedBefore, s)
  BY DEF Restart
<1>2. Blank /\ dag' = dag BY DEF Restart
<1>3. /\ s \in Seq(Nodes) /\ Range(s) \subseteq Nodes \ old
  BY CascadeFacts DEF Typed
<1>4. terminalOrder' \in Seq(Nodes) BY <1>1, <1>3, Recorded, ReplaySends
<1>5. passes' \in SUBSET Nodes BY <1>1, Recorded DEF Replay
<1>6. (Completed \cup FailedIn(c)) \cap (BlockedBefore \cup Range(s)) = {}
  BY <1>3, Recorded
<1>7. Range(s) \in SUBSET Nodes BY <1>3
<1>8. ValidDag(dag) BY DEF Typed
<1>9. /\ TypeOK' /\ ValidDag(dag)'
      /\ \A n \in Nodes : /\ n \in Completed => nodeState'[n] = "Done"
                          /\ n \in FailedIn(c) => nodeState'[n] = "Failed"
                          /\ n \in BlockedBefore \cup Range(s) => nodeState'[n] = "Blocked"
                          /\ n \notin Completed \cup FailedIn(c) \cup BlockedBefore
                                        \cup Range(s)
                               => nodeState'[n] = "Pending"
  BY <1>1, <1>2, <1>4, <1>5, <1>6, <1>7, <1>8, Recorded, LoadEffect
<1> QED BY <1>1, <1>3, <1>7, <1>9

LEMMA ResumeInitTyped == ResumeInit => Typed
<1> SUFFICES ASSUME ResumeInit PROVE Typed
  OBVIOUS
<1>1. TypeOK /\ ValidDag(dag) BY InitType DEF ResumeInit
<1>2. chan \in Seq(Events) BY DEF ResumeInit
<1>3. ResumeTypeOK BY <1>2 DEF ResumeInit, ResumeTypeOK, Texts, Ends
<1> QED BY <1>1, <1>3 DEF Typed

\* What a step of the loop sends is a sequence of events.
LEMMA EmitType ==
  ASSUME Typed, NEW es \in Seq(Events), Emit(es)
  PROVE  chan' \in Seq(Events)
BY ConcatProperties DEF Typed, ResumeTypeOK, Emit

LEMMA NextTyped == Typed /\ [ResumeNext]_runVars => Typed'
<1> SUFFICES ASSUME Typed, [ResumeNext]_runVars PROVE Typed'
  OBVIOUS
<1> USE DEF Typed
<1>1. ASSUME Next PROVE TypeOK' /\ ValidDag(dag)' BY <1>1, NextType
<1>2. ASSUME UNCHANGED vars PROVE TypeOK' /\ ValidDag(dag)' BY <1>2, NextType
<1>3. CASE QuietStep
  <2>1. Next BY <1>3 DEF QuietStep, Next, Loop
  <2>2. UNCHANGED resumeVars BY <1>3 DEF QuietStep
  <2> QED BY <1>1, <2>1, <2>2 DEF resumeVars, ResumeTypeOK, vault
<1>4. ASSUME NEW n \in Nodes, NEW outcome \in {"Done", "Failed"}, NEW says \in BOOLEAN,
             NEW unverified \in BOOLEAN, JoinStep(n, outcome, says, unverified)
      PROVE  Typed'
  <2> DEFINE text == IF says THEN "pass" ELSE "text"
             es == <<Event(n, "Running", "none")>>
                     \o IF unverified THEN <<>> ELSE <<Event(n, outcome, text)>>
  <2>1. Next BY <1>4 DEF JoinStep, Next, JoinNext
  <2>2. /\ Emit(es) /\ output' = [output EXCEPT ![n] = text]
        /\ last' = [last EXCEPT ![n] = outcome]
        /\ UNCHANGED <<up, vault, exit, crashes>>
    BY <1>4 DEF JoinStep
  <2>3. es \in Seq(Events)
    <3>1. /\ Event(n, "Running", "none") \in Events
          /\ Event(n, outcome, text) \in Events
      BY DEF Event, NodeEvents, Texts, Ends, Events
    <3> DEFINE ran == Event(n, "Running", "none")
               how == Event(n, outcome, text)
    <3> HIDE DEF ran, how
    <3>2. ran \in Events /\ how \in Events BY <3>1 DEF ran, how
    <3>3. <<ran>> \o (IF unverified THEN <<>> ELSE <<how>>) \in Seq(Events)
      BY <3>2
    <3> QED BY <3>3 DEF ran, how
  <2> HIDE DEF es
  <2>4. chan' \in Seq(Events) BY <2>2, <2>3, EmitType
  <2> QED BY <1>1, <2>1, <2>2, <2>4 DEF ResumeTypeOK, vault, Texts, Ends
<1>5. ASSUME NEW s \in Nodes, SkipStep(s) PROVE Typed'
  <2>1. Next BY <1>5 DEF SkipStep, Next, Loop
  <2>2. /\ Emit(IF Terminal(s) THEN <<>> ELSE <<Event(s, "Done", "blank")>>)
        /\ last' = IF Terminal(s) THEN last ELSE [last EXCEPT ![s] = "Done"]
        /\ UNCHANGED <<up, vault, output, exit, crashes>>
    BY <1>5 DEF SkipStep
  <2>3. Event(s, "Done", "blank") \in Events
    BY DEF Event, NodeEvents, Texts, Ends, Events
  <2>4. chan' \in Seq(Events)
    <3> DEFINE es == IF Terminal(s) THEN <<>> ELSE <<Event(s, "Done", "blank")>>
    <3>1. es \in Seq(Events) BY <2>3
    <3> HIDE DEF es
    <3>2. Emit(es) BY <2>2 DEF es
    <3> QED BY <3>1, <3>2, EmitType
  <2> QED BY <1>1, <2>1, <2>2, <2>4 DEF ResumeTypeOK, vault, Texts, Ends
<1>6. ASSUME NEW m \in Nodes, BlockStep(m) PROVE Typed'
  <2>1. Next BY <1>6 DEF BlockStep, Next, Loop
  <2>2. /\ Emit(<<Event(m, "Blocked", "none")>>)
        /\ last' = [last EXCEPT ![m] = "Blocked"]
        /\ UNCHANGED <<up, vault, output, exit, crashes>>
    BY <1>6 DEF BlockStep
  <2>3. Event(m, "Blocked", "none") \in Events
    BY DEF Event, NodeEvents, Texts, Ends, Events
  <2>4. chan' \in Seq(Events)
    <3> DEFINE es == <<Event(m, "Blocked", "none")>>
    <3>1. es \in Seq(Events) BY <2>3
    <3> HIDE DEF es
    <3>2. Emit(es) BY <2>2 DEF es
    <3> QED BY <3>1, <3>2, EmitType
  <2> QED BY <1>1, <2>1, <2>2, <2>4 DEF ResumeTypeOK, vault, Texts, Ends
<1>7. CASE FinishStep
  <2>1. Next BY <1>7 DEF FinishStep, Next, Loop
  <2>2. /\ Emit(<<Event(NoNode, IF Completes THEN "Completed" ELSE "Stopped", "none")>>)
        /\ UNCHANGED <<up, vault, output, exit, crashes, last>>
    BY <1>7 DEF FinishStep
  <2>3. Event(NoNode, IF Completes THEN "Completed" ELSE "Stopped", "none") \in Events
    BY DEF Event, EndEvents, Texts, Events
  <2>4. chan' \in Seq(Events)
    <3> DEFINE es == <<Event(NoNode, IF Completes THEN "Completed" ELSE "Stopped", "none")>>
    <3>1. es \in Seq(Events) BY <2>3
    <3> HIDE DEF es
    <3>2. Emit(es) BY <2>2 DEF es
    <3> QED BY <3>1, <3>2, EmitType
  <2> QED BY <1>1, <2>1, <2>2, <2>4 DEF ResumeTypeOK, vault
<1>8. CASE Exit
  BY <1>2, <1>8 DEF Exit, ResumeTypeOK, Completes, TypeOK
<1>9. CASE Consume
  <2>1. /\ UNCHANGED vars /\ chan' = Tail(chan) /\ Head(chan) \in Events
        /\ chan' \in Seq(Events)
        /\ Write(Head(chan)) /\ UNCHANGED <<up, output, exit, crashes, last>>
    BY <1>9 DEF Consume, ResumeTypeOK
  <2>2. CASE Head(chan).node = NoNode
    BY <1>2, <2>1, <2>2 DEF Write, ResumeTypeOK
  <2>3. CASE Head(chan).node # NoNode
    <3>1. Head(chan) \in NodeEvents BY <2>1, <2>3 DEF Events, EndEvents
    <3>2. /\ Head(chan).node \in Nodes /\ Head(chan).to \in {"Running"} \cup Ends
          /\ Head(chan).text \in Texts
      BY <3>1 DEF NodeEvents
    <3>3. /\ rec' = [rec EXCEPT ![Head(chan).node] = Head(chan).to]
          /\ artifact' = artifact
               \/ artifact' = [artifact EXCEPT ![Head(chan).node] = Head(chan).text]
          /\ complete' = complete
      BY <2>1, <2>3 DEF Write
    <3> QED BY <1>2, <2>1, <3>2, <3>3 DEF ResumeTypeOK
  <2> QED BY <2>2, <2>3
<1>10. CASE Crash
  <2>1. chan' \in Seq(Events) BY <1>10 DEF Crash
  <2>2. crashes' \in Nat BY <1>10 DEF Crash, ResumeTypeOK
  <2> QED BY <1>2, <1>10, <2>1, <2>2 DEF Crash, ResumeTypeOK, vault
<1>11. ASSUME NEW c \in Commands, Restart(c) PROVE Typed'
  <2>1. PICK s \in Cascades(FailedIn(c) \cup BlockedBefore,
                            Completed \cup FailedIn(c) \cup BlockedBefore) :
          /\ Replay(Completed, FailedIn(c), BlockedBefore, s)
          /\ s \in Seq(Nodes) /\ TypeOK' /\ ValidDag(dag)'
    BY <1>11, RestartEffect
  <2>2. chan' \in Seq(NodeEvents) BY <2>1, Recorded, ReplaySends
  <2>3. chan' \in Seq(Events) BY <2>2, SeqMonotonic DEF Events
  <2>4. output' \in [Nodes -> Texts] /\ last' \in [Nodes -> {"none"} \cup Ends]
    BY <2>1 DEF Replay, ResumeTypeOK, Texts, Ends
  <2> QED BY <1>11, <2>1, <2>3, <2>4 DEF Restart, ResumeTypeOK, vault
<1>12. ASSUME NEW c \in Commands, ShowCached(c) PROVE Typed'
  BY <1>2, <1>12 DEF ShowCached, ResumeTypeOK, vault
<1>13. ASSUME NEW c \in Commands, StartFresh(c) PROVE Typed'
  <2>1. /\ Load({}, {}, {}, {}) /\ Blank /\ dag' = dag
        /\ terminalOrder' = <<>> /\ passes' = {}
    BY <1>13 DEF StartFresh
  <2>2. {} \in SUBSET Nodes /\ terminalOrder' \in Seq(Nodes) /\ passes' \in SUBSET Nodes
    BY <2>1
  <2>3. TypeOK' /\ ValidDag(dag)' BY <2>1, <2>2, LoadEffect
  <2>4. chan' \in Seq(Events) BY <1>13 DEF StartFresh
  <2> QED BY <1>13, <2>3, <2>4 DEF StartFresh, ResumeTypeOK, Texts
<1>14. CASE UNCHANGED runVars
  BY <1>2, <1>14 DEF runVars, resumeVars, ResumeTypeOK, vault
<1> QED
  BY <1>3, <1>4, <1>5, <1>6, <1>7, <1>8, <1>9, <1>10, <1>11, <1>12, <1>13, <1>14
  DEF ResumeNext, RunStep, TaskEnds, Invoke

\* Every variable of the run, its channel and its vault keeps its type, however often the
\* run is interrupted and however it is invoked again.
THEOREM ResumeTypeCorrect == ResumeSpec => []Typed
<1>1. ResumeInit => Typed BY ResumeInitTyped
<1>2. Typed /\ [ResumeNext]_runVars => Typed' BY NextTyped
<1> QED BY <1>1, <1>2, PTL DEF ResumeSpec

-----------------------------------------------------------------------------
(* What is sent and what is written                                        *)

\* Events are sent at the end of the channel.
LEMMA EmitEffect ==
  ASSUME Typed, NEW es \in Seq(Events), Emit(es)
  PROVE  /\ Len(chan) \in Nat /\ DOMAIN chan = 1 .. Len(chan)
         /\ DOMAIN chan' = 1 .. Len(chan) + Len(es) /\ Len(chan') = Len(chan) + Len(es)
         /\ \A i \in 1 .. Len(chan) : chan'[i] = chan[i]
         /\ \A i \in DOMAIN chan' \ DOMAIN chan :
              /\ i - Len(chan) \in 1 .. Len(es)
              /\ chan'[i] = es[i - Len(chan)]
         /\ \A j \in 1 .. Len(es) : chan'[Len(chan) + j] = es[j]
<1>1. chan \in Seq(Events) /\ chan' = chan \o es
  BY DEF Typed, ResumeTypeOK, Emit
<1>2. Len(chan) \in Nat /\ Len(es) \in Nat /\ DOMAIN chan = 1 .. Len(chan) BY <1>1
<1>3. /\ chan' \in Seq(Events) /\ Len(chan') = Len(chan) + Len(es)
      /\ \A i \in 1 .. Len(chan) + Len(es) :
           chan'[i] = IF i <= Len(chan) THEN chan[i] ELSE es[i - Len(chan)]
  BY <1>1, ConcatProperties
<1>4. DOMAIN chan' = 1 .. Len(chan) + Len(es) BY <1>3
<1>5. ASSUME NEW j \in 1 .. Len(es) PROVE chan'[Len(chan) + j] = es[j]
  <2>1. Len(chan) + j \in 1 .. Len(chan) + Len(es) /\ ~(Len(chan) + j <= Len(chan))
    BY <1>2
  <2>2. (Len(chan) + j) - Len(chan) = j BY <1>2
  <2> QED BY <1>3, <2>1, <2>2
<1>6. ASSUME NEW i \in DOMAIN chan' \ DOMAIN chan
      PROVE  /\ i - Len(chan) \in 1 .. Len(es)
             /\ chan'[i] = es[i - Len(chan)]
  BY <1>2, <1>3, <1>4
<1> QED BY <1>2, <1>3, <1>4, <1>5, <1>6

\* The consumer takes the oldest event; the others move up.
LEMMA ConsumeEffect ==
  ASSUME Typed, Consume
  PROVE  /\ Len(chan) \in Nat \ {0} /\ DOMAIN chan = 1 .. Len(chan)
         /\ Len(chan') = Len(chan) - 1 /\ DOMAIN chan' = 1 .. Len(chan) - 1
         /\ \A i \in 1 .. Len(chan) - 1 : chan'[i] = chan[i + 1]
         /\ \A i \in DOMAIN chan : chan[i] \in Events
         /\ UNCHANGED vars /\ UNCHANGED <<up, last>>
         /\ chan[1].node = NoNode => /\ UNCHANGED rec
                                     /\ complete' = (complete \/ chan[1].to = "Completed")
         /\ chan[1].node # NoNode => /\ chan[1].node \in Nodes
                                     /\ chan[1].to \in {"Running"} \cup Ends
                                     /\ rec'[chan[1].node] = chan[1].to
                                     /\ \A n \in Nodes \ {chan[1].node} : rec'[n] = rec[n]
                                     /\ UNCHANGED complete
<1>1. /\ chan \in Seq(Events) /\ chan # <<>> /\ chan' = Tail(chan) /\ Write(Head(chan))
      /\ UNCHANGED vars /\ UNCHANGED <<up, last>>
  BY DEF Typed, ResumeTypeOK, Consume
<1>2. /\ Len(chan) \in Nat \ {0} /\ DOMAIN chan = 1 .. Len(chan) /\ Head(chan) = chan[1]
      /\ Len(chan') = Len(chan) - 1 /\ DOMAIN chan' = 1 .. Len(chan) - 1
      /\ \A i \in 1 .. Len(chan) - 1 : chan'[i] = chan[i + 1]
  BY <1>1
<1>3. \A i \in DOMAIN chan : chan[i] \in Events BY <1>1
<1>4. chan[1] \in Events BY <1>2, <1>3
<1>5. CASE chan[1].node = NoNode
  BY <1>1, <1>2, <1>3, <1>5 DEF Write
<1>6. CASE chan[1].node # NoNode
  <2>1. chan[1].node \in Nodes /\ chan[1].to \in {"Running"} \cup Ends
    BY <1>4, <1>6 DEF Events, NodeEvents, EndEvents
  <2>2. rec' = [rec EXCEPT ![chan[1].node] = chan[1].to] /\ UNCHANGED complete
    BY <1>1, <1>2, <1>6 DEF Write
  <2>3. rec \in [Nodes -> {"none", "Running"} \cup Ends] BY DEF Typed, ResumeTypeOK
  <2> QED BY <1>1, <1>2, <1>3, <1>6, <2>1, <2>2, <2>3
<1> QED BY <1>5, <1>6

\* What a joined node sends: that it ran, and how it ended unless that was a failed
\* verification.
LEMMA JoinSends ==
  ASSUME Typed, NEW n \in Nodes, NEW outcome \in {"Done", "Failed"},
         NEW says \in BOOLEAN, NEW unverified \in BOOLEAN,
         JoinStep(n, outcome, says, unverified)
  PROVE  \E es \in Seq(Events) :
           /\ Emit(es)
           /\ \A j \in 1 .. Len(es) : es[j].node = n
           /\ IF unverified THEN Len(es) = 1 ELSE Len(es) = 2 /\ es[2].to = outcome
           /\ es[1].to = "Running"
<1> DEFINE ran == Event(n, "Running", "none")
           how == Event(n, outcome, IF says THEN "pass" ELSE "text")
<1>1. Emit(<<ran>> \o IF unverified THEN <<>> ELSE <<how>>)
  BY DEF JoinStep
<1>2. /\ ran \in Events /\ ran.node = n /\ ran.to = "Running"
      /\ how \in Events /\ how.node = n /\ how.to = outcome
  BY DEF Event, NodeEvents, Texts, Ends, Events
<1> HIDE DEF ran, how
<1>3. CASE unverified
  <2>1. <<ran>> \o <<>> = <<ran>> OBVIOUS
  <2>2. Emit(<<ran>>) BY <1>1, <1>3, <2>1
  <2> QED BY <1>2, <1>3, <2>2
<1>4. CASE ~unverified
  <2> DEFINE es == <<ran>> \o <<how>>
  <2>1. <<ran>> \in Seq(Events) /\ <<how>> \in Seq(Events) BY <1>2
  <2>2. es \in Seq(Events) /\ Len(es) = 2 /\ es[1] = ran /\ es[2] = how
    <3>1. Len(<<ran>>) = 1 /\ Len(<<how>>) = 1 /\ <<ran>>[1] = ran /\ <<how>>[1] = how
      OBVIOUS
    <3> QED BY <2>1, <3>1, ConcatProperties
  <2>3. Emit(es) BY <1>1, <1>4
  <2> HIDE DEF es
  <2>4. \A j \in 1 .. Len(es) : es[j].node = n
    <3>1. \A j \in 1 .. 2 : j = 1 \/ j = 2 OBVIOUS
    <3> QED BY <1>2, <2>2, <3>1
  <2> QED BY <1>2, <1>4, <2>2, <2>3, <2>4
<1> QED BY <1>3, <1>4

\* What the other steps send is one event at most.
LEMMA OneSent ==
  ASSUME Typed, NEW n, NEW to, NEW text, Event(n, to, text) \in Events,
         Emit(<<Event(n, to, text)>>)
  PROVE  /\ Len(chan) \in Nat /\ DOMAIN chan = 1 .. Len(chan)
         /\ Len(chan') = Len(chan) + 1 /\ DOMAIN chan' = 1 .. Len(chan) + 1
         /\ \A i \in 1 .. Len(chan) : chan'[i] = chan[i]
         /\ chan'[Len(chan) + 1].node = n /\ chan'[Len(chan) + 1].to = to
<1> DEFINE e == Event(n, to, text)
<1>1. e.node = n /\ e.to = to BY DEF Event
<1> HIDE DEF e
<1>2. <<e>> \in Seq(Events) /\ Emit(<<e>>) /\ Len(<<e>>) = 1 /\ <<e>>[1] = e BY DEF e
<1>3. 1 \in 1 .. Len(<<e>>) BY <1>2
<1> QED BY <1>1, <1>2, <1>3, EmitEffect

-----------------------------------------------------------------------------
(* No completed work is done again                                         *)

\* A node that is Pending is not Done or Blocked in the vault, nor will be by what is on
\* its way there.
Undecided ==
  \A n \in Nodes : ~Terminal(n) =>
    /\ rec[n] \notin {"Done", "Blocked"}
    /\ \A i \in DOMAIN chan : chan[i].node = n => chan[i].to \notin {"Done", "Blocked"}

\* No step of the loop makes a node Pending again.
LEMMA TerminalStays ==
  ASSUME TypeOK, Next, NEW n \in Nodes, Terminal(n)
  PROVE  Terminal(n)'
<1>1. ASSUME NEW k \in Nodes, NEW outcome \in {"Done", "Failed"}, NEW says \in BOOLEAN,
             Join(k, outcome, says)
      PROVE  Terminal(n)'
  BY <1>1 DEF Join, TypeOK, Terminal
<1>2. ASSUME NEW s \in Nodes, Skip(s) PROVE Terminal(n)'
  BY <1>2 DEF Skip, TypeOK, Terminal
<1>3. ASSUME NEW m \in Nodes, Block(m) PROVE Terminal(n)'
  BY <1>3 DEF Block, TypeOK, Terminal
<1>4. ASSUME UNCHANGED nodeState PROVE Terminal(n)' BY <1>4 DEF Terminal
<1> QED BY <1>1, <1>2, <1>3, <1>4, PublishingSteps

\* A step that keeps terminal nodes terminal and the vault as it is, and sends events of
\* terminal nodes only.
LEMMA SendingUndecided ==
  ASSUME Undecided, UNCHANGED rec,
         \A n \in Nodes : Terminal(n) => Terminal(n)',
         \A i \in DOMAIN chan' : \/ i \in DOMAIN chan /\ chan'[i] = chan[i]
                                 \/ chan'[i].node \notin Nodes
                                 \/ nodeState'[chan'[i].node] # "Pending"
  PROVE  Undecided'
<1> SUFFICES ASSUME NEW n \in Nodes, ~Terminal(n)'
             PROVE  /\ rec'[n] \notin {"Done", "Blocked"}
                    /\ \A i \in DOMAIN chan' :
                         chan'[i].node = n => chan'[i].to \notin {"Done", "Blocked"}
  BY DEF Undecided
<1>1. ~Terminal(n) /\ nodeState'[n] = "Pending" BY DEF Terminal
<1>2. /\ rec[n] \notin {"Done", "Blocked"}
      /\ \A i \in DOMAIN chan : chan[i].node = n => chan[i].to \notin {"Done", "Blocked"}
  BY <1>1 DEF Undecided
<1> QED BY <1>1, <1>2

LEMMA NextUndecided ==
  ASSUME \A c \in Commands : c.resume, Typed, Typed', Undecided, [ResumeNext]_runVars
  PROVE  Undecided'
<1>1. \A n \in Nodes : Next /\ Terminal(n) => Terminal(n)' BY TerminalStays DEF Typed
<1>2. CASE QuietStep
  <2>1. Next /\ UNCHANGED resumeVars BY <1>2 DEF QuietStep, Next, Loop
  <2> QED BY <1>1, <2>1, SendingUndecided DEF resumeVars, vault
<1>3. ASSUME NEW n \in Nodes, NEW outcome \in {"Done", "Failed"}, NEW says \in BOOLEAN,
             NEW unverified \in BOOLEAN, JoinStep(n, outcome, says, unverified)
      PROVE  Undecided'
  <2>1. Next /\ Join(n, outcome, says) /\ UNCHANGED rec
    BY <1>3 DEF JoinStep, Next, JoinNext, vault
  <2>2. PICK es \in Seq(Events) : Emit(es) /\ \A j \in 1 .. Len(es) : es[j].node = n
    BY <1>3, JoinSends
  <2>3. nodeState'[n] # "Pending" BY <2>1 DEF Join, Typed, TypeOK
  <2>4. ASSUME NEW i \in DOMAIN chan'
        PROVE  (i \in DOMAIN chan /\ chan'[i] = chan[i]) \/ chan'[i].node = n
    <3>1. CASE i \in DOMAIN chan BY <2>2, <3>1, EmitEffect
    <3>2. CASE i \notin DOMAIN chan
      <4>1. i - Len(chan) \in 1 .. Len(es) /\ chan'[i] = es[i - Len(chan)]
        BY <2>2, <3>2, EmitEffect
      <4> QED BY <2>2, <4>1
    <3> QED BY <3>1, <3>2
  <2> QED BY <1>1, <2>1, <2>3, <2>4, SendingUndecided
<1>4. ASSUME NEW s \in Nodes, SkipStep(s) PROVE Undecided'
  <2>1. Next /\ Skip(s) /\ UNCHANGED rec
    BY <1>4 DEF SkipStep, Next, Loop, vault
  <2>2. nodeState'[s] # "Pending" BY <2>1 DEF Skip, Typed, TypeOK, Terminal
  <2>3. CASE Terminal(s)
    <3>1. chan' = chan
      <4>1. chan' = chan \o <<>> BY <1>4, <2>3 DEF SkipStep, Emit
      <4> QED BY <4>1 DEF Typed, ResumeTypeOK
    <3> QED BY <1>1, <2>1, <3>1, SendingUndecided
  <2>4. CASE ~Terminal(s)
    <3>1. Emit(<<Event(s, "Done", "blank")>>) BY <1>4, <2>4 DEF SkipStep
    <3>2. Event(s, "Done", "blank") \in Events BY DEF Event, NodeEvents, Texts, Ends, Events
    <3>3. \A i \in DOMAIN chan' : i \in DOMAIN chan \/ i = Len(chan) + 1
      BY <3>1, <3>2, OneSent
    <3>4. \A i \in DOMAIN chan' : (i \in DOMAIN chan /\ chan'[i] = chan[i]) \/ chan'[i].node = s
      BY <3>1, <3>2, <3>3, OneSent
    <3> QED BY <1>1, <2>1, <2>2, <3>4, SendingUndecided
  <2> QED BY <2>3, <2>4
<1>5. ASSUME NEW m \in Nodes, BlockStep(m) PROVE Undecided'
  <2>1. Next /\ Block(m) /\ UNCHANGED rec
    BY <1>5 DEF BlockStep, Next, Loop, vault
  <2>2. nodeState'[m] # "Pending" BY <2>1 DEF Block, Typed, TypeOK
  <2>3. Emit(<<Event(m, "Blocked", "none")>>) BY <1>5 DEF BlockStep
  <2>4. Event(m, "Blocked", "none") \in Events BY DEF Event, NodeEvents, Texts, Ends, Events
  <2>5. \A i \in DOMAIN chan' : (i \in DOMAIN chan /\ chan'[i] = chan[i]) \/ chan'[i].node = m
    BY <2>3, <2>4, OneSent
  <2> QED BY <1>1, <2>1, <2>2, <2>5, SendingUndecided
<1>6. CASE FinishStep
  <2>1. Next /\ UNCHANGED rec
    BY <1>6 DEF FinishStep, Next, Loop, vault
  <2> DEFINE to == IF Completes THEN "Completed" ELSE "Stopped"
  <2>2. Emit(<<Event(NoNode, to, "none")>>) BY <1>6 DEF FinishStep
  <2>3. Event(NoNode, to, "none") \in Events BY DEF Event, EndEvents, Texts, Events
  <2> HIDE DEF to
  <2>4. \A i \in DOMAIN chan' :
          (i \in DOMAIN chan /\ chan'[i] = chan[i]) \/ chan'[i].node = NoNode
    BY <2>2, <2>3, OneSent
  <2> QED BY <1>1, <2>1, <2>4, NodesAssumption, SendingUndecided
<1>7. CASE Exit
  BY <1>7 DEF Exit, Undecided, Terminal, vars
<1>8. CASE Consume
  <2>1. /\ UNCHANGED nodeState
        /\ DOMAIN chan = 1 .. Len(chan) /\ DOMAIN chan' = 1 .. Len(chan) - 1
        /\ Len(chan) \in Nat \ {0}
        /\ \A i \in 1 .. Len(chan) - 1 : chan'[i] = chan[i + 1]
    BY <1>8, ConsumeEffect DEF vars
  <2>2. \A i \in DOMAIN chan' : i + 1 \in DOMAIN chan /\ chan'[i] = chan[i + 1]
    BY <2>1
  <2>3. 1 \in DOMAIN chan BY <2>1
  <2> SUFFICES ASSUME NEW n \in Nodes, ~Terminal(n)'
               PROVE  /\ rec'[n] \notin {"Done", "Blocked"}
                      /\ \A i \in DOMAIN chan' :
                           chan'[i].node = n => chan'[i].to \notin {"Done", "Blocked"}
    BY DEF Undecided
  <2>4. ~Terminal(n) BY <2>1 DEF Terminal
  <2>5. /\ rec[n] \notin {"Done", "Blocked"}
        /\ \A i \in DOMAIN chan : chan[i].node = n => chan[i].to \notin {"Done", "Blocked"}
    BY <2>4 DEF Undecided
  <2>6. rec'[n] \notin {"Done", "Blocked"}
    <3>1. CASE chan[1].node = NoNode BY <1>8, <2>5, <3>1, ConsumeEffect
    <3>2. CASE chan[1].node = n
      <4>1. n # NoNode BY NodesAssumption
      <4>2. rec'[n] = chan[1].to BY <1>8, <3>2, <4>1, ConsumeEffect
      <4> QED BY <2>3, <2>5, <3>2, <4>2
    <3>3. CASE chan[1].node # n /\ chan[1].node # NoNode
      <4>1. n \in Nodes \ {chan[1].node} BY <3>3
      <4>2. rec'[n] = rec[n] BY <1>8, <3>3, <4>1, ConsumeEffect
      <4> QED BY <2>5, <4>2
    <3> QED BY <3>1, <3>2, <3>3
  <2>7. \A i \in DOMAIN chan' : chan'[i].node = n => chan'[i].to \notin {"Done", "Blocked"}
    BY <2>2, <2>5
  <2> QED BY <2>6, <2>7
<1>9. CASE Crash
  <2>1. /\ UNCHANGED <<nodeState, rec>> /\ chan' = <<>> BY <1>9 DEF Crash, vars, vault
  <2>2. DOMAIN chan' = {} BY <2>1
  <2> QED BY <2>1, <2>2 DEF Undecided, Terminal
<1>10. ASSUME NEW c \in Commands, Restart(c) PROVE Undecided'
  <2> DEFINE old == Completed \cup FailedIn(c) \cup BlockedBefore
  <2>1. PICK s \in Cascades(FailedIn(c) \cup BlockedBefore, old) :
          /\ Replay(Completed, FailedIn(c), BlockedBefore, s)
          /\ s \in Seq(Nodes)
          /\ \A n \in Nodes : n \in old \cup Range(s) => nodeState'[n] # "Pending"
    <3>1. PICK s \in Cascades(FailedIn(c) \cup BlockedBefore, old) :
            /\ Replay(Completed, FailedIn(c), BlockedBefore, s)
            /\ s \in Seq(Nodes)
            /\ \A n \in Nodes :
                 /\ n \in Completed => nodeState'[n] = "Done"
                 /\ n \in FailedIn(c) => nodeState'[n] = "Failed"
                 /\ n \in BlockedBefore \cup Range(s) => nodeState'[n] = "Blocked"
      BY <1>10, RestartEffect
    <3>2. \A n \in Nodes : n \in old \cup Range(s) => nodeState'[n] # "Pending"
      BY <3>1
    <3> QED BY <3>1, <3>2
  <2>2. PICK k \in Nat : Replayed(Completed, FailedIn(c), BlockedBefore, s, chan', k)
    <3>1. /\ Completed \in SUBSET Nodes /\ FailedIn(c) \in SUBSET Nodes
          /\ BlockedBefore \in SUBSET Nodes
      BY Recorded
    <3> QED BY <2>1, <3>1, ReplaySends
  <2>3. \A i \in DOMAIN chan' : nodeState'[chan'[i].node] # "Pending"
    <3>1. DOMAIN chan' = 1 .. k + Len(s) /\ Len(s) \in Nat /\ DOMAIN s = 1 .. Len(s)
      BY <2>1, <2>2 DEF Typed, ResumeTypeOK, Replayed
    <3> TAKE i \in DOMAIN chan'
    <3>2. CASE i \in 1 .. k
      <4>1. chan'[i].node \in old BY <2>2, <3>2 DEF Replayed
      <4>2. old \in SUBSET Nodes
        <5>1. /\ Completed \in SUBSET Nodes /\ FailedIn(c) \in SUBSET Nodes
              /\ BlockedBefore \in SUBSET Nodes
          BY Recorded
        <5> QED BY <5>1
      <4> QED BY <2>1, <4>1, <4>2
    <3>3. CASE i \notin 1 .. k
      <4>1. i - k \in 1 .. Len(s) /\ k + (i - k) = i BY <3>1, <3>3
      <4>2. chan'[i].node = s[i - k] BY <2>2, <4>1 DEF Replayed
      <4>3. s[i - k] \in Range(s) /\ s[i - k] \in Nodes BY <2>1, <3>1, <4>1 DEF Range
      <4> QED BY <2>1, <4>2, <4>3
    <3> QED BY <3>2, <3>3
  <2>4. \A n \in Nodes : rec[n] \in {"Done", "Blocked"} => nodeState'[n] # "Pending"
    BY <2>1 DEF Completed, BlockedBefore
  <2>5. UNCHANGED rec BY <1>10 DEF Restart, vault
  <2> QED BY <2>3, <2>4, <2>5 DEF Undecided, Terminal
<1>11. ASSUME NEW c \in Commands, ShowCached(c) PROVE Undecided'
  BY <1>11 DEF ShowCached, Undecided, Terminal, vars, vault
<1>12. CASE UNCHANGED runVars
  BY <1>12 DEF runVars, resumeVars, Undecided, Terminal, vars, vault
<1> QED
  BY <1>2, <1>3, <1>4, <1>5, <1>6, <1>7, <1>8, <1>9, <1>10, <1>11, <1>12
  DEF ResumeNext, RunStep, TaskEnds, Invoke, StartFresh

\* As long as an interrupted run is resumed and not started afresh, with or without its
\* failed nodes: a node that the vault records as Done or Blocked is never dispatched
\* again, for every DAG and wherever the process crashed.
THEOREM ResumeNeverReworks ==
  ASSUME \A c \in Commands : c.resume
  PROVE  ResumeSpec => NoRework
<1> DEFINE Step == \A n \in tasks' \ tasks : rec[n] \notin {"Done", "Blocked"}
<1>1. ResumeInit => Undecided
  <2> SUFFICES ASSUME ResumeInit PROVE Undecided
    OBVIOUS
  <2>1. DOMAIN chan = {} BY DEF ResumeInit
  <2> QED BY <2>1 DEF ResumeInit, Undecided
<1>2. Typed /\ Typed' /\ Undecided /\ [ResumeNext]_runVars => Undecided'
  BY NextUndecided
<1>3. Typed /\ Undecided /\ [ResumeNext]_runVars => [Step]_runVars
  <2> SUFFICES ASSUME Typed, Undecided, ResumeNext, NEW n \in tasks' \ tasks
               PROVE  rec[n] \notin {"Done", "Blocked"}
    OBVIOUS
  <2>1. \/ UNCHANGED tasks \/ tasks' \subseteq tasks
        \/ \E k \in Nodes : Dispatch(k)
    <3>1. CASE QuietStep
      BY <3>1 DEF QuietStep, Dispatch, Refuse, Release, StartSkip, Drained, EndSkip, EndWalk,
                  TripCeiling
    <3>2. CASE RunStep /\ ~QuietStep
      BY <3>2 DEF RunStep, SkipStep, BlockStep, FinishStep, Exit, Skip, Block, Finish, vars
    <3>3. CASE TaskEnds BY <3>3 DEF TaskEnds, JoinStep, Join
    <3>4. CASE Consume \/ Crash BY <3>4 DEF Consume, Crash, vars
    <3>5. CASE Invoke BY <3>5 DEF Invoke, Restart, ShowCached, StartFresh, Blank, vars
    <3> QED BY <3>1, <3>2, <3>3, <3>4, <3>5 DEF ResumeNext
  <2>2. PICK k \in Nodes : Dispatch(k) BY <2>1
  <2>3. n = k /\ ~Terminal(n) BY <2>2 DEF Dispatch
  <2> QED BY <2>3 DEF Undecided
<1> QED BY <1>1, <1>2, <1>3, ResumeTypeCorrect, PTL DEF ResumeSpec, NoRework

-----------------------------------------------------------------------------
(* The loop, for a DAG without gates                                       *)

\* A DAG of this kind has no gate, and what a node is ordered after has no dependency.
LEMMA PlainFacts ==
  ASSUME Typed, PlainDag
  PROVE  /\ \A n, m \in Nodes : ~GatedOn(m, n)
         /\ \A n \in Nodes : dag.deps[n] \in SUBSET Nodes /\ dag.after[n] \in SUBSET Nodes
         /\ \A n, m \in Nodes : n \in dag.after[m] => dag.deps[n] = {}
BY NodesAssumption DEF Typed, ValidDag, DagType, PlainDag, NoGates, RootAfter, GatedOn

\* A step that touches neither the states nor the counters, and at most ends a walk that
\* has nothing left to do.
LEMMA RunFrame ==
  ASSUME RunInv,
         UNCHANGED <<dag, nodeState, inDegree, afterPending, enqueued, released, settled,
                     todo, skipWork>>,
         pc' # "skip", fin' = fin \/ (fin' = NoNode /\ todo = {}),
         TasksPending', EnqueuedLives', QueueDrained'
  PROVE  RunInv'
<1> USE DEF RunInv
<1>1. \A d, n : Walked(d, n)' = Walked(d, n) \/ (todo = {} /\ (Walked(d, n)' <=> d \in settled)
                                                 /\ (Walked(d, n) <=> d \in settled))
  BY DEF Walked
<1>2. \A d, n : Walked(d, n)' <=> Walked(d, n) BY <1>1
<1>3. NoSkips' /\ RanReleased' /\ SettledEnded' /\ BlockedBy'
  BY DEF NoSkips, RanReleased, SettledEnded, BlockedBy
<1>4. ReleasedDone' BY <1>2 DEF ReleasedDone
<1>5. FailedBlocks' BY <1>2 DEF FailedBlocks
<1>6. WalkFrom' BY DEF WalkFrom
<1>7. EdgeCountedOnce' /\ AfterExact' /\ PendingEnqueued'
  BY DEF EdgeCountedOnce, AfterExact, PendingEnqueued, Terminal
<1> QED BY <1>3, <1>4, <1>5, <1>6, <1>7

LEMMA RunQuiet ==
  ASSUME Typed, RunInv, ~MayPanic,
         (\E n \in Nodes : Dispatch(n) \/ Refuse(n)) \/ Drained \/ TripCeiling \/ EndWalk
           \/ Finish
  PROVE  RunInv'
<1> USE DEF walkVars, history, RunInv
<1>1. ASSUME NEW n \in Nodes, Dispatch(n) PROVE RunInv'
  <2>1. TasksPending' /\ EnqueuedLives' /\ QueueDrained'
    BY <1>1 DEF Dispatch, TasksPending, EnqueuedLives, QueueDrained, Terminal
  <2> QED BY <1>1, <2>1, RunFrame DEF Dispatch, NoSkips
<1>2. ASSUME NEW n \in Nodes, Refuse(n) PROVE RunInv'
  <2>1. TasksPending' /\ EnqueuedLives' /\ QueueDrained'
    BY <1>2 DEF Refuse, TasksPending, EnqueuedLives, QueueDrained, Terminal
  <2> QED BY <1>2, <2>1, RunFrame DEF Refuse
<1>3. CASE Drained
  <2>1. TasksPending' /\ EnqueuedLives' /\ QueueDrained'
    BY <1>3 DEF Drained, TasksPending, EnqueuedLives, QueueDrained, Terminal
  <2> QED BY <1>3, <2>1, RunFrame DEF Drained
<1>4. CASE TripCeiling
  <2>1. TasksPending' /\ EnqueuedLives' /\ QueueDrained'
    BY <1>4 DEF TripCeiling, TasksPending, EnqueuedLives, QueueDrained, Terminal
  <2> QED BY <1>4, <2>1, RunFrame DEF TripCeiling, NoSkips
<1>5. CASE EndWalk
  <2>1. TasksPending' /\ EnqueuedLives' /\ QueueDrained'
    BY <1>5 DEF EndWalk, TasksPending, EnqueuedLives, QueueDrained, Terminal
  <2> QED BY <1>5, <2>1, RunFrame DEF EndWalk
<1>6. CASE Finish
  <2>1. TasksPending' /\ EnqueuedLives' /\ QueueDrained'
    BY <1>6 DEF Finish, TasksPending, EnqueuedLives, QueueDrained, Terminal
  <2> QED BY <1>6, <2>1, RunFrame DEF Finish
<1> QED BY <1>1, <1>2, <1>3, <1>4, <1>5, <1>6

\* try_enqueue! admits only nodes whose edges have all been counted off, and every Pending
\* one among those it is asked about.
LEMMA RunEnqueue ==
  ASSUME Typed, RunInv, TypeOK', UNCHANGED dag, NEW S \in SUBSET Nodes, TryEnqueue(S),
         EdgeCountedOnce', \A m \in Nodes : released[m] \subseteq released'[m],
         \A m \in Nodes : Terminal(m) => nodeState'[m] # "Pending",
         \A m \in Nodes \ S : /\ inDegree'[m] = inDegree[m]
                              /\ afterPending'[m] = afterPending[m]
  PROVE  /\ enqueued \subseteq enqueued'
         /\ \A m \in enqueued' : released'[m] = dag.deps[m]
         /\ PendingEnqueued'
         /\ ready \subseteq ready' /\ enqueued' \ enqueued \subseteq ready'
<1> USE DEF Typed, RunInv
<1>1. /\ enqueued \subseteq enqueued' /\ enqueued' \subseteq Nodes
      /\ \A m \in enqueued' \ enqueued : inDegree'[m] = 0 /\ m \in S
      /\ \A m \in S : inDegree'[m] = 0 /\ afterPending'[m] = 0 => m \in enqueued'
      /\ ready' = ready \cup (enqueued' \ enqueued)
  BY TryEnqueueEffect
<1>2. ASSUME NEW m \in enqueued' PROVE released'[m] = dag.deps[m]
  <2>1. m \in Nodes BY <1>1
  <2>2. released'[m] \subseteq dag.deps[m] /\ inDegree'[m] = Cardinality(dag.deps[m] \ released'[m])
    BY <2>1 DEF EdgeCountedOnce
  <2>3. CASE m \in enqueued BY <2>1, <2>2, <2>3 DEF RanReleased
  <2>4. CASE m \notin enqueued
    <3>1. Cardinality(dag.deps[m] \ released'[m]) = 0 BY <1>1, <2>2, <2>4
    <3>2. dag.deps[m] \ released'[m] \in SUBSET Nodes BY <2>1 DEF ValidDag, DagType
    <3>3. dag.deps[m] \ released'[m] = {} BY <3>1, <3>2, NodeSets
    <3> QED BY <2>2, <3>3
  <2> QED BY <2>3, <2>4
<1>3. PendingEnqueued'
  <2> SUFFICES ASSUME NEW m \in Nodes, nodeState'[m] = "Pending", inDegree'[m] = 0,
                      afterPending'[m] = 0
               PROVE  m \in enqueued'
    BY DEF PendingEnqueued, Terminal
  <2>1. CASE m \in S BY <1>1, <2>1
  <2>2. CASE m \notin S
    <3>1. ~Terminal(m) /\ inDegree[m] = 0 /\ afterPending[m] = 0 BY <2>2 DEF Terminal
    <3> QED BY <1>1, <3>1 DEF PendingEnqueued
  <2> QED BY <2>1, <2>2
<1> QED BY <1>1, <1>2, <1>3

\* Counting off the after edges of a node that was Pending and now is not keeps
\* after_pending exact.
LEMMA RunAfter ==
  ASSUME Typed, RunInv, UNCHANGED dag, NEW n \in Nodes, CountAfter(n),
         nodeState[n] = "Pending", nodeState'[n] # "Pending",
         \A m \in Nodes \ {n} : nodeState'[m] = nodeState[m]
  PROVE  AfterExact'
<1> USE DEF Typed
<1> SUFFICES ASSUME NEW m \in Nodes
             PROVE  afterPending'[m] = Cardinality({a \in dag.after[m] : nodeState'[a] = "Pending"})
  BY DEF AfterExact, Terminal
<1> DEFINE W == {a \in dag.after[m] : nodeState[a] = "Pending"}
<1>1. dag.after[m] \in SUBSET Nodes BY DEF ValidDag, DagType
<1>2. afterPending[m] = Cardinality(W) BY DEF RunInv, AfterExact, Terminal
<1>3. afterPending'[m] = IF n \in dag.after[m] /\ afterPending[m] > 0
                         THEN afterPending[m] - 1 ELSE afterPending[m]
  BY CountAfterEffect
<1>4. W \in SUBSET Nodes BY <1>1
<1>5. CASE n \in dag.after[m]
  <2>1. n \in W BY <1>5
  <2>2. {a \in dag.after[m] : nodeState'[a] = "Pending"} = W \ {n} BY <1>1
  <2> HIDE DEF W
  <2>3. Cardinality(W \ {n}) = Cardinality(W) - 1 /\ Cardinality(W) > 0
    BY <1>4, <2>1, OneLess
  <2> QED BY <1>2, <1>3, <1>5, <2>2, <2>3
<1>6. CASE n \notin dag.after[m]
  <2>1. {a \in dag.after[m] : nodeState'[a] = "Pending"} = W BY <1>1, <1>6
  <2> QED BY <1>2, <1>3, <1>6, <2>1
<1> QED BY <1>5, <1>6

\* A joined node: its dependents are still to be walked, so no edge from it counts yet.
LEMMA RunJoin ==
  ASSUME Typed, PlainDag, RunInv, TypeOK', NEW n \in Nodes,
         NEW outcome \in {"Done", "Failed"}, NEW says \in BOOLEAN, Join(n, outcome, says)
  PROVE  RunInv'
<1> USE DEF Typed, RunInv
<1>1. /\ pc = "join" /\ n \in tasks /\ pc' = "walk" /\ tasks' = tasks \ {n}
      /\ nodeState' = [nodeState EXCEPT ![n] = outcome]
      /\ CountAfter(n) /\ TryEnqueue(Waiting(n))
      /\ settled' = settled \cup {n} /\ fin' = n /\ todo' = Dependents(n)
      /\ UNCHANGED <<dag, inDegree, released, skipWork>>
  BY DEF Join
<1>2. n \in enqueued /\ ~Terminal(n) /\ n \notin settled /\ nodeState[n] = "Pending"
  BY <1>1 DEF TypeOK, TasksPending, SettledEnded, Terminal
<1>3. /\ nodeState'[n] = outcome
      /\ \A m \in Nodes \ {n} : nodeState'[m] = nodeState[m]
  BY <1>1 DEF TypeOK
<1>4. Waiting(n) \in SUBSET Nodes BY DEF Waiting, AfterDependents
<1>5. /\ \A m \in Nodes \ Waiting(n) : afterPending'[m] = afterPending[m]
      /\ fin # NoNode => nodeState[fin] \in {"Done", "Failed"}
  BY <1>1 DEF CountAfter, TypeOK, WalkFrom
<1>6. EdgeCountedOnce' BY <1>1 DEF EdgeCountedOnce
<1>7. /\ enqueued \subseteq enqueued'
      /\ \A m \in enqueued' : released'[m] = dag.deps[m]
      /\ PendingEnqueued'
      /\ ready \subseteq ready' /\ enqueued' \ enqueued \subseteq ready'
  <2>1. \A m \in Nodes : Terminal(m) => nodeState'[m] # "Pending" BY <1>2, <1>3 DEF Terminal
  <2> QED BY <1>1, <1>4, <1>5, <1>6, <2>1, RunEnqueue
<1>8. NoSkips' BY <1>1 DEF NoSkips
<1>9. RanReleased' BY <1>1, <1>2, <1>7 DEF RanReleased
<1>10. SettledEnded' BY <1>1, <1>3 DEF SettledEnded
\* fin is over with when a node is joined: the walk before it has ended.
<1>11. fin = NoNode BY <1>1 DEF TypeOK
<1>12. \A m, d \in Nodes : d # n => (Walked(d, m)' <=> Walked(d, m))
  BY <1>1, <1>11, NodesAssumption DEF Walked
<1>13. \A m \in Nodes : n \in dag.deps[m] => ~Walked(n, m) /\ ~Walked(n, m)'
  BY <1>1, <1>2 DEF Walked, Dependents
<1>14. \A m \in Nodes : dag.deps[m] \in SUBSET Nodes BY PlainFacts
<1>15. ReleasedDone'
  <2> SUFFICES ASSUME NEW m \in Nodes
               PROVE  released'[m] = {d \in dag.deps[m] : nodeState'[d] = "Done" /\ Walked(d, m)'}
    BY <1>1 DEF ReleasedDone
  <2>1. released[m] = {d \in dag.deps[m] : nodeState[d] = "Done" /\ Walked(d, m)}
    BY DEF ReleasedDone
  <2>2. \A d \in dag.deps[m] : nodeState[d] = "Done" /\ Walked(d, m)
                               <=> nodeState'[d] = "Done" /\ Walked(d, m)'
    BY <1>3, <1>12, <1>13, <1>14
  <2> QED BY <1>1, <2>1, <2>2
<1>16. FailedBlocks'
  <2> SUFFICES ASSUME NEW m \in Nodes, NEW d \in dag.deps[m], nodeState'[d] = "Failed",
                      Walked(d, m)'
               PROVE  nodeState'[m] = "Blocked"
    BY <1>1 DEF FailedBlocks
  <2>1. d # n /\ d \in Nodes BY <1>13, <1>14
  <2>2. nodeState[m] = "Blocked" BY <1>3, <1>12, <2>1 DEF FailedBlocks
  <2> QED BY <1>2, <1>3, <2>2
<1>17. BlockedBy'
  <2> SUFFICES ASSUME NEW m \in Nodes, nodeState'[m] = "Blocked"
               PROVE  \E d \in dag.deps[m] : nodeState'[d] \in {"Failed", "Blocked"}
    BY <1>1 DEF BlockedBy
  <2>1. nodeState[m] = "Blocked" BY <1>3
  <2>2. PICK d \in dag.deps[m] : nodeState[d] \in {"Failed", "Blocked"}
    BY <2>1 DEF BlockedBy
  <2> QED BY <1>2, <1>3, <1>14, <2>2
<1>18. WalkFrom' BY <1>1, <1>3 DEF WalkFrom, Dependents
<1>19. AfterExact' BY <1>1, <1>2, <1>3, RunAfter
<1>20. TasksPending'
  BY <1>1, <1>3 DEF TasksPending, Terminal, TypeOK
<1>21. EnqueuedLives'
  BY <1>1, <1>3, <1>7 DEF EnqueuedLives, Terminal, TypeOK
<1>22. QueueDrained' BY <1>1 DEF QueueDrained
<1> QED BY <1>6, <1>7, <1>8, <1>9, <1>10, <1>15, <1>16, <1>17, <1>18, <1>19, <1>20, <1>21, <1>22

\* The edge of a node that succeeded is counted off, once.
LEMMA RunRelease ==
  ASSUME Typed, PlainDag, RunInv, TypeOK', NEW m \in Nodes, Release(m)
  PROVE  RunInv'
<1> USE DEF Typed, RunInv
<1>1. /\ pc = "walk" /\ m \in todo /\ todo' = todo \ {m}
      /\ CountDegree(fin, {m}) /\ TryEnqueue({m})
      /\ UNCHANGED <<dag, nodeState, afterPending, tasks, breach, pc, fin, skipWork, settled>>
  BY DEF Release
<1>2. fin \in Nodes /\ fin \in dag.deps[m] /\ fin \in settled
  BY <1>1, NodesAssumption DEF TypeOK, WalkFrom, SettledEnded
<1>3. nodeState[fin] = "Done"
  <2>1. ~(dag.gate[m] = fin) BY <1>2, PlainFacts DEF GatedOn
  <2>2. (nodeState[fin] = "Done") # (dag.gate[m] = fin) BY DEF Release, GatedOn
  <2> QED BY <2>1, <2>2
<1>4. fin \notin released[m] BY <1>1 DEF ReleasedDone, Walked
<1>5. /\ \A g \in Nodes \ {m} : inDegree'[g] = inDegree[g] /\ released'[g] = released[g]
      /\ released'[m] = released[m] \cup {fin}
      /\ inDegree[m] > 0 => inDegree'[m] = inDegree[m] - 1
  BY <1>1, <1>2, CountDegreeEffect
<1>6. EdgeCountedOnce'
  <2> DEFINE left == dag.deps[m] \ released[m]
  <2>1. left \in SUBSET Nodes BY DEF ValidDag, DagType
  <2>2. fin \in left BY <1>2, <1>4
  <2>3. dag.deps[m] \ released'[m] = left \ {fin} BY <1>5
  <2>4. inDegree[m] = Cardinality(left) BY DEF EdgeCountedOnce
  <2> HIDE DEF left
  <2>5. Cardinality(left \ {fin}) = Cardinality(left) - 1 /\ Cardinality(left) > 0
    BY <2>1, <2>2, OneLess
  <2> QED BY <1>1, <1>2, <1>5, <2>3, <2>4, <2>5 DEF EdgeCountedOnce
<1>7. /\ enqueued \subseteq enqueued'
      /\ \A g \in enqueued' : released'[g] = dag.deps[g]
      /\ PendingEnqueued'
      /\ ready \subseteq ready' /\ enqueued' \ enqueued \subseteq ready'
  <2>1. \A g \in Nodes : Terminal(g) => nodeState'[g] # "Pending" BY <1>1 DEF Terminal
  <2>2. {m} \in SUBSET Nodes OBVIOUS
  <2>3. \A g \in Nodes \ {m} : inDegree'[g] = inDegree[g] /\ afterPending'[g] = afterPending[g]
    BY <1>1, <1>5
  <2>4. \A g \in Nodes : released[g] \subseteq released'[g] BY <1>5
  <2> QED BY <1>1, <1>6, <2>1, <2>2, <2>3, <2>4, RunEnqueue
<1>8. NoSkips' /\ SettledEnded' /\ BlockedBy'
  BY <1>1 DEF NoSkips, SettledEnded, BlockedBy
<1>9. \A g, d \in Nodes : Walked(d, g)' <=> Walked(d, g) \/ (d = fin /\ g = m)
  BY <1>1, <1>2 DEF Walked
<1>10. \A g \in Nodes : dag.deps[g] \in SUBSET Nodes BY PlainFacts
<1>11. RanReleased'
  <2>1. m \notin settled BY <1>2, <1>4 DEF RanReleased
  <2> QED BY <1>1, <1>5, <1>7, <2>1 DEF RanReleased, TypeOK
<1>12. ReleasedDone'
  <2> SUFFICES ASSUME NEW g \in Nodes
               PROVE  released'[g] = {d \in dag.deps[g] : nodeState[d] = "Done" /\ Walked(d, g)'}
    BY <1>1 DEF ReleasedDone
  <2>1. released[g] = {d \in dag.deps[g] : nodeState[d] = "Done" /\ Walked(d, g)}
    BY DEF ReleasedDone
  <2>2. CASE g = m
    <3>1. \A d \in dag.deps[g] : d \in released'[g]
                                 <=> nodeState[d] = "Done" /\ Walked(d, g)'
      BY <1>2, <1>3, <1>5, <1>9, <1>10, <2>1, <2>2
    <3>2. released'[g] \subseteq dag.deps[g] BY <1>2, <1>5, <2>1, <2>2
    <3> QED BY <3>1, <3>2
  <2>3. CASE g # m
    <3>1. \A d \in dag.deps[g] : Walked(d, g)' <=> Walked(d, g) BY <1>9, <1>10, <2>3
    <3> QED BY <1>5, <2>1, <2>3, <3>1
  <2> QED BY <2>2, <2>3
<1>13. FailedBlocks'
  <2> SUFFICES ASSUME NEW g \in Nodes, NEW d \in dag.deps[g], nodeState[d] = "Failed",
                      Walked(d, g)'
               PROVE  nodeState[g] = "Blocked"
    BY <1>1 DEF FailedBlocks
  <2>1. d # fin BY <1>3
  <2>2. Walked(d, g) BY <1>9, <1>10, <2>1
  <2> QED BY <2>2 DEF FailedBlocks
<1>14. WalkFrom' BY <1>1 DEF WalkFrom
<1>15. AfterExact' BY <1>1 DEF AfterExact, Terminal
<1>16. TasksPending' BY <1>1 DEF TasksPending, Terminal
<1>17. EnqueuedLives' BY <1>1, <1>7 DEF EnqueuedLives, Terminal
<1>18. QueueDrained' BY <1>1 DEF QueueDrained
<1> QED
  BY <1>6, <1>7, <1>8, <1>11, <1>12, <1>13, <1>14, <1>15, <1>16, <1>17, <1>18

\* What a walk from a failed node meets: a node that has not run and is not queued, and
\* nothing is ordered after it.
LEMMA BlockMeets ==
  ASSUME Typed, PlainDag, RunInv, NEW m \in Nodes, Block(m)
  PROVE  /\ fin \in Nodes /\ fin \in dag.deps[m] /\ nodeState[fin] = "Failed"
         /\ m # fin /\ m \notin enqueued /\ m \notin settled
         /\ nodeState[m] \in {"Pending", "Blocked"}
         /\ \A g \in Nodes : m \notin dag.after[g]
<1> USE DEF Typed, RunInv
<1>1. pc = "walk" /\ m \in todo /\ nodeState[fin] # "Done" BY DEF Block
<1>2. /\ fin \in Nodes /\ fin \in dag.deps[m] /\ nodeState[fin] = "Failed"
  BY <1>1, NodesAssumption DEF TypeOK, WalkFrom
<1>3. m # fin BY <1>2, NoSelfEdge
<1>4. fin \notin released[m] BY <1>1 DEF ReleasedDone, Walked
<1>5. m \notin enqueued /\ m \notin settled BY <1>2, <1>4 DEF RanReleased
<1>6. nodeState[m] \in {"Pending", "Blocked"}
  BY <1>5 DEF SettledEnded, TypeOK, Statuses
<1>7. \A g \in Nodes : m \notin dag.after[g] BY <1>2, PlainFacts
<1> QED BY <1>2, <1>3, <1>5, <1>6, <1>7

LEMMA RunBlock ==
  ASSUME Typed, PlainDag, RunInv, TypeOK', NEW m \in Nodes, Block(m)
  PROVE  RunInv'
<1> USE DEF Typed, RunInv
<1>1. /\ pc = "walk" /\ m \in todo /\ todo' = todo \ {m}
      /\ nodeState' = [nodeState EXCEPT ![m] = "Blocked"]
      /\ CountAfter(m) /\ TryEnqueue(Waiting(m))
      /\ UNCHANGED <<dag, inDegree, released, tasks, breach, pc, fin, skipWork, settled>>
  BY DEF Block
<1>2. /\ fin \in Nodes /\ fin \in dag.deps[m] /\ nodeState[fin] = "Failed"
      /\ m # fin /\ m \notin enqueued /\ m \notin settled
      /\ nodeState[m] \in {"Pending", "Blocked"}
      /\ \A g \in Nodes : m \notin dag.after[g]
  BY BlockMeets
<1>3. /\ nodeState'[m] = "Blocked"
      /\ \A g \in Nodes \ {m} : nodeState'[g] = nodeState[g]
  BY <1>1 DEF TypeOK
<1>4. Waiting(m) = {} BY <1>2 DEF Waiting, AfterDependents
<1>5. \A g \in Nodes : afterPending'[g] = afterPending[g]
  BY <1>1, <1>4 DEF CountAfter, TypeOK
<1>6. enqueued' = enqueued /\ ready' = ready BY <1>1, <1>4 DEF TryEnqueue
<1>7. \A g \in Nodes : dag.deps[g] \in SUBSET Nodes /\ dag.after[g] \in SUBSET Nodes
  BY PlainFacts
<1>8. \A g, d \in Nodes : Walked(d, g)' <=> Walked(d, g) \/ (d = fin /\ g = m)
  BY <1>1, <1>2 DEF Walked, SettledEnded
<1>9. NoSkips' /\ RanReleased' /\ EdgeCountedOnce'
  BY <1>1, <1>6 DEF NoSkips, RanReleased, EdgeCountedOnce
<1>10. SettledEnded' BY <1>1, <1>2, <1>3 DEF SettledEnded
<1>11. ReleasedDone'
  <2> SUFFICES ASSUME NEW g \in Nodes
               PROVE  released[g] = {d \in dag.deps[g] : nodeState'[d] = "Done" /\ Walked(d, g)'}
    BY <1>1 DEF ReleasedDone
  <2>1. released[g] = {d \in dag.deps[g] : nodeState[d] = "Done" /\ Walked(d, g)}
    BY DEF ReleasedDone
  <2>2. \A d \in dag.deps[g] : nodeState[d] = "Done" /\ Walked(d, g)
                               <=> nodeState'[d] = "Done" /\ Walked(d, g)'
    BY <1>2, <1>3, <1>7, <1>8
  <2> QED BY <2>1, <2>2
<1>12. FailedBlocks'
  <2> SUFFICES ASSUME NEW g \in Nodes, NEW d \in dag.deps[g], nodeState'[d] = "Failed",
                      Walked(d, g)'
               PROVE  nodeState'[g] = "Blocked"
    BY <1>1 DEF FailedBlocks
  <2>1. CASE g = m BY <1>3, <2>1
  <2>2. CASE g # m
    <3>1. Walked(d, g) /\ nodeState[d] = "Failed" BY <1>3, <1>7, <1>8, <2>2
    <3> QED BY <1>3, <2>2, <3>1 DEF FailedBlocks
  <2> QED BY <2>1, <2>2
<1>13. BlockedBy'
  <2> SUFFICES ASSUME NEW g \in Nodes, nodeState'[g] = "Blocked"
               PROVE  \E d \in dag.deps[g] : nodeState'[d] \in {"Failed", "Blocked"}
    BY <1>1 DEF BlockedBy
  <2>1. CASE g = m BY <1>2, <1>3, <2>1
  <2>2. CASE g # m
    <3>1. PICK d \in dag.deps[g] : nodeState[d] \in {"Failed", "Blocked"}
      BY <1>3, <2>2 DEF BlockedBy
    <3> QED BY <1>3, <1>7, <3>1
  <2> QED BY <2>1, <2>2
<1>14. WalkFrom' BY <1>1, <1>2, <1>3 DEF WalkFrom
<1>15. AfterExact'
  <2> SUFFICES ASSUME NEW g \in Nodes
               PROVE  afterPending[g]
                        = Cardinality({a \in dag.after[g] : nodeState'[a] = "Pending"})
    BY <1>1, <1>5 DEF AfterExact, Terminal
  <2>1. {a \in dag.after[g] : nodeState'[a] = "Pending"}
          = {a \in dag.after[g] : nodeState[a] = "Pending"}
    BY <1>2, <1>3, <1>7
  <2> QED BY <2>1 DEF AfterExact, Terminal
<1>16. PendingEnqueued'
  BY <1>1, <1>3, <1>5, <1>6 DEF PendingEnqueued, Terminal
<1>17. TasksPending' BY <1>1, <1>2, <1>3 DEF TasksPending, Terminal, TypeOK
<1>18. EnqueuedLives' BY <1>1, <1>2, <1>3, <1>6 DEF EnqueuedLives, Terminal, TypeOK
<1>19. QueueDrained' BY <1>1, <1>6 DEF QueueDrained
<1> QED
  BY <1>9, <1>10, <1>11, <1>12, <1>13, <1>14, <1>15, <1>16, <1>17, <1>18, <1>19

LEMMA RunNext ==
  ASSUME Typed, TypeOK', PlainDag, RunInv, ~MayPanic, Next
  PROVE  /\ RunInv'
         /\ pc = "done" => FALSE
         /\ \A n \in Nodes : Terminal(n) => nodeState'[n] = nodeState[n]
         /\ dag' = dag
<1> USE DEF Typed
<1>1. ASSUME NEW n \in Nodes PROVE ~StartSkip(n) /\ ~Skip(n)
  <2>1. ~Skip(n) BY DEF Skip, RunInv, NoSkips
  <2>2. ASSUME StartSkip(n) PROVE FALSE
    <3>1. nodeState[fin] = "Done" /\ GatedOn(n, fin) /\ pc = "walk" BY <2>2 DEF StartSkip
    <3>2. fin \in Nodes BY <3>1, NodesAssumption DEF TypeOK
    <3> QED BY <3>1, <3>2, PlainFacts
  <2> QED BY <2>1, <2>2
<1>2. ~EndSkip BY DEF EndSkip, RunInv, NoSkips
<1>3. \A n \in Nodes : ~JoinPanicked(n) BY DEF JoinPanicked
<1>4. \/ (\E n \in Nodes : Dispatch(n) \/ Refuse(n)) \/ Drained \/ TripCeiling \/ EndWalk
           \/ Finish
      \/ \E n \in Nodes, outcome \in {"Done", "Failed"}, says \in BOOLEAN :
           Join(n, outcome, says)
      \/ \E m \in Nodes : Release(m) \/ Block(m)
  BY <1>1, <1>2, <1>3 DEF Next, Loop, JoinNext
<1>5. RunInv' BY <1>4, RunQuiet, RunJoin, RunRelease, RunBlock
<1>6. pc # "done"
  <2>1. TripCeiling => pc # "done" BY DEF TripCeiling, RunInv, QueueDrained
  <2> QED BY <1>4, <2>1 DEF Dispatch, Refuse, Drained, EndWalk, Finish, Join, Release, Block
<1>7. ASSUME NEW n \in Nodes, Terminal(n) PROVE nodeState'[n] = nodeState[n]
  <2>1. ASSUME NEW k \in Nodes, NEW outcome \in {"Done", "Failed"}, NEW says \in BOOLEAN,
               Join(k, outcome, says)
        PROVE  nodeState'[n] = nodeState[n]
    <3>1. k # n BY <1>7, <2>1 DEF Join, RunInv, TasksPending
    <3> QED BY <2>1, <3>1 DEF Join, TypeOK
  <2>2. ASSUME NEW m \in Nodes, Block(m) PROVE nodeState'[n] = nodeState[n]
    <3>1. nodeState[m] \in {"Pending", "Blocked"} BY <2>2, BlockMeets
    <3> QED BY <1>7, <2>2, <3>1 DEF Block, Terminal, TypeOK
  <2>3. ASSUME UNCHANGED nodeState PROVE nodeState'[n] = nodeState[n] BY <2>3
  <2> QED BY <1>4, <2>1, <2>2, <2>3 DEF Dispatch, Refuse, Drained, TripCeiling, EndWalk,
                                      Finish, Release, walkVars, history
<1>8. dag' = dag
  BY <1>4 DEF Dispatch, Refuse, Drained, TripCeiling, EndWalk, Finish, Release, Join, Block
<1> QED BY <1>5, <1>6, <1>7, <1>8

\* A run that is over, and no ceiling was breached: a node has run if and only if all its
\* dependencies succeeded.
LEMMA OverMeans ==
  ASSUME Typed, PlainDag, RunInv, ~MayPanic, pc = "done", ~breach
  PROVE  \A n \in Nodes : IF \A d \in dag.deps[n] : nodeState[d] = "Done"
                          THEN nodeState[n] \in {"Done", "Failed"}
                          ELSE nodeState[n] \in {"Blocked", "Pending"}
<1> USE DEF Typed, RunInv
<1>1. ready = {} /\ tasks = {} /\ fin = NoNode BY DEF QueueDrained, TypeOK
<1>2. \A n \in Nodes : dag.deps[n] \in SUBSET Nodes /\ dag.after[n] \in SUBSET Nodes
  BY PlainFacts
<1>3. ASSUME NEW n \in Nodes, \A d \in dag.deps[n] : nodeState[d] = "Done",
             \A a \in dag.after[n] : Terminal(a)
      PROVE  Terminal(n)
  <2> SUFFICES ASSUME ~Terminal(n) PROVE FALSE
    OBVIOUS
  <2>1. \A d \in dag.deps[n] : Walked(d, n)
    BY <1>1, <1>2, <1>3, NodesAssumption DEF Walked, SettledEnded
  <2>2. released[n] = dag.deps[n] BY <1>3, <2>1 DEF ReleasedDone
  <2>3. dag.deps[n] \ released[n] = {} /\ {a \in dag.after[n] : ~Terminal(a)} = {}
    BY <1>3, <2>2
  <2>4. {} \in SUBSET Nodes OBVIOUS
  <2>5. Cardinality({}) = 0 BY <2>4, NodeSets
  <2>6. inDegree[n] = 0 /\ afterPending[n] = 0
    BY <2>3, <2>5 DEF EdgeCountedOnce, AfterExact
  <2>7. n \in enqueued BY <2>6 DEF PendingEnqueued
  <2> QED BY <1>1, <2>7 DEF EnqueuedLives
\* The nodes that could run and have not: among them one that is ordered after none.
<1> DEFINE Idle == {n \in Nodes : ~Terminal(n) /\ \A d \in dag.deps[n] : nodeState[d] = "Done"}
<1>4. Idle = {}
  <2> SUFFICES ASSUME Idle # {} PROVE FALSE
    OBVIOUS
  <2>1. Idle \in (SUBSET Nodes) \ {{}} OBVIOUS
  <2>2. PICK n \in Idle : (dag.deps[n] \cup dag.after[n]) \cap Idle = {}
    <3> HIDE DEF Idle
    <3> QED BY <2>1 DEF ValidDag
  <2>3. ASSUME NEW a \in dag.after[n] PROVE Terminal(a)
    <3>1. a \in Nodes /\ dag.deps[a] = {} BY <1>2, PlainFacts
    <3>2. a \notin Idle BY <2>2
    <3> QED BY <3>1, <3>2
  <2> QED BY <1>3, <2>2, <2>3
<1>5. ASSUME NEW n \in Nodes, \A d \in dag.deps[n] : nodeState[d] = "Done"
      PROVE  nodeState[n] \in {"Done", "Failed"}
  <2>1. Terminal(n) BY <1>4, <1>5
  <2>2. nodeState[n] # "Blocked" BY <1>5 DEF BlockedBy
  <2> QED BY <2>1, <2>2 DEF Terminal, TypeOK, Statuses
<1>6. ASSUME NEW n \in Nodes, ~\A d \in dag.deps[n] : nodeState[d] = "Done"
      PROVE  nodeState[n] \in {"Blocked", "Pending"}
  <2>1. released[n] # dag.deps[n] BY <1>6 DEF ReleasedDone
  <2>2. n \notin settled BY <2>1 DEF RanReleased
  <2> QED BY <2>2 DEF SettledEnded, TypeOK, Statuses
<1> QED BY <1>5, <1>6

\* In a vault that has been told everything of such a run, each record is how the node
\* ended: a node that is recorded as having started has all its dependencies Done.
LEMMA ToldAgrees ==
  ASSUME Typed, PlainDag, RunInv, ~MayPanic, RecordBehind, RanAfterDone,
         pc = "done", ~breach, \A n \in Nodes : Terminal(n) => rec[n] = nodeState[n]
  PROVE  \A n \in Nodes : rec[n] = IF nodeState[n] = "Pending" THEN "none" ELSE nodeState[n]
<1> SUFFICES ASSUME NEW n \in Nodes, nodeState[n] = "Pending" PROVE rec[n] = "none"
  BY DEF Terminal
<1>1. rec[n] \in {"none", "Running"}
  BY DEF RecordBehind, Typed, ResumeTypeOK, Ends
<1>2. ASSUME rec[n] = "Running" PROVE FALSE
  <2>1. \A d \in dag.deps[n] : rec[d] = "Done" BY <1>2 DEF RanAfterDone
  <2>2. \A d \in dag.deps[n] : d \in Nodes BY PlainFacts
  <2>3. \A d \in dag.deps[n] : nodeState[d] = "Done"
    BY <2>1, <2>2 DEF RecordBehind
  <2> QED BY <2>3, OverMeans
<1> QED BY <1>1, <1>2

-----------------------------------------------------------------------------
(* The channel and the vault                                               *)

\* Before the loop is over no end of the run is on its way, let alone recorded.
LEMMA NotOver ==
  ASSUME Typed, ChanInv, pc # "done"
  PROVE  /\ ~complete
         /\ \A i \in DOMAIN chan : chan[i] \in Events /\ chan[i].node \in Nodes
<1>1. ~complete BY DEF ChanInv, CompleteDone
<1>2. \A i \in DOMAIN chan : chan[i] \in Events BY DEF Typed, ResumeTypeOK
<1>3. \A i \in DOMAIN chan : chan[i].node # NoNode BY DEF ChanInv, EndIsLast
<1> QED BY <1>1, <1>2, <1>3 DEF Events, NodeEvents, EndEvents

\* Nothing has been sent of a node that is Pending, and it is not recorded as ended.
LEMMA NoneSent ==
  ASSUME Typed, ChanInv, NEW n \in Nodes, nodeState[n] = "Pending"
  PROVE  /\ rec[n] \in {"none", "Running"}
         /\ \A i \in DOMAIN chan : chan[i].node # n
<1>1. rec[n] \in {"none", "Running"}
  BY DEF ChanInv, RecordBehind, Typed, ResumeTypeOK, Ends
<1>2. ASSUME NEW i \in DOMAIN chan, chan[i].node = n PROVE FALSE
  <2>0. /\ \A j \in DOMAIN chan : chan[j] \in Events
        /\ DOMAIN chan = 1 .. Len(chan) /\ Len(chan) \in Nat
    BY DEF Typed, ResumeTypeOK
  <2>1. ASSUME NEW j \in DOMAIN chan, chan[j].node = n PROVE chan[j].to # "Pending"
    <3>1. chan[j] \in NodeEvents
      BY <2>0, <2>1, NodesAssumption DEF Events, EndEvents
    <3> QED BY <3>1 DEF NodeEvents, Ends
  <2>2. \E j \in i + 1 .. Len(chan) : chan[j].node = n /\ chan[j].to = "Pending"
    BY <1>2, <2>1 DEF ChanInv, SentSays
  <2>3. \A j \in i + 1 .. Len(chan) : j \in DOMAIN chan BY <2>0
  <2> QED BY <2>1, <2>2, <2>3
<1> QED BY <1>1, <1>2

LEMMA ChanQuiet ==
  ASSUME Typed, ChanInv, pc # "done",
         UNCHANGED <<dag, nodeState, rec, chan, up, last, complete>>
  PROVE  ChanInv'
<1> USE DEF ChanInv
<1>1. ~complete /\ \A i \in DOMAIN chan : chan[i].node # NoNode
  BY NotOver, NodesAssumption
<1>2. RecordBehind' /\ SentSays' /\ RunningFirst' /\ LastSaid' /\ DownEmpty'
  BY DEF RecordBehind, SentSays, RunningFirst, LastSaid, DownEmpty, Terminal
<1>3. EndsSaid' /\ RanAfterDone' /\ BlockedAfter'
  BY DEF EndsSaid, RanAfterDone, BlockedAfter, Said, Terminal
<1>4. EndIsLast' /\ CompleteDone' BY <1>1 DEF EndIsLast, CompleteDone
<1> QED BY <1>2, <1>3, <1>4

\* What the vault says, or will say, it still says when more has been sent.
LEMMA SaidStays ==
  ASSUME Typed, UNCHANGED rec, NEW es \in Seq(Events), Emit(es),
         NEW n, NEW S, NEW i \in 1 .. Len(chan) + 1, NEW k \in Nat, i <= k, Said(n, S, i)
  PROVE  Said(n, S, k)'
<1>1. /\ Len(chan) \in Nat
      /\ \A j \in 1 .. Len(chan) : chan'[j] = chan[j]
  BY EmitEffect
<1>2. \A j \in 1 .. i - 1 : j \in 1 .. Len(chan) /\ j \in 1 .. k - 1 BY <1>1
<1> QED BY <1>1, <1>2 DEF Said

\* A node ends and its events are sent: that it ran, perhaps, and how it ended.
LEMMA ChanSend ==
  ASSUME Typed, ChanInv, up, pc # "done", UNCHANGED <<dag, rec, up, complete>>,
         NEW es \in Seq(Events), Emit(es),
         NEW n \in Nodes, NEW o \in Ends,
         nodeState'[n] = o, \A m \in Nodes \ {n} : nodeState'[m] = nodeState[m],
         last'[n] = o, \A m \in Nodes \ {n} : last'[m] = last[m],
         nodeState[n] \in {"Pending", o},
         Len(es) \in {1, 2}, es[Len(es)].to = o, \A j \in 1 .. Len(es) : es[j].node = n,
         Len(es) = 2 => es[1].to = "Running" /\ o # "Blocked" /\ nodeState[n] = "Pending",
         o # "Blocked" => \A d \in dag.deps[n] : nodeState[d] = "Done",
         o = "Blocked" => \E d \in dag.deps[n] : nodeState[d] = "Failed"
  PROVE  ChanInv'
<1> USE DEF ChanInv
<1> DEFINE L == Len(chan)
<1>1. /\ L \in Nat /\ DOMAIN chan = 1 .. L
      /\ DOMAIN chan' = 1 .. L + Len(es) /\ Len(chan') = L + Len(es)
      /\ \A i \in 1 .. L : chan'[i] = chan[i]
      /\ \A i \in DOMAIN chan' \ DOMAIN chan :
           i - L \in 1 .. Len(es) /\ chan'[i] = es[i - L]
      /\ \A j \in 1 .. Len(es) : chan'[L + j] = es[j]
  BY EmitEffect
<1>2. /\ ~complete
      /\ \A i \in 1 .. L : chan[i] \in Events /\ chan[i].node \in Nodes
  BY <1>1, NotOver
<1>3. nodeState[n] = "Pending" => /\ rec[n] \in {"none", "Running"}
                                  /\ \A i \in 1 .. L : chan[i].node # n
  BY <1>1, NoneSent
<1> HIDE DEF L
\* The last event of n, and the one before it.
<1>4. /\ L + Len(es) \in DOMAIN chan' /\ L + Len(es) > L /\ Len(es) \in 1 .. Len(es)
      /\ chan'[L + Len(es)].node = n /\ chan'[L + Len(es)].to = o
  BY <1>1
<1>5. \A i \in DOMAIN chan' : \/ i \in 1 .. L /\ chan'[i] = chan[i]
                              \/ /\ i > L /\ chan'[i].node = n
                                 /\ \/ i = L + Len(es) /\ chan'[i].to = o
                                    \/ i = L + 1 /\ Len(es) = 2 /\ chan'[i].to = "Running"
  <2> TAKE i \in DOMAIN chan'
  <2>1. CASE i \in 1 .. L BY <1>1, <2>1
  <2>2. CASE i \notin 1 .. L
    <3>1. i - L \in 1 .. Len(es) /\ chan'[i] = es[i - L] /\ i > L BY <1>1, <2>2
    <3>2. CASE i - L = Len(es)
      <4>1. i = L + Len(es) BY <1>1, <3>2
      <4> QED BY <3>1, <3>2, <4>1
    <3>3. CASE i - L # Len(es)
      <4>1. i - L = 1 /\ Len(es) = 2 BY <3>1, <3>3
      <4>2. i = L + 1 BY <1>1, <4>1
      <4> QED BY <3>1, <4>1, <4>2
    <3> QED BY <3>2, <3>3
  <2> QED BY <2>1, <2>2
<1>6. RecordBehind' BY <1>3 DEF RecordBehind
<1>7. SentSays'
  <2> SUFFICES ASSUME NEW i \in DOMAIN chan', chan'[i].node \in Nodes
               PROVE  \/ chan'[i].to = nodeState'[chan'[i].node]
                      \/ /\ chan'[i].to = "Running"
                         /\ \E j \in i + 1 .. Len(chan') :
                              /\ chan'[j].node = chan'[i].node
                              /\ chan'[j].to = nodeState'[chan'[i].node]
    BY DEF SentSays
  <2>1. CASE i \in 1 .. L /\ chan'[i] = chan[i]
    <3>1. chan[i].node \in Nodes /\ i \in DOMAIN chan BY <1>1, <1>2, <2>1
    <3>2. nodeState'[chan[i].node] = nodeState[chan[i].node]
      BY <1>3, <2>1, <3>1
    <3>3. CASE chan[i].to = nodeState[chan[i].node] BY <2>1, <3>2, <3>3
    <3>4. CASE chan[i].to # nodeState[chan[i].node]
      <4>1. chan[i].to = "Running" BY <3>1, <3>4 DEF SentSays
      <4>2. PICK j \in i + 1 .. L : /\ chan[j].node = chan[i].node
                                    /\ chan[j].to = nodeState[chan[i].node]
        BY <3>1, <3>4 DEF SentSays, L
      <4>3. j \in 1 .. L /\ j \in i + 1 .. Len(chan') BY <1>1, <2>1
      <4>4. chan'[j] = chan[j] BY <1>1, <4>3
      <4> QED BY <2>1, <3>2, <4>1, <4>2, <4>3, <4>4
    <3> QED BY <3>3, <3>4
  <2>2. CASE i = L + Len(es) /\ chan'[i].to = o BY <1>4, <2>2
  <2>3. CASE i = L + 1 /\ Len(es) = 2 /\ chan'[i].to = "Running"
    <3>1. chan'[i].node = n BY <1>1, <1>5, <2>3
    <3>2. L + 2 \in i + 1 .. Len(chan') BY <1>1, <2>3
    <3> QED BY <1>4, <2>3, <3>1, <3>2
  <2> QED BY <1>5, <2>1, <2>2, <2>3
<1>8. EndsSaid'
  <2> SUFFICES ASSUME NEW m \in Nodes, nodeState'[m] # "Pending",
                      NEW x, x = nodeState'[m], NEW k, k = Len(chan') + 1
               PROVE  Said(m, {x}, k)'
    BY DEF EndsSaid, Said, Terminal
  <2>1. k \in Nat /\ L + 1 <= k /\ L + 1 \in 1 .. L + 1 BY <1>1
  <2>2. CASE m = n
    <3>1. L + Len(es) \in 1 .. k - 1 BY <1>1
    <3> QED BY <1>4, <2>2, <3>1 DEF Said
  <2>3. CASE m # n
    <3>1. x = nodeState[m] /\ Terminal(m) BY <2>3 DEF Terminal
    <3>2. Said(m, {x}, L + 1) BY <3>1 DEF EndsSaid, L
    <3> QED BY <2>1, <3>2, SaidStays DEF L
  <2> QED BY <2>2, <2>3
<1>9. RunningFirst'
  <2> SUFFICES ASSUME NEW i \in DOMAIN chan', chan'[i].to = "Running"
               PROVE  /\ rec[chan'[i].node] \in {"none", "Running"}
                      /\ \A j \in 1 .. i - 1 : chan'[j].node # chan'[i].node
    BY DEF RunningFirst
  <2>1. CASE i \in 1 .. L /\ chan'[i] = chan[i]
    <3>1. \A j \in 1 .. i - 1 : j \in 1 .. L BY <1>1, <2>1
    <3> QED BY <1>1, <2>1, <3>1 DEF RunningFirst
  <2>2. CASE i = L + 1 /\ Len(es) = 2
    <3>1. chan'[i].node = n BY <1>1, <1>5, <2>2
    <3>2. \A j \in 1 .. i - 1 : j \in 1 .. L BY <1>1, <2>2
    <3> QED BY <1>1, <1>3, <2>2, <3>1, <3>2
  <2>3. "Running" # o BY DEF Ends
  <2> QED BY <1>5, <2>1, <2>2, <2>3
<1>10. ASSUME NEW d \in Nodes, NEW x, nodeState[d] = x, x # "Pending",
              NEW S, x \in S, NEW i \in DOMAIN chan', i > L
       PROVE  Said(d, S, i)'
  <2>1. Said(d, {x}, L + 1) BY <1>10 DEF EndsSaid, Terminal, L
  <2>2. Said(d, S, L + 1) BY <1>10, <2>1 DEF Said
  <2>3. i \in Nat /\ L + 1 <= i /\ L + 1 \in 1 .. L + 1 BY <1>1, <1>10
  <2> QED BY <2>2, <2>3, SaidStays DEF L
<1>11. \A g \in Nodes : dag.deps[g] \in SUBSET Nodes BY DEF Typed, ValidDag, DagType
<1>12. ASSUME NEW i \in 1 .. L, NEW d, NEW S, Said(d, S, i) PROVE Said(d, S, i)'
  <2>1. i \in Nat /\ i \in 1 .. L + 1 BY <1>1
  <2> QED BY <1>12, <2>1, SaidStays DEF L
<1>13. RanAfterDone'
  <2>1. ASSUME NEW i \in DOMAIN chan', chan'[i].to \in {"Running", "Done", "Failed"},
               NEW d, d \in dag.deps[chan'[i].node]
        PROVE  Said(d, {"Done"}, i)'
    <3>1. CASE i \in 1 .. L /\ chan'[i] = chan[i]
      <4>1. Said(d, {"Done"}, i) BY <1>1, <2>1, <3>1 DEF RanAfterDone
      <4> QED BY <1>12, <3>1, <4>1
    <3>2. CASE i > L /\ chan'[i].node = n
      <4>1. o # "Blocked" BY <1>1, <1>5, <2>1, <3>2
      <4>2. d \in Nodes /\ nodeState[d] = "Done" BY <1>11, <2>1, <3>2, <4>1
      <4> QED BY <1>10, <3>2, <4>2
    <3> QED BY <1>5, <3>1, <3>2
  <2> QED BY <2>1 DEF RanAfterDone, Said
<1>14. BlockedAfter'
  <2>1. ASSUME NEW i \in DOMAIN chan', chan'[i].to = "Blocked", NEW g, g = chan'[i].node
        PROVE  \E d \in dag.deps[g] : Said(d, {"Failed", "Blocked"}, i)'
    <3>1. CASE i \in 1 .. L /\ chan'[i] = chan[i]
      <4>1. PICK d \in dag.deps[g] : Said(d, {"Failed", "Blocked"}, i)
        BY <1>1, <2>1, <3>1 DEF BlockedAfter
      <4> QED BY <1>12, <3>1, <4>1
    <3>2. CASE i > L /\ chan'[i].node = n
      <4>1. o = "Blocked" BY <1>1, <1>5, <2>1, <3>2
      <4>2. PICK d \in dag.deps[n] : nodeState[d] = "Failed" BY <4>1
      <4>3. d \in Nodes BY <1>11
      <4>4. Said(d, {"Failed", "Blocked"}, i)' BY <1>10, <3>2, <4>2, <4>3
      <4> QED BY <2>1, <3>2, <4>4
    <3> QED BY <1>5, <3>1, <3>2
  <2> QED BY <2>1 DEF BlockedAfter, Said
<1>15. LastSaid' BY DEF LastSaid, Terminal
<1>16. EndIsLast'
  <2>1. \A i \in DOMAIN chan' : chan'[i].node \in Nodes BY <1>1, <1>2, <1>5
  <2> QED BY <2>1, NodesAssumption DEF EndIsLast
<1>17. DownEmpty' /\ CompleteDone' BY <1>2 DEF DownEmpty, CompleteDone
<1> QED BY <1>6, <1>7, <1>8, <1>9, <1>13, <1>14, <1>15, <1>16, <1>17

-----------------------------------------------------------------------------
(* The steps of the process, for a DAG without gates that is resumed each time *)

LEMMA QuietHolds ==
  ASSUME Typed, TypeOK', PlainDag, RunInv, ChanInv, ~MayPanic, QuietStep
  PROVE  RunInv' /\ ChanInv' /\ CompleteVaultAgrees'
<1>1. Next /\ UNCHANGED resumeVars BY DEF QuietStep, Next, Loop
<1>2. RunInv' /\ pc # "done" /\ dag' = dag BY <1>1, RunNext
<1>3. UNCHANGED nodeState
  BY DEF QuietStep, Dispatch, Refuse, Release, StartSkip, Drained, EndSkip, EndWalk,
         TripCeiling
<1>4. UNCHANGED <<rec, chan, up, last, complete>> BY <1>1 DEF resumeVars, vault
<1>5. ChanInv' BY <1>2, <1>3, <1>4, ChanQuiet
<1>6. ~complete BY <1>2, NotOver
<1> QED BY <1>2, <1>4, <1>5, <1>6 DEF CompleteVaultAgrees

LEMMA JoinHolds ==
  ASSUME Typed, TypeOK', PlainDag, RunInv, ChanInv, ~MayPanic, ~MayVerifyFail,
         NEW n \in Nodes, NEW outcome \in {"Done", "Failed"}, NEW says \in BOOLEAN,
         NEW unverified \in BOOLEAN, JoinStep(n, outcome, says, unverified)
  PROVE  RunInv' /\ ChanInv' /\ CompleteVaultAgrees'
<1>0. ~unverified BY DEF JoinStep
<1>1. /\ Next /\ Join(n, outcome, says) /\ up
      /\ last' = [last EXCEPT ![n] = outcome]
      /\ UNCHANGED <<up, rec, complete>>
  BY DEF JoinStep, Next, JoinNext, vault
<1>2. RunInv' /\ pc # "done" /\ dag' = dag BY <1>1, RunNext
<1>3. PICK es \in Seq(Events) : /\ Emit(es) /\ \A j \in 1 .. Len(es) : es[j].node = n
                                /\ Len(es) = 2 /\ es[2].to = outcome /\ es[1].to = "Running"
  BY <1>0, JoinSends
<1>4. /\ nodeState'[n] = outcome /\ \A m \in Nodes \ {n} : nodeState'[m] = nodeState[m]
      /\ n \in tasks
  BY <1>1 DEF Join, Typed, TypeOK
<1>5. last'[n] = outcome /\ \A m \in Nodes \ {n} : last'[m] = last[m]
  BY <1>1 DEF Typed, ResumeTypeOK
<1>6. nodeState[n] = "Pending" BY <1>4 DEF RunInv, TasksPending, Terminal
<1>7. \A d \in dag.deps[n] : nodeState[d] = "Done"
  <2>1. released[n] = dag.deps[n] BY <1>4 DEF RunInv, RanReleased, Typed, TypeOK
  <2> QED BY <2>1 DEF RunInv, ReleasedDone
<1>8. outcome \in Ends /\ outcome # "Blocked" BY DEF Ends
<1>9. ChanInv'
  BY <1>1, <1>2, <1>3, <1>4, <1>5, <1>6, <1>7, <1>8, ChanSend
<1>10. ~complete BY <1>2, NotOver
<1> QED BY <1>1, <1>2, <1>9, <1>10 DEF CompleteVaultAgrees

LEMMA BlockHolds ==
  ASSUME Typed, TypeOK', PlainDag, RunInv, ChanInv, ~MayPanic, NEW m \in Nodes, BlockStep(m)
  PROVE  RunInv' /\ ChanInv' /\ CompleteVaultAgrees'
<1> DEFINE e == Event(m, "Blocked", "none")
<1>1. /\ Next /\ Block(m) /\ up /\ Emit(<<e>>)
      /\ last' = [last EXCEPT ![m] = "Blocked"]
      /\ UNCHANGED <<up, rec, complete>>
  BY DEF BlockStep, Next, Loop, vault
<1>2. RunInv' /\ pc # "done" /\ dag' = dag BY <1>1, RunNext
<1>3. e \in Events /\ e.node = m /\ e.to = "Blocked"
  BY DEF Event, NodeEvents, Texts, Ends, Events
<1> HIDE DEF e
<1> DEFINE es == <<e>>
<1>4. es \in Seq(Events) /\ Len(es) = 1 /\ es[Len(es)].to = "Blocked"
      /\ \A j \in 1 .. Len(es) : es[j].node = m
  BY <1>3
<1>5. Emit(es) BY <1>1
<1> HIDE DEF es
<1>6. /\ fin \in dag.deps[m] /\ nodeState[fin] = "Failed"
      /\ nodeState[m] \in {"Pending", "Blocked"}
  BY <1>1, BlockMeets
<1>7. nodeState'[m] = "Blocked" /\ \A g \in Nodes \ {m} : nodeState'[g] = nodeState[g]
  BY <1>1 DEF Block, Typed, TypeOK
<1>8. last'[m] = "Blocked" /\ \A g \in Nodes \ {m} : last'[g] = last[g]
  BY <1>1 DEF Typed, ResumeTypeOK
<1>9. "Blocked" \in Ends /\ Len(es) \in {1, 2} /\ Len(es) # 2
      /\ \E d \in dag.deps[m] : nodeState[d] = "Failed"
  BY <1>4, <1>6 DEF Ends
<1>10. ChanInv'
  BY <1>1, <1>2, <1>4, <1>5, <1>6, <1>7, <1>8, <1>9, ChanSend
<1>11. ~complete BY <1>2, NotOver
<1> QED BY <1>1, <1>2, <1>10, <1>11 DEF CompleteVaultAgrees

\* The end of the run is sent after everything else.
LEMMA FinishHolds ==
  ASSUME Typed, TypeOK', PlainDag, RunInv, ChanInv, ~MayPanic, FinishStep
  PROVE  RunInv' /\ ChanInv' /\ CompleteVaultAgrees'
<1> USE DEF ChanInv
<1> DEFINE to == IF Completes THEN "Completed" ELSE "Stopped"
           e  == Event(NoNode, to, "none")
           L  == Len(chan)
<1>1. /\ Next /\ Finish /\ up /\ Emit(<<e>>)
      /\ UNCHANGED <<up, rec, complete, last>>
  BY DEF FinishStep, Next, Loop, vault
<1>2. RunInv' /\ pc # "done" /\ dag' = dag BY <1>1, RunNext
<1>3. pc' = "done" /\ UNCHANGED <<nodeState, breach>> BY <1>1 DEF Finish
<1>4. e \in Events BY DEF Event, EndEvents, Texts, Events
<1>5. /\ to # "Running" /\ to \notin Ends /\ (to = "Completed" => ~breach)
  BY DEF Completes, Ends
<1> HIDE DEF to
<1>6. /\ L \in Nat /\ DOMAIN chan = 1 .. L /\ Len(chan') = L + 1 /\ DOMAIN chan' = 1 .. L + 1
      /\ \A i \in 1 .. L : chan'[i] = chan[i]
      /\ chan'[L + 1].node = NoNode /\ chan'[L + 1].to = to
  BY <1>1, <1>4, OneSent
<1>7. ~complete /\ \A i \in 1 .. L : chan[i].node \in Nodes BY <1>2, <1>6, NotOver
<1>8. <<e>> \in Seq(Events)
  <2> HIDE DEF e
  <2> QED BY <1>4
<1> HIDE DEF e, L
<1>9. \A i \in DOMAIN chan' : i \in 1 .. L \/ i = L + 1 BY <1>6
<1>10. RecordBehind' /\ LastSaid' /\ DownEmpty' /\ CompleteDone'
  BY <1>1, <1>3, <1>7 DEF RecordBehind, LastSaid, DownEmpty, CompleteDone, Terminal
<1>11. SentSays'
  <2> SUFFICES ASSUME NEW i \in DOMAIN chan', chan'[i].node \in Nodes
               PROVE  \/ chan'[i].to = nodeState[chan'[i].node]
                      \/ /\ chan'[i].to = "Running"
                         /\ \E j \in i + 1 .. Len(chan') :
                              /\ chan'[j].node = chan'[i].node
                              /\ chan'[j].to = nodeState[chan'[i].node]
    BY <1>3 DEF SentSays
  <2>1. i \in 1 .. L /\ chan'[i] = chan[i] /\ i \in DOMAIN chan
    BY <1>6, <1>9, NodesAssumption
  <2>2. \/ chan[i].to = nodeState[chan[i].node]
        \/ /\ chan[i].to = "Running"
           /\ \E j \in i + 1 .. L : /\ chan[j].node = chan[i].node
                                    /\ chan[j].to = nodeState[chan[i].node]
    BY <2>1 DEF SentSays, L
  <2>3. \A j \in i + 1 .. L : j \in i + 1 .. Len(chan') /\ j \in 1 .. L
    BY <1>6, <2>1
  <2> QED BY <1>6, <2>1, <2>2, <2>3
<1>12. ASSUME NEW d, NEW S, NEW i \in 1 .. L + 1, NEW k \in Nat, i <= k, Said(d, S, i)
       PROVE  Said(d, S, k)'
  BY <1>1, <1>8, <1>12, SaidStays DEF L
<1>13. EndsSaid'
  <2> SUFFICES ASSUME NEW m \in Nodes, nodeState'[m] # "Pending",
                      NEW x, x = nodeState'[m], NEW k, k = Len(chan') + 1
               PROVE  Said(m, {x}, k)'
    BY DEF EndsSaid, Said, Terminal
  <2>1. x = nodeState[m] /\ Terminal(m) BY <1>3 DEF Terminal
  <2>2. Said(m, {x}, L + 1) BY <1>1, <2>1 DEF EndsSaid, L
  <2>3. k \in Nat /\ L + 1 <= k /\ L + 1 \in 1 .. L + 1 BY <1>6
  <2> QED BY <1>12, <2>2, <2>3
<1>14. RunningFirst'
  <2> SUFFICES ASSUME NEW i \in DOMAIN chan', chan'[i].to = "Running"
               PROVE  /\ rec[chan'[i].node] \in {"none", "Running"}
                      /\ \A j \in 1 .. i - 1 : chan'[j].node # chan'[i].node
    BY <1>1 DEF RunningFirst
  <2>1. i \in 1 .. L /\ chan'[i] = chan[i] BY <1>5, <1>6, <1>9
  <2>2. \A j \in 1 .. i - 1 : j \in 1 .. L BY <1>6, <2>1
  <2> QED BY <1>6, <2>1, <2>2 DEF RunningFirst
<1>15. RanAfterDone'
  <2>1. ASSUME NEW i \in DOMAIN chan', chan'[i].to \in {"Running", "Done", "Failed"},
               NEW d, d \in dag.deps[chan'[i].node]
        PROVE  Said(d, {"Done"}, i)'
    <3>1. i \in 1 .. L /\ chan'[i] = chan[i] BY <1>5, <1>6, <1>9, <2>1 DEF Ends
    <3>2. Said(d, {"Done"}, i) BY <1>6, <2>1, <3>1 DEF RanAfterDone
    <3>3. i \in Nat /\ i \in 1 .. L + 1 /\ i <= i BY <1>6, <3>1
    <3> QED BY <1>12, <3>2, <3>3
  <2> QED BY <1>1, <1>2, <2>1 DEF RanAfterDone, Said
<1>16. BlockedAfter'
  <2>1. ASSUME NEW i \in DOMAIN chan', chan'[i].to = "Blocked", NEW g, g = chan'[i].node
        PROVE  \E d \in dag.deps[g] : Said(d, {"Failed", "Blocked"}, i)'
    <3>1. i \in 1 .. L /\ chan'[i] = chan[i] BY <1>5, <1>6, <1>9, <2>1 DEF Ends
    <3>2. PICK d \in dag.deps[g] : Said(d, {"Failed", "Blocked"}, i)
      BY <1>6, <2>1, <3>1 DEF BlockedAfter
    <3>3. i \in Nat /\ i \in 1 .. L + 1 /\ i <= i BY <1>6, <3>1
    <3> QED BY <1>12, <3>2, <3>3
  <2> QED BY <1>1, <1>2, <2>1 DEF BlockedAfter, Said
<1>17. EndIsLast'
  <2> SUFFICES ASSUME NEW i \in DOMAIN chan', chan'[i].node = NoNode
               PROVE  i = Len(chan') /\ (chan'[i].to = "Completed" => ~breach)
    BY <1>3 DEF EndIsLast
  <2>1. i = L + 1 BY <1>6, <1>7, <1>9, NodesAssumption
  <2> QED BY <1>5, <1>6, <2>1
<1> QED
  BY <1>1, <1>2, <1>7, <1>10, <1>11, <1>13, <1>14, <1>15, <1>16, <1>17 DEF CompleteVaultAgrees

\* Where nothing of the loop changes, its invariant stays.
LEMMA RunSame ==
  ASSUME RunInv, UNCHANGED vars
  PROVE  RunInv'
<1> USE DEF vars, walkVars, history
<1>1. NoSkips' /\ RanReleased' /\ SettledEnded' /\ ReleasedDone' /\ FailedBlocks' /\ BlockedBy'
  BY DEF RunInv, NoSkips, RanReleased, SettledEnded, ReleasedDone, FailedBlocks, BlockedBy,
         Walked
<1>2. WalkFrom' /\ EdgeCountedOnce' /\ AfterExact' /\ PendingEnqueued'
  BY DEF RunInv, WalkFrom, EdgeCountedOnce, AfterExact, PendingEnqueued, Terminal
<1>3. TasksPending' /\ EnqueuedLives' /\ QueueDrained'
  BY DEF RunInv, TasksPending, EnqueuedLives, QueueDrained, Terminal
<1> QED BY <1>1, <1>2, <1>3 DEF RunInv

\* A record that says how a node ended is not written over by another.
LEMMA RecordStays ==
  ASSUME Typed, ChanInv, Consume, NEW n \in Nodes, rec[n] \in Ends
  PROVE  rec'[n] = rec[n]
<1> USE DEF ChanInv
<1>1. /\ Len(chan) \in Nat \ {0} /\ DOMAIN chan = 1 .. Len(chan) /\ 1 \in DOMAIN chan
      /\ chan[1].node = NoNode => UNCHANGED rec
      /\ chan[1].node # NoNode => /\ chan[1].node \in Nodes
                                  /\ rec'[chan[1].node] = chan[1].to
                                  /\ \A m \in Nodes \ {chan[1].node} : rec'[m] = rec[m]
  BY ConsumeEffect
<1>2. CASE chan[1].node = n
  <2>1. n # NoNode BY NodesAssumption
  <2>2. rec[n] \notin {"none", "Running"} BY DEF Ends
  <2>3. rec[n] = nodeState[n] BY <2>2 DEF RecordBehind
  <2>4. chan[1].to # "Running" BY <1>1, <1>2, <2>2 DEF RunningFirst
  <2>5. chan[1].to = nodeState[n] BY <1>1, <1>2, <2>4 DEF SentSays
  <2> QED BY <1>1, <1>2, <2>1, <2>3, <2>5
<1>3. CASE chan[1].node # n BY <1>1, <1>3
<1> QED BY <1>2, <1>3

\* What the vault says of a node's end, or will say, it still says when the oldest event
\* has been written.
LEMMA SaidMoves ==
  ASSUME Typed, ChanInv, Consume, NEW n \in Nodes, NEW S, S \subseteq Ends,
         NEW i \in 1 .. Len(chan) + 1, Said(n, S, i), NEW k, k = i - 1
  PROVE  Said(n, S, k)'
<1>1. /\ Len(chan) \in Nat \ {0}
      /\ chan[1].node # NoNode => rec'[chan[1].node] = chan[1].to
      /\ \A j \in 1 .. Len(chan) - 1 : chan'[j] = chan[j + 1]
  BY ConsumeEffect
<1>2. CASE rec[n] \in S
  <2>1. rec'[n] = rec[n] BY <1>2, RecordStays
  <2> QED BY <1>2, <2>1 DEF Said
<1>3. CASE rec[n] \notin S
  <2>1. PICK j \in 1 .. i - 1 : chan[j].node = n /\ chan[j].to \in S BY <1>3 DEF Said
  <2>2. CASE j = 1
    <3>1. rec'[n] \in S BY <1>1, <2>1, <2>2, NodesAssumption
    <3> QED BY <3>1 DEF Said
  <2>3. CASE j # 1
    <3>1. j - 1 \in 1 .. k - 1 /\ j - 1 \in 1 .. Len(chan) - 1 /\ (j - 1) + 1 = j
      BY <1>1, <2>3
    <3>2. chan'[j - 1] = chan[j] BY <1>1, <3>1
    <3> QED BY <2>1, <3>1, <3>2 DEF Said
  <2> QED BY <2>2, <2>3
<1> QED BY <1>2, <1>3

\* The consumer: what the channel promised the vault keeps.
LEMMA ConsumeChan ==
  ASSUME Typed, PlainDag, ChanInv, Consume
  PROVE  /\ RecordBehind' /\ SentSays' /\ EndsSaid' /\ RunningFirst' /\ RanAfterDone'
         /\ BlockedAfter' /\ LastSaid' /\ EndIsLast' /\ DownEmpty'
<1> USE DEF ChanInv
<1> DEFINE L == Len(chan)
           m == chan[1].node
<1>1. /\ L \in Nat \ {0} /\ DOMAIN chan = 1 .. L
      /\ Len(chan') = L - 1 /\ DOMAIN chan' = 1 .. L - 1
      /\ \A i \in 1 .. L - 1 : chan'[i] = chan[i + 1]
      /\ \A i \in DOMAIN chan : chan[i] \in Events
      /\ UNCHANGED <<dag, nodeState, breach, pc, up, last>>
      /\ m = NoNode => UNCHANGED rec
      /\ m # NoNode => /\ m \in Nodes /\ rec'[m] = chan[1].to
                       /\ \A n \in Nodes \ {m} : rec'[n] = rec[n]
  BY ConsumeEffect, Zenon DEF vars
<1>2. up BY DEF Consume
<1> HIDE DEF L, m
<1>3. 1 \in DOMAIN chan /\ chan[1].node = m BY <1>1 DEF m
<1>4. \A i \in DOMAIN chan' : /\ i \in 1 .. L - 1 /\ i + 1 \in 1 .. L /\ i + 1 \in DOMAIN chan
                              /\ chan'[i] = chan[i + 1]
  BY <1>1
<1>5. \A n \in Nodes : rec'[n] = rec[n] \/ (m = n /\ rec'[n] = chan[1].to)
  BY <1>1
<1>6. RecordBehind'
  <2> SUFFICES ASSUME NEW n \in Nodes PROVE rec'[n] \in {"none", "Running", nodeState[n]}
    BY <1>1 DEF RecordBehind
  <2>1. CASE rec'[n] = rec[n] BY <2>1 DEF RecordBehind
  <2>2. CASE m = n /\ rec'[n] = chan[1].to BY <1>3, <2>2 DEF SentSays
  <2> QED BY <1>5, <2>1, <2>2
<1>7. SentSays'
  <2> SUFFICES ASSUME NEW i \in DOMAIN chan', chan'[i].node \in Nodes
               PROVE  \/ chan'[i].to = nodeState[chan'[i].node]
                      \/ /\ chan'[i].to = "Running"
                         /\ \E j \in i + 1 .. L - 1 :
                              /\ chan'[j].node = chan'[i].node
                              /\ chan'[j].to = nodeState[chan'[i].node]
    BY <1>1 DEF SentSays
  <2>1. /\ i \in 1 .. L - 1 /\ i + 1 \in DOMAIN chan /\ chan'[i] = chan[i + 1] BY <1>4
  <2>2. CASE chan[i + 1].to = nodeState[chan[i + 1].node] BY <2>1, <2>2
  <2>3. CASE chan[i + 1].to # nodeState[chan[i + 1].node]
    <3>1. chan[i + 1].to = "Running" BY <2>1, <2>3 DEF SentSays
    <3>2. PICK j \in (i + 1) + 1 .. L : /\ chan[j].node = chan[i + 1].node
                                        /\ chan[j].to = nodeState[chan[i + 1].node]
      BY <2>1, <2>3 DEF SentSays, L
    <3>3. j - 1 \in i + 1 .. L - 1 /\ j - 1 \in 1 .. L - 1 /\ (j - 1) + 1 = j
      BY <1>1, <2>1
    <3>4. chan'[j - 1] = chan[j] BY <1>1, <3>3
    <3> QED BY <2>1, <3>1, <3>2, <3>3, <3>4
  <2> QED BY <2>2, <2>3
<1>8. ASSUME NEW n \in Nodes, NEW S, S \subseteq Ends, NEW i \in DOMAIN chan',
             Said(n, S, i + 1)
      PROVE  Said(n, S, i)'
  <2>1. i + 1 \in 1 .. L + 1 /\ i = (i + 1) - 1 BY <1>1, <1>4
  <2> QED BY <1>8, <2>1, SaidMoves DEF L
<1>9. EndsSaid'
  <2> SUFFICES ASSUME NEW n \in Nodes, nodeState[n] # "Pending",
                      NEW x, x = nodeState[n], NEW k, k = L
               PROVE  Said(n, {x}, k)'
    <3>1. Len(chan') + 1 = L BY <1>1
    <3> QED BY <1>1, <3>1 DEF EndsSaid, Said, Terminal
  <2>1. Said(n, {x}, L + 1) BY <1>2 DEF EndsSaid, Terminal, L
  <2>2. {x} \subseteq Ends BY DEF Typed, TypeOK, Statuses, Ends
  <2>3. L + 1 \in 1 .. L + 1 /\ k = (L + 1) - 1 BY <1>1
  <2> QED BY <2>1, <2>2, <2>3, SaidMoves DEF L
<1>10. RunningFirst'
  <2> SUFFICES ASSUME NEW i \in DOMAIN chan', chan'[i].to = "Running"
               PROVE  /\ rec'[chan'[i].node] \in {"none", "Running"}
                      /\ \A j \in 1 .. i - 1 : chan'[j].node # chan'[i].node
    BY DEF RunningFirst
  <2>1. /\ i \in 1 .. L - 1 /\ i + 1 \in DOMAIN chan /\ chan'[i] = chan[i + 1] BY <1>4
  <2>2. chan[i + 1].node \in Nodes
    BY <1>1, <2>1 DEF Events, NodeEvents, EndEvents
  <2>3. /\ rec[chan[i + 1].node] \in {"none", "Running"}
        /\ \A j \in 1 .. (i + 1) - 1 : chan[j].node # chan[i + 1].node
    BY <2>1 DEF RunningFirst
  <2>4. m # chan[i + 1].node
    <3>1. 1 \in 1 .. (i + 1) - 1 BY <2>1
    <3> QED BY <1>3, <2>3, <3>1
  <2>5. rec'[chan[i + 1].node] = rec[chan[i + 1].node] BY <1>5, <2>2, <2>4
  <2>6. ASSUME NEW j \in 1 .. i - 1 PROVE chan'[j].node # chan'[i].node
    <3>1. j \in 1 .. L - 1 /\ j + 1 \in 1 .. (i + 1) - 1 BY <1>1, <2>1
    <3>2. chan'[j] = chan[j + 1] BY <1>1, <3>1
    <3> QED BY <2>1, <2>3, <3>1, <3>2
  <2> QED BY <2>1, <2>3, <2>5, <2>6
<1>11. \A n \in Nodes : dag.deps[n] \in SUBSET Nodes BY PlainFacts
<1>12. \A n \in Nodes : rec[n] \in Ends => rec'[n] = rec[n] BY RecordStays
\* The node whose event is written had its dependencies told.
<1>13. \A d, S : Said(d, S, 1) => rec[d] \in S BY DEF Said
<1>14. RanAfterDone'
  <2>1. ASSUME NEW n \in Nodes, rec'[n] \in {"Running", "Done", "Failed"}, NEW d \in dag.deps[n]
        PROVE  rec'[d] = "Done"
    <3>1. rec[d] = "Done"
      <4>1. CASE rec'[n] = rec[n] BY <2>1, <4>1 DEF RanAfterDone
      <4>2. CASE m = n /\ rec'[n] = chan[1].to
        <5>1. Said(d, {"Done"}, 1) BY <1>3, <2>1, <4>2 DEF RanAfterDone
        <5> QED BY <1>13, <5>1
      <4> QED BY <1>5, <4>1, <4>2
    <3> QED BY <1>11, <1>12, <3>1 DEF Ends
  <2>2. ASSUME NEW i \in DOMAIN chan', chan'[i].to \in {"Running", "Done", "Failed"},
               NEW d \in dag.deps[chan'[i].node]
        PROVE  Said(d, {"Done"}, i)'
    <3>1. i + 1 \in DOMAIN chan /\ chan'[i] = chan[i + 1] BY <1>4
    <3>2. chan[i + 1].node \in Nodes
      BY <1>1, <2>2, <3>1 DEF Events, NodeEvents, EndEvents
    <3>3. d \in Nodes BY <1>11, <3>1, <3>2
    <3>4. Said(d, {"Done"}, i + 1) BY <2>2, <3>1 DEF RanAfterDone
    <3>5. {"Done"} \subseteq Ends BY DEF Ends
    <3> QED BY <1>8, <3>3, <3>4, <3>5
  <2> QED BY <1>1, <2>1, <2>2 DEF RanAfterDone, Said
<1>15. BlockedAfter'
  <2>1. ASSUME NEW n \in Nodes, rec'[n] = "Blocked"
        PROVE  \E d \in dag.deps[n] : rec'[d] \in {"Failed", "Blocked"}
    <3>1. PICK d \in dag.deps[n] : rec[d] \in {"Failed", "Blocked"}
      <4>1. CASE rec'[n] = rec[n] BY <2>1, <4>1 DEF BlockedAfter
      <4>2. CASE m = n /\ rec'[n] = chan[1].to
        <5>1. PICK d \in dag.deps[n] : Said(d, {"Failed", "Blocked"}, 1)
          BY <1>3, <2>1, <4>2 DEF BlockedAfter
        <5> QED BY <1>13, <5>1
      <4> QED BY <1>5, <4>1, <4>2
    <3> QED BY <1>11, <1>12, <3>1 DEF Ends
  <2>2. ASSUME NEW i \in DOMAIN chan', chan'[i].to = "Blocked", NEW g, g = chan'[i].node
        PROVE  \E d \in dag.deps[g] : Said(d, {"Failed", "Blocked"}, i)'
    <3>1. i + 1 \in DOMAIN chan /\ chan'[i] = chan[i + 1] BY <1>4
    <3>2. g \in Nodes
      BY <1>1, <2>2, <3>1 DEF Events, NodeEvents, EndEvents
    <3>3. PICK d \in dag.deps[g] : Said(d, {"Failed", "Blocked"}, i + 1)
      BY <2>2, <3>1 DEF BlockedAfter
    <3>4. d \in Nodes BY <1>11, <3>2
    <3>5. {"Failed", "Blocked"} \subseteq Ends BY DEF Ends
    <3>6. Said(d, {"Failed", "Blocked"}, i)' BY <1>8, <3>3, <3>4, <3>5
    <3> QED BY <3>6
  <2> QED BY <1>1, <2>1, <2>2 DEF BlockedAfter, Said
<1>16. LastSaid' /\ DownEmpty' BY <1>1, <1>2 DEF LastSaid, DownEmpty, Terminal
<1>17. EndIsLast'
  <2> SUFFICES ASSUME NEW i \in DOMAIN chan', chan'[i].node = NoNode
               PROVE  /\ i = Len(chan') /\ pc = "done"
                      /\ chan'[i].to = "Completed" => ~breach
    BY <1>1 DEF EndIsLast
  <2>1. i + 1 \in DOMAIN chan /\ chan'[i] = chan[i + 1] /\ i \in 1 .. L - 1 BY <1>4
  <2>2. /\ i + 1 = L /\ pc = "done"
        /\ chan[i + 1].to = "Completed" => ~breach
    BY <2>1 DEF EndIsLast, L
  <2> QED BY <1>1, <2>1, <2>2
<1> QED BY <1>6, <1>7, <1>9, <1>10, <1>14, <1>15, <1>16, <1>17, Zenon

\* Writing the last event, the one that ends the run, is what completes the vault.
LEMMA ConsumeHolds ==
  ASSUME Typed, PlainDag, RunInv, ChanInv, ~MayPanic, Consume
  PROVE  RunInv' /\ ChanInv' /\ CompleteVaultAgrees'
<1> USE DEF ChanInv
<1>1. /\ Len(chan) \in Nat \ {0} /\ DOMAIN chan = 1 .. Len(chan)
      /\ Len(chan') = Len(chan) - 1 /\ UNCHANGED vars
      /\ chan[1].node = NoNode => /\ UNCHANGED rec
                                  /\ complete' = (complete \/ chan[1].to = "Completed")
      /\ chan[1].node # NoNode => UNCHANGED complete
  BY ConsumeEffect, Zenon
<1>2. RunInv' BY <1>1, RunSame
<1>3. /\ RecordBehind' /\ SentSays' /\ EndsSaid' /\ RunningFirst' /\ RanAfterDone'
      /\ BlockedAfter' /\ LastSaid' /\ EndIsLast' /\ DownEmpty'
  BY ConsumeChan
<1>4. ~complete /\ up BY <1>1 DEF CompleteDone, Consume
<1>5. ASSUME complete'
      PROVE  /\ pc = "done" /\ ~breach /\ chan' = <<>> /\ UNCHANGED rec
             /\ \A n \in Nodes : Terminal(n) => rec[n] = nodeState[n]
  <2>1. chan[1].node = NoNode /\ chan[1].to = "Completed" BY <1>1, <1>4, <1>5
  <2>2. Len(chan) = 1 /\ pc = "done" /\ ~breach BY <1>1, <2>1 DEF EndIsLast
  <2>3. chan' = <<>> BY <2>2 DEF Consume, Typed, ResumeTypeOK
  <2>4. ASSUME NEW n \in Nodes, Terminal(n) PROVE rec[n] = nodeState[n]
    <3>1. Said(n, {nodeState[n]}, 2) BY <1>4, <2>2, <2>4 DEF EndsSaid
    <3>2. \A j \in 1 .. 2 - 1 : j = 1 OBVIOUS
    <3>3. \A j \in 1 .. 2 - 1 : chan[j].node # n BY <2>1, <3>2, NodesAssumption
    <3> QED BY <3>1, <3>3 DEF Said
  <2> QED BY <1>1, <2>1, <2>2, <2>3, <2>4
<1>6. CompleteDone' BY <1>1, <1>5 DEF CompleteDone, vars
<1>7. CompleteVaultAgrees'
  <2> SUFFICES ASSUME complete' PROVE CompleteVaultAgrees'
    BY DEF CompleteVaultAgrees
  <2>1. \A n \in Nodes : rec[n] = IF nodeState[n] = "Pending" THEN "none" ELSE nodeState[n]
    BY <1>5, ToldAgrees
  <2> QED BY <1>1, <1>5, <2>1 DEF CompleteVaultAgrees, vars
<1> HIDE DEF ChanInv
<1>8. ChanInv' BY <1>3, <1>6 DEF ChanInv
<1> QED BY <1>2, <1>7, <1>8

\* The process exits when the channel is empty: everything has been told by then.
LEMMA ExitHolds ==
  ASSUME Typed, PlainDag, RunInv, ChanInv, ~MayPanic, Exit
  PROVE  RunInv' /\ ChanInv' /\ CompleteVaultAgrees'
<1> USE DEF ChanInv
<1>1. /\ up /\ pc = "done" /\ chan = <<>> /\ UNCHANGED <<vars, chan, rec, last>> /\ ~up'
      /\ complete' = ~breach
  BY DEF Exit, Completes
<1>2. Len(chan) = 0 /\ DOMAIN chan = {} BY <1>1
<1>3. RunInv' BY <1>1, RunSame
<1>4. /\ RecordBehind' /\ SentSays' /\ RunningFirst' /\ RanAfterDone' /\ BlockedAfter'
      /\ LastSaid' /\ EndIsLast'
  BY <1>1 DEF RecordBehind, SentSays, RunningFirst, RanAfterDone, BlockedAfter, LastSaid,
              EndIsLast, Said, Terminal, vars
<1>5. EndsSaid' /\ DownEmpty' /\ CompleteDone'
  BY <1>1 DEF EndsSaid, DownEmpty, CompleteDone, vars
<1>6. CompleteVaultAgrees'
  <2> SUFFICES ASSUME ~breach PROVE CompleteVaultAgrees'
    BY <1>1 DEF CompleteVaultAgrees
  <2>1. ASSUME NEW n \in Nodes, Terminal(n) PROVE rec[n] = nodeState[n]
    <3>1. Said(n, {nodeState[n]}, 0 + 1) BY <1>1, <1>2, <2>1 DEF EndsSaid
    <3> QED BY <3>1 DEF Said
  <2>2. \A n \in Nodes : rec[n] = IF nodeState[n] = "Pending" THEN "none" ELSE nodeState[n]
    BY <1>1, <2>1, ToldAgrees
  <2> QED BY <1>1, <2>2 DEF CompleteVaultAgrees, vars
<1> QED BY <1>3, <1>4, <1>5, <1>6

\* A crash loses the channel, and so only what had not been told.
LEMMA CrashHolds ==
  ASSUME Typed, RunInv, ChanInv, CompleteVaultAgrees, Crash
  PROVE  RunInv' /\ ChanInv' /\ CompleteVaultAgrees'
<1> USE DEF ChanInv
<1>1. /\ UNCHANGED <<vars, rec, last, complete>> /\ ~up' /\ chan' = <<>> /\ DOMAIN chan' = {}
  BY DEF Crash, vault
<1>2. RunInv' BY <1>1, RunSame
<1>3. RecordBehind' /\ SentSays' /\ EndsSaid' /\ RunningFirst'
  BY <1>1 DEF RecordBehind, SentSays, EndsSaid, RunningFirst, vars
<1>4. RanAfterDone' /\ BlockedAfter'
  BY <1>1 DEF RanAfterDone, BlockedAfter, vars
<1>5. LastSaid' /\ EndIsLast' /\ DownEmpty' /\ CompleteDone'
  BY <1>1 DEF LastSaid, EndIsLast, DownEmpty, CompleteDone, Terminal, vars
<1>6. CompleteVaultAgrees' BY <1>1 DEF CompleteVaultAgrees, vars
<1> QED BY <1>2, <1>3, <1>4, <1>5, <1>6

\* A step that leaves the loop, the channel and the vault alone.
LEMMA SameHolds ==
  ASSUME RunInv, ChanInv, CompleteVaultAgrees,
         UNCHANGED <<vars, up, chan, rec, complete, last>>
  PROVE  RunInv' /\ ChanInv' /\ CompleteVaultAgrees'
<1> USE DEF ChanInv
<1>1. RunInv' BY RunSame
<1>2. RecordBehind' /\ SentSays' /\ EndsSaid' /\ RunningFirst'
  BY DEF RecordBehind, SentSays, EndsSaid, RunningFirst, Said, Terminal, vars
<1>3. RanAfterDone' /\ BlockedAfter'
  BY DEF RanAfterDone, BlockedAfter, Said, vars
<1>4. LastSaid' /\ EndIsLast' /\ DownEmpty' /\ CompleteDone'
  BY DEF LastSaid, EndIsLast, DownEmpty, CompleteDone, Terminal, vars
<1>5. CompleteVaultAgrees' BY DEF CompleteVaultAgrees, vars
<1> QED BY <1>1, <1>2, <1>3, <1>4, <1>5

LEMMA ResumeInitHolds ==
  ASSUME ResumeInit, PlainDag
  PROVE  RunInv /\ ChanInv /\ CompleteVaultAgrees
<1>1. Typed BY ResumeInitTyped
<1>2. /\ Init /\ up /\ chan = <<>> /\ DOMAIN chan = {} /\ ~complete
      /\ \A n \in Nodes : rec[n] = "none"
  BY DEF ResumeInit
<1>3. /\ \A n \in Nodes : /\ nodeState[n] = "Pending" /\ released[n] = {}
                          /\ inDegree[n] = Cardinality(dag.deps[n])
                          /\ afterPending[n] = Cardinality(dag.after[n])
      /\ ready = {n \in Nodes : inDegree[n] = 0 /\ afterPending[n] = 0}
      /\ enqueued = ready /\ tasks = {} /\ pc = "drain" /\ fin = NoNode
      /\ todo = {} /\ skipWork = {} /\ settled = {}
  BY <1>2 DEF Init
<1>4. RanReleased
  <2> SUFFICES ASSUME NEW n \in enqueued PROVE released[n] = dag.deps[n]
    BY <1>3 DEF RanReleased
  <2>1. n \in Nodes /\ Cardinality(dag.deps[n]) = 0 BY <1>3
  <2>2. dag.deps[n] \in SUBSET Nodes BY <1>1, <2>1 DEF Typed, ValidDag, DagType
  <2>3. dag.deps[n] = {} BY <2>1, <2>2, NodeSets
  <2> QED BY <1>3, <2>1, <2>3
<1>5. EdgeCountedOnce
  <2> SUFFICES ASSUME NEW n \in Nodes PROVE inDegree[n] = Cardinality(dag.deps[n] \ released[n])
    BY <1>3 DEF EdgeCountedOnce
  <2>1. dag.deps[n] \ released[n] = dag.deps[n] BY <1>3
  <2> QED BY <1>3, <2>1
<1>6. AfterExact
  <2> SUFFICES ASSUME NEW n \in Nodes
               PROVE  afterPending[n] = Cardinality({a \in dag.after[n] : ~Terminal(a)})
    BY DEF AfterExact
  <2>1. dag.after[n] \in SUBSET Nodes BY <1>1, PlainFacts
  <2>2. {a \in dag.after[n] : ~Terminal(a)} = dag.after[n] BY <1>3, <2>1 DEF Terminal
  <2> QED BY <1>3, <2>2
<1>7. ReleasedDone
  <2>1. \A n \in Nodes : \A d \in dag.deps[n] : d \in Nodes BY <1>1, PlainFacts
  <2> QED BY <1>3, <2>1 DEF ReleasedDone
<1>8. FailedBlocks
  <2>1. \A n \in Nodes : \A d \in dag.deps[n] : d \in Nodes BY <1>1, PlainFacts
  <2> QED BY <1>3, <2>1 DEF FailedBlocks
<1>9. RunInv
  BY <1>3, <1>4, <1>5, <1>6, <1>7, <1>8
  DEF RunInv, NoSkips, SettledEnded, BlockedBy, WalkFrom, PendingEnqueued, TasksPending,
      EnqueuedLives, QueueDrained, Terminal
<1>10. RecordBehind /\ SentSays /\ EndsSaid /\ RunningFirst /\ LastSaid
  BY <1>2, <1>3 DEF RecordBehind, SentSays, EndsSaid, RunningFirst, LastSaid, Terminal
<1>11. RanAfterDone /\ BlockedAfter BY <1>2 DEF RanAfterDone, BlockedAfter
<1>12. EndIsLast /\ DownEmpty /\ CompleteDone /\ CompleteVaultAgrees
  BY <1>2 DEF EndIsLast, DownEmpty, CompleteDone, CompleteVaultAgrees
<1> QED BY <1>9, <1>10, <1>11, <1>12 DEF ChanInv

\* The loop that a resume starts: as if the recorded nodes had ended in this process, and
\* every dependent of one that went badly had been walked.
LEMMA RestartRun ==
  ASSUME Typed, Typed', PlainDag, ChanInv, NEW c \in Commands, ~c.retry, Restart(c)
  PROVE  RunInv'
<1> USE DEF ChanInv
<1> DEFINE done    == Completed
           failed  == FailedIn(c)
           blocked == BlockedBefore
           old     == done \cup failed \cup blocked
<1>1. PICK s \in Cascades(failed \cup blocked, old) :
        /\ Load(done, failed, blocked, Range(s))
        /\ Range(s) \in SUBSET Nodes /\ old \cap Range(s) = {}
        /\ \A n \in Nodes : /\ n \in done => nodeState'[n] = "Done"
                            /\ n \in failed => nodeState'[n] = "Failed"
                            /\ n \in blocked \cup Range(s) => nodeState'[n] = "Blocked"
                            /\ n \notin old \cup Range(s) => nodeState'[n] = "Pending"
  BY RestartEffect
<1> DEFINE cascade == Range(s)
<1>2. /\ Range(s) \subseteq {n \in Nodes \ old : dag.deps[n] # {}}
      /\ s \in Seq(Nodes) /\ DOMAIN s = 1 .. Len(s)
      /\ \A i \in 1 .. Len(s) : \E d \in dag.deps[s[i]] :
           d \in failed \cup blocked \/ \E j \in 1 .. i - 1 : s[j] = d
      /\ \A n \in Nodes \ old : dag.deps[n] \cap (failed \cup blocked) # {} => n \in Range(s)
  BY CascadeFacts DEF Typed
<1>3. \A n \in Nodes : /\ n \in done <=> rec[n] = "Done"
                       /\ n \in failed <=> rec[n] = "Failed"
                       /\ n \in blocked <=> rec[n] = "Blocked"
  BY DEF Completed, FailedIn, BlockedBefore
<1>4. /\ Blank /\ dag' = dag BY DEF Restart
<1>5. /\ inDegree' = [n \in Nodes |-> Cardinality(dag.deps[n] \ done)]
      /\ afterPending' = [n \in Nodes |-> Cardinality(dag.after[n] \ old)]
      /\ ready' = {n \in Nodes \ (old \cup cascade) : inDegree'[n] = 0 /\ afterPending'[n] = 0}
      /\ released' = [n \in Nodes |-> dag.deps[n] \cap done]
      /\ settled' = done \cup failed
  BY <1>1 DEF Load
<1>6. old \in SUBSET Nodes
  <2>1. done \in SUBSET Nodes /\ failed \in SUBSET Nodes /\ blocked \in SUBSET Nodes BY Recorded
  <2> QED BY <2>1
<1>7. \A n \in Nodes : dag.deps[n] \in SUBSET Nodes /\ dag.after[n] \in SUBSET Nodes
  BY PlainFacts
<1>8. /\ enqueued' = ready' /\ tasks' = {} /\ pc' = "drain" /\ fin' = NoNode
      /\ todo' = {} /\ skipWork' = {}
  BY <1>4 DEF Blank
<1>9. \A n \in Nodes : /\ nodeState'[n] = "Done" <=> n \in done
                       /\ nodeState'[n] = "Failed" <=> n \in failed
                       /\ nodeState'[n] = "Blocked" <=> n \in blocked \cup cascade
                       /\ nodeState'[n] = "Pending" <=> n \notin old \cup cascade
  BY <1>1
\* A recorded node that ran had all its dependencies Done.
<1>10. \A n \in done \cup failed : n \in Nodes /\ dag.deps[n] \subseteq done
  BY <1>3, <1>6, <1>7 DEF RanAfterDone
<1> HIDE DEF done, failed, blocked, cascade, old
<1>11. done \subseteq old /\ failed \subseteq old /\ blocked \subseteq old
       /\ old = done \cup failed \cup blocked
  BY DEF old
<1>12. NoSkips' BY <1>8 DEF NoSkips
<1>13. RanReleased'
  <2> SUFFICES ASSUME NEW n \in ready' \cup (done \cup failed)
               PROVE  released'[n] = dag.deps[n]
    BY <1>4, <1>5, <1>8 DEF RanReleased
  <2>1. CASE n \in ready'
    <3>1. n \in Nodes /\ Cardinality(dag.deps[n] \ done) = 0 BY <1>5, <2>1
    <3>2. dag.deps[n] \ done \in SUBSET Nodes BY <1>7, <3>1
    <3>3. dag.deps[n] \ done = {} BY <3>1, <3>2, NodeSets
    <3> QED BY <1>5, <3>1, <3>3
  <2>2. CASE n \in done \cup failed BY <1>5, <1>10, <2>2
  <2> QED BY <2>1, <2>2
<1>14. SettledEnded' BY <1>5, <1>9 DEF SettledEnded
<1>15. \A n, d \in Nodes : Walked(d, n)' <=> d \in done \cup failed
  BY <1>5, <1>8 DEF Walked
<1>16. ReleasedDone'
  <2> SUFFICES ASSUME NEW n \in Nodes
               PROVE  released'[n] = {d \in dag.deps[n] : nodeState'[d] = "Done" /\ Walked(d, n)'}
    BY <1>4 DEF ReleasedDone
  <2>1. \A d \in dag.deps[n] : d \in done <=> nodeState'[d] = "Done" /\ Walked(d, n)'
    BY <1>7, <1>9, <1>15
  <2>2. released'[n] = dag.deps[n] \cap done BY <1>5
  <2> QED BY <2>1, <2>2
<1>17. FailedBlocks'
  <2> SUFFICES ASSUME NEW n \in Nodes, NEW d \in dag.deps[n], nodeState'[d] = "Failed"
               PROVE  nodeState'[n] = "Blocked"
    BY <1>4 DEF FailedBlocks
  <2>1. d \in failed /\ d \notin done BY <1>7, <1>9
  <2>2. n \notin done /\ n \notin failed BY <1>10, <2>1
  <2>3. n \notin old => n \in cascade BY <1>2, <2>1 DEF cascade
  <2> QED BY <1>9, <1>11, <2>2, <2>3
<1>18. BlockedBy'
  <2> SUFFICES ASSUME NEW n \in Nodes, nodeState'[n] = "Blocked"
               PROVE  \E d \in dag.deps[n] : nodeState'[d] \in {"Failed", "Blocked"}
    BY <1>4 DEF BlockedBy
  <2>1. CASE n \in blocked
    <3>1. PICK d \in dag.deps[n] : rec[d] \in {"Failed", "Blocked"}
      BY <1>3, <2>1 DEF BlockedAfter
    <3>2. d \in failed \cup blocked BY <1>3, <1>7, <3>1
    <3> QED BY <1>7, <1>9, <3>2
  <2>2. CASE n \in cascade
    <3>1. PICK i \in 1 .. Len(s) : n = s[i] BY <1>2, <2>2 DEF cascade, Range
    <3>2. PICK d \in dag.deps[n] : d \in failed \cup blocked \/ \E j \in 1 .. i - 1 : s[j] = d
      BY <1>2, <3>1
    <3>3. \A j \in 1 .. i - 1 : j \in 1 .. Len(s) BY <1>2, <3>1
    <3>4. d \in failed \cup blocked \cup cascade
      BY <1>2, <3>2, <3>3 DEF cascade, Range
    <3> QED BY <1>7, <1>9, <3>4
  <2> QED BY <1>9, <2>1, <2>2
<1>19. WalkFrom' BY <1>8 DEF WalkFrom
<1>20. EdgeCountedOnce'
  <2> SUFFICES ASSUME NEW n \in Nodes
               PROVE  inDegree'[n] = Cardinality(dag.deps[n] \ released'[n])
    BY <1>4, <1>5 DEF EdgeCountedOnce
  <2>1. dag.deps[n] \ released'[n] = dag.deps[n] \ done BY <1>5
  <2> QED BY <1>5, <2>1
\* No node that others are ordered after is in the cascade.
<1>21. AfterExact'
  <2> SUFFICES ASSUME NEW n \in Nodes
               PROVE  afterPending'[n]
                        = Cardinality({a \in dag.after[n] : nodeState'[a] = "Pending"})
    BY <1>4 DEF AfterExact, Terminal
  <2>1. \A a \in dag.after[n] : a \notin cascade BY <1>2, PlainFacts DEF cascade
  <2>2. {a \in dag.after[n] : nodeState'[a] = "Pending"} = dag.after[n] \ old
    BY <1>7, <1>9, <2>1
  <2> QED BY <1>5, <2>2
<1>22. PendingEnqueued' BY <1>5, <1>8, <1>9 DEF PendingEnqueued, Terminal
<1>23. TasksPending' /\ EnqueuedLives' /\ QueueDrained'
  BY <1>8 DEF TasksPending, EnqueuedLives, QueueDrained
<1> QED
  BY <1>12, <1>13, <1>14, <1>16, <1>17, <1>18, <1>19, <1>20, <1>21, <1>22, <1>23 DEF RunInv

\* What a resume sends again is what the vault says, and the cascade of it.
LEMMA RestartChan ==
  ASSUME Typed, Typed', PlainDag, ChanInv, NEW c \in Commands, ~c.retry, Restart(c)
  PROVE  ChanInv'
<1> USE DEF ChanInv
<1> DEFINE done    == Completed
           failed  == FailedIn(c)
           blocked == BlockedBefore
           old     == done \cup failed \cup blocked
<1>1. PICK s \in Cascades(failed \cup blocked, old) :
        /\ Replay(done, failed, blocked, s)
        /\ Range(s) \in SUBSET Nodes /\ old \cap Range(s) = {}
        /\ \A n \in Nodes : /\ n \in done => nodeState'[n] = "Done"
                            /\ n \in failed => nodeState'[n] = "Failed"
                            /\ n \in blocked \cup Range(s) => nodeState'[n] = "Blocked"
                            /\ n \notin old \cup Range(s) => nodeState'[n] = "Pending"
  BY RestartEffect
<1> DEFINE cascade == Range(s)
<1>2. /\ s \in Seq(Nodes) /\ DOMAIN s = 1 .. Len(s) /\ Len(s) \in Nat
      /\ \A i \in 1 .. Len(s) : \E d \in dag.deps[s[i]] :
           d \in failed \cup blocked \/ \E j \in 1 .. i - 1 : s[j] = d
  BY CascadeFacts DEF Typed
<1>3. \A n \in Nodes : /\ n \in done <=> rec[n] = "Done"
                       /\ n \in failed <=> rec[n] = "Failed"
                       /\ n \in blocked <=> rec[n] = "Blocked"
  BY DEF Completed, FailedIn, BlockedBefore
<1>4. done \in SUBSET Nodes /\ failed \in SUBSET Nodes /\ blocked \in SUBSET Nodes
  BY Recorded
<1>5. PICK k \in Nat : Replayed(done, failed, blocked, s, chan', k)
  BY <1>1, <1>2, <1>4, ReplaySends
<1>6. /\ up' /\ ~complete' /\ UNCHANGED <<dag, rec>>
      /\ last' = [n \in Nodes |-> IF n \in cascade THEN "Blocked" ELSE last[n]]
  BY <1>1 DEF Restart, Replay, vault
<1>7. \A n \in Nodes : /\ nodeState'[n] = "Done" <=> n \in done
                       /\ nodeState'[n] = "Failed" <=> n \in failed
                       /\ nodeState'[n] = "Blocked" <=> n \in blocked \cup cascade
                       /\ nodeState'[n] = "Pending" <=> n \notin old \cup cascade
  BY <1>1
<1>8. /\ chan' \in Seq(Events) /\ DOMAIN chan' = 1 .. Len(chan') /\ Len(chan') \in Nat
  BY DEF Typed, ResumeTypeOK
<1>9. /\ Len(chan') = k + Len(s)
      /\ \A i \in 1 .. k : \/ chan'[i].node \in done /\ chan'[i].to = "Done"
                           \/ chan'[i].node \in failed /\ chan'[i].to = "Failed"
                           \/ chan'[i].node \in blocked /\ chan'[i].to = "Blocked"
      /\ \A j \in 1 .. Len(s) : chan'[k + j].node = s[j] /\ chan'[k + j].to = "Blocked"
  BY <1>5 DEF Replayed
<1>10. \A n \in old : nodeState'[n] = rec[n] /\ n \in Nodes BY <1>3, <1>4, <1>7
<1> HIDE DEF done, failed, blocked
\* An event repeats a record, or it is one of the cascade.
<1>11. ASSUME NEW i \in DOMAIN chan'
       PROVE  \/ chan'[i].node \in old /\ chan'[i].to = rec[chan'[i].node]
              \/ /\ i - k \in 1 .. Len(s) /\ chan'[i].node = s[i - k]
                 /\ chan'[i].to = "Blocked"
  <2>1. CASE i \in 1 .. k BY <1>3, <1>4, <1>9, <2>1
  <2>2. CASE i \notin 1 .. k
    <3>1. i - k \in 1 .. Len(s) /\ k + (i - k) = i BY <1>8, <1>9, <2>2
    <3> QED BY <1>9, <3>1
  <2> QED BY <2>1, <2>2
<1>12. \A j \in 1 .. Len(s) : /\ s[j] \in cascade /\ s[j] \in Nodes
                              /\ k + j \in DOMAIN chan'
                              /\ chan'[k + j].node = s[j] /\ chan'[k + j].to = "Blocked"
  BY <1>2, <1>8, <1>9 DEF Range
<1> HIDE DEF old
<1>13. \A i \in DOMAIN chan' : /\ chan'[i].node \in Nodes
                               /\ chan'[i].to = nodeState'[chan'[i].node]
  BY <1>7, <1>10, <1>11, <1>12
<1>14. RecordBehind'
  <2> SUFFICES ASSUME NEW n \in Nodes PROVE rec[n] \in {"none", "Running", nodeState'[n]}
    BY <1>6 DEF RecordBehind
  <2>1. rec[n] \in {"none", "Running", "Done", "Failed", "Blocked"}
    BY DEF Typed, ResumeTypeOK, Ends
  <2> QED BY <1>3, <1>7, <2>1
<1>15. SentSays' BY <1>13 DEF SentSays
<1>16. EndsSaid'
  <2> SUFFICES ASSUME NEW n \in Nodes, nodeState'[n] # "Pending", NEW x, x = nodeState'[n]
               PROVE  rec[n] = x \/ \E i \in DOMAIN chan' : chan'[i].node = n /\ chan'[i].to = x
    BY <1>6, <1>8 DEF EndsSaid, Said, Terminal
  <2>1. CASE n \in old BY <1>10, <2>1
  <2>2. CASE n \notin old
    <3>1. n \in cascade BY <1>7, <2>2
    <3>2. PICK j \in 1 .. Len(s) : n = s[j] BY <1>2, <3>1 DEF Range
    <3>3. x = "Blocked" BY <1>7, <3>1
    <3> QED BY <1>12, <3>2, <3>3
  <2> QED BY <2>1, <2>2
<1>17. RunningFirst'
  <2>1. \A n \in Nodes : nodeState'[n] # "Running" BY DEF Typed, TypeOK, Statuses
  <2> QED BY <1>13, <2>1 DEF RunningFirst
<1>18. ASSUME NEW n \in Nodes, NEW i \in DOMAIN chan', chan'[i].node = n,
              chan'[i].to \in {"Running", "Done", "Failed"}
       PROVE  rec[n] \in {"Done", "Failed"}
  <2>1. nodeState'[n] \in {"Running", "Done", "Failed"} BY <1>13, <1>18
  <2>2. nodeState'[n] # "Running" BY DEF Typed, TypeOK, Statuses
  <2> QED BY <1>3, <1>7, <2>1, <2>2
<1>19. RanAfterDone'
  <2>1. ASSUME NEW i \in DOMAIN chan', chan'[i].to \in {"Running", "Done", "Failed"},
               NEW d \in dag.deps[chan'[i].node]
        PROVE  Said(d, {"Done"}, i)'
    <3>1. rec[d] = "Done" BY <1>13, <1>18, <2>1 DEF RanAfterDone
    <3> QED BY <1>6, <3>1 DEF Said
  <2> QED BY <1>6, <2>1 DEF RanAfterDone, Said
<1>20. BlockedAfter'
  <2>1. ASSUME NEW i \in DOMAIN chan', chan'[i].to = "Blocked", NEW g, g = chan'[i].node
        PROVE  \E d \in dag.deps[g] : Said(d, {"Failed", "Blocked"}, i)'
    <3>1. CASE rec[g] = "Blocked"
      <4>1. g \in Nodes BY <1>13, <2>1
      <4>2. PICK d \in dag.deps[g] : rec[d] \in {"Failed", "Blocked"}
        BY <3>1, <4>1 DEF BlockedAfter
      <4>3. Said(d, {"Failed", "Blocked"}, i)' BY <1>6, <4>2 DEF Said
      <4> QED BY <4>3
    <3>2. CASE rec[g] # "Blocked"
      <4>1. i - k \in 1 .. Len(s) /\ g = s[i - k] BY <1>11, <2>1, <3>2
      <4>2. PICK d \in dag.deps[g] :
              d \in failed \cup blocked \/ \E j \in 1 .. (i - k) - 1 : s[j] = d
        BY <1>2, <4>1
      <4>3. CASE d \in failed \cup blocked
        <5>1. rec[d] \in {"Failed", "Blocked"} BY <1>3, <1>4, <4>3
        <5>2. Said(d, {"Failed", "Blocked"}, i)' BY <1>6, <5>1 DEF Said
        <5> QED BY <5>2
      <4>4. ASSUME NEW j \in 1 .. (i - k) - 1, s[j] = d
            PROVE  \E g2 \in dag.deps[g] : Said(g2, {"Failed", "Blocked"}, i)'
        <5>1. j \in 1 .. Len(s) /\ k + j \in 1 .. i - 1
          <6>1. k \in Nat /\ i \in Nat /\ Len(s) \in Nat BY <1>2, <1>5, <1>8
          <6> QED BY <4>1, <6>1
        <5>2. chan'[k + j].node = d /\ chan'[k + j].to = "Blocked" BY <1>12, <4>4, <5>1
        <5>3. Said(d, {"Failed", "Blocked"}, i)' BY <5>1, <5>2 DEF Said
        <5> QED BY <5>3
      <4> QED BY <4>2, <4>3, <4>4
    <3> QED BY <3>1, <3>2
  <2> QED BY <1>6, <2>1 DEF BlockedAfter, Said
<1>21. LastSaid'
  <2> SUFFICES ASSUME NEW n \in Nodes, nodeState'[n] # "Pending" PROVE last'[n] = nodeState'[n]
    BY DEF LastSaid, Terminal
  <2>1. CASE n \in cascade BY <1>6, <1>7, <2>1
  <2>2. CASE n \notin cascade
    <3>1. n \in old BY <1>7, <2>2
    <3>2. nodeState'[n] = rec[n] /\ rec[n] \notin {"none", "Running", "Pending"}
      <4>1. nodeState'[n] = rec[n] BY <1>10, <3>1
      <4>2. n \in done \/ n \in failed \/ n \in blocked BY <3>1 DEF old
      <4>3. rec[n] \in {"Done", "Failed", "Blocked"} BY <1>3, <4>2
      <4> QED BY <4>1, <4>3
    <3>3. rec[n] = nodeState[n] /\ Terminal(n) BY <3>2 DEF RecordBehind, Terminal
    <3>4. last[n] = nodeState[n] BY <3>3 DEF LastSaid
    <3> QED BY <1>6, <2>2, <3>2, <3>3, <3>4
  <2> QED BY <2>1, <2>2
<1>22. EndIsLast' BY <1>13, NodesAssumption DEF EndIsLast
<1>23. DownEmpty' /\ CompleteDone' BY <1>6 DEF DownEmpty, CompleteDone
<1> QED BY <1>14, <1>15, <1>16, <1>17, <1>19, <1>20, <1>21, <1>22, <1>23

LEMMA ResumeNextHolds ==
  ASSUME PlainRun, Typed, Typed', PlainDag, RunInv, ChanInv, CompleteVaultAgrees,
         [ResumeNext]_runVars
  PROVE  RunInv' /\ ChanInv' /\ CompleteVaultAgrees'
<1>1. ~MayPanic /\ ~MayVerifyFail /\ TypeOK' BY DEF PlainRun, Typed
<1>2. CASE QuietStep BY <1>1, <1>2, QuietHolds
<1>3. ASSUME NEW n \in Nodes, NEW outcome \in {"Done", "Failed"}, NEW says \in BOOLEAN,
             NEW unverified \in BOOLEAN, JoinStep(n, outcome, says, unverified)
      PROVE  RunInv' /\ ChanInv' /\ CompleteVaultAgrees'
  BY <1>1, <1>3, JoinHolds
<1>4. ASSUME NEW m \in Nodes, BlockStep(m) PROVE RunInv' /\ ChanInv' /\ CompleteVaultAgrees'
  BY <1>1, <1>4, BlockHolds
<1>5. ASSUME NEW s \in Nodes, SkipStep(s) PROVE FALSE
  BY <1>5 DEF SkipStep, Skip, RunInv, NoSkips
<1>6. CASE FinishStep BY <1>1, <1>6, FinishHolds
<1>7. CASE Exit BY <1>1, <1>7, ExitHolds
<1>8. CASE Consume BY <1>1, <1>8, ConsumeHolds
<1>9. CASE Crash BY <1>9, CrashHolds
<1>10. ASSUME NEW c \in Commands, Restart(c) PROVE RunInv' /\ ChanInv' /\ CompleteVaultAgrees'
  <2>1. ~c.retry BY DEF PlainRun
  <2>2. RunInv' /\ ChanInv' BY <1>10, <2>1, RestartRun, RestartChan
  <2>3. ~complete' BY <1>10 DEF Restart, vault
  <2> QED BY <2>2, <2>3 DEF CompleteVaultAgrees
<1>11. ASSUME NEW c \in Commands, ShowCached(c)
       PROVE  RunInv' /\ ChanInv' /\ CompleteVaultAgrees'
  <2>1. UNCHANGED <<vars, up, chan, rec, complete, last>> BY <1>11 DEF ShowCached, vault
  <2> QED BY <2>1, SameHolds
<1>12. ASSUME NEW c \in Commands, StartFresh(c) PROVE FALSE
  BY <1>12 DEF StartFresh, PlainRun
<1>13. CASE UNCHANGED runVars
  <2>1. UNCHANGED <<vars, up, chan, rec, complete, last>> BY <1>13 DEF runVars, resumeVars, vault
  <2> QED BY <2>1, SameHolds
<1> QED
  BY <1>2, <1>3, <1>4, <1>5, <1>6, <1>7, <1>8, <1>9, <1>10, <1>11, <1>12, <1>13
  DEF ResumeNext, RunStep, TaskEnds, Invoke

\* The DAG is read once and never changes.
LEMMA DagStays == Typed /\ [ResumeNext]_runVars => (PlainDag' <=> PlainDag)
<1> SUFFICES ASSUME Typed, [ResumeNext]_runVars PROVE dag' = dag
  BY DEF PlainDag, NoGates, RootAfter
<1>1. Next => dag' = dag
  BY DEF Next, Loop, JoinNext, Dispatch, Refuse, Drained, Release, StartSkip, Skip, Block,
         EndSkip, EndWalk, Finish, Join, JoinPanicked, TripCeiling
<1>2. QuietStep \/ FinishStep => Next BY DEF QuietStep, FinishStep, Next, Loop
<1>3. \A n \in Nodes : SkipStep(n) \/ BlockStep(n) => Next
  BY DEF SkipStep, BlockStep, Next, Loop
<1>4. TaskEnds => Next BY DEF TaskEnds, JoinStep, Next, JoinNext
<1>5. Exit \/ Consume \/ Crash \/ UNCHANGED runVars => dag' = dag
  BY DEF Exit, Consume, Crash, runVars, vars
<1>6. Invoke => dag' = dag BY DEF Invoke, Restart, ShowCached, StartFresh, vars
<1> QED BY <1>1, <1>2, <1>3, <1>4, <1>5, <1>6 DEF ResumeNext, RunStep

\* The invariant of a run that is resumed each time, whatever its DAG: of the loop, the
\* channel and the vault, through every crash.
THEOREM ResumeInvariance ==
  ASSUME PlainRun
  PROVE  ResumeSpec => []ResumeIInv
<1>1. ResumeInit => ResumeIInv
  BY ResumeInitTyped, ResumeInitHolds DEF ResumeIInv
<1>2. ResumeIInv /\ [ResumeNext]_runVars => ResumeIInv'
  <2> SUFFICES ASSUME ResumeIInv, [ResumeNext]_runVars PROVE ResumeIInv'
    OBVIOUS
  <2>1. Typed /\ Typed' BY NextTyped DEF ResumeIInv
  <2>2. PlainDag' => PlainDag BY <2>1, DagStays
  <2>3. PlainDag => RunInv' /\ ChanInv' /\ CompleteVaultAgrees'
    BY <2>1, ResumeNextHolds DEF ResumeIInv
  <2> QED BY <2>1, <2>2, <2>3 DEF ResumeIInv
<1> QED BY <1>1, <1>2, PTL DEF ResumeSpec

\* A run that is interrupted, however often and wherever, and resumed each time ends as
\* an uninterrupted one could have, when its budget is not breached: a node has run if
\* and only if all its dependencies succeeded, and its state is what its last execution
\* gave, in whichever process that was.
THEOREM ResumedRunSound ==
  ASSUME PlainRun
  PROVE  ResumeSpec => []ResumedRunIsARun
<1>1. ResumeIInv => ResumedRunIsARun
  <2> SUFFICES ASSUME ResumeIInv, pc = "done", ~breach, PlainDag, NEW n \in Nodes
               PROVE  IF \A d \in dag.deps[n] : nodeState[d] = "Done"
                      THEN nodeState[n] \in {"Done", "Failed"} /\ nodeState[n] = last[n]
                      ELSE nodeState[n] \in {"Blocked", "Pending"}
    BY DEF ResumedRunIsARun, PlainDag
  <2>1. IF \A d \in dag.deps[n] : nodeState[d] = "Done"
        THEN nodeState[n] \in {"Done", "Failed"}
        ELSE nodeState[n] \in {"Blocked", "Pending"}
    BY OverMeans DEF ResumeIInv, PlainRun
  <2>2. nodeState[n] \in {"Done", "Failed"} => nodeState[n] = last[n]
    BY DEF ResumeIInv, ChanInv, LastSaid, Terminal
  <2> QED BY <2>1, <2>2
<1> QED BY <1>1, ResumeInvariance, PTL

\* Of such a run, a vault that is marked complete has been told everything: what it says
\* of a node is how the node ended, and it says nothing of one that never ran.
THEOREM CompleteVaultSound ==
  ASSUME PlainRun
  PROVE  ResumeSpec => [](PlainDag => CompleteVaultAgrees)
<1>1. ResumeIInv => (PlainDag => CompleteVaultAgrees) BY DEF ResumeIInv
<1> QED BY <1>1, ResumeInvariance, PTL


-----------------------------------------------------------------------------
(* The report of a complete run, for every DAG and every command           *)

\* The last that is said of n, in the vault or on the way there, is how it ended.
Told(n) ==
  /\ \/ rec[n] = nodeState[n]
     \/ \E i \in DOMAIN chan : chan[i].node = n /\ chan[i].to = nodeState[n]
  /\ \A i \in DOMAIN chan : chan[i].node = n =>
       \/ chan[i].to = nodeState[n]
       \/ \E j \in DOMAIN chan : j > i /\ chan[j].node = n /\ chan[j].to = nodeState[n]

\* Only of a node that fails in this run may the vault not hear.
StatesTold ==
  up => \A n \in Nodes : Terminal(n) =>
          Told(n) \/ (nodeState[n] = "Failed" /\ last[n] = "Failed")

\* What the process that ended last gave as its exit status, for a run that is complete.
ExitTold ==
  complete /\ ~up =>
    /\ exit = "ok" /\ NoOldFailure => ReportedFailed = {}
    /\ exit = "failed" /\ FailuresRecorded => ReportedFailed # {}

LEMMA ToldSame ==
  ASSUME StatesTold, UNCHANGED <<up, rec, chan, nodeState, last>>
  PROVE  StatesTold'
BY DEF StatesTold, Told, Terminal

\* Events of n are sent, of which the last says how it ended, unless it failed.
LEMMA ToldSend ==
  ASSUME Typed, StatesTold, up, UNCHANGED rec, NEW es \in Seq(Events), Emit(es), NEW n,
         Len(es) \in Nat \ {0}, \A j \in 1 .. Len(es) : es[j].node = n,
         \/ es[Len(es)].to = nodeState'[n]
         \/ nodeState'[n] = "Failed" /\ last'[n] = "Failed",
         \A m \in Nodes \ {n} : nodeState'[m] = nodeState[m] /\ last'[m] = last[m]
  PROVE  StatesTold'
<1> DEFINE L == Len(chan)
<1>1. /\ L \in Nat /\ DOMAIN chan = 1 .. L /\ DOMAIN chan' = 1 .. L + Len(es)
      /\ \A i \in 1 .. L : chan'[i] = chan[i]
      /\ \A i \in DOMAIN chan' \ DOMAIN chan :
           i - L \in 1 .. Len(es) /\ chan'[i] = es[i - L]
      /\ \A j \in 1 .. Len(es) : chan'[L + j] = es[j]
  BY EmitEffect
<1> HIDE DEF L
<1>2. SUFFICES ASSUME NEW m \in Nodes, nodeState'[m] # "Pending",
                      ~(nodeState'[m] = "Failed" /\ last'[m] = "Failed")
               PROVE  Told(m)'
  BY DEF StatesTold, Terminal
<1>3. CASE m = n
  <2>1. Len(es) \in 1 .. Len(es) /\ L + Len(es) \in DOMAIN chan' BY <1>1
  <2>2. chan'[L + Len(es)] = es[Len(es)] BY <1>1, <2>1
  <2>3. chan'[L + Len(es)].node = m /\ chan'[L + Len(es)].to = nodeState'[m]
    BY <1>2, <1>3, <2>1, <2>2
  <2>4. \A i \in DOMAIN chan' : i = L + Len(es) \/ L + Len(es) > i BY <1>1
  <2> QED BY <2>1, <2>3, <2>4 DEF Told
<1>4. CASE m # n
  <2>1. nodeState'[m] = nodeState[m] /\ last'[m] = last[m] BY <1>4
  <2>2. Told(m) BY <1>2, <2>1 DEF StatesTold, Terminal
  <2>3. \A i \in DOMAIN chan' : chan'[i].node = m => i \in DOMAIN chan /\ chan'[i] = chan[i]
    <3> SUFFICES ASSUME NEW i \in DOMAIN chan', i \notin DOMAIN chan PROVE chan'[i].node = n
      BY <1>1, <1>4
    <3>1. i - L \in 1 .. Len(es) /\ chan'[i] = es[i - L] BY <1>1
    <3> QED BY <3>1
  <2>4. \A i \in DOMAIN chan : i \in DOMAIN chan' /\ chan'[i] = chan[i] BY <1>1
  <2> QED BY <2>1, <2>2, <2>3, <2>4 DEF Told
<1> QED BY <1>3, <1>4

LEMMA ToldConsume ==
  ASSUME Typed, StatesTold, Consume
  PROVE  StatesTold'
<1> DEFINE L == Len(chan)
<1>1. /\ L \in Nat \ {0} /\ DOMAIN chan = 1 .. L /\ DOMAIN chan' = 1 .. L - 1
      /\ \A i \in 1 .. L - 1 : chan'[i] = chan[i + 1]
      /\ UNCHANGED <<nodeState, up, last>>
      /\ \A n \in Nodes : rec'[n] = IF chan[1].node = n THEN chan[1].to ELSE rec[n]
  BY ConsumeEffect, NodesAssumption DEF vars
<1> HIDE DEF L
<1>2. SUFFICES ASSUME NEW n \in Nodes, Told(n) PROVE Told(n)'
  BY <1>1 DEF StatesTold, Terminal
<1> DEFINE Says(i) == i \in DOMAIN chan /\ chan[i].node = n /\ chan[i].to = nodeState[n]
\* An event that says it, of those that are left, has moved up.
<1>3. ASSUME NEW i, Says(i), i > 1
      PROVE  /\ i - 1 \in DOMAIN chan' /\ chan'[i - 1].node = n
             /\ chan'[i - 1].to = nodeState'[n]
  <2>1. i \in 1 .. L /\ i - 1 \in 1 .. L - 1 /\ (i - 1) + 1 = i BY <1>1, <1>3
  <2>2. chan'[i - 1] = chan[i] BY <1>1, <2>1
  <2> QED BY <1>1, <1>3, <2>1, <2>2
<1>4. \/ rec'[n] = nodeState'[n]
      \/ \E i \in DOMAIN chan' : chan'[i].node = n /\ chan'[i].to = nodeState'[n]
  <2>1. 1 \in DOMAIN chan BY <1>1
  <2>2. CASE chan[1].node = n
    <3>1. Says(1) \/ \E j \in DOMAIN chan : j > 1 /\ Says(j) BY <1>2, <2>1, <2>2 DEF Told
    <3>2. CASE Says(1) BY <1>1, <2>2, <3>2
    <3>3. ASSUME NEW j, j > 1, Says(j)
          PROVE  \E i \in DOMAIN chan' : chan'[i].node = n /\ chan'[i].to = nodeState'[n]
      BY <1>3, <3>3
    <3> QED BY <3>1, <3>2, <3>3
  <2>3. CASE chan[1].node # n
    <3>1. rec[n] = nodeState[n] \/ \E i \in DOMAIN chan : Says(i) BY <1>2 DEF Told
    <3>2. CASE rec[n] = nodeState[n] BY <1>1, <2>3, <3>2
    <3>3. ASSUME NEW i \in DOMAIN chan, Says(i)
          PROVE  \E j \in DOMAIN chan' : chan'[j].node = n /\ chan'[j].to = nodeState'[n]
      <4>1. i > 1 BY <1>1, <2>3, <3>3
      <4> QED BY <1>3, <3>3, <4>1
    <3> QED BY <3>1, <3>2, <3>3
  <2> QED BY <2>2, <2>3
<1>5. ASSUME NEW i \in DOMAIN chan', chan'[i].node = n, chan'[i].to # nodeState'[n]
      PROVE  \E j \in DOMAIN chan' :
               j > i /\ chan'[j].node = n /\ chan'[j].to = nodeState'[n]
  <2>1. i + 1 \in DOMAIN chan /\ i \in Nat /\ chan'[i] = chan[i + 1] BY <1>1
  <2>2. chan[i + 1].node = n /\ chan[i + 1].to # nodeState[n] BY <1>1, <1>5, <2>1
  <2>3. PICK j \in DOMAIN chan : j > i + 1 /\ Says(j) BY <1>2, <2>1, <2>2 DEF Told
  <2>4. j > 1 /\ j - 1 > i BY <1>1, <2>1, <2>3
  <2> QED BY <1>3, <2>3, <2>4
<1> QED BY <1>4, <1>5 DEF Told

\* What a resume sends again is what it holds of a node; what it has not sent is recorded.
LEMMA ToldRestart ==
  ASSUME Typed, Typed', NEW c \in Commands, Restart(c)
  PROVE  StatesTold'
<1> DEFINE done    == Completed
           failed  == FailedIn(c)
           blocked == BlockedBefore
           old     == done \cup failed \cup blocked
<1>1. PICK s \in Cascades(failed \cup blocked, old) :
        /\ Replay(done, failed, blocked, s) /\ s \in Seq(Nodes)
        /\ \A n \in Nodes : /\ n \in done => nodeState'[n] = "Done"
                            /\ n \in failed => nodeState'[n] = "Failed"
                            /\ n \in blocked \cup Range(s) => nodeState'[n] = "Blocked"
                            /\ n \notin old \cup Range(s) => nodeState'[n] = "Pending"
  BY RestartEffect
<1>2. /\ done \in SUBSET Nodes /\ failed \in SUBSET Nodes /\ blocked \in SUBSET Nodes
      /\ \A n \in done : rec[n] = "Done"
      /\ \A n \in failed : rec[n] = "Failed"
      /\ \A n \in blocked : rec[n] = "Blocked"
  BY DEF Completed, FailedIn, BlockedBefore
<1>3. PICK k \in Nat : Replayed(done, failed, blocked, s, chan', k)
  BY <1>1, <1>2, ReplaySends
<1>4. /\ DOMAIN s = 1 .. Len(s) /\ Len(s) \in Nat /\ \A i \in 1 .. Len(s) : s[i] \in Nodes
      /\ DOMAIN chan' = 1 .. Len(chan')
  <2>1. chan' \in Seq(Events) BY DEF Typed, ResumeTypeOK
  <2> QED BY <1>1, <2>1
<1>5. /\ Len(chan') = k + Len(s)
      /\ \A i \in 1 .. k : \/ chan'[i].node \in done /\ chan'[i].to = "Done"
                           \/ chan'[i].node \in failed /\ chan'[i].to = "Failed"
                           \/ chan'[i].node \in blocked /\ chan'[i].to = "Blocked"
      /\ \A j \in 1 .. Len(s) : chan'[k + j].node = s[j] /\ chan'[k + j].to = "Blocked"
  BY <1>3 DEF Replayed
<1>6. \A n \in Nodes : /\ n \in old => rec[n] = nodeState'[n]
                       /\ n \in Range(s) => nodeState'[n] = "Blocked"
  BY <1>1, <1>2
<1>7. \A i \in DOMAIN chan' : chan'[i].to = nodeState'[chan'[i].node]
  <2> TAKE i \in DOMAIN chan'
  <2>1. CASE i \in 1 .. k BY <1>1, <1>2, <1>5, <2>1
  <2>2. CASE i \notin 1 .. k
    <3>1. i - k \in 1 .. Len(s) /\ k + (i - k) = i BY <1>4, <1>5, <2>2
    <3>2. chan'[i].node = s[i - k] /\ chan'[i].to = "Blocked" BY <1>5, <3>1
    <3>3. s[i - k] \in Range(s) /\ s[i - k] \in Nodes BY <1>4, <3>1 DEF Range
    <3> QED BY <1>6, <3>2, <3>3
  <2> QED BY <2>1, <2>2
<1>8. ASSUME NEW n \in Nodes, nodeState'[n] # "Pending"
      PROVE  \/ rec[n] = nodeState'[n]
             \/ \E i \in DOMAIN chan' : chan'[i].node = n /\ chan'[i].to = nodeState'[n]
  <2>1. CASE n \in old BY <1>6, <2>1
  <2>2. CASE n \notin old
    <3>1. n \in Range(s) BY <1>1, <1>8, <2>2
    <3>2. PICK j \in 1 .. Len(s) : s[j] = n BY <1>4, <3>1 DEF Range
    <3>3. k + j \in DOMAIN chan' BY <1>4, <1>5
    <3> QED BY <1>5, <1>7, <3>2, <3>3
  <2> QED BY <2>1, <2>2
<1>9. rec' = rec BY DEF Restart, vault
<1> QED BY <1>7, <1>8, <1>9 DEF StatesTold, Told, Terminal

LEMMA ToldKept ==
  ASSUME Typed, Typed', StatesTold, [ResumeNext]_runVars
  PROVE  StatesTold'
<1>1. nodeState \in [Nodes -> Statuses] /\ last \in [Nodes -> {"none"} \cup Ends]
  BY DEF Typed, TypeOK, ResumeTypeOK
<1>2. CASE QuietStep
  <2>1. UNCHANGED nodeState
    BY <1>2 DEF QuietStep, Dispatch, Refuse, Release, StartSkip, Drained, EndSkip, EndWalk,
      TripCeiling
  <2> QED BY <1>2, <2>1, ToldSame DEF QuietStep, resumeVars, vault
<1>3. ASSUME NEW n \in Nodes, NEW outcome \in {"Done", "Failed"}, NEW says \in BOOLEAN,
             NEW unverified \in BOOLEAN, JoinStep(n, outcome, says, unverified)
      PROVE  StatesTold'
  <2>1. PICK es \in Seq(Events) :
          /\ Emit(es)
          /\ \A j \in 1 .. Len(es) : es[j].node = n
          /\ IF unverified THEN Len(es) = 1 ELSE Len(es) = 2 /\ es[2].to = outcome
    BY <1>3, JoinSends
  <2>2. /\ up /\ UNCHANGED rec
        /\ nodeState' = [nodeState EXCEPT ![n] = outcome]
        /\ last' = [last EXCEPT ![n] = outcome]
        /\ unverified => outcome = "Failed"
    BY <1>3 DEF JoinStep, Join, vault
  <2>3. /\ nodeState'[n] = outcome /\ last'[n] = outcome
        /\ \A m \in Nodes \ {n} : nodeState'[m] = nodeState[m] /\ last'[m] = last[m]
    BY <1>1, <2>2
  <2>4. /\ Len(es) \in Nat \ {0}
        /\ \/ es[Len(es)].to = nodeState'[n]
           \/ nodeState'[n] = "Failed" /\ last'[n] = "Failed"
    <3>1. Len(es) \in {1, 2} /\ (~unverified => Len(es) = 2 /\ es[2].to = outcome)
      BY <2>1
    <3>2. Len(es) \in Nat \ {0} BY <3>1
    <3>3. CASE unverified
      <4>1. nodeState'[n] = "Failed" /\ last'[n] = "Failed" BY <2>2, <2>3, <3>3
      <4> QED BY <3>2, <4>1
    <3>4. CASE ~unverified
      <4>1. Len(es) = 2 /\ es[2].to = nodeState'[n] BY <2>3, <3>1, <3>4
      <4>2. es[Len(es)].to = nodeState'[n] BY <4>1
      <4> QED BY <3>2, <4>2
    <3> QED BY <3>3, <3>4
  <2>5. Emit(es) /\ up /\ rec' = rec BY <2>1, <2>2
  <2>6. \A j \in 1 .. Len(es) : es[j].node = n BY <2>1
  <2> QED BY <2>3, <2>4, <2>5, <2>6, ToldSend
<1>4. ASSUME NEW n \in Nodes, NEW to \in Ends, NEW text \in Texts,
             Emit(<<Event(n, to, text)>>), up, UNCHANGED rec,
             nodeState' = [nodeState EXCEPT ![n] = to], last' = [last EXCEPT ![n] = to]
      PROVE  StatesTold'
  <2> DEFINE e == Event(n, to, text)
  <2>1. e \in Events /\ e.node = n /\ e.to = to BY DEF Event, Events, NodeEvents
  <2>2. Emit(<<e>>) BY <1>4
  <2> HIDE DEF e
  <2>3. /\ <<e>> \in Seq(Events) /\ Len(<<e>>) = 1
        /\ \A j \in 1 .. Len(<<e>>) : <<e>>[j].node = n
        /\ <<e>>[Len(<<e>>)].to = to
    BY <2>1
  <2>4. /\ nodeState'[n] = to
        /\ \A m \in Nodes \ {n} : nodeState'[m] = nodeState[m] /\ last'[m] = last[m]
    BY <1>1, <1>4
  <2> DEFINE es == <<e>>
  <2>5. /\ es \in Seq(Events) /\ Emit(es) /\ Len(es) \in Nat \ {0}
        /\ \A j \in 1 .. Len(es) : es[j].node = n
        /\ es[Len(es)].to = nodeState'[n]
    BY <2>2, <2>3, <2>4
  <2> HIDE DEF es
  <2> QED BY <1>4, <2>4, <2>5, ToldSend
<1>5. ASSUME NEW s \in Nodes, SkipStep(s) PROVE StatesTold'
  <2>1. CASE Terminal(s)
    <3>1. Emit(<<>>) /\ UNCHANGED <<up, rec, nodeState, last>>
      BY <1>5, <2>1 DEF SkipStep, Skip, vault
    <3>2. chan \in Seq(Events) BY DEF Typed, ResumeTypeOK
    <3>3. chan' = chan BY <3>1, <3>2 DEF Emit
    <3> QED BY <3>1, <3>3, ToldSame
  <2>2. CASE ~Terminal(s)
    <3>1. /\ Emit(<<Event(s, "Done", "blank")>>) /\ up /\ UNCHANGED rec
          /\ nodeState' = [nodeState EXCEPT ![s] = "Done"]
          /\ last' = [last EXCEPT ![s] = "Done"]
      BY <1>5, <2>2 DEF SkipStep, Skip, vault
    <3>2. "Done" \in Ends /\ "blank" \in Texts BY DEF Ends, Texts
    <3> QED BY <1>4, <3>1, <3>2
  <2> QED BY <2>1, <2>2
<1>6. ASSUME NEW m \in Nodes, BlockStep(m) PROVE StatesTold'
  <2>1. /\ Emit(<<Event(m, "Blocked", "none")>>) /\ up /\ UNCHANGED rec
        /\ nodeState' = [nodeState EXCEPT ![m] = "Blocked"]
        /\ last' = [last EXCEPT ![m] = "Blocked"]
    BY <1>6 DEF BlockStep, Block, vault
  <2>2. "Blocked" \in Ends /\ "none" \in Texts BY DEF Ends, Texts
  <2> QED BY <1>4, <2>1, <2>2
<1>7. CASE FinishStep
  <2> DEFINE e == Event(NoNode, IF Completes THEN "Completed" ELSE "Stopped", "none")
  <2>1. e \in Events /\ e.node = NoNode BY DEF Event, Events, EndEvents, Texts
  <2>2. Emit(<<e>>) /\ up /\ UNCHANGED <<rec, nodeState, last>>
    BY <1>7 DEF FinishStep, Finish, vault
  <2> HIDE DEF e
  <2>3. chan \in Seq(Events) /\ Len(chan) \in Nat BY DEF Typed, ResumeTypeOK
  <2>4. /\ DOMAIN chan' = 1 .. Len(chan) + 1 /\ DOMAIN chan = 1 .. Len(chan)
        /\ \A i \in DOMAIN chan : chan'[i] = chan[i]
        /\ chan'[Len(chan) + 1].node \notin Nodes
    BY <2>1, <2>2, <2>3, NodesAssumption DEF Emit
  <2>5. \A n \in Nodes : \A i \in DOMAIN chan' :
          chan'[i].node = n => i \in DOMAIN chan /\ chan'[i] = chan[i]
    BY <2>3, <2>4
  <2>6. up' = up BY <1>7 DEF FinishStep
  <2>7. \A n \in Nodes : Told(n) => Told(n)'
    BY <2>2, <2>3, <2>4, <2>5 DEF Told
  <2> QED BY <2>2, <2>6, <2>7 DEF StatesTold, Terminal
<1>8. CASE Consume BY <1>8, ToldConsume
<1>9. CASE Exit \/ Crash BY <1>9 DEF Exit, Crash, StatesTold
<1>10. ASSUME NEW c \in Commands, Restart(c) PROVE StatesTold' BY <1>10, ToldRestart
<1>11. ASSUME NEW c \in Commands, ShowCached(c) PROVE StatesTold'
  BY <1>11, ToldSame DEF ShowCached, vault, vars
<1>12. ASSUME NEW c \in Commands, StartFresh(c) PROVE StatesTold'
  <2>1. \A n \in Nodes : nodeState'[n] = "Pending" BY <1>12 DEF StartFresh, Load
  <2> QED BY <2>1 DEF StatesTold, Terminal
<1>13. CASE UNCHANGED runVars
  BY <1>13, ToldSame DEF runVars, resumeVars, vault, vars
<1> QED
  BY <1>2, <1>3, <1>5, <1>6, <1>7, <1>8, <1>9, <1>10, <1>11, <1>12, <1>13
  DEF ResumeNext, RunStep, TaskEnds, Invoke

\* The process exits when the vault has been told everything.
LEMMA ExitTells ==
  ASSUME Typed, StatesTold, Exit
  PROVE  ExitTold'
<1>1. /\ up /\ chan = <<>> /\ UNCHANGED <<nodeState, rec, last>>
      /\ exit' = IF breach THEN "breach"
                 ELSE IF \E n \in Nodes : nodeState[n] = "Failed" THEN "failed" ELSE "ok"
  BY DEF Exit, vars
<1>2. \A n \in Nodes : Terminal(n) =>
        rec[n] = nodeState[n] \/ (nodeState[n] = "Failed" /\ last[n] = "Failed")
  BY <1>1 DEF StatesTold, Told
<1>3. ASSUME exit' = "ok", NoOldFailure' PROVE ReportedFailed' = {}
  <2>1. \A n \in Nodes : nodeState[n] # "Failed" BY <1>1, <1>3
  <2>2. ASSUME NEW n \in Nodes, rec[n] = "Failed" PROVE FALSE
    BY <1>1, <1>2, <1>3, <2>1, <2>2 DEF NoOldFailure, Terminal
  <2> QED BY <1>1, <2>2 DEF ReportedFailed
<1>4. ASSUME exit' = "failed", FailuresRecorded' PROVE ReportedFailed' # {}
  <2>1. PICK n \in Nodes : nodeState[n] = "Failed" BY <1>1, <1>4
  <2>2. rec[n] = "Failed" BY <1>1, <1>2, <1>4, <2>1 DEF FailuresRecorded, Terminal
  <2> QED BY <1>1, <2>2 DEF ReportedFailed
<1> QED BY <1>3, <1>4 DEF ExitTold

LEMMA ExitToldKept ==
  ASSUME Typed, StatesTold, ExitTold, [ResumeNext]_runVars
  PROVE  ExitTold'
<1>1. CASE UNCHANGED runVars
  BY <1>1 DEF ExitTold, NoOldFailure, FailuresRecorded, ReportedFailed, runVars, resumeVars,
    vault, vars
<1>2. CASE Exit BY <1>2, ExitTells
<1>3. CASE Crash BY <1>3 DEF Crash, ExitTold
<1>4. CASE up' BY <1>4 DEF ExitTold
<1>5. ASSUME NEW c \in Commands, ShowCached(c) PROVE ExitTold'
  <2>1. ReportedFailed' = ReportedFailed BY <1>5 DEF ShowCached, ReportedFailed, vault
  <2>2. exit' = IF ReportedFailed # {} THEN "failed" ELSE "ok" BY <1>5 DEF ShowCached
  <2> QED BY <2>1, <2>2 DEF ExitTold
<1>6. CASE ResumeNext /\ ~Exit /\ ~Crash /\ ~(\E c \in Commands : ShowCached(c))
  <2>1. CASE RunStep \/ TaskEnds
    <3>1. CASE QuietStep BY <1>4, <3>1 DEF QuietStep, resumeVars
    <3>2. ASSUME NEW n \in Nodes, SkipStep(n) PROVE up' BY <3>2 DEF SkipStep
    <3>3. ASSUME NEW n \in Nodes, BlockStep(n) PROVE up' BY <3>3 DEF BlockStep
    <3>4. CASE FinishStep BY <1>4, <3>4 DEF FinishStep
    <3>5. ASSUME NEW n \in Nodes, NEW outcome \in {"Done", "Failed"},
                 NEW says \in BOOLEAN, NEW unverified \in BOOLEAN,
                 JoinStep(n, outcome, says, unverified)
          PROVE  up'
      BY <3>5 DEF JoinStep
    <3> QED BY <1>4, <1>6, <2>1, <3>1, <3>2, <3>3, <3>4, <3>5 DEF RunStep, TaskEnds
  <2>2. CASE Consume BY <1>4, <2>2 DEF Consume
  <2>3. CASE Invoke BY <1>4, <1>6, <2>3 DEF Invoke, Restart, StartFresh
  <2> QED BY <1>6, <2>1, <2>2, <2>3 DEF ResumeNext
<1> QED BY <1>1, <1>2, <1>3, <1>5, <1>6

\* Asking again for a run that is complete gives the exit status it had, in the process
\* that completed it or in one that showed the report before: a failure stays one unless
\* it was of a verification, and a success unless the vault holds a failure of an earlier
\* run.  For every DAG, and however the runs before were invoked and ended.
THEOREM CachedExitSound == ResumeSpec => CachedExitAgrees
<1> DEFINE Agrees ==
      complete /\ ~up /\ ~up' =>
        /\ exit = "ok" /\ NoOldFailure => exit' = "ok"
        /\ exit = "failed" /\ FailuresRecorded => exit' = "failed"
<1>1. ResumeInit => StatesTold /\ ExitTold
  BY DEF ResumeInit, Init, StatesTold, ExitTold, Terminal
<1>2. Typed /\ Typed' /\ StatesTold /\ ExitTold /\ [ResumeNext]_runVars
        => StatesTold' /\ ExitTold'
  BY ToldKept, ExitToldKept
<1>3. Typed /\ StatesTold /\ ExitTold /\ [ResumeNext]_runVars => [Agrees]_runVars
  <2> SUFFICES ASSUME ExitTold, [ResumeNext]_runVars, complete, ~up, ~up'
               PROVE  /\ exit = "ok" /\ NoOldFailure => exit' = "ok"
                      /\ exit = "failed" /\ FailuresRecorded => exit' = "failed"
    OBVIOUS
  <2>1. CASE UNCHANGED runVars BY <2>1 DEF runVars, resumeVars
  <2>2. ASSUME NEW c \in Commands, ShowCached(c)
        PROVE  /\ exit = "ok" /\ NoOldFailure => exit' = "ok"
               /\ exit = "failed" /\ FailuresRecorded => exit' = "failed"
    BY <2>2 DEF ShowCached, ExitTold
  <2>3. CASE ResumeNext /\ ~(\E c \in Commands : ShowCached(c))
    BY <2>3 DEF ResumeNext, RunStep, TaskEnds, Invoke, QuietStep, SkipStep, BlockStep,
      FinishStep, JoinStep, Consume, Restart, StartFresh, Exit, Crash
  <2> QED BY <2>1, <2>2, <2>3
<1>4. ResumeSpec => []Typed BY ResumeTypeCorrect
<1> QED BY <1>1, <1>2, <1>3, <1>4, PTL DEF ResumeSpec, CachedExitAgrees

\* Of runs that are resumed each time, failed nodes not retried, the exception for old
\* failures never applies.
THEOREM NoOldFailureLeft ==
  ASSUME PlainRun
  PROVE  ResumeSpec => [](PlainDag /\ complete => NoOldFailure)
<1>1. PlainDag /\ complete /\ (PlainDag => CompleteVaultAgrees) => NoOldFailure
  BY DEF CompleteVaultAgrees, NoOldFailure
<1> QED BY <1>1, CompleteVaultSound, PTL

=============================================================================
