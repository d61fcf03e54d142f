-------------------------- MODULE ProjectionProofs --------------------------
(***************************************************************************)
(* The proofs that the tables of the vault are a projection of its events  *)
(* (ProjectionsFollowLog of module Vault), in a file kept open and in one  *)
(* that is opened for each operation, and that what a server reports of a  *)
(* run that has ended is how it ended (EndReported of module Server).      *)
(***************************************************************************)
EXTENDS ServerProofs

\* Of a call of the sink that has appended its event, what is still to be done for a node.
StatePending(n)    == Place(2) /\ cur.node = n /\ cur.kind \in StateKinds
ArtifactPending(n) == (Place(2) \/ Place(3)) /\ cur.node = n /\ cur.kind \in Outcomes

\* The start that the last operation will write is the first of the log.
TimingPending(n) ==
  /\ (\E j \in 2 .. 5 : Place(j)) /\ cur.node = n /\ cur.kind \in TimingKinds
  /\ FirstAt(db.log, n, TimingKinds) =
       IF db.timing[n].start = 0 THEN Len(db.log) ELSE db.timing[n].start

\* node.retry has written the record and not yet the event.
Retrying(h)     == call[h].what = "retry" /\ script[h] = <<"append">>
RetryPending(n) == \E h \in Handlers : Retrying(h) /\ call[h].node = n

StateFollows(n) ==
  \/ db.state[n] = StateInLog(db.log, n)
  \/ kept /\ torn /\ StateInLog(db.log, n) = "Blocked"
  \/ StatePending(n) \/ RetryPending(n)

ArtifactFollows(n) == db.artifact[n] = LastAt(db.log, n, Outcomes) \/ ArtifactPending(n)
TimingFollows(n)   == db.timing[n] = TimingInLog(db.log, n) \/ TimingPending(n)

\* The sink's event is the last one until its call is over.
CurIsLast == \A j \in 2 .. 5 : Place(j) => Len(db.log) >= 1 /\ db.log[Len(db.log)] = cur

\* The start that the last operation keeps is the one that was read.
StartIsRead ==
  \A j \in 2 .. 5 :
    Place(j) /\ j = Len(Script(cur.kind)) /\ cur.kind \in TimingKinds
    => got = db.timing[cur.node].start

Trusted == kept \/ ~(lost \/ torn)

\* A node is marked for retry once.
RetriesDiffer ==
  \A g, h \in Handlers :
    call[g].what = "retry" /\ call[h].what = "retry" /\ call[g].node = call[h].node => g = h

FollowIInv ==
  /\ RetriesDiffer
  /\ Trusted =>
       /\ CurIsLast /\ StartIsRead
       /\ \A h \in Handlers : Retrying(h) => db.state[call[h].node] = "Pending"
       /\ \A n \in Nodes : StateFollows(n) /\ ArtifactFollows(n) /\ TimingFollows(n)

-----------------------------------------------------------------------------
(* What a log says of a node, before and after an event is appended.       *)

\* A set of positions has a first and a last one.
LEMMA SmallestOf ==
  ASSUME NEW S \in SUBSET Nat, S # {}
  PROVE  \E m \in S : \A k \in S : m <= k
<1>1. \E m \in S : \A k \in S : ~(<<k, m>> \in OpToRel(<, Nat))
  BY NatLessThanWellFounded, WFMin, Zenon
<1>2. PICK m \in S : \A k \in S : ~(<<k, m>> \in OpToRel(<, Nat)) BY <1>1, Zenon
<1>3. \A k \in S : ~(k < m) BY <1>2 DEF OpToRel
<1> QED BY <1>3

LEMMA LargestOf ==
  ASSUME NEW N \in Nat, NEW S \in SUBSET (1 .. N), S # {}
  PROVE  \E m \in S : \A k \in S : m >= k
<1> DEFINE T == {N - k : k \in S}
<1>1. T \in SUBSET Nat
  <2>1. \A k \in S : N - k \in Nat OBVIOUS
  <2> QED BY <2>1
<1>e. T # {}
  <2>1. PICK k \in S : TRUE OBVIOUS
  <2>2. N - k \in T OBVIOUS
  <2> QED BY <2>2
<1> HIDE DEF T
<1>2. PICK t \in T : \A u \in T : t <= u BY <1>1, <1>e, SmallestOf
<1>3. PICK m \in S : t = N - m BY <1>2 DEF T
<1>4. \A k \in S : N - m <= N - k BY <1>2, <1>3 DEF T
<1> QED BY <1>4

LEMMA PositionsFacts ==
  ASSUME NEW log \in Seq(Events), NEW n, NEW kinds
  PROVE  /\ Positions(log, n, kinds) \subseteq 1 .. Len(log)
         /\ LastAt(log, n, kinds) \in 0 .. Len(log)
         /\ LastAt(log, n, kinds) = 0 <=> Positions(log, n, kinds) = {}
         /\ LastAt(log, n, kinds) # 0 => LastAt(log, n, kinds) \in Positions(log, n, kinds)
         /\ FirstAt(log, n, kinds) \in 0 .. Len(log)
         /\ FirstAt(log, n, kinds) = 0 <=> Positions(log, n, kinds) = {}
         /\ \A i \in Positions(log, n, kinds) : FirstAt(log, n, kinds) <= i
         /\ FirstAt(log, n, kinds) # 0 => FirstAt(log, n, kinds) \in Positions(log, n, kinds)
<1> DEFINE P == Positions(log, n, kinds)
<1>1. Len(log) \in Nat /\ DOMAIN log = 1 .. Len(log) BY LenProperties
<1>2. P \subseteq 1 .. Len(log) BY <1>1 DEF Positions
<1> HIDE DEF P
<1>3. P # {} => Max(P) \in P
  <2> SUFFICES ASSUME P # {} PROVE Max(P) \in P OBVIOUS
  <2>1. \E m \in P : \A k \in P : m >= k BY <1>1, <1>2, LargestOf
  <2> QED BY <2>1 DEF Max
<1>4. P # {} => Min(P) \in P /\ \A i \in P : Min(P) <= i
  <2> SUFFICES ASSUME P # {} PROVE Min(P) \in P /\ \A i \in P : Min(P) <= i OBVIOUS
  <2>1. P \in SUBSET Nat BY <1>1, <1>2
  <2>2. \E m \in P : \A k \in P : m <= k BY <2>1, SmallestOf
  <2> QED BY <2>2 DEF Min
<1>5. LastAt(log, n, kinds) = IF P = {} THEN 0 ELSE Max(P) BY DEF LastAt, P
<1>6. FirstAt(log, n, kinds) = IF P = {} THEN 0 ELSE Min(P) BY DEF FirstAt, P
<1>7. /\ LastAt(log, n, kinds) \in 0 .. Len(log)
      /\ LastAt(log, n, kinds) = 0 <=> P = {}
      /\ LastAt(log, n, kinds) # 0 => LastAt(log, n, kinds) \in P
  <2>1. CASE P = {} BY <1>1, <1>5, <2>1
  <2>2. CASE P # {}
    <3>1. LastAt(log, n, kinds) \in P BY <1>3, <1>5, <2>2
    <3>2. LastAt(log, n, kinds) \in 1 .. Len(log) BY <1>2, <3>1
    <3> QED BY <1>1, <2>2, <3>1, <3>2
  <2> QED BY <2>1, <2>2
<1>8. /\ FirstAt(log, n, kinds) \in 0 .. Len(log)
      /\ FirstAt(log, n, kinds) = 0 <=> P = {}
      /\ \A i \in P : FirstAt(log, n, kinds) <= i
      /\ FirstAt(log, n, kinds) # 0 => FirstAt(log, n, kinds) \in P
  <2>1. CASE P = {} BY <1>1, <1>6, <2>1
  <2>2. CASE P # {}
    <3> HIDE DEF P
    <3>1. FirstAt(log, n, kinds) \in P /\ \A i \in P : FirstAt(log, n, kinds) <= i
      BY <1>4, <1>6, <2>2
    <3>2. FirstAt(log, n, kinds) \in 1 .. Len(log) BY <1>2, <3>1
    <3> QED BY <1>1, <2>2, <3>1, <3>2
  <2> QED BY <2>1, <2>2
<1> QED BY <1>2, <1>7, <1>8 DEF P

\* An event is the last of its kinds when it is the last of the log.
LEMMA LogLast ==
  ASSUME NEW log \in Seq(Events), Len(log) >= 1, NEW n, log[Len(log)].node = n
  PROVE  /\ \A kinds : log[Len(log)].kind \in kinds => LastAt(log, n, kinds) = Len(log)
         /\ log[Len(log)].kind \in StateKinds
              => StateInLog(log, n) = StateOf(log[Len(log)].kind)
         /\ log[Len(log)].kind \in TimingKinds
              => TimingInLog(log, n) = [start |-> FirstAt(log, n, TimingKinds),
                                        ended |-> log[Len(log)].kind \in Outcomes]
<1>1. Len(log) \in Nat /\ DOMAIN log = 1 .. Len(log) BY LenProperties
<1>2. ASSUME NEW kinds, log[Len(log)].kind \in kinds PROVE LastAt(log, n, kinds) = Len(log)
  <2> DEFINE P == Positions(log, n, kinds)
             L == Len(log)
  <2>1. L \in P BY <1>1, <1>2 DEF Positions
  <2>2. P \subseteq 1 .. L BY PositionsFacts
  <2>3. LastAt(log, n, kinds) = Max(P) BY <2>1 DEF LastAt
  <2> HIDE DEF P, L
  <2>4. \A k \in P : L >= k BY <2>2
  <2>5. \A x \in P : (\A k \in P : x >= k) => x = L BY <2>1, <2>2
  <2>6. Max(P) = L BY <2>1, <2>4, <2>5 DEF Max
  <2> QED BY <2>3, <2>6 DEF L
<1>3. Len(log) # 0 BY <1>1
<1> QED BY <1>2, <1>3 DEF StateInLog, TimingInLog

LEMMA LogAppend ==
  ASSUME NEW log \in Seq(Events), NEW e \in Events, NEW n, NEW kinds
  PROVE  LET more == Append(log, e) IN
         /\ more \in Seq(Events) /\ Len(more) = Len(log) + 1 /\ more[Len(more)] = e
         /\ ~(e.node = n /\ e.kind \in kinds) =>
              /\ LastAt(more, n, kinds) = LastAt(log, n, kinds)
              /\ FirstAt(more, n, kinds) = FirstAt(log, n, kinds)
         /\ e.node = n /\ e.kind \in kinds =>
              /\ LastAt(more, n, kinds) = Len(more)
              /\ FirstAt(more, n, kinds) = IF FirstAt(log, n, kinds) = 0 THEN Len(more)
                                           ELSE FirstAt(log, n, kinds)
<1> DEFINE more == Append(log, e)
           P == Positions(log, n, kinds)
           Q == Positions(more, n, kinds)
<1>1. /\ more \in Seq(Events) /\ Len(more) = Len(log) + 1 /\ more[Len(log) + 1] = e
      /\ \A i \in 1 .. Len(log) : more[i] = log[i] /\ Len(log) \in Nat
  BY AppendProperties, LenProperties
<1>2. Len(log) \in Nat /\ DOMAIN log = 1 .. Len(log) /\ DOMAIN more = 1 .. Len(log) + 1
  BY <1>1, LenProperties
<1> HIDE DEF more
<1>3. CASE ~(e.node = n /\ e.kind \in kinds)
  <2>1. \A i : i \in Q <=> i \in P BY <1>1, <1>2, <1>3 DEF Positions
  <2>2. P = Q BY <2>1
  <2> HIDE DEF P, Q
  <2>3. LastAt(more, n, kinds) = LastAt(log, n, kinds) BY <2>2 DEF LastAt, P, Q
  <2>4. FirstAt(more, n, kinds) = FirstAt(log, n, kinds) BY <2>2 DEF FirstAt, P, Q
  <2> QED BY <1>1, <1>2, <1>3, <2>3, <2>4 DEF more
<1>4. CASE e.node = n /\ e.kind \in kinds
  <2>1. LastAt(more, n, kinds) = Len(more) BY <1>1, <1>2, <1>4, LogLast
  <2>2. \A i : i \in Q <=> i \in P \/ i = Len(log) + 1 BY <1>1, <1>2, <1>4 DEF Positions
  <2>p. P \subseteq 1 .. Len(log) BY PositionsFacts
  <2> DEFINE F == FirstAt(log, n, kinds)
             G == FirstAt(more, n, kinds)
  <2>3. /\ F \in Nat /\ (F = 0 <=> P = {}) /\ (\A i \in P : F <= i) /\ (F # 0 => F \in P)
    BY <1>2, PositionsFacts
  <2>4. /\ G \in Nat /\ (G = 0 <=> Q = {}) /\ (\A i \in Q : G <= i) /\ (G # 0 => G \in Q)
    BY <1>1, <1>2, PositionsFacts
  <2> HIDE DEF F, G, P, Q
  <2>5. Len(log) + 1 \in Q /\ G # 0 BY <2>2, <2>4
  <2>6. G = IF F = 0 THEN Len(log) + 1 ELSE F
    <3>1. CASE F = 0 BY <2>2, <2>3, <2>4, <2>5, <3>1
    <3>2. CASE F # 0
      <4>1. F \in Q /\ G <= F BY <2>2, <2>3, <2>4, <3>2
      <4>2. F \in 1 .. Len(log) BY <2>3, <2>p, <3>2
      <4>3. G \in P BY <1>2, <2>2, <2>3, <2>4, <2>5, <4>1, <4>2
      <4>4. F <= G BY <2>3, <4>3
      <4>5. G = F BY <2>3, <2>4, <4>1, <4>4
      <4> QED BY <3>2, <4>5
    <3> QED BY <3>1, <3>2
  <2> QED BY <1>1, <1>2, <1>4, <2>1, <2>6 DEF F, G, more
<1> QED BY <1>3, <1>4

\* The same for the record and the timing.
LEMMA RecordAppend ==
  ASSUME NEW log \in Seq(Events), NEW e \in Events, NEW n
  PROVE  LET more == Append(log, e) IN
         /\ StateInLog(more, n) = IF e.node = n /\ e.kind \in StateKinds THEN StateOf(e.kind)
                                  ELSE StateInLog(log, n)
         /\ TimingInLog(more, n) =
              IF e.node = n /\ e.kind \in TimingKinds
              THEN [start |-> FirstAt(more, n, TimingKinds), ended |-> e.kind \in Outcomes]
              ELSE TimingInLog(log, n)
         /\ TimingInLog(log, n).start = FirstAt(log, n, TimingKinds)
<1> DEFINE more == Append(log, e)
<1>1. /\ more \in Seq(Events) /\ Len(more) = Len(log) + 1 /\ more[Len(more)] = e
      /\ \A i \in 1 .. Len(log) : more[i] = log[i] /\ Len(log) \in Nat
  BY AppendProperties, LenProperties
<1>l. Len(log) \in Nat BY LenProperties
<1>a. \A kinds : ~(e.node = n /\ e.kind \in kinds) =>
        /\ LastAt(more, n, kinds) = LastAt(log, n, kinds)
        /\ FirstAt(more, n, kinds) = FirstAt(log, n, kinds)
  BY LogAppend
<1> HIDE DEF more
<1>2. \A kinds : LastAt(log, n, kinds) # 0 => LastAt(log, n, kinds) \in 1 .. Len(log)
  BY <1>l, PositionsFacts
<1>3. StateInLog(more, n) = IF e.node = n /\ e.kind \in StateKinds THEN StateOf(e.kind)
                            ELSE StateInLog(log, n)
  <2>1. CASE e.node = n /\ e.kind \in StateKinds BY <1>1, <1>l, <2>1, LogLast
  <2>2. CASE ~(e.node = n /\ e.kind \in StateKinds)
    BY <1>1, <1>2, <1>a, <2>2 DEF StateInLog
  <2> QED BY <2>1, <2>2
<1>4. TimingInLog(more, n) =
        IF e.node = n /\ e.kind \in TimingKinds
        THEN [start |-> FirstAt(more, n, TimingKinds), ended |-> e.kind \in Outcomes]
        ELSE TimingInLog(log, n)
  <2>1. CASE e.node = n /\ e.kind \in TimingKinds BY <1>1, <1>l, <2>1, LogLast
  <2>2. CASE ~(e.node = n /\ e.kind \in TimingKinds)
    BY <1>1, <1>2, <1>a, <2>2 DEF TimingInLog
  <2> QED BY <2>1, <2>2
<1>5. TimingInLog(log, n).start = FirstAt(log, n, TimingKinds)
  <2>1. LastAt(log, n, TimingKinds) = 0 <=> FirstAt(log, n, TimingKinds) = 0
    BY PositionsFacts
  <2> QED BY <2>1 DEF TimingInLog, NoTiming
<1> QED BY <1>3, <1>4, <1>5 DEF more

-----------------------------------------------------------------------------
(* The operations of a call.                                               *)

\* Two rests of a sequence of the same length are the same one.
LEMMA RestUnique ==
  ASSUME NEW s \in Seq(Ops), NEW i \in 1 .. Len(s), NEW j \in 1 .. Len(s),
         SubSeq(s, i, Len(s)) = SubSeq(s, j, Len(s))
  PROVE  i = j
<1>1. Len(s) \in Nat BY LenProperties
<1>2. ASSUME NEW k \in 1 .. Len(s) PROVE Len(SubSeq(s, k, Len(s))) = Len(s) - k + 1
  <2>1. \A l \in k .. Len(s) : s[l] \in Ops BY <1>1, ElementOfSeq
  <2> QED BY <1>1, <2>1, SubSeqProperties
<1>3. Len(s) - i + 1 = Len(s) - j + 1 BY <1>2
<1> QED BY <1>1, <1>3

LEMMA PlaceUnique ==
  ASSUME NEW i \in Nat, NEW j \in Nat, Place(i), Place(j)
  PROVE  i = j
<1>1. Script(cur.kind) \in Seq(Ops) BY PlaceFacts
<1> QED BY <1>1, RestUnique DEF Place

\* Where the sink is next.
LEMMA PlacesNext ==
  ASSUME kept' = kept
  PROVE  /\ script'[Sink] \in {<<>>, <<"start">>} => \A i \in Nat : ~Place(i)'
         /\ cur' = cur /\ script'[Sink] = script[Sink] => \A i \in Nat : Place(i)' <=> Place(i)
<1>1. \A k : Script(k)' = Script(k) BY DEF Script
<1>2. ASSUME NEW i \in Nat, Place(i)' PROVE script'[Sink] \notin {<<>>, <<"start">>}
  <2> DEFINE s == Script(cur'.kind)
  <2>1. cur' \in Sent /\ i \in 1 .. Len(s) /\ script'[Sink] = SubSeq(s, i, Len(s))
    BY <1>1, <1>2 DEF Place
  <2>2. cur'.kind \in Kinds BY <2>1, SentAreEvents DEF Events
  <2>3. s \in Seq(Ops) /\ s[i] # "start" BY <2>1, <2>2, ScriptFacts
  <2> HIDE DEF s
  <2>4. script'[Sink] # <<>> /\ Head(script'[Sink]) = s[i] BY <2>1, <2>3, RestFacts
  <2>5. Head(<<"start">>) = "start" OBVIOUS
  <2> QED BY <2>3, <2>4, <2>5
<1>3. cur' = cur /\ script'[Sink] = script[Sink] => \A i \in Nat : Place(i)' <=> Place(i)
  BY <1>1 DEF Place
<1> QED BY <1>2, <1>3

\* Each operation has its place in the call.
LEMMA ShapeFacts ==
  ASSUME NEW kind \in Kinds, NEW j \in 1 .. Len(Script(kind))
  PROVE  LET op == Script(kind)[j]
             last == Len(Script(kind)) IN
         /\ last \in 1 .. 5 /\ j \in 1 .. 5
         /\ op \in {"append", "state", "artifact", "readTiming", "timing", "readRow", "row",
                    "budget", "project"}
         /\ op = "project" <=> kept /\ kind \in InTransaction
         /\ op = "project" => last = 1
         /\ op # "project" => (op = "append" <=> j = 1)
         /\ op = "state" <=> j = 2 /\ kind \in {"Dispatched", "Critic", "Done", "Failed", "Blocked"}
         /\ op = "artifact" <=> j = 3 /\ kind \in Outcomes
         /\ op # "project" /\ kind \in StateKinds \ {"ManualRetry"} => last >= 2
         /\ op # "project" /\ kind \in Outcomes => last = 5
         /\ op # "project" /\ kind \in TimingKinds => last >= 3
         /\ op = "readTiming" <=> j >= 2 /\ j + 1 = last /\ kind \in TimingKinds \cup {"Critic"}
         /\ op = "timing" <=> j >= 2 /\ j = last /\ kind \in TimingKinds \cup {"Critic"}
         /\ op \in {"readRow", "row", "budget"} =>
              j >= 2 /\ kind \in {"Submitted", "DagDone", "Budget"}
<1>1. CASE kept /\ kind \in InTransaction
  <2>1. Script(kind) = <<"project">> BY <1>1 DEF Script
  <2>2. Len(Script(kind)) = 1 /\ j = 1 /\ Script(kind)[j] = "project" BY <2>1
  <2> QED BY <1>1, <2>2
<1>2. CASE ~(kept /\ kind \in InTransaction)
  <2>1. Script(kind) = Steps(kind) BY <1>2 DEF Script
  <2>2. CASE kind = "Dispatched"
    <3>k. /\ kind \in {"Dispatched", "Critic", "Done", "Failed", "Blocked"}
          /\ kind \notin Outcomes /\ kind \in StateKinds \ {"ManualRetry"}
          /\ kind \in TimingKinds /\ kind \in TimingKinds \cup {"Critic"}
          /\ kind \notin {"Submitted", "DagDone", "Budget"}
      BY <2>2 DEF Outcomes, StateKinds, TimingKinds
    <3>1. Len(Script(kind)) = 4 /\ Script(kind)[1] = "append"
          /\ Script(kind)[2] = "state"
          /\ Script(kind)[3] = "readTiming" /\ Script(kind)[4] = "timing"
      BY <2>1, <2>2, StepsLength
    <3>2. j = 1 \/ j = 2 \/ j = 3 \/ j = 4 BY <3>1
    <3>3. CASE j = 1
      <4>1. Script(kind)[j] = "append" /\ Len(Script(kind)) = 4 BY <3>1, <3>3
      <4> QED BY <1>2, <3>k, <3>3, <4>1
    <3>4. CASE j = 2
      <4>1. Script(kind)[j] = "state" /\ Len(Script(kind)) = 4 BY <3>1, <3>4
      <4> QED BY <1>2, <3>k, <3>4, <4>1
    <3>5. CASE j = 3
      <4>1. Script(kind)[j] = "readTiming" /\ Len(Script(kind)) = 4 BY <3>1, <3>5
      <4> QED BY <1>2, <3>k, <3>5, <4>1
    <3>6. CASE j = 4
      <4>1. Script(kind)[j] = "timing" /\ Len(Script(kind)) = 4 BY <3>1, <3>6
      <4> QED BY <1>2, <3>k, <3>6, <4>1
    <3> QED BY <3>2, <3>3, <3>4, <3>5, <3>6
  <2>3. CASE kind = "Critic"
    <3>k. /\ kind \in {"Dispatched", "Critic", "Done", "Failed", "Blocked"}
          /\ kind \notin Outcomes /\ kind \notin StateKinds \ {"ManualRetry"}
          /\ kind \notin TimingKinds /\ kind \in TimingKinds \cup {"Critic"}
          /\ kind \notin {"Submitted", "DagDone", "Budget"}
      BY <2>3 DEF Outcomes, StateKinds, TimingKinds
    <3>1. Len(Script(kind)) = 4 /\ Script(kind)[1] = "append"
          /\ Script(kind)[2] = "state"
          /\ Script(kind)[3] = "readTiming" /\ Script(kind)[4] = "timing"
      BY <2>1, <2>3, StepsLength
    <3>2. j = 1 \/ j = 2 \/ j = 3 \/ j = 4 BY <3>1
    <3>3. CASE j = 1
      <4>1. Script(kind)[j] = "append" /\ Len(Script(kind)) = 4 BY <3>1, <3>3
      <4> QED BY <1>2, <3>k, <3>3, <4>1
    <3>4. CASE j = 2
      <4>1. Script(kind)[j] = "state" /\ Len(Script(kind)) = 4 BY <3>1, <3>4
      <4> QED BY <1>2, <3>k, <3>4, <4>1
    <3>5. CASE j = 3
      <4>1. Script(kind)[j] = "readTiming" /\ Len(Script(kind)) = 4 BY <3>1, <3>5
      <4> QED BY <1>2, <3>k, <3>5, <4>1
    <3>6. CASE j = 4
      <4>1. Script(kind)[j] = "timing" /\ Len(Script(kind)) = 4 BY <3>1, <3>6
      <4> QED BY <1>2, <3>k, <3>6, <4>1
    <3> QED BY <3>2, <3>3, <3>4, <3>5, <3>6
  <2>4. CASE kind = "Done"
    <3>k. /\ kind \in {"Dispatched", "Critic", "Done", "Failed", "Blocked"}
          /\ kind \in Outcomes /\ kind \in StateKinds \ {"ManualRetry"}
          /\ kind \in TimingKinds /\ kind \in TimingKinds \cup {"Critic"}
          /\ kind \notin {"Submitted", "DagDone", "Budget"}
      BY <2>4 DEF Outcomes, StateKinds, TimingKinds
    <3>1. Len(Script(kind)) = 5 /\ Script(kind)[1] = "append"
          /\ Script(kind)[2] = "state"
          /\ Script(kind)[3] = "artifact" /\ Script(kind)[4] = "readTiming"
          /\ Script(kind)[5] = "timing"
      BY <2>1, <3>k, StepsLength
    <3>2. j = 1 \/ j = 2 \/ j = 3 \/ j = 4 \/ j = 5 BY <3>1
    <3>3. CASE j = 1
      <4>1. Script(kind)[j] = "append" /\ Len(Script(kind)) = 5 BY <3>1, <3>3
      <4> QED BY <1>2, <3>k, <3>3, <4>1
    <3>4. CASE j = 2
      <4>1. Script(kind)[j] = "state" /\ Len(Script(kind)) = 5 BY <3>1, <3>4
      <4> QED BY <1>2, <3>k, <3>4, <4>1
    <3>5. CASE j = 3
      <4>1. Script(kind)[j] = "artifact" /\ Len(Script(kind)) = 5 BY <3>1, <3>5
      <4> QED BY <1>2, <3>k, <3>5, <4>1
    <3>6. CASE j = 4
      <4>1. Script(kind)[j] = "readTiming" /\ Len(Script(kind)) = 5 BY <3>1, <3>6
      <4> QED BY <1>2, <3>k, <3>6, <4>1
    <3>7. CASE j = 5
      <4>1. Script(kind)[j] = "timing" /\ Len(Script(kind)) = 5 BY <3>1, <3>7
      <4> QED BY <1>2, <3>k, <3>7, <4>1
    <3> QED BY <3>2, <3>3, <3>4, <3>5, <3>6, <3>7
  <2>5. CASE kind = "Failed"
    <3>k. /\ kind \in {"Dispatched", "Critic", "Done", "Failed", "Blocked"}
          /\ kind \in Outcomes /\ kind \in StateKinds \ {"ManualRetry"}
          /\ kind \in TimingKinds /\ kind \in TimingKinds \cup {"Critic"}
          /\ kind \notin {"Submitted", "DagDone", "Budget"}
      BY <2>5 DEF Outcomes, StateKinds, TimingKinds
    <3>1. Len(Script(kind)) = 5 /\ Script(kind)[1] = "append"
          /\ Script(kind)[2] = "state"
          /\ Script(kind)[3] = "artifact" /\ Script(kind)[4] = "readTiming"
          /\ Script(kind)[5] = "timing"
      BY <2>1, <3>k, StepsLength
    <3>2. j = 1 \/ j = 2 \/ j = 3 \/ j = 4 \/ j = 5 BY <3>1
    <3>3. CASE j = 1
      <4>1. Script(kind)[j] = "append" /\ Len(Script(kind)) = 5 BY <3>1, <3>3
      <4> QED BY <1>2, <3>k, <3>3, <4>1
    <3>4. CASE j = 2
      <4>1. Script(kind)[j] = "state" /\ Len(Script(kind)) = 5 BY <3>1, <3>4
      <4> QED BY <1>2, <3>k, <3>4, <4>1
    <3>5. CASE j = 3
      <4>1. Script(kind)[j] = "artifact" /\ Len(Script(kind)) = 5 BY <3>1, <3>5
      <4> QED BY <1>2, <3>k, <3>5, <4>1
    <3>6. CASE j = 4
      <4>1. Script(kind)[j] = "readTiming" /\ Len(Script(kind)) = 5 BY <3>1, <3>6
      <4> QED BY <1>2, <3>k, <3>6, <4>1
    <3>7. CASE j = 5
      <4>1. Script(kind)[j] = "timing" /\ Len(Script(kind)) = 5 BY <3>1, <3>7
      <4> QED BY <1>2, <3>k, <3>7, <4>1
    <3> QED BY <3>2, <3>3, <3>4, <3>5, <3>6, <3>7
  <2>6. CASE kind = "Retry"
    <3>k. /\ kind \notin {"Dispatched", "Critic", "Done", "Failed", "Blocked"}
          /\ kind \notin Outcomes /\ kind \notin StateKinds \ {"ManualRetry"}
          /\ kind \in TimingKinds /\ kind \in TimingKinds \cup {"Critic"}
          /\ kind \notin {"Submitted", "DagDone", "Budget"}
      BY <2>6 DEF Outcomes, StateKinds, TimingKinds
    <3>1. Len(Script(kind)) = 3 /\ Script(kind)[1] = "append"
          /\ Script(kind)[2] = "readTiming"
          /\ Script(kind)[3] = "timing"
      BY <2>1, <2>6, StepsLength
    <3>2. j = 1 \/ j = 2 \/ j = 3 BY <3>1
    <3>3. CASE j = 1
      <4>1. Script(kind)[j] = "append" /\ Len(Script(kind)) = 3 BY <3>1, <3>3
      <4> QED BY <1>2, <3>k, <3>3, <4>1
    <3>4. CASE j = 2
      <4>1. Script(kind)[j] = "readTiming" /\ Len(Script(kind)) = 3 BY <3>1, <3>4
      <4> QED BY <1>2, <3>k, <3>4, <4>1
    <3>5. CASE j = 3
      <4>1. Script(kind)[j] = "timing" /\ Len(Script(kind)) = 3 BY <3>1, <3>5
      <4> QED BY <1>2, <3>k, <3>5, <4>1
    <3> QED BY <3>2, <3>3, <3>4, <3>5
  <2>7. CASE kind = "Blocked"
    <3>k. /\ kind \in {"Dispatched", "Critic", "Done", "Failed", "Blocked"}
          /\ kind \notin Outcomes /\ kind \in StateKinds \ {"ManualRetry"}
          /\ kind \notin TimingKinds /\ kind \notin TimingKinds \cup {"Critic"}
          /\ kind \notin {"Submitted", "DagDone", "Budget"}
      BY <2>7 DEF Outcomes, StateKinds, TimingKinds
    <3>1. Len(Script(kind)) = 2 /\ Script(kind)[1] = "append"
          /\ Script(kind)[2] = "state"
      BY <2>1, <2>7, StepsLength
    <3>2. j = 1 \/ j = 2 BY <3>1
    <3> QED BY <1>2, <3>k, <3>1, <3>2
  <2>8. CASE kind = "Budget"
    <3>k. /\ kind \notin {"Dispatched", "Critic", "Done", "Failed", "Blocked"}
          /\ kind \notin Outcomes /\ kind \notin StateKinds \ {"ManualRetry"}
          /\ kind \notin TimingKinds /\ kind \notin TimingKinds \cup {"Critic"}
          /\ kind \in {"Submitted", "DagDone", "Budget"}
      BY <2>8 DEF Outcomes, StateKinds, TimingKinds
    <3>1. Len(Script(kind)) = 2 /\ Script(kind)[1] = "append"
          /\ Script(kind)[2] = "budget"
      BY <2>1, <2>8, StepsLength
    <3>2. j = 1 \/ j = 2 BY <3>1
    <3> QED BY <1>2, <3>k, <3>1, <3>2
  <2>9. CASE kind = "Submitted"
    <3>k. /\ kind \notin {"Dispatched", "Critic", "Done", "Failed", "Blocked"}
          /\ kind \notin Outcomes /\ kind \notin StateKinds \ {"ManualRetry"}
          /\ kind \notin TimingKinds /\ kind \notin TimingKinds \cup {"Critic"}
          /\ kind \in {"Submitted", "DagDone", "Budget"}
      BY <2>9 DEF Outcomes, StateKinds, TimingKinds
    <3>1. Len(Script(kind)) = 3 /\ Script(kind)[1] = "append"
          /\ Script(kind)[2] = "readRow"
          /\ Script(kind)[3] = "row"
      BY <2>1, <2>9, StepsLength
    <3>2. j = 1 \/ j = 2 \/ j = 3 BY <3>1
    <3>3. CASE j = 1
      <4>1. Script(kind)[j] = "append" /\ Len(Script(kind)) = 3 BY <3>1, <3>3
      <4> QED BY <1>2, <3>k, <3>3, <4>1
    <3>4. CASE j = 2
      <4>1. Script(kind)[j] = "readRow" /\ Len(Script(kind)) = 3 BY <3>1, <3>4
      <4> QED BY <1>2, <3>k, <3>4, <4>1
    <3>5. CASE j = 3
      <4>1. Script(kind)[j] = "row" /\ Len(Script(kind)) = 3 BY <3>1, <3>5
      <4> QED BY <1>2, <3>k, <3>5, <4>1
    <3> QED BY <3>2, <3>3, <3>4, <3>5
  <2>10. CASE kind = "DagDone"
    <3>k. /\ kind \notin {"Dispatched", "Critic", "Done", "Failed", "Blocked"}
          /\ kind \notin Outcomes /\ kind \notin StateKinds \ {"ManualRetry"}
          /\ kind \notin TimingKinds /\ kind \notin TimingKinds \cup {"Critic"}
          /\ kind \in {"Submitted", "DagDone", "Budget"}
      BY <2>10 DEF Outcomes, StateKinds, TimingKinds
    <3>1. Len(Script(kind)) = 3 /\ Script(kind)[1] = "append"
          /\ Script(kind)[2] = "readRow"
          /\ Script(kind)[3] = "row"
      BY <2>1, <2>10, StepsLength
    <3>2. j = 1 \/ j = 2 \/ j = 3 BY <3>1
    <3>3. CASE j = 1
      <4>1. Script(kind)[j] = "append" /\ Len(Script(kind)) = 3 BY <3>1, <3>3
      <4> QED BY <1>2, <3>k, <3>3, <4>1
    <3>4. CASE j = 2
      <4>1. Script(kind)[j] = "readRow" /\ Len(Script(kind)) = 3 BY <3>1, <3>4
      <4> QED BY <1>2, <3>k, <3>4, <4>1
    <3>5. CASE j = 3
      <4>1. Script(kind)[j] = "row" /\ Len(Script(kind)) = 3 BY <3>1, <3>5
      <4> QED BY <1>2, <3>k, <3>5, <4>1
    <3> QED BY <3>2, <3>3, <3>4, <3>5
  <2>11. CASE kind = "ManualRetry"
    <3>k. /\ kind \notin {"Dispatched", "Critic", "Done", "Failed", "Blocked"}
          /\ kind \notin Outcomes /\ kind \notin StateKinds \ {"ManualRetry"}
          /\ kind \notin TimingKinds /\ kind \notin TimingKinds \cup {"Critic"}
          /\ kind \notin {"Submitted", "DagDone", "Budget"}
      BY <2>11 DEF Outcomes, StateKinds, TimingKinds
    <3>1. Len(Script(kind)) = 1 /\ Script(kind)[1] = "append"
      BY <2>1, <2>11, StepsLength
    <3>2. j = 1 BY <3>1
    <3> QED BY <1>2, <3>k, <3>1, <3>2
  <2> QED BY <2>2, <2>3, <2>4, <2>5, <2>6, <2>7, <2>8, <2>9, <2>10, <2>11
          DEF Kinds, TaskKinds, Outcomes
<1> QED BY <1>1, <1>2

-----------------------------------------------------------------------------
(* Steps that leave the records alone.                                     *)

Records == <<db.log, db.state, db.artifact, db.timing>>

\* A step that neither writes a record nor moves a call that is to write one.
LEMMA FollowFrame ==
  ASSUME FollowIInv, RetriesDiffer', Trusted' => Trusted, UNCHANGED <<kept, Records>>,
         torn => torn',
         \A j \in 2 .. 5 : (Place(j)' <=> Place(j)) /\ (Place(j) => UNCHANGED <<cur, got>>),
         \A h \in Handlers : Retrying(h)' <=> Retrying(h),
         \A h \in Handlers : Retrying(h) => call'[h].node = call[h].node
  PROVE  FollowIInv'
<1> SUFFICES ASSUME Trusted'
             PROVE  /\ CurIsLast' /\ StartIsRead'
                    /\ \A h \in Handlers : Retrying(h)' => db'.state[call'[h].node] = "Pending"
                    /\ \A n \in Nodes : StateFollows(n)' /\ ArtifactFollows(n)' /\ TimingFollows(n)'
  BY DEF FollowIInv
<1>1. /\ CurIsLast /\ StartIsRead
      /\ \A h \in Handlers : Retrying(h) => db.state[call[h].node] = "Pending"
      /\ \A n \in Nodes : StateFollows(n) /\ ArtifactFollows(n) /\ TimingFollows(n)
  BY DEF FollowIInv
<1>2. /\ db'.log = db.log /\ db'.state = db.state /\ db'.artifact = db.artifact
      /\ db'.timing = db.timing
  BY DEF Records
<1>3. \A k : Script(k)' = Script(k) BY DEF Script
<1>4. CurIsLast' BY <1>1, <1>2 DEF CurIsLast
<1>5. StartIsRead' BY <1>1, <1>2, <1>3 DEF StartIsRead
<1>6. \A h \in Handlers : Retrying(h)' => db'.state[call'[h].node] = "Pending"
  BY <1>1, <1>2
<1>7. ASSUME NEW n \in Nodes PROVE StateFollows(n)'
  <2>1. StatePending(n) => StatePending(n)' BY DEF StatePending
  <2>2. RetryPending(n) => RetryPending(n)' BY DEF RetryPending
  <2> QED BY <1>1, <1>2, <2>1, <2>2 DEF StateFollows
<1>8. ASSUME NEW n \in Nodes PROVE ArtifactFollows(n)'
  <2>1. ArtifactPending(n) => ArtifactPending(n)' BY DEF ArtifactPending
  <2> QED BY <1>1, <1>2, <2>1 DEF ArtifactFollows
<1>9. ASSUME NEW n \in Nodes PROVE TimingFollows(n)'
  <2>1. TimingPending(n) => TimingPending(n)' BY <1>2 DEF TimingPending
  <2> QED BY <1>1, <1>2, <2>1 DEF TimingFollows
<1> QED BY <1>4, <1>5, <1>6, <1>7, <1>8, <1>9

LEMMA FollowInit == ServerInit => FollowIInv
<1> SUFFICES ASSUME ServerInit PROVE FollowIInv OBVIOUS
<1>1. /\ db \in Vaults /\ script = [c \in Clients |-> <<>>]
      /\ call = [h \in Handlers |-> [what |-> "none", node |-> NoNode]]
  BY DEF ServerInit, VaultInit
<1>2. \A n \in Nodes : /\ db.state[n] = StateInLog(db.log, n)
                       /\ db.artifact[n] = LastAt(db.log, n, Outcomes)
                       /\ db.timing[n] = TimingInLog(db.log, n)
  BY <1>1, VaultsAssumption
<1>3. \A j \in Nat : ~Place(j)
  <2>1. script[Sink] = <<>> BY <1>1, ClientsDiffer
  <2> QED BY <2>1, PlaceFacts
<1>4. \A h \in Handlers : call[h].what # "retry" BY <1>1
<1>5. \A n \in Nodes : StateFollows(n) /\ ArtifactFollows(n) /\ TimingFollows(n)
  BY <1>2 DEF StateFollows, ArtifactFollows, TimingFollows
<1>6. CurIsLast /\ StartIsRead BY <1>3 DEF CurIsLast, StartIsRead
<1> QED BY <1>4, <1>5, <1>6 DEF FollowIInv, RetriesDiffer, Retrying

\* No request marks a node that another one has marked.
LEMMA RetriesDifferStep ==
  ServerIInv /\ RetriesDiffer /\ [ServerNext]_allVars => RetriesDiffer'
<1> SUFFICES ASSUME ServerIInv, RetriesDiffer, [ServerNext]_allVars PROVE RetriesDiffer'
  OBVIOUS
<1>i. /\ call \in [Handlers -> [what : {"none", "await", "status", "counting", "tokening", "retry"},
                                node : Nodes \cup {NoNode}]]
      /\ \A h \in Handlers : call[h].what = "retry" => call[h].node \in retried
  BY DEF ServerIInv, CallTypeOK, ScriptsFollow, CallScript
<1> USE DEF serverVars, vaultVars
\* A request that is no retry afterwards differs from every other.
<1>1. ASSUME NEW h \in Handlers, call'[h].what # "retry",
             \A g \in Handlers \ {h} : call'[g] = call[g]
      PROVE  RetriesDiffer'
  BY <1>1 DEF RetriesDiffer
<1>2. CASE call' = call BY <1>2 DEF RetriesDiffer
<1>3. ASSUME NEW h \in Handlers,
             Await(h) \/ Status(h) \/ SeesEnd(h) \/ GivesUp(h) \/ HandlerFails(h)
      PROVE  RetriesDiffer'
  <2>1. PICK what \in {"none", "await", "status", "counting", "tokening"} :
          call' = [call EXCEPT ![h] = [what |-> what, node |-> NoNode]]
    BY <1>3 DEF Await, Status, SeesEnd, GivesUp, HandlerFails, Goes, NoCall
  <2> QED BY <1>1, <1>i, <2>1
<1>4. ASSUME NEW h \in Handlers, HandlerStep(h) PROVE RetriesDiffer'
  <2>1. call' = call \/ call' = [call EXCEPT ![h] = NoCall] BY <1>4 DEF HandlerStep
  <2>2. CASE call' = [call EXCEPT ![h] = NoCall] BY <1>1, <1>i, <2>2 DEF NoCall
  <2> QED BY <1>2, <2>1, <2>2
<1>5. ASSUME NEW h \in Handlers, NEW n \in Nodes, Retry(h, n) PROVE RetriesDiffer'
  <2>1. n \notin retried /\ call' = [call EXCEPT ![h] = [what |-> "retry", node |-> n]]
    BY <1>5 DEF Retry, Goes
  <2> QED BY <1>i, <2>1 DEF RetriesDiffer
<1>6. CASE Dies BY <1>6 DEF Dies, NoCall, RetriesDiffer
<1>7. CASE Submit \/ TaskEnds \/ Cancel \/ TaskAborts \/ Sweep \/ UNCHANGED allVars
           \/ UNCHANGED serverVars
  BY <1>2, <1>7 DEF Submit, TaskEnds, Cancel, TaskAborts, Sweep, allVars
<1> QED BY <1>3, <1>4, <1>5, <1>6, <1>7 DEF ServerNext, HandlerMoves

-----------------------------------------------------------------------------
(* The sink.                                                               *)

\* An operation for one node leaves the records of the others.
LEMMA ApplyOthers ==
  ASSUME NEW t \in Tables, NEW e \in Events, NEW read, NEW op, NEW n \in Nodes, n # e.node
  PROVE  LET u == Apply(op, t, e, read) IN
         u.state[n] = t.state[n] /\ u.artifact[n] = t.artifact[n] /\ u.timing[n] = t.timing[n]
<1> DEFINE Same(u) == /\ DOMAIN u = DOMAIN t /\ u.state[n] = t.state[n]
                      /\ u.artifact[n] = t.artifact[n] /\ u.timing[n] = t.timing[n]
                      /\ DOMAIN u.state = Nodes /\ DOMAIN u.artifact = Nodes
                      /\ DOMAIN u.timing = Nodes
<1>0. Same(t) BY DEF Tables
<1>d. {"log", "state", "artifact", "timing", "row", "budget", "extra"} \subseteq DOMAIN t
  BY DEF Tables
<1>1. ASSUME NEW u, Same(u) PROVE Same(Append_(u, e)) BY <1>1, <1>d DEF Append_
<1>2. ASSUME NEW u, Same(u) PROVE Same(PutState(u, e)) BY <1>2, <1>d DEF PutState
<1>3. ASSUME NEW u, Same(u) PROVE Same(PutArtifact(u, e)) BY <1>3, <1>d DEF PutArtifact
<1>4. ASSUME NEW u, Same(u), NEW start PROVE Same(PutTiming(u, e, start))
  BY <1>4, <1>d DEF PutTiming
<1>5. Same(PutRow(t, RowAfter(e.kind, t.row))) BY <1>0, <1>d DEF PutRow
<1>6. Same(PutBudget(t)) BY <1>0, <1>d DEF PutBudget
<1> HIDE DEF Same
<1>7. Same(Project(t, e))
  BY <1>0, <1>1, <1>2, <1>3, <1>4 DEF Project, ProjectDispatched, ProjectEnded, ProjectRetry
<1>8. Same(Apply(op, t, e, read)) BY <1>0, <1>1, <1>2, <1>3, <1>4, <1>5, <1>6, <1>7 DEF Apply
<1> QED BY <1>8 DEF Same

\* What an operation writes for the node of its event.
Timing(t, e, start) == [start |-> IF start = 0 THEN Len(t.log) ELSE start,
                        ended |-> e.kind \in Outcomes]

LEMMA ApplyOwn ==
  ASSUME NEW t \in Tables, NEW e \in Events, NEW read \in Nat, e.node \in Nodes
  PROVE  LET n == e.node
             After(op) == Apply(op, t, e, read) IN
         /\ LET u == After("append") IN
              /\ u.state[n] = t.state[n] /\ u.artifact[n] = t.artifact[n]
              /\ u.timing[n] = t.timing[n] /\ u.log = Append(t.log, e)
         /\ LET u == After("state") IN
              /\ u.state[n] = IF e.kind = "Critic" THEN t.state[n] ELSE StateOf(e.kind)
              /\ u.artifact[n] = t.artifact[n] /\ u.timing[n] = t.timing[n] /\ u.log = t.log
         /\ LET u == After("artifact") IN
              /\ u.artifact[n] = Len(t.log)
              /\ u.state[n] = t.state[n] /\ u.timing[n] = t.timing[n] /\ u.log = t.log
         /\ LET u == After("timing") IN
              /\ u.timing[n] = IF e.kind = "Critic" THEN t.timing[n] ELSE Timing(t, e, read)
              /\ u.state[n] = t.state[n] /\ u.artifact[n] = t.artifact[n] /\ u.log = t.log
<1> USE DEF Tables, Apply
<1>1. LET u == Apply("append", t, e, read) IN
      /\ u.state[e.node] = t.state[e.node] /\ u.artifact[e.node] = t.artifact[e.node]
      /\ u.timing[e.node] = t.timing[e.node] /\ u.log = Append(t.log, e)
  BY DEF Append_
<1>2. LET u == Apply("state", t, e, read) IN
      /\ u.state[e.node] = IF e.kind = "Critic" THEN t.state[e.node] ELSE StateOf(e.kind)
      /\ u.artifact[e.node] = t.artifact[e.node] /\ u.timing[e.node] = t.timing[e.node]
      /\ u.log = t.log
  BY DEF PutState
<1>3. LET u == Apply("artifact", t, e, read) IN
      /\ u.artifact[e.node] = Len(t.log) /\ u.state[e.node] = t.state[e.node]
      /\ u.timing[e.node] = t.timing[e.node] /\ u.log = t.log
  BY DEF PutArtifact
<1>4. LET u == Apply("timing", t, e, read) IN
      /\ u.timing[e.node] = IF e.kind = "Critic" THEN t.timing[e.node] ELSE Timing(t, e, read)
      /\ u.state[e.node] = t.state[e.node] /\ u.artifact[e.node] = t.artifact[e.node]
      /\ u.log = t.log
  BY DEF PutTiming, Timing
<1> QED BY <1>1, <1>2, <1>3, <1>4

LEMMA ApplyNone ==
  ASSUME NEW t \in Tables, NEW e, NEW read, NEW op \in {"readTiming", "readRow", "row", "budget"}
  PROVE  LET u == Apply(op, t, e, read) IN
         /\ u.timing = t.timing /\ u.state = t.state /\ u.artifact = t.artifact
         /\ u.log = t.log
BY DEF Tables, Apply, PutRow, PutBudget

LEMMA ProjectOwn ==
  ASSUME NEW t \in Tables, NEW e \in Events, e.node \in Nodes, e.kind \in InTransaction
  PROVE  LET u == Project(t, e)
             n == e.node IN
         /\ u.log = Append(t.log, e)
         /\ u.state[n] = IF e.kind \in StateKinds THEN StateOf(e.kind) ELSE t.state[n]
         /\ u.artifact[n] = IF e.kind \in Outcomes THEN Len(u.log) ELSE t.artifact[n]
         /\ u.timing[n] = IF e.kind = "Critic" THEN t.timing[n]
                          ELSE Timing(u, e, t.timing[n].start)
<1> DEFINE s == Started_(t, e)
           t1 == Append_(t, e)
           t2 == PutState(t1, e)
           t3 == PutArtifact(t2, e)
           n == e.node
           Has(u) == /\ DOMAIN u = DOMAIN t /\ n \in DOMAIN u.state
                     /\ n \in DOMAIN u.artifact /\ n \in DOMAIN u.timing
<1>s. s = t.timing[n].start BY DEF Started_
<1>d. Has(t) /\ {"log", "state", "artifact", "timing", "extra"} \subseteq DOMAIN t BY DEF Tables
<1>1. /\ Has(t1) /\ t1.log = Append(t.log, e) /\ t1.state[n] = t.state[n]
      /\ t1.artifact[n] = t.artifact[n] /\ t1.timing[n] = t.timing[n]
  BY <1>d DEF Append_
<1> HIDE DEF t1, s
<1>2. /\ Has(t2) /\ t2.log = t1.log
      /\ t2.state[n] = IF e.kind = "Critic" THEN t1.state[n] ELSE StateOf(e.kind)
      /\ t2.artifact[n] = t1.artifact[n] /\ t2.timing[n] = t1.timing[n]
  BY <1>1, <1>d DEF PutState
<1> HIDE DEF t2
<1>3. /\ Has(t3) /\ t3.log = t2.log /\ t3.artifact[n] = Len(t2.log)
      /\ t3.state[n] = t2.state[n] /\ t3.timing[n] = t2.timing[n]
  BY <1>2, <1>d DEF PutArtifact
<1> HIDE DEF t3
<1>4. ASSUME NEW u, Has(u)
      PROVE  LET v == PutTiming(u, e, s) IN
             /\ v.log = u.log /\ v.state[n] = u.state[n] /\ v.artifact[n] = u.artifact[n]
             /\ v.timing[n] = IF e.kind = "Critic" THEN u.timing[n] ELSE Timing(v, e, s)
  <2>1. CASE e.kind = "Critic" BY <2>1 DEF PutTiming
  <2>2. CASE e.kind # "Critic"
    <3> DEFINE w == [start |-> IF s = 0 THEN Len(u.log) ELSE s, ended |-> e.kind \in Outcomes]
    <3>1. PutTiming(u, e, s) = [u EXCEPT !.timing[n] = w] BY <2>2 DEF PutTiming
    <3>2. Timing(u, e, s) = w BY DEF Timing
    <3> HIDE DEF w
    <3>3. /\ PutTiming(u, e, s).log = u.log /\ PutTiming(u, e, s).state = u.state
          /\ PutTiming(u, e, s).artifact = u.artifact
          /\ PutTiming(u, e, s).timing = [u.timing EXCEPT ![n] = w]
      BY <1>4, <1>d, <3>1
    <3>4. Timing(PutTiming(u, e, s), e, s) = w BY <3>2, <3>3 DEF Timing
    <3>5. PutTiming(u, e, s).timing[n] = w BY <1>4, <3>3
    <3> QED BY <2>2, <3>3, <3>4, <3>5
  <2> QED BY <2>1, <2>2
<1>5. CASE e.kind \in {"Dispatched", "Critic"}
  <2>1. Project(t, e) = PutTiming(t2, e, s)
    BY <1>5 DEF Project, Outcomes, ProjectDispatched, t2, t1, s
  <2>2. /\ e.kind \notin Outcomes
        /\ e.kind \in StateKinds <=> e.kind # "Critic"
    BY <1>5 DEF Outcomes, StateKinds
  <2>3. /\ Project(t, e).log = t2.log /\ Project(t, e).state[n] = t2.state[n]
        /\ Project(t, e).artifact[n] = t2.artifact[n]
        /\ Project(t, e).timing[n] = IF e.kind = "Critic" THEN t2.timing[n]
                                     ELSE Timing(Project(t, e), e, s)
    BY <1>2, <1>4, <2>1
  <2> QED BY <1>1, <1>2, <1>s, <2>2, <2>3
<1>6. CASE e.kind \in Outcomes
  <2>1. Project(t, e) = PutTiming(t3, e, s)
    BY <1>6 DEF Project, Outcomes, ProjectEnded, t3, t2, t1, s
  <2>2. e.kind \in StateKinds /\ e.kind # "Critic" BY <1>6 DEF Outcomes, StateKinds
  <2>3. /\ Project(t, e).log = t3.log /\ Project(t, e).state[n] = t3.state[n]
        /\ Project(t, e).artifact[n] = t3.artifact[n]
        /\ Project(t, e).timing[n] = Timing(Project(t, e), e, s)
    BY <1>3, <1>4, <2>1, <2>2
  <2> QED BY <1>1, <1>2, <1>3, <1>6, <1>s, <2>2, <2>3
<1>7. CASE e.kind = "Retry"
  <2>1. Project(t, e) = PutTiming(t1, e, s)
    BY <1>7 DEF Project, Outcomes, ProjectRetry, t1, s
  <2> QED BY <1>1, <1>4, <1>7, <1>s, <2>1 DEF Outcomes, StateKinds
<1> QED BY <1>5, <1>6, <1>7 DEF InTransaction, Outcomes

\* One operation of the sink: what was pending is written, or what is written pending.
LEMMA SinkStepFollows ==
  ASSUME ServerIInv, FollowIInv, SinkStep, UNCHANGED serverVars
  PROVE  FollowIInv'
<1> DEFINE kind == cur.kind
           last == Len(Script(cur.kind))
<1>v. VaultTypeOK /\ CallTypeOK /\ ScriptsFollow /\ OneTask BY DEF ServerIInv
<1>s. /\ kept' = kept /\ UNCHANGED <<lost, torn>> /\ call' = call /\ script[Sink] # <<>>
      /\ script[Sink] # <<"start">>
  BY DEF SinkStep, runVars, faultVars, serverVars
<1>r. RetriesDiffer' BY <1>s DEF FollowIInv, RetriesDiffer
<1> SUFFICES ASSUME Trusted'
             PROVE  /\ CurIsLast' /\ StartIsRead'
                    /\ \A h \in Handlers : Retrying(h)' => db'.state[call'[h].node] = "Pending"
                    /\ \A n \in Nodes : StateFollows(n)' /\ ArtifactFollows(n)' /\ TimingFollows(n)'
  BY <1>r DEF FollowIInv
<1>f. /\ CurIsLast /\ StartIsRead
      /\ \A n \in Nodes : StateFollows(n) /\ ArtifactFollows(n) /\ TimingFollows(n)
  BY <1>s DEF FollowIInv, Trusted
<1>h. \A h \in Handlers : ~Retrying(h) /\ ~Retrying(h)'
  BY <1>v, <1>s DEF Retrying, OneTask, Drained
<1>1. PICK j \in Nat :
        /\ Place(j) /\ db' = Apply(Script(kind)[j], db, cur, got)
        /\ j = last => script'[Sink] = <<>>
        /\ j < last => Place(j + 1)' /\ cur' = cur
        /\ db' \in Tables
  BY <1>v, SinkStepEffect DEF ScriptsFollow
<1> DEFINE op == Script(kind)[j]
<1>2. /\ cur \in Events /\ kind \in Kinds /\ Script(kind) \in Seq(Ops) /\ j \in 1 .. last
      /\ Head(script[Sink]) = op /\ cur \in Sent
  BY <1>1, PlaceFacts DEF Place
<1>o. /\ last \in 1 .. 5 /\ j \in 1 .. 5
      /\ op \in {"append", "state", "artifact", "readTiming", "timing", "readRow", "row",
                 "budget", "project"}
      /\ op = "project" <=> kept /\ kind \in InTransaction
      /\ op = "project" => last = 1
      /\ op # "project" => (op = "append" <=> j = 1)
      /\ op = "state" <=> j = 2 /\ kind \in {"Dispatched", "Critic", "Done", "Failed", "Blocked"}
      /\ op = "artifact" <=> j = 3 /\ kind \in Outcomes
      /\ op # "project" /\ kind \in StateKinds \ {"ManualRetry"} => last >= 2
      /\ op # "project" /\ kind \in Outcomes => last = 5
      /\ op # "project" /\ kind \in TimingKinds => last >= 3
      /\ op = "readTiming" <=> j >= 2 /\ j + 1 = last /\ kind \in TimingKinds \cup {"Critic"}
      /\ op = "timing" <=> j >= 2 /\ j = last /\ kind \in TimingKinds \cup {"Critic"}
      /\ op \in {"readRow", "row", "budget"} =>
           j >= 2 /\ kind \in {"Submitted", "DagDone", "Budget"}
  BY <1>2, ShapeFacts
<1>k. kind # "ManualRetry" /\ (kind \notin {"Submitted", "DagDone"} => cur.node \in Nodes)
  BY <1>2 DEF Sent, Event, TaskKinds, Outcomes
<1>3. \A i \in Nat : Place(i) => i = j BY <1>1, PlaceUnique
<1>4. \A i \in Nat : Place(i)' => i = j + 1 /\ j < last /\ cur' = cur
  <2>1. CASE j = last BY <1>1, <1>s, <2>1, PlacesNext
  <2>2. CASE j < last
    <3>1. cur' = cur /\ Place(j + 1)' BY <1>1, <2>2
    <3>2. Script(cur.kind)' = Script(kind) BY <1>s, <3>1 DEF Script
    <3>3. ASSUME NEW i \in Nat, Place(i)' PROVE i = j + 1
      <4>1. /\ i \in 1 .. last /\ j + 1 \in 1 .. last
            /\ SubSeq(Script(kind), i, last) = SubSeq(Script(kind), j + 1, last)
        BY <3>1, <3>2, <3>3 DEF Place
      <4> QED BY <1>2, <4>1, RestUnique
    <3> QED BY <2>2, <3>1, <3>3
  <2> QED BY <1>2, <1>o, <2>1, <2>2
<1>t. db \in Tables /\ got \in Nat /\ db.log \in Seq(Events) /\ Len(db.log) \in Nat
  BY <1>v, LenProperties DEF VaultTypeOK, Tables
<1> HIDE DEF kind, last, op
<1>g. db' = Apply(op, db, cur, got) BY <1>1 DEF op, kind
<1>p. ASSUME op = "project" PROVE db' = Project(db, cur) /\ cur.node \in Nodes
  BY <1>g, <1>o, <1>k, <1>p DEF Apply, InTransaction, Outcomes
<1>e. IF op \in {"append", "project"} THEN db'.log = Append(db.log, cur) ELSE db'.log = db.log
  <2>1. CASE op = "append" BY <1>g, <1>t, <2>1 DEF Apply, Append_, Tables
  <2>2. CASE op = "project" BY <1>o, <1>p, <1>t, <1>2, <2>2, ProjectOwn DEF kind
  <2>3. CASE op \in {"state", "artifact", "timing"}
    BY <1>g, <1>t, <2>3 DEF Apply, PutState, PutArtifact, PutTiming, Tables
  <2>4. CASE op \in {"readTiming", "readRow", "row", "budget"}
    BY <1>g, <1>t, <2>4, ApplyNone
  <2> QED BY <1>o, <2>1, <2>2, <2>3, <2>4
<1>m. op \in {"append", "project"} => Len(db'.log) = Len(db.log) + 1 /\ db'.log[Len(db'.log)] = cur
  BY <1>e, <1>t, <1>2, LogAppend
\* Behind the first operation the event is the last of the log.
<1>c. ASSUME j >= 2 PROVE Len(db.log) >= 1 /\ db.log[Len(db.log)] = cur /\ op # "append"
                          /\ op # "project"
  <2>1. last # 1 BY <1>o, <1>2, <1>c
  <2>2. j \in 2 .. 5 /\ op # "project" /\ op # "append" BY <1>o, <1>c, <2>1
  <2> QED BY <1>1, <1>f, <2>2 DEF CurIsLast
<1>5. CurIsLast'
  <2> SUFFICES ASSUME NEW i \in 2 .. 5, Place(i)'
               PROVE  Len(db'.log) >= 1 /\ db'.log[Len(db'.log)] = cur'
    BY DEF CurIsLast
  <2>1. i = j + 1 /\ j < last /\ cur' = cur BY <1>4
  <2>2. CASE op = "append" BY <1>m, <1>t, <2>1, <2>2
  <2>3. CASE op # "append" BY <1>c, <1>e, <1>o, <2>1, <2>3
  <2> QED BY <2>2, <2>3
<1>6. StartIsRead'
  <2> SUFFICES ASSUME NEW i \in 2 .. 5, Place(i)', i = Len(Script(cur.kind))',
                      cur'.kind \in TimingKinds
               PROVE  got' = db'.timing[cur'.node].start
    BY DEF StartIsRead
  <2>1. i = j + 1 /\ j < last /\ cur' = cur BY <1>4
  <2>2. Script(cur.kind)' = Script(cur.kind) BY <1>s, <2>1 DEF Script
  <2>3. j + 1 = last /\ kind \in TimingKinds BY <2>1, <2>2 DEF last, kind
  <2>4. op = "readTiming" BY <1>o, <2>3
  <2>5. got' = db.timing[cur.node].start BY <1>2, <2>4 DEF SinkStep
  <2>6. db'.timing = db.timing BY <1>g, <1>t, <2>4, ApplyNone
  <2> QED BY <2>1, <2>5, <2>6
<1>7. ASSUME NEW n \in Nodes, n # cur.node
      PROVE  StateFollows(n)' /\ ArtifactFollows(n)' /\ TimingFollows(n)'
  <2>1. /\ db'.state[n] = db.state[n] /\ db'.artifact[n] = db.artifact[n]
        /\ db'.timing[n] = db.timing[n]
    BY <1>g, <1>t, <1>2, <1>7, ApplyOthers
  <2>2. /\ StateInLog(db'.log, n) = StateInLog(db.log, n)
        /\ TimingInLog(db'.log, n) = TimingInLog(db.log, n)
        /\ LastAt(db'.log, n, Outcomes) = LastAt(db.log, n, Outcomes)
    <3>1. CASE op \in {"append", "project"}
      <4>1. db'.log = Append(db.log, cur) BY <1>e, <3>1
      <4>2. LastAt(db'.log, n, Outcomes) = LastAt(db.log, n, Outcomes)
        BY <1>t, <1>2, <1>7, <4>1, LogAppend
      <4>3. /\ StateInLog(db'.log, n) = StateInLog(db.log, n)
            /\ TimingInLog(db'.log, n) = TimingInLog(db.log, n)
        BY <1>t, <1>2, <1>7, <4>1, RecordAppend
      <4> QED BY <4>2, <4>3
    <3>2. CASE op \notin {"append", "project"} BY <1>e, <3>2
    <3> QED BY <3>1, <3>2
  <2>3. ~StatePending(n) /\ ~ArtifactPending(n) /\ ~TimingPending(n) /\ ~RetryPending(n)
    BY <1>h, <1>7 DEF StatePending, ArtifactPending, TimingPending, RetryPending
  <2> QED BY <1>f, <1>s, <2>1, <2>2, <2>3 DEF StateFollows, ArtifactFollows, TimingFollows
\* What the operation writes for the node of the event ...
<1>8. ASSUME cur.node \in Nodes
      PROVE  LET n == cur.node IN
             /\ db'.state[n] = IF op \in {"state", "project"} /\ kind \in StateKinds
                               THEN StateOf(kind) ELSE db.state[n]
             /\ db'.artifact[n] = IF op \in {"artifact", "project"} /\ kind \in Outcomes
                                  THEN Len(db'.log) ELSE db.artifact[n]
             /\ db'.timing[n] =
                  IF op \in {"timing", "project"} /\ kind \in TimingKinds
                  THEN Timing(db', cur, IF op = "timing" THEN got ELSE db.timing[n].start)
                  ELSE db.timing[n]
  <2> USE DEF StateKinds, TimingKinds, Outcomes, InTransaction, kind
  <2>1. CASE op = "append" BY <1>8, <1>g, <1>t, <1>2, <2>1, ApplyOwn
  <2>2. CASE op = "state" BY <1>8, <1>g, <1>t, <1>2, <1>o, <2>2, ApplyOwn
  <2>3. CASE op = "artifact" BY <1>8, <1>g, <1>t, <1>2, <1>o, <1>e, <2>3, ApplyOwn
  <2>4. CASE op = "timing"
    <3>1. Timing(db', cur, got) = Timing(db, cur, got) BY <1>e, <2>4 DEF Timing
    <3> QED BY <1>8, <1>g, <1>t, <1>2, <1>o, <2>4, <3>1, ApplyOwn
  <2>5. CASE op = "project" BY <1>8, <1>p, <1>t, <1>2, <1>o, <2>5, ProjectOwn
  <2>6. CASE op \in {"readTiming", "readRow", "row", "budget"}
    BY <1>g, <1>t, <2>6, ApplyNone
  <2> QED BY <1>o, <2>1, <2>2, <2>3, <2>4, <2>5, <2>6
\* ... and what the log says of it then.
<1>9. LET n == cur.node
          F == FirstAt(db.log, n, TimingKinds)
          G == FirstAt(db'.log, n, TimingKinds) IN
      /\ StateInLog(db'.log, n) = IF kind \in StateKinds THEN StateOf(kind)
                                  ELSE StateInLog(db.log, n)
      /\ LastAt(db'.log, n, Outcomes) = IF kind \in Outcomes THEN Len(db'.log)
                                        ELSE LastAt(db.log, n, Outcomes)
      /\ TimingInLog(db'.log, n) =
           IF kind \in TimingKinds THEN [start |-> G, ended |-> kind \in Outcomes]
           ELSE TimingInLog(db.log, n)
      /\ kind \in TimingKinds /\ j = 1 => G = IF F = 0 THEN Len(db'.log) ELSE F
      /\ j >= 2 => G = F
      /\ kind \in TimingKinds /\ j >= 2 => F # 0
      /\ TimingInLog(db.log, n).start = F
  <2> DEFINE n == cur.node
  <2>0. TimingInLog(db.log, n).start = FirstAt(db.log, n, TimingKinds)
    BY <1>t, <1>2, RecordAppend
  <2>1. CASE j = 1
    <3>1. db'.log = Append(db.log, cur) BY <1>e, <1>o, <2>1
    <3>2. /\ LastAt(db'.log, n, Outcomes) = IF kind \in Outcomes THEN Len(db'.log)
                                            ELSE LastAt(db.log, n, Outcomes)
          /\ kind \in TimingKinds =>
               FirstAt(db'.log, n, TimingKinds) =
                 IF FirstAt(db.log, n, TimingKinds) = 0 THEN Len(db'.log)
                 ELSE FirstAt(db.log, n, TimingKinds)
      BY <1>t, <1>2, <3>1, LogAppend DEF kind
    <3>3. /\ StateInLog(db'.log, n) = IF kind \in StateKinds THEN StateOf(kind)
                                      ELSE StateInLog(db.log, n)
          /\ TimingInLog(db'.log, n) =
               IF kind \in TimingKinds
               THEN [start |-> FirstAt(db'.log, n, TimingKinds), ended |-> kind \in Outcomes]
               ELSE TimingInLog(db.log, n)
      BY <1>t, <1>2, <3>1, RecordAppend DEF kind
    <3> QED BY <2>0, <2>1, <3>2, <3>3
  <2>2. CASE j >= 2
    <3>1. Len(db.log) >= 1 /\ db.log[Len(db.log)] = cur /\ db'.log = db.log
      BY <1>c, <1>e, <2>2
    <3>2. /\ \A kinds : kind \in kinds => LastAt(db.log, n, kinds) = Len(db.log)
          /\ kind \in StateKinds => StateInLog(db.log, n) = StateOf(kind)
          /\ kind \in TimingKinds =>
               TimingInLog(db.log, n) = [start |-> FirstAt(db.log, n, TimingKinds),
                                         ended |-> kind \in Outcomes]
      BY <1>t, <3>1, LogLast DEF kind
    <3>3. kind \in TimingKinds => FirstAt(db.log, n, TimingKinds) # 0
      BY <1>t, <3>1, <3>2, PositionsFacts
    <3> QED BY <2>0, <2>2, <3>1, <3>2, <3>3
  <2> QED BY <1>o, <2>1, <2>2
<1>n. ~RetryPending(cur.node) BY <1>h DEF RetryPending
<1>10. ASSUME NEW n \in Nodes, n = cur.node PROVE StateFollows(n)'
  <2>1. CASE kind \in StateKinds /\ op \in {"state", "project"}
    <3>1. db'.state[n] = StateInLog(db'.log, n) BY <1>8, <1>9, <1>10, <2>1
    <3> QED BY <3>1 DEF StateFollows
  <2>2. CASE kind \in StateKinds /\ op = "append"
    <3>1. j = 1 /\ last >= 2 BY <1>k, <1>o, <2>2
    <3>2. Place(2)' /\ cur' = cur BY <1>1, <3>1 DEF last
    <3> QED BY <1>10, <2>2, <3>2 DEF StateFollows, StatePending, kind
  <2>3. CASE ~(kind \in StateKinds /\ op \in {"append", "state", "project"})
    <3>1. db'.state[n] = db.state[n] BY <1>8, <1>10, <2>3
    <3>2. StateInLog(db'.log, n) = StateInLog(db.log, n)
      <4>1. CASE kind \notin StateKinds BY <1>9, <1>10, <4>1
      <4>2. CASE op \notin {"append", "project"} BY <1>e, <4>2
      <4> QED BY <2>3, <4>1, <4>2
    <3>3. ~StatePending(n)
      <4>1. kind \in StateKinds /\ j = 2 => op = "state"
        BY <1>k, <1>o DEF StateKinds, Outcomes
      <4> QED BY <1>3, <2>3, <4>1 DEF StatePending, kind
    <3> QED BY <1>f, <1>n, <1>s, <1>10, <3>1, <3>2, <3>3 DEF StateFollows
  <2> QED BY <2>1, <2>2, <2>3
<1>11. ASSUME NEW n \in Nodes, n = cur.node PROVE ArtifactFollows(n)'
  <2>1. CASE kind \in Outcomes /\ op \in {"artifact", "project"}
    <3>1. db'.artifact[n] = LastAt(db'.log, n, Outcomes) BY <1>8, <1>9, <1>11, <2>1
    <3> QED BY <3>1 DEF ArtifactFollows
  <2>2. CASE kind \in Outcomes /\ op \in {"append", "state"}
    <3>1. j \in {1, 2} /\ last = 5 BY <1>o, <2>2
    <3>2. (Place(2)' \/ Place(3)') /\ cur' = cur
      <4>1. CASE j = 1 BY <1>1, <3>1, <4>1 DEF last
      <4>2. CASE j = 2 BY <1>1, <3>1, <4>2 DEF last
      <4> QED BY <3>1, <4>1, <4>2
    <3> QED BY <1>11, <2>2, <3>2 DEF ArtifactFollows, ArtifactPending, kind
  <2>3. CASE ~(kind \in Outcomes /\ op \in {"append", "state", "artifact", "project"})
    <3>1. db'.artifact[n] = db.artifact[n] BY <1>8, <1>11, <2>3
    <3>2. LastAt(db'.log, n, Outcomes) = LastAt(db.log, n, Outcomes)
      <4>1. CASE kind \notin Outcomes BY <1>9, <1>11, <4>1
      <4>2. CASE op \notin {"append", "project"} BY <1>e, <4>2
      <4> QED BY <2>3, <4>1, <4>2
    <3>3. ~ArtifactPending(n)
      <4>1. kind \in Outcomes /\ j \in {2, 3} => op \in {"state", "artifact"}
        BY <1>o DEF Outcomes
      <4> QED BY <1>3, <2>3, <4>1 DEF ArtifactPending, kind
    <3> QED BY <1>f, <1>11, <3>1, <3>2, <3>3 DEF ArtifactFollows
  <2> QED BY <2>1, <2>2, <2>3
<1>12. ASSUME NEW n \in Nodes, n = cur.node PROVE TimingFollows(n)'
  <2> DEFINE F == FirstAt(db.log, n, TimingKinds)
             G == FirstAt(db'.log, n, TimingKinds)
             start == db.timing[n].start
  <2>0. j = 1 => ~TimingPending(n) BY <1>3 DEF TimingPending
  <2>1. CASE kind \in TimingKinds /\ op \in {"timing", "project"}
    <3>1. db'.timing[n] = Timing(db', cur, IF op = "timing" THEN got ELSE start)
      BY <1>8, <1>12, <2>1
    <3>2. TimingInLog(db'.log, n) = [start |-> G, ended |-> kind \in Outcomes]
      BY <1>9, <1>12, <2>1
    <3>3. CASE op = "project"
      <4>1. j = 1 BY <1>o, <1>2, <3>3
      <4>2. start = F BY <1>f, <1>9, <1>12, <2>0, <4>1 DEF TimingFollows
      <4>3. G = IF F = 0 THEN Len(db'.log) ELSE F BY <1>9, <1>12, <2>1, <4>1
      <4>4. db'.timing[n] = TimingInLog(db'.log, n)
        BY <3>1, <3>2, <3>3, <4>2, <4>3 DEF Timing, kind
      <4> QED BY <4>4 DEF TimingFollows
    <3>4. CASE op = "timing"
      <4>1. j \in 2 .. 5 /\ j = last BY <1>o, <3>4
      <4>2. got = start BY <1>1, <1>f, <1>12, <2>1, <4>1 DEF StartIsRead, last, kind
      <4>3. G = F /\ F # 0 /\ db'.log = db.log BY <1>9, <1>e, <1>12, <2>1, <3>4, <4>1
      <4>4. F = IF start = 0 THEN Len(db.log) ELSE start
        <5>1. CASE TimingPending(n) BY <5>1 DEF TimingPending
        <5>2. CASE ~TimingPending(n)
          <6>1. start = F BY <1>f, <1>9, <1>12, <5>2 DEF TimingFollows
          <6> QED BY <4>3, <6>1
        <5> QED BY <5>1, <5>2
      <4>5. db'.timing[n] = TimingInLog(db'.log, n)
        BY <3>1, <3>2, <3>4, <4>2, <4>3, <4>4 DEF Timing, kind
      <4> QED BY <4>5 DEF TimingFollows
    <3> QED BY <2>1, <3>3, <3>4
  <2>2. CASE kind \in TimingKinds /\ op \notin {"timing", "project"}
    <3>1. db'.timing[n] = db.timing[n] BY <1>8, <1>12, <2>2
    <3>2. j < last /\ j + 1 \in 2 .. 5 BY <1>o, <1>2, <2>2
    <3>3. Place(j + 1)' /\ cur' = cur BY <1>1, <3>2 DEF last
    <3>4. CASE op = "append"
      <4>1. j = 1 BY <1>o, <3>4
      <4>2. start = F BY <1>f, <1>9, <1>12, <2>0, <4>1 DEF TimingFollows
      <4>3. G = IF start = 0 THEN Len(db'.log) ELSE start
        BY <1>9, <1>12, <2>2, <4>1, <4>2
      <4> QED BY <1>12, <2>2, <3>1, <3>2, <3>3, <4>3 DEF TimingFollows, TimingPending, kind
    <3>5. CASE op # "append"
      <4>1. db'.log = db.log BY <1>e, <2>2, <3>5
      <4>2. TimingPending(n) => TimingPending(n)'
        BY <1>12, <2>2, <3>1, <3>2, <3>3, <4>1 DEF TimingPending, kind
      <4> QED BY <1>f, <1>12, <3>1, <4>1, <4>2 DEF TimingFollows
    <3> QED BY <3>4, <3>5
  <2>3. CASE kind \notin TimingKinds
    <3>1. ~TimingPending(n) BY <2>3 DEF TimingPending, kind
    <3>2. db'.timing[n] = db.timing[n] /\ TimingInLog(db'.log, n) = TimingInLog(db.log, n)
      BY <1>8, <1>9, <1>12, <2>3
    <3> QED BY <1>f, <1>12, <3>1, <3>2 DEF TimingFollows
  <2> QED BY <2>1, <2>2, <2>3
<1> QED BY <1>5, <1>6, <1>7, <1>10, <1>11, <1>12, <1>h

-----------------------------------------------------------------------------
(* The other steps.                                                        *)

\* Behind the first operation of a call on a file kept open, only the record of a blocked
\* node is pending.
LEMMA KeptPending ==
  ASSUME kept, NEW j \in 2 .. 5, Place(j)
  PROVE  /\ cur.kind \in StateKinds => cur.kind = "Blocked"
         /\ cur.kind \notin Outcomes /\ cur.kind \notin TimingKinds
         /\ script[Sink] # <<>> /\ Midway
<1>0. j \in Nat /\ j # 1 OBVIOUS
<1>1. /\ cur.kind \in Kinds /\ Script(cur.kind) \in Seq(Ops)
      /\ script[Sink] # <<>> /\ script[Sink] # <<"start">>
  BY <1>0, PlaceFacts
<1>p. j \in 1 .. Len(Script(cur.kind)) /\ cur \in Sent BY DEF Place
<1>2. cur.kind \notin InTransaction
  <2>1. cur.kind \in InTransaction => Script(cur.kind) = <<"project">> BY DEF Script
  <2>2. Script(cur.kind) # <<"project">>
    <3> SUFFICES ASSUME Script(cur.kind) = <<"project">> PROVE FALSE OBVIOUS
    <3>1. j \in 1 .. Len(<<"project">>) BY <1>p
    <3> QED BY <1>0, <3>1
  <2> QED BY <2>1, <2>2
<1>3. cur.kind # "ManualRetry" BY <1>p DEF Sent, Event, TaskKinds, Outcomes
<1>4. script[Sink] # Script(cur.kind)
  <2> DEFINE s == Script(cur.kind)
  <2>1. s \in Seq(Ops) /\ j \in 1 .. Len(s) /\ script[Sink] = SubSeq(s, j, Len(s))
        /\ 1 \in 1 .. Len(s)
    BY <1>1, <1>p DEF Place
  <2> HIDE DEF s
  <2>2. SubSeq(s, 1, Len(s)) = s BY <2>1, SubSeqFull
  <2> QED BY <1>0, <2>1, <2>2, RestUnique DEF s
<1> QED BY <1>1, <1>2, <1>3, <1>4 DEF Midway, InTransaction, StateKinds, TimingKinds, Outcomes

\* A process that is killed leaves what it had begun; of a file kept open that is at most
\* the record of a blocked node.
LEMMA CrashFollows ==
  ASSUME ServerIInv, FollowIInv, Crash, UNCHANGED serverVars
  PROVE  FollowIInv'
<1>i. VaultTypeOK /\ CallTypeOK /\ ScriptsFollow /\ OneTask BY DEF ServerIInv
<1>1. /\ kept /\ kept' = kept /\ db' = db /\ call' = call
      /\ script' = [script EXCEPT ![Sink] = <<>>] /\ torn' = (torn \/ Midway)
  BY DEF Crash, serverVars
<1>2. script'[Sink] = <<>> BY <1>i, <1>1, ClientsDiffer DEF VaultTypeOK
<1>3. \A i \in Nat : ~Place(i)' BY <1>1, <1>2, PlacesNext
<1>4. \A h \in Handlers : ~Retrying(h) /\ ~Retrying(h)'
  BY <1>i, <1>1 DEF OneTask, Retrying
<1>5. /\ CurIsLast /\ RetriesDiffer
      /\ \A n \in Nodes : StateFollows(n) /\ ArtifactFollows(n) /\ TimingFollows(n)
  BY <1>1 DEF FollowIInv, Trusted
<1>t. db.log \in Seq(Events) BY <1>i DEF VaultTypeOK, Tables
\* What is pending behind the first operation of a call.
<1>6. ASSUME NEW j \in 2 .. 5, Place(j)
      PROVE  /\ cur.kind \in StateKinds => cur.kind = "Blocked"
             /\ cur.kind \notin Outcomes /\ cur.kind \notin TimingKinds
             /\ Midway
  BY <1>1, <1>6, KeptPending
<1>7. ASSUME NEW n \in Nodes
      PROVE  StateFollows(n)' /\ ArtifactFollows(n)' /\ TimingFollows(n)'
  <2>1. ~RetryPending(n) BY <1>4 DEF RetryPending
  <2>2. ~ArtifactPending(n) BY <1>6 DEF ArtifactPending
  <2>3. ~TimingPending(n) BY <1>6 DEF TimingPending
  <2>4. ASSUME StatePending(n) PROVE torn' /\ StateInLog(db.log, n) = "Blocked"
    <3>1. Place(2) /\ cur.node = n /\ cur.kind \in StateKinds BY <2>4 DEF StatePending
    <3>2. cur.kind = "Blocked" /\ Midway BY <1>6, <3>1
    <3>3. Len(db.log) >= 1 /\ db.log[Len(db.log)] = cur BY <1>5, <3>1 DEF CurIsLast
    <3>4. StateInLog(db.log, n) = StateOf("Blocked") BY <1>t, <3>1, <3>2, <3>3, LogLast
    <3> QED BY <1>1, <3>2, <3>4 DEF StateOf
  <2> QED BY <1>1, <1>5, <2>1, <2>2, <2>3, <2>4 DEF StateFollows, ArtifactFollows, TimingFollows
<1>8. CurIsLast' /\ StartIsRead' BY <1>3 DEF CurIsLast, StartIsRead
<1>9. RetriesDiffer' BY <1>1, <1>5 DEF RetriesDiffer
<1> QED BY <1>4, <1>7, <1>8, <1>9 DEF FollowIInv

\* node.retry: the record says Pending before the event does.
LEMMA RetryFollows ==
  ASSUME ServerIInv, FollowIInv, NEW h \in Handlers, HandlerStep(h), RetriesDiffer'
  PROVE  FollowIInv'
<1> DEFINE e == Event("ManualRetry", call[h].node)
<1>i. VaultTypeOK /\ CallTypeOK /\ ScriptsFollow /\ OneTask BY DEF ServerIInv
<1>d. /\ Sink \in Clients /\ Handlers \subseteq Clients /\ Sink \notin Handlers
  BY ClientsDiffer
<1>h. call \in [Handlers -> [what : {"none", "await", "status", "counting", "tokening", "retry"},
                             node : Nodes \cup {NoNode}]]
  BY <1>i DEF CallTypeOK
<1>1. /\ UNCHANGED <<kept, lost, torn, cur, got>>
      /\ \A g \in Handlers \ {h} : call'[g] = call[g]
  BY DEF HandlerStep, runVars, faultVars
<1>2. /\ \A c \in Clients \ {h} : script'[c] = script[c]
      /\ \/ /\ call[h].what # "retry" /\ db' = db /\ call' = [call EXCEPT ![h] = NoCall]
         \/ /\ call[h].what = "retry" /\ script[h] = <<"state", "append">>
            /\ db' = PutState(db, e) /\ script'[h] = <<"append">> /\ call' = call
         \/ /\ call[h].what = "retry" /\ script[h] = <<"append">>
            /\ db' = Append_(db, e)
            /\ script'[h] = <<>> /\ call' = [call EXCEPT ![h] = NoCall]
  BY <1>i, HandlerStepEffect
<1>3. script'[Sink] = script[Sink] BY <1>2, <1>d
<1>4. \A i \in Nat : Place(i)' <=> Place(i) BY <1>1, <1>3, PlacesNext
<1>5. \A g \in Handlers \ {h} : (Retrying(g)' <=> Retrying(g)) /\ call'[g] = call[g]
  BY <1>1, <1>2, <1>d DEF Retrying
<1>6. ASSUME call[h].what # "retry", db' = db, call' = [call EXCEPT ![h] = NoCall]
      PROVE  FollowIInv'
  <2>1. ~Retrying(h) /\ ~Retrying(h)' BY <1>6, <1>h DEF Retrying, NoCall
  <2>2. UNCHANGED Records /\ (Trusted' => Trusted) BY <1>1, <1>6 DEF Records, Trusted
  <2> QED BY <1>1, <1>4, <1>5, <2>1, <2>2, FollowFrame
<1> SUFFICES ASSUME Trusted', call[h].what = "retry"
             PROVE  /\ CurIsLast' /\ StartIsRead'
                    /\ \A g \in Handlers : Retrying(g)' => db'.state[call'[g].node] = "Pending"
                    /\ \A n \in Nodes : StateFollows(n)' /\ ArtifactFollows(n)' /\ TimingFollows(n)'
  BY <1>2, <1>6 DEF FollowIInv
<1>7. /\ \A g \in Handlers : Retrying(g) => db.state[call[g].node] = "Pending"
      /\ \A n \in Nodes : StateFollows(n) /\ ArtifactFollows(n) /\ TimingFollows(n)
  BY <1>1 DEF FollowIInv, Trusted
<1>8. \A i \in Nat : ~Place(i) /\ ~Place(i)'
  BY <1>i, <1>4, PlaceFacts DEF OneTask, Drained
<1>9. CurIsLast' /\ StartIsRead' BY <1>8 DEF CurIsLast, StartIsRead
<1>t. db \in Tables /\ db.log \in Seq(Events) BY <1>i DEF VaultTypeOK, Tables
<1>e. /\ call[h].node \in Nodes /\ e \in Events /\ e.kind = "ManualRetry" /\ e.node = call[h].node
      /\ StateOf(e.kind) = "Pending"
  BY <1>i DEF ScriptsFollow, CallScript, CallTypeOK, Event, Events, Kinds, StateOf
<1>p. ASSUME NEW n \in Nodes
      PROVE  ~StatePending(n) /\ ~ArtifactPending(n) /\ ~TimingPending(n)
  BY <1>8 DEF StatePending, ArtifactPending, TimingPending
<1>10. CASE script[h] = <<"state", "append">> /\ db' = PutState(db, e)
            /\ script'[h] = <<"append">> /\ call' = call
  <2>1. /\ db'.log = db.log /\ db'.artifact = db.artifact /\ db'.timing = db.timing
        /\ db'.state = [db.state EXCEPT ![call[h].node] = "Pending"]
    BY <1>10, <1>e, <1>t DEF PutState, Tables
  <2>2. Retrying(h)' BY <1>10 DEF Retrying
  <2>3. db.state \in [Nodes -> States] BY <1>t DEF Tables
  <2>4. \A g \in Handlers : Retrying(g)' => db'.state[call'[g].node] = "Pending"
    <3>1. ASSUME NEW g \in Handlers, Retrying(g)' PROVE db'.state[call'[g].node] = "Pending"
      <4>1. CASE call[g].node = call[h].node BY <1>10, <1>e, <2>1, <2>3, <4>1
      <4>2. CASE call[g].node # call[h].node
        <5>1. Retrying(g) BY <1>5, <3>1, <4>2
        <5>2. call[g].node \in Nodes
          BY <1>i, <5>1 DEF Retrying, ScriptsFollow, CallScript, CallTypeOK
        <5> QED BY <1>7, <1>10, <2>1, <2>3, <4>2, <5>1, <5>2
      <4> QED BY <4>1, <4>2
    <3> QED BY <3>1
  <2>5. ASSUME NEW n \in Nodes PROVE StateFollows(n)'
    <3>1. CASE n = call[h].node
      <4>1. RetryPending(n)' BY <1>10, <2>2, <3>1 DEF RetryPending
      <4> QED BY <4>1 DEF StateFollows
    <3>2. CASE n # call[h].node
      <4>1. db'.state[n] = db.state[n] BY <2>1, <2>3, <3>2
      <4>2. RetryPending(n) => RetryPending(n)' BY <1>5, <1>10, <3>2 DEF RetryPending
      <4> QED BY <1>1, <1>7, <1>p, <2>1, <4>1, <4>2 DEF StateFollows
    <3> QED BY <3>1, <3>2
  <2>6. ASSUME NEW n \in Nodes PROVE ArtifactFollows(n)' /\ TimingFollows(n)'
    BY <1>7, <1>p, <2>1 DEF ArtifactFollows, TimingFollows
  <2> QED BY <1>9, <2>4, <2>5, <2>6
<1>11. CASE script[h] = <<"append">> /\ db' = Append_(db, e)
            /\ script'[h] = <<>> /\ call' = [call EXCEPT ![h] = NoCall]
  <2>1. /\ db'.log = Append(db.log, e) /\ db'.artifact = db.artifact
        /\ db'.timing = db.timing /\ db'.state = db.state
    BY <1>11, <1>t DEF Append_, Tables
  <2>2. ~Retrying(h)' /\ Retrying(h) BY <1>11, <1>h DEF Retrying, NoCall
  <2>3. \A g \in Handlers : Retrying(g)' => db'.state[call'[g].node] = "Pending"
    BY <1>5, <1>7, <2>1, <2>2
  <2>4. /\ e.kind \in StateKinds /\ e.kind \notin Outcomes /\ e.kind \notin TimingKinds
    BY <1>e DEF StateKinds, Outcomes, TimingKinds
  <2>5. ASSUME NEW n \in Nodes PROVE StateFollows(n)'
    <3>1. CASE n = call[h].node
      <4>1. StateInLog(db'.log, n) = "Pending" BY <1>e, <1>t, <2>1, <2>4, <3>1, RecordAppend
      <4>2. db'.state[n] = "Pending" BY <1>7, <2>1, <2>2, <3>1
      <4> QED BY <4>1, <4>2 DEF StateFollows
    <3>2. CASE n # call[h].node
      <4>1. StateInLog(db'.log, n) = StateInLog(db.log, n)
        BY <1>e, <1>t, <2>1, <3>2, RecordAppend
      <4>2. RetryPending(n) => RetryPending(n)' BY <1>5, <3>2 DEF RetryPending
      <4> QED BY <1>1, <1>7, <1>p, <2>1, <4>1, <4>2 DEF StateFollows
    <3> QED BY <3>1, <3>2
  <2>6. ASSUME NEW n \in Nodes PROVE ArtifactFollows(n)' /\ TimingFollows(n)'
    <3>1. LastAt(db'.log, n, Outcomes) = LastAt(db.log, n, Outcomes)
      BY <1>e, <1>t, <2>1, <2>4, LogAppend
    <3>2. TimingInLog(db'.log, n) = TimingInLog(db.log, n)
      BY <1>e, <1>t, <2>1, <2>4, RecordAppend
    <3> QED BY <1>7, <1>p, <2>1, <3>1, <3>2 DEF ArtifactFollows, TimingFollows
  <2> QED BY <1>9, <2>3, <2>5, <2>6
<1> QED BY <1>2, <1>10, <1>11

LEMMA FollowStep == ServerIInv /\ FollowIInv /\ [ServerNext]_allVars => FollowIInv'
<1> SUFFICES ASSUME ServerIInv, FollowIInv, [ServerNext]_allVars PROVE FollowIInv'
  OBVIOUS
<1>i. VaultTypeOK /\ CallTypeOK /\ ScriptsFollow /\ FileHeld /\ OneTask BY DEF ServerIInv
<1>d. /\ Sink \in Clients /\ Reader \in Clients /\ Handlers \subseteq Clients
      /\ Sink \notin Handlers /\ Sink # Reader
  BY ClientsDiffer
<1>t. /\ script \in [Clients -> Seq(Ops)] /\ kept' = kept /\ db \in Tables
      /\ call \in [Handlers -> [what : {"none", "await", "status", "counting", "tokening", "retry"},
                                node : Nodes \cup {NoNode}]]
  BY <1>i, KeptStays DEF VaultTypeOK, CallTypeOK
<1>r. RetriesDiffer' BY RetriesDifferStep DEF FollowIInv
<1> USE DEF fileVars, callVars, runVars, readerVars, faultVars, vaultVars, serverVars
\* Nothing of a call changes.
<1>s. ASSUME UNCHANGED <<Records, script, cur, got, lost, torn, call>> PROVE FollowIInv'
  <2>1. \A i \in Nat : Place(i)' <=> Place(i) BY <1>s, <1>t, PlacesNext
  <2>2. \A h \in Handlers : Retrying(h)' <=> Retrying(h) BY <1>s DEF Retrying
  <2>3. Trusted' => Trusted BY <1>s, <1>t DEF Trusted
  <2> QED BY <1>s, <1>t, <1>r, <2>1, <2>2, <2>3, FollowFrame
\* The sink begins a call, or the run does, or is done with it.
<1>b. ASSUME UNCHANGED <<Records, lost, torn, call>>,
             \A c \in Clients \ {Sink} : script'[c] = script[c],
             \A j \in 2 .. 5 : ~Place(j) /\ ~Place(j)'
      PROVE  FollowIInv'
  <2>1. \A h \in Handlers : Retrying(h)' <=> Retrying(h) BY <1>b, <1>d DEF Retrying
  <2>2. Trusted' => Trusted BY <1>b, <1>t DEF Trusted
  <2> QED BY <1>b, <1>t, <1>r, <2>1, <2>2, FollowFrame
<1>1. ASSUME NEW c \in Clients, Open(c) \/ MigrateRecord(c) \/ MigrateCommit(c),
             UNCHANGED serverVars
      PROVE  FollowIInv'
  <2>1. UNCHANGED Records BY <1>1, <1>t DEF Open, MigrateRecord, MigrateCommit, Records, Tables
  <2> QED BY <1>s, <1>1, <2>1 DEF Open, MigrateRecord, MigrateCommit
<1>2. ASSUME Take, UNCHANGED serverVars PROVE FollowIInv'
  <2> DEFINE r == Script(Head(chan).kind)
  <2>1. /\ script' = [script EXCEPT ![Sink] = r] /\ script[Sink] = <<>>
        /\ cur' = Head(chan) /\ chan # <<>> /\ UNCHANGED <<Records, lost, torn, call>>
    BY <1>2 DEF Take, Records
  <2>2. cur' \in Sent /\ cur'.kind \in Kinds
    BY <1>i, <2>1, HeadTailProperties, SentAreEvents DEF VaultTypeOK, Events
  <2>3. r \in Seq(Ops) /\ 1 \in 1 .. Len(r)
    BY <2>1, <2>2, ScriptFacts, LenProperties
  <2>4. script'[Sink] = r /\ Script(cur.kind)' = r BY <1>t, <1>d, <2>1 DEF Script
  <2> HIDE DEF r
  <2>5. ASSUME NEW j \in 2 .. 5 PROVE ~Place(j) /\ ~Place(j)'
    <3>1. ~Place(j) BY <2>1, PlaceFacts
    <3>2. SubSeq(r, 1, Len(r)) = r BY <2>3, SubSeqFull
    <3>3. Place(j)' => j \in 1 .. Len(r) /\ r = SubSeq(r, j, Len(r)) BY <2>4 DEF Place
    <3> QED BY <2>3, <3>1, <3>2, <3>3, RestUnique
  <2> QED BY <1>b, <1>t, <2>1, <2>5
<1>3. ASSUME Start \/ Started \/ StartFails, UNCHANGED serverVars PROVE FollowIInv'
  <2>1. /\ script[Sink] \in {<<>>, <<"start">>}
        /\ \E s \in {<<>>, <<"start">>} : script' = [script EXCEPT ![Sink] = s]
    BY <1>3 DEF Start, Started, StartFails
  <2>2. script'[Sink] \in {<<>>, <<"start">>} BY <1>t, <1>d, <2>1
  <2>3. \A j \in Nat : ~Place(j) BY <2>1, PlaceFacts
  <2>4. \A j \in Nat : ~Place(j)' BY <1>t, <2>2, PlacesNext
  <2>5. UNCHANGED Records BY <1>3, <1>t DEF Start, Started, StartFails, PutRow, Records, Tables
  <2>6. UNCHANGED <<lost, torn>> BY <1>3 DEF Start, Started, StartFails
  <2> QED BY <1>b, <1>t, <1>3, <2>1, <2>3, <2>4, <2>5, <2>6
<1>4. ASSUME SinkFails PROVE FollowIInv'
  <2>1. script[Sink] # <<>> /\ stage[Sink] # "open" /\ Head(script[Sink]) # "start"
    BY <1>i, <1>d, <1>4 DEF SinkFails, Refused, Unreadable, Wants, ScriptsFollow
  <2>2. script[Sink] # <<"start">>
    <3>1. Head(<<"start">>) = "start" OBVIOUS
    <3> QED BY <2>1, <3>1
  <2>3. ~kept BY <1>i, <2>1, <2>2 DEF ScriptsFollow, SinkScript
  <2>4. ~Trusted' BY <1>t, <1>4, <2>3 DEF SinkFails, Trusted
  <2> QED BY <1>r, <2>4 DEF FollowIInv
<1>5. ASSUME \/ RunEnds \/ ReaderStep \/ ReaderFails
             \/ \E n \in Nodes : NodeBlocks(n) \/ \E batch \in Batches[n] : NodeEnds(n, batch),
             UNCHANGED serverVars
      PROVE  FollowIInv'
  BY <1>s, <1>5 DEF RunEnds, ReaderStep, ReaderFails, NodeBlocks, NodeEnds, Records
<1>6. ASSUME Exit, UNCHANGED serverVars PROVE FollowIInv'
  <2>1. UNCHANGED Records BY <1>6, <1>t DEF Exit, PutRow, Records, Tables
  <2> QED BY <1>s, <1>6, <2>1 DEF Exit
<1>7. ASSUME VaultStep, UNCHANGED serverVars PROVE FollowIInv'
  BY <1>d, <1>1, <1>2, <1>3, <1>4, <1>5, <1>6, <1>7, SinkStepFollows, CrashFollows
     DEF VaultStep, RunProgress
<1>8. CASE Submit \/ TaskEnds \/ Cancel \/ TaskAborts \/ Sweep \/ UNCHANGED allVars
  BY <1>s, <1>8 DEF Submit, TaskEnds, Cancel, TaskAborts, Sweep, allVars, Records
\* The server is killed: what it had begun is torn.
<1>9. CASE Dies
  <2>1. ~kept BY <1>i, <1>9 DEF Dies, OneTask
  <2>2. /\ UNCHANGED <<Records, lost>> /\ call' = [h \in Handlers |-> NoCall]
        /\ script' = [c \in Clients |-> <<>>]
        /\ torn' = (torn \/ \E c \in Clients : script[c] # <<>>)
    BY <1>9 DEF Dies, Records
  <2>3. CASE \E c \in Clients : script[c] # <<>>
    <3>1. ~Trusted' BY <1>t, <2>1, <2>2, <2>3 DEF Trusted
    <3> QED BY <1>r, <3>1 DEF FollowIInv
  <2>4. CASE \A c \in Clients : script[c] = <<>>
    <3>1. script[Sink] = <<>> /\ script'[Sink] = <<>> BY <1>d, <2>2, <2>4
    <3>2. \A i \in Nat : ~Place(i) /\ ~Place(i)' BY <1>t, <3>1, PlaceFacts, PlacesNext
    <3>3. \A h \in Handlers : ~Retrying(h) /\ ~Retrying(h)'
      <4>1. <<"append">> # <<>> OBVIOUS
      <4> QED BY <1>d, <2>2, <2>4, <4>1 DEF Retrying, NoCall
    <3>4. (Trusted' => Trusted) /\ (torn => torn') BY <1>t, <2>2, <2>4 DEF Trusted
    <3> QED BY <1>t, <1>r, <2>2, <3>2, <3>3, <3>4, FollowFrame
  <2> QED BY <2>3, <2>4
\* A request begins or goes on without an operation, or one fails.
<1>c. ASSUME NEW h \in Handlers, UNCHANGED <<Records, cur, got, torn>>, lost => lost',
             \A c \in Clients \ {h} : script'[c] = script[c],
             \A g \in Handlers \ {h} : call'[g] = call[g],
             ~Retrying(h) /\ ~Retrying(h)'
      PROVE  FollowIInv'
  <2>1. \A i \in Nat : Place(i)' <=> Place(i) BY <1>c, <1>t, <1>d, PlacesNext
  <2>2. \A g \in Handlers : Retrying(g)' <=> Retrying(g) BY <1>c, <1>d DEF Retrying
  <2>3. Trusted' => Trusted BY <1>c, <1>t DEF Trusted
  <2> QED BY <1>c, <1>t, <1>r, <2>1, <2>2, <2>3, FollowFrame
<1>10. ASSUME NEW h \in Handlers, Await(h) \/ Status(h) \/ SeesEnd(h) \/ GivesUp(h)
              \/ \E n \in Nodes : Retry(h, n)
       PROVE  FollowIInv'
  <2>0. call[h].what \in {"none", "await"}
    BY <1>10 DEF Await, Status, SeesEnd, GivesUp, Retry, Free, NoCall
  <2>1. PICK what \in {"await", "status", "counting", "tokening", "retry"},
             n \in Nodes \cup {NoNode},
             ops \in {<<>>, <<"nodes">>, <<"events">>, <<"state", "append">>} :
          Goes(h, what, n, ops)
    <3>2. CASE Await(h) BY <3>2 DEF Await
    <3>3. CASE Status(h) BY <3>3 DEF Status
    <3>4. CASE SeesEnd(h) BY <3>4 DEF SeesEnd
    <3>5. CASE GivesUp(h) BY <3>5 DEF GivesUp
    <3>6. CASE \E n \in Nodes : Retry(h, n) BY <3>6 DEF Retry
    <3> QED BY <1>10, <3>2, <3>3, <3>4, <3>5, <3>6
  <2>e. ops # <<"append">>
    <3>1. /\ <<>> # <<"append">> /\ <<"nodes">> # <<"append">> /\ <<"events">> # <<"append">>
          /\ <<"state", "append">> # <<"append">>
      OBVIOUS
    <3> QED BY <3>1
  <2>g. /\ UNCHANGED <<Records, cur, got, torn, lost>>
        /\ script' = [script EXCEPT ![h] = ops]
        /\ call' = [call EXCEPT ![h] = [what |-> what, node |-> n]]
    BY <2>1 DEF Goes, Records
  <2>2. ~Retrying(h) /\ ~Retrying(h)' BY <1>t, <1>d, <2>0, <2>e, <2>g DEF Retrying
  <2> QED BY <1>c, <1>t, <2>g, <2>2
<1>11. ASSUME NEW h \in Handlers, HandlerFails(h) PROVE FollowIInv'
  <2>1. /\ UNCHANGED <<Records, cur, got, torn>> /\ lost' = (lost \/ call[h].what = "retry")
        /\ script' = [script EXCEPT ![h] = <<>>] /\ call' = [call EXCEPT ![h] = NoCall]
    BY <1>11 DEF HandlerFails, Records
  <2>2. ~Retrying(h)' BY <1>t, <2>1 DEF Retrying, NoCall
  <2>3. CASE call[h].what # "retry"
    <3>1. ~Retrying(h) BY <2>3 DEF Retrying
    <3> QED BY <1>c, <1>t, <2>1, <2>2, <3>1
  <2>4. CASE call[h].what = "retry"
    <3>1. ~kept BY <1>i, <2>4 DEF OneTask
    <3>2. ~Trusted' BY <1>t, <2>1, <2>4, <3>1 DEF Trusted
    <3> QED BY <1>r, <3>2 DEF FollowIInv
  <2> QED BY <2>3, <2>4
<1> QED
  BY <1>d, <1>r, <1>1, <1>7, <1>8, <1>9, <1>10, <1>11, RetryFollows
     DEF ServerNext, HandlerMoves

-----------------------------------------------------------------------------
(* The theorem about the records.                                          *)

\* RedbSink and node.retry keep every record, artifact and timing a projection of the log:
\* in every state of a file kept open, but for the record of a node blocked when a process
\* was killed, and between the calls in a file that is opened for each operation.
THEOREM ProjectionsSound == ServerSpec => []ProjectionsFollowLog
<1>1. FollowIInv /\ ServerIInv => ProjectionsFollowLog
  <2> SUFFICES ASSUME FollowIInv, ServerIInv,
                      \A c \in Clients \ (IF kept THEN {Sink} ELSE {}) : script[c] = <<>>,
                      kept \/ ~(lost \/ torn), NEW n \in Nodes
               PROVE  /\ \/ db.state[n] = StateInLog(db.log, n)
                         \/ /\ kept /\ StateInLog(db.log, n) = "Blocked"
                            /\ torn \/ script[Sink] # <<>>
                      /\ db.artifact[n] = LastAt(db.log, n, Outcomes)
                      /\ db.timing[n] = TimingInLog(db.log, n)
    BY DEF ProjectionsFollowLog
  <2>i. VaultTypeOK /\ ScriptsFollow /\ OneTask BY DEF ServerIInv
  <2>1. CurIsLast /\ StateFollows(n) /\ ArtifactFollows(n) /\ TimingFollows(n)
    BY DEF FollowIInv, Trusted
  <2>2. ~RetryPending(n)
    <3>1. \A h \in Handlers : script[h] = <<>> BY ClientsDiffer
    <3>2. <<"append">> # <<>> OBVIOUS
    <3> QED BY <3>1, <3>2 DEF RetryPending, Retrying
  <2>3. CASE ~kept
    <3>1. script[Sink] = <<>> BY <2>3, ClientsDiffer
    <3>2. \A i \in Nat : ~Place(i) BY <3>1, PlaceFacts
    <3> QED BY <2>1, <2>2, <2>3, <3>2 DEF StateFollows, ArtifactFollows, TimingFollows,
                                          StatePending, ArtifactPending, TimingPending
  <2>4. CASE kept
    <3>1. ASSUME NEW j \in 2 .. 5, Place(j)
          PROVE  /\ cur.kind \in StateKinds => cur.kind = "Blocked"
                 /\ cur.kind \notin Outcomes /\ cur.kind \notin TimingKinds
                 /\ script[Sink] # <<>>
      BY <2>4, <3>1, KeptPending
    <3>2. ~ArtifactPending(n) /\ ~TimingPending(n) BY <3>1 DEF ArtifactPending, TimingPending
    <3>3. ASSUME StatePending(n)
          PROVE  StateInLog(db.log, n) = "Blocked" /\ script[Sink] # <<>>
      <4>1. Place(2) /\ cur.node = n /\ cur.kind = "Blocked" /\ script[Sink] # <<>>
        BY <3>1, <3>3 DEF StatePending
      <4>2. Len(db.log) >= 1 /\ db.log[Len(db.log)] = cur BY <2>1, <4>1 DEF CurIsLast
      <4>3. db.log \in Seq(Events) BY <2>i DEF VaultTypeOK, Tables
      <4>4. StateInLog(db.log, n) = StateOf("Blocked")
        BY <4>1, <4>2, <4>3, LogLast DEF StateKinds
      <4> QED BY <4>1, <4>4 DEF StateOf
    <3> QED BY <2>1, <2>2, <2>4, <3>2, <3>3 DEF StateFollows, ArtifactFollows, TimingFollows
  <2> QED BY <2>3, <2>4
<1> QED BY <1>1, FollowInit, FollowStep, ServerInvariance, PTL DEF ServerSpec

-----------------------------------------------------------------------------
(* What is recorded of a run that a server has submitted.                  *)

\* The event of the end of n is still to be taken, or the sink is about to write the
\* record that it makes, or the record is there.
NoneComes(n) == \A i \in DOMAIN chan : chan[i].node # n
AtWork(n)    == cur.node = n /\ (Place(1) \/ Place(2))
Coming(n) ==
  \E i \in DOMAIN chan : /\ chan[i].node = n /\ chan[i].kind = fate[n]
                         /\ \A j \in DOMAIN chan : j > i => chan[j].node # n
Writing(n) == NoneComes(n) /\ AtWork(n) /\ cur.kind = fate[n]
Settled(n) == NoneComes(n) /\ ~AtWork(n) /\ db.state[n] = fate[n]

\* The nodes in M are those whose record was lost.
Accounted(M) == \A n \in Nodes \ (M \cup retried) : Coming(n) \/ Writing(n) \/ Settled(n)

\* The run goes on, or has come to its own end.
Live == task \in {"running", "aborting", "ended"}

\* The vault is one that can come to be written.
Writable == db.version = Current \/ (db.version < Current /\ db.bad = {})

NothingYet ==
  task = "none" /\ ~kept =>
    up = "no" /\ Drained /\ \A n \in Nodes : fate[n] = "none" /\ db.state[n] = "none"

FatesFit ==
  Live => /\ \A n \in Nodes : n \in todo <=> fate[n] = "none"
          /\ (\E n \in Nodes : fate[n] = "Blocked") => \E m \in Nodes : fate[m] = "Failed"
          /\ up # "going" => todo = {}

\* Each clash has cost at most one record.
LossesCounted ==
  Live /\ Writable => \E M \in SUBSET Nodes : Cardinality(M) <= clashes /\ Accounted(M)

NothingLost == Live /\ ~lost => Accounted({})

CountsAtEnd ==
  \A h \in Handlers : call[h].what = "counting" => entry = "gone" \/ task = "ended"

RecordedIInv == NothingYet /\ FatesFit /\ LossesCounted /\ NothingLost /\ CountsAtEnd

\* A step that has nothing to do with the records of nodes not marked for retry.
LEMMA AccountedFrame ==
  ASSUME NEW M, Accounted(M), UNCHANGED <<kept, chan, fate, cur>>,
         script'[Sink] = script[Sink], retried \subseteq retried',
         \A n \in Nodes \ retried' : db'.state[n] = db.state[n]
  PROVE  Accounted(M)'
<1>1. \A i \in Nat : Place(i)' <=> Place(i) BY PlacesNext
<1>2. ASSUME NEW n \in Nodes \ (M \cup retried')
      PROVE  Coming(n)' \/ Writing(n)' \/ Settled(n)'
  <2>1. Coming(n) \/ Writing(n) \/ Settled(n) BY <1>2 DEF Accounted
  <2>2. NoneComes(n)' <=> NoneComes(n) BY DEF NoneComes
  <2>3. AtWork(n)' <=> AtWork(n) BY <1>1 DEF AtWork
  <2>4. Coming(n)' <=> Coming(n) BY DEF Coming
  <2> QED BY <1>2, <2>1, <2>2, <2>3, <2>4 DEF Writing, Settled
<1> QED BY <1>2 DEF Accounted

\* The run sends the last events of a node, or an event about the run.
LEMMA AccountedSent ==
  ASSUME NEW M, Accounted(M), chan \in Seq(Events), NEW es \in Seq(Events),
         chan' = chan \o es, NEW m \in Nodes \cup {NoNode},
         \A i \in DOMAIN es : es[i].node = m,
         m \in Nodes => es # <<>> /\ es[Len(es)].kind = fate'[m],
         \A n \in Nodes \ {m} : fate'[n] = fate[n],
         UNCHANGED <<kept, script, cur, db, retried>>
  PROVE  Accounted(M)'
<1> DEFINE L == Len(chan)
           K == Len(es)
<1>1. /\ L \in Nat /\ K \in Nat /\ DOMAIN chan = 1 .. L /\ DOMAIN es = 1 .. K
      /\ DOMAIN chan' = 1 .. L + K
      /\ \A i \in 1 .. L : chan'[i] = chan[i]
      /\ \A i \in 1 .. L + K : i > L => chan'[i] = es[i - L]
      /\ es # <<>> => K >= 1
  <2>1. L \in Nat /\ K \in Nat /\ DOMAIN chan = 1 .. L /\ DOMAIN es = 1 .. K
    BY LenProperties
  <2>2. Len(chan') = L + K /\ chan' \in Seq(Events) BY ConcatProperties
  <2>3. DOMAIN chan' = 1 .. L + K BY <2>2, LenProperties
  <2>4. \A i \in 1 .. L + K : chan'[i] = IF i <= L THEN chan[i] ELSE es[i - L]
    BY ConcatProperties
  <2>5. es # <<>> => K >= 1 BY <2>1, EmptySeq
  <2> QED BY <2>1, <2>3, <2>4, <2>5
<1>2. ASSUME NEW i \in DOMAIN chan', i > L PROVE chan'[i].node = m /\ i - L \in 1 .. K
  <2>1. i - L \in 1 .. K BY <1>1, <1>2
  <2> QED BY <1>1, <1>2, <2>1
<1> HIDE DEF L, K
<1>3. \A i \in Nat : Place(i)' <=> Place(i) BY PlacesNext
<1>4. ASSUME NEW n \in Nodes \ (M \cup retried)
      PROVE  Coming(n)' \/ Writing(n)' \/ Settled(n)'
  <2>1. CASE n = m
    <3>1. K >= 1 /\ es[K].kind = fate'[m] BY <1>1, <2>1 DEF K
    <3>2. L + K \in DOMAIN chan' /\ L + K > L /\ (L + K) - L = K BY <1>1, <3>1
    <3>3. chan'[L + K].node = n /\ chan'[L + K].kind = fate'[n]
      <4>1. chan'[L + K] = es[K] BY <1>1, <3>2
      <4> QED BY <1>2, <2>1, <3>1, <3>2, <4>1
    <3>4. \A j \in DOMAIN chan' : ~(j > L + K) BY <1>1
    <3> QED BY <3>2, <3>3, <3>4 DEF Coming
  <2>2. CASE n # m
    <3>1. Coming(n) \/ Writing(n) \/ Settled(n) BY <1>4 DEF Accounted
    <3>2. fate'[n] = fate[n] BY <1>4, <2>2
    <3>3. NoneComes(n) => NoneComes(n)'
      <4>1. ASSUME NoneComes(n), NEW i \in DOMAIN chan' PROVE chan'[i].node # n
        <5>1. CASE i > L BY <1>2, <2>2, <5>1
        <5>2. CASE ~(i > L)
          <6>1. i \in 1 .. L BY <1>1, <5>2
          <6> QED BY <1>1, <4>1, <6>1 DEF NoneComes
        <5> QED BY <5>1, <5>2
      <4> QED BY <4>1 DEF NoneComes
    <3>4. Coming(n) => Coming(n)'
      <4> SUFFICES ASSUME Coming(n) PROVE Coming(n)' OBVIOUS
      <4>1. PICK i \in 1 .. L : /\ chan[i].node = n /\ chan[i].kind = fate[n]
                                /\ \A j \in 1 .. L : j > i => chan[j].node # n
        BY <1>1 DEF Coming
      <4>2. i \in DOMAIN chan' /\ chan'[i] = chan[i] BY <1>1
      <4>3. ASSUME NEW j \in DOMAIN chan', j > i PROVE chan'[j].node # n
        <5>1. CASE j > L BY <1>2, <2>2, <5>1
        <5>2. CASE ~(j > L)
          <6>1. j \in 1 .. L BY <1>1, <5>2
          <6> QED BY <1>1, <4>1, <4>3, <6>1
        <5> QED BY <5>1, <5>2
      <4> QED BY <3>2, <4>1, <4>2, <4>3 DEF Coming
    <3>5. AtWork(n)' <=> AtWork(n) BY <1>3 DEF AtWork
    <3> QED BY <3>1, <3>2, <3>3, <3>4, <3>5 DEF Writing, Settled
  <2> QED BY <2>1, <2>2
<1> QED BY <1>4 DEF Accounted

\* The sink takes an event: what was on its way is now to be written.
LEMMA AccountedTake ==
  ASSUME VaultTypeOK, NEW M, Accounted(M), Take, UNCHANGED retried
  PROVE  Accounted(M)'
<1> DEFINE r == Script(Head(chan).kind)
           L == Len(chan)
<1>1. /\ script[Sink] = <<>> /\ chan # <<>> /\ cur' = Head(chan) /\ chan' = Tail(chan)
      /\ script' = [script EXCEPT ![Sink] = r] /\ UNCHANGED <<kept, db, fate>>
  BY DEF Take, fileVars
<1>2. chan \in Seq(Sent) /\ Sink \in Clients /\ script \in [Clients -> Seq(Ops)]
  BY ClientsDiffer DEF VaultTypeOK
<1>3. /\ L \in Nat \ {0} /\ DOMAIN chan = 1 .. L /\ DOMAIN chan' = 1 .. L - 1
      /\ cur' = chan[1] /\ cur' \in Sent
      /\ \A i \in 1 .. L - 1 : chan'[i] = chan[i + 1]
  <2>1. L \in Nat /\ L # 0 /\ DOMAIN chan = 1 .. L BY <1>1, <1>2, LenProperties, EmptySeq
  <2>2. Head(chan) \in Sent /\ Tail(chan) \in Seq(Sent) /\ Len(Tail(chan)) = L - 1
        /\ Head(chan) = chan[1]
    BY <1>1, <1>2, HeadTailProperties
  <2>3. \A i \in 1 .. L - 1 : Tail(chan)[i] = chan[i + 1] BY <1>1, <1>2, HeadTailProperties
  <2>4. DOMAIN chan' = 1 .. L - 1 BY <1>1, <2>2, LenProperties
  <2> QED BY <1>1, <2>1, <2>2, <2>3, <2>4
<1>4. Head(chan).kind \in Kinds BY <1>1, <1>3, SentAreEvents DEF Events
<1>5. r \in Seq(Ops) /\ 1 \in 1 .. Len(r) BY <1>4, ScriptFacts, LenProperties
<1>6. script'[Sink] = r /\ Script(cur.kind)' = r BY <1>1, <1>2 DEF Script
<1> HIDE DEF r, L
<1>7. Place(1)' BY <1>3, <1>5, <1>6, SubSeqFull DEF Place
<1>8. \A i \in Nat : ~Place(i) BY <1>1, PlaceFacts
<1>9. ASSUME NEW n \in Nodes \ (M \cup retried)
      PROVE  Coming(n)' \/ Writing(n)' \/ Settled(n)'
  <2>1. Coming(n) \/ Settled(n) BY <1>8, <1>9 DEF Accounted, Writing, AtWork
  <2>2. CASE Settled(n)
    <3>1. NoneComes(n)' BY <1>3, <2>2 DEF Settled, NoneComes
    <3>2. cur'.node # n BY <1>3, <2>2 DEF Settled, NoneComes
    <3>3. ~AtWork(n)' BY <3>2 DEF AtWork
    <3> QED BY <1>1, <2>2, <3>1, <3>3 DEF Settled
  <2>3. CASE Coming(n)
    <3>1. PICK i \in 1 .. L : /\ chan[i].node = n /\ chan[i].kind = fate[n]
                              /\ \A j \in 1 .. L : j > i => chan[j].node # n
      BY <1>3, <2>3 DEF Coming
    <3>2. \A j \in DOMAIN chan' : j + 1 > i => chan'[j].node # n
      <4> TAKE j \in DOMAIN chan'
      <4>1. j + 1 \in 1 .. L /\ chan'[j] = chan[j + 1] BY <1>3
      <4> QED BY <3>1, <4>1
    <3>3. CASE i = 1
      <4>1. NoneComes(n)' BY <1>3, <3>2, <3>3 DEF NoneComes
      <4>2. AtWork(n)' /\ cur'.kind = fate'[n] BY <1>1, <1>3, <1>7, <3>1, <3>3 DEF AtWork
      <4> QED BY <4>1, <4>2 DEF Writing
    <3>4. CASE i # 1
      <4>1. i - 1 \in DOMAIN chan' /\ (i - 1) + 1 = i BY <1>3, <3>4
      <4>2. chan'[i - 1] = chan[i] BY <1>3, <4>1
      <4>3. \A j \in DOMAIN chan' : j > i - 1 => j + 1 > i BY <1>3
      <4> QED BY <1>1, <3>1, <3>2, <4>1, <4>2, <4>3 DEF Coming
    <3> QED BY <3>3, <3>4
  <2> QED BY <2>1, <2>2, <2>3
<1> QED BY <1>1, <1>9 DEF Accounted

\* What an operation of the sink does with the records of states, in a file that is not
\* kept open.
LEMMA SinkRecords ==
  ASSUME VaultTypeOK, ScriptsFollow, ~kept, SinkStep
  PROVE  \E j \in Nat :
           /\ Place(j) /\ \A i \in Nat : Place(i) => i = j
           /\ \A i \in Nat : Place(i)' => i = j + 1 /\ cur' = cur
           /\ cur.kind \in Ends /\ j = 1 => Place(2)' /\ cur' = cur
           /\ \A n \in Nodes : j # 2 \/ n # cur.node => db'.state[n] = db.state[n]
           /\ j = 2 /\ cur.kind \in Ends => cur.node \in Nodes /\ db'.state[cur.node] = cur.kind
<1> DEFINE kind == cur.kind
           last == Len(Script(cur.kind))
<1>s. kept' = kept BY DEF SinkStep, runVars
<1>1. PICK j \in Nat :
        /\ Place(j) /\ db' = Apply(Script(kind)[j], db, cur, got)
        /\ j = last => script'[Sink] = <<>>
        /\ j < last => Place(j + 1)' /\ cur' = cur
  BY SinkStepEffect DEF ScriptsFollow
<1> DEFINE op == Script(kind)[j]
<1>2. /\ cur \in Events /\ kind \in Kinds /\ Script(kind) \in Seq(Ops) /\ j \in 1 .. last
      /\ cur \in Sent
  BY <1>1, PlaceFacts DEF Place
<1>o. /\ last \in 1 .. 5 /\ j \in 1 .. 5
      /\ op \in {"append", "state", "artifact", "readTiming", "timing", "readRow", "row",
                 "budget"}
      /\ op = "state" <=> j = 2 /\ kind \in {"Dispatched", "Critic", "Done", "Failed", "Blocked"}
      /\ kind \in StateKinds \ {"ManualRetry"} => last >= 2
  BY <1>2, ShapeFacts
<1>3. \A i \in Nat : Place(i) => i = j BY <1>1, PlaceUnique
<1>4. \A i \in Nat : Place(i)' => i = j + 1 /\ cur' = cur
  <2>1. CASE j = last BY <1>1, <1>s, <2>1, PlacesNext
  <2>2. CASE j < last
    <3>1. cur' = cur /\ Place(j + 1)' BY <1>1, <2>2
    <3>2. Script(cur.kind)' = Script(kind) BY <1>s, <3>1 DEF Script
    <3>3. ASSUME NEW i \in Nat, Place(i)' PROVE i = j + 1
      <4>1. /\ i \in 1 .. last /\ j + 1 \in 1 .. last
            /\ SubSeq(Script(kind), i, last) = SubSeq(Script(kind), j + 1, last)
        BY <3>1, <3>2, <3>3 DEF Place
      <4> QED BY <1>2, <4>1, RestUnique
    <3> QED BY <3>1, <3>3
  <2> QED BY <1>2, <1>o, <2>1, <2>2
<1>t. db \in Tables /\ got \in Nat BY DEF VaultTypeOK
<1> HIDE DEF last
<1>5. ASSUME kind \in Ends, j = 1 PROVE Place(2)' /\ cur' = cur
  <2>1. kind \in StateKinds \ {"ManualRetry"} BY <1>5 DEF Ends, Outcomes, StateKinds
  <2>2. j < last /\ j + 1 = 2 BY <1>o, <1>5, <2>1
  <2> QED BY <1>1, <2>2
<1> HIDE DEF kind, op
<1>g. db' = Apply(op, db, cur, got) BY <1>1 DEF op, kind
<1>6. ASSUME NEW n \in Nodes, j # 2 \/ n # cur.node PROVE db'.state[n] = db.state[n]
  <2>1. CASE n # cur.node BY <1>g, <1>t, <1>2, <2>1, ApplyOthers
  <2>2. CASE n = cur.node /\ op \in {"append", "artifact", "timing"}
    BY <1>g, <1>t, <1>2, <2>2, ApplyOwn
  <2>3. CASE op \in {"readTiming", "readRow", "row", "budget"}
    BY <1>g, <1>t, <2>3, ApplyNone
  <2> QED BY <1>o, <1>6, <2>1, <2>2, <2>3
<1>7. ASSUME j = 2, kind \in Ends PROVE cur.node \in Nodes /\ db'.state[cur.node] = kind
  <2>1. kind \in {"Dispatched", "Critic", "Done", "Failed", "Blocked"} /\ kind # "Critic"
        /\ StateOf(kind) = kind /\ kind \notin {"Submitted", "DagDone"}
    BY <1>7 DEF Ends, Outcomes, StateOf
  <2>2. op = "state" BY <1>o, <1>7, <2>1
  <2>3. cur.node \in Nodes BY <1>2, <2>1 DEF Sent, Event, kind
  <2> QED BY <1>g, <1>t, <1>2, <2>1, <2>2, <2>3, ApplyOwn DEF kind
<1> QED BY <1>1, <1>3, <1>4, <1>5, <1>6, <1>7 DEF kind

LEMMA AccountedSinkStep ==
  ASSUME VaultTypeOK, ScriptsFollow, ~kept, NEW M, Accounted(M), SinkStep, UNCHANGED retried
  PROVE  Accounted(M)'
<1>1. PICK j \in Nat :
        /\ Place(j) /\ \A i \in Nat : Place(i) => i = j
        /\ \A i \in Nat : Place(i)' => i = j + 1 /\ cur' = cur
        /\ cur.kind \in Ends /\ j = 1 => Place(2)' /\ cur' = cur
        /\ \A n \in Nodes : j # 2 \/ n # cur.node => db'.state[n] = db.state[n]
        /\ j = 2 /\ cur.kind \in Ends => cur.node \in Nodes /\ db'.state[cur.node] = cur.kind
  BY SinkRecords
<1>2. UNCHANGED <<chan, fate>> BY DEF SinkStep, runVars
<1>3. \A n \in Nodes : AtWork(n) <=> n = cur.node /\ j \in {1, 2} BY <1>1 DEF AtWork
<1>4. \A n \in Nodes : AtWork(n)' => n = cur.node /\ j = 1
  <2>1. \A i \in {1, 2} : i \in Nat /\ (i = j + 1 => j = 0 \/ j = 1) BY <1>1
  <2>2. j # 0 BY <1>1 DEF Place
  <2> QED BY <1>1, <2>1, <2>2 DEF AtWork
<1>5. ASSUME NEW n \in Nodes \ (M \cup retried)
      PROVE  Coming(n)' \/ Writing(n)' \/ Settled(n)'
  <2>1. Coming(n) \/ Writing(n) \/ Settled(n) BY <1>5 DEF Accounted
  <2>2. Coming(n) => Coming(n)' BY <1>2 DEF Coming
  <2>3. NoneComes(n) => NoneComes(n)' BY <1>2 DEF NoneComes
  <2>4. CASE Writing(n)
    <3>1. n = cur.node /\ cur.kind = fate[n] /\ j \in {1, 2} /\ NoneComes(n)
      BY <1>3, <2>4 DEF Writing
    <3>2. cur.kind \in Ends
      <4>1. fate[n] \in {"none"} \cup Ends BY DEF VaultTypeOK
      <4>2. cur.kind \in Kinds BY <1>1, PlaceFacts
      <4>3. "none" \notin Kinds BY DEF Kinds, TaskKinds, Outcomes
      <4> QED BY <3>1, <4>1, <4>2, <4>3
    <3>3. CASE j = 1
      <4>1. AtWork(n)' /\ cur'.kind = fate'[n] BY <1>1, <1>2, <3>1, <3>2, <3>3 DEF AtWork
      <4> QED BY <2>3, <3>1, <4>1 DEF Writing
    <3>4. CASE j = 2
      <4>1. ~AtWork(n)' BY <1>4, <3>4
      <4>2. db'.state[n] = fate'[n] BY <1>1, <1>2, <3>1, <3>2, <3>4
      <4> QED BY <2>3, <3>1, <4>1, <4>2 DEF Settled
    <3> QED BY <3>1, <3>3, <3>4
  <2>5. CASE Settled(n)
    <3>1. NoneComes(n) /\ ~AtWork(n) /\ db.state[n] = fate[n] BY <2>5 DEF Settled
    <3>2. ~(n = cur.node /\ j \in {1, 2}) BY <1>3, <3>1
    <3>3. ~AtWork(n)' BY <1>4, <3>2
    <3>4. db'.state[n] = fate'[n] BY <1>1, <1>2, <3>1, <3>2
    <3> QED BY <2>3, <3>1, <3>3, <3>4 DEF Settled
  <2> QED BY <2>1, <2>2, <2>4, <2>5
<1> QED BY <1>5 DEF Accounted

\* An operation of the sink that fails costs at most the record of the node of its event.
LEMMA AccountedSinkFails ==
  ASSUME VaultTypeOK, NEW M, Accounted(M), SinkFails, UNCHANGED retried, NEW k, k = cur.node
  PROVE  Accounted(M \cup {k})'
<1>1. /\ UNCHANGED <<chan, fate, db, kept>>
      /\ cur' = cur \/ cur' = NoEvent
  BY DEF SinkFails, runVars
<1>2. cur' = NoEvent => \A i \in Nat : ~Place(i)'
  <2>1. NoEvent \notin Sent BY DEF NoEvent, Event, Sent, TaskKinds, Outcomes
  <2> QED BY <2>1 DEF Place
<1>3. ASSUME NEW n \in Nodes \ ((M \cup {k}) \cup retried)
      PROVE  Coming(n)' \/ Writing(n)' \/ Settled(n)'
  <2>1. ~AtWork(n) /\ ~AtWork(n)' BY <1>1, <1>2, <1>3 DEF AtWork
  <2>2. Coming(n) \/ Settled(n) BY <1>3, <2>1 DEF Accounted, Writing
  <2>3. NoneComes(n) => NoneComes(n)' BY <1>1 DEF NoneComes
  <2>4. Coming(n) => Coming(n)' BY <1>1 DEF Coming
  <2> QED BY <1>1, <2>1, <2>2, <2>3, <2>4 DEF Settled
<1> QED BY <1>1, <1>3 DEF Accounted

\* A vault that cannot come to be written stays one.
LEMMA WritableStep ==
  ASSUME ServerIInv, [ServerNext]_allVars, Writable'
  PROVE  Writable
<1>i. VaultTypeOK /\ CallTypeOK /\ ScriptsFollow /\ FileHeld BY DEF ServerIInv
<1>1. CASE db' = db BY <1>1 DEF Writable
<1>2. CASE \E c \in Clients : stage[c] = "open" BY <1>i, <1>2 DEF FileHeld, Writable
<1>3. ASSUME NEW c \in Clients, MigrateCommit(c) PROVE Writable
  <2>1. stage[c] = "migrating" /\ done = db.old BY <1>3 DEF MigrateCommit
  <2>2. db.version < Current /\ db.bad = {} BY <1>i, <2>1 DEF FileHeld
  <2> QED BY <2>2 DEF Writable
<1> QED BY <1>1, <1>2, <1>3, LogStep

\* A step that loses no record.
LEMMA LossesStep ==
  ASSUME LossesCounted, NothingLost, Live' => Live, Writable' => Writable, lost => lost',
         clashes \in Nat, clashes' \in Nat, clashes' >= clashes,
         \A M : Accounted(M) => Accounted(M)'
  PROVE  LossesCounted' /\ NothingLost'
<1>1. NothingLost' BY DEF NothingLost
<1>2. ASSUME Live', Writable'
      PROVE  \E M \in SUBSET Nodes : Cardinality(M) <= clashes' /\ Accounted(M)'
  <2>1. PICK M \in SUBSET Nodes : Cardinality(M) <= clashes /\ Accounted(M)
    BY <1>2 DEF LossesCounted
  <2>2. Cardinality(M) \in Nat BY FS_Subset, FS_CardinalityType, VaultAssumption
  <2>3. Cardinality(M) <= clashes' BY <2>1, <2>2
  <2> QED BY <2>1, <2>3
<1> QED BY <1>1, <1>2 DEF LossesCounted

\* A node ends, is blocked, or all have ended: its last event is sent.
LEMMA RunRecorded ==
  ASSUME ServerIInv, RecordedIInv, RunProgress, UNCHANGED serverVars, ~kept, Live
  PROVE  FatesFit' /\ \A M : Accounted(M) => Accounted(M)'
<1>i. VaultTypeOK BY DEF ServerIInv
<1>f. /\ \A n \in Nodes : n \in todo <=> fate[n] = "none"
      /\ (\E n \in Nodes : fate[n] = "Blocked") => \E m \in Nodes : fate[m] = "Failed"
  BY DEF RecordedIInv, FatesFit
<1>t. /\ chan \in Seq(Events) /\ todo \subseteq Nodes /\ fate \in [Nodes -> {"none"} \cup Ends]
  <2>1. chan \in Seq(Sent) /\ Sent \subseteq Events BY <1>i, SentAreEvents DEF VaultTypeOK
  <2>2. Len(chan) \in Nat /\ DOMAIN chan = 1 .. Len(chan) BY <2>1, LenProperties
  <2>3. \A i \in 1 .. Len(chan) : chan[i] \in Events BY <2>1, ElementOfSeq
  <2> QED BY <1>i, <2>1, <2>2, <2>3, IsASeq, SeqDef DEF VaultTypeOK
<1> USE DEF fileVars, callVars, runVars, readerVars, faultVars, vaultVars, serverVars
\* The events of one node are sent, and it is done with.
<1>1. ASSUME NEW n \in Nodes, NEW es \in Seq(Events), NEW o \in Ends, up = "going", n \in todo,
             todo' = todo \ {n}, chan' = chan \o es, fate' = [fate EXCEPT ![n] = o],
             UNCHANGED <<fileVars, callVars, kept, up, faultVars>>,
             es # <<>>, es[Len(es)].kind = o, \A i \in DOMAIN es : es[i].node = n,
             o = "Blocked" => \E m \in Nodes : fate[m] = "Failed"
      PROVE  FatesFit' /\ \A M : Accounted(M) => Accounted(M)'
  <2>1. fate'[n] = o /\ (\A m \in Nodes \ {n} : fate'[m] = fate[m]) /\ fate[n] = "none"
        /\ o # "none"
    BY <1>1, <1>t, <1>f DEF Ends, Outcomes
  <2>2. /\ chan \in Seq(Events) /\ chan' = chan \o es /\ n \in Nodes \cup {NoNode}
        /\ \A i \in DOMAIN es : es[i].node = n
        /\ es # <<>> /\ es[Len(es)].kind = fate'[n]
        /\ UNCHANGED <<kept, script, cur, db, retried>>
    BY <1>1, <1>t, <2>1
  <2>6. \A M : Accounted(M) => Accounted(M)'
    <3>1. ASSUME NEW M, Accounted(M) PROVE Accounted(M)'
      BY <2>1, <2>2, <3>1, AccountedSent
    <3> QED BY <3>1
  <2>3. \A m \in Nodes : m \in todo' <=> fate'[m] = "none" BY <1>1, <1>f, <2>1
  <2>4. \A m \in Nodes : fate[m] = "Failed" => fate'[m] = "Failed" BY <1>f, <2>1
  <2>5. (\E m \in Nodes : fate'[m] = "Blocked") => \E m \in Nodes : fate'[m] = "Failed"
    BY <1>1, <1>f, <2>1, <2>4
  <2> QED BY <1>1, <2>3, <2>5, <2>6 DEF FatesFit
<1>2. ASSUME NEW n \in Nodes, NodeBlocks(n)
      PROVE  FatesFit' /\ \A M : Accounted(M) => Accounted(M)'
  <2> DEFINE e == Event("Blocked", n)
  <2>1. e \in Events BY DEF Event, Events, Kinds
  <2>2. <<e>> \in Seq(Events) /\ <<e>> # <<>> /\ Len(<<e>>) = 1 /\ <<e>>[1] = e BY <2>1
  <2>3. chan' = chan \o <<e>> BY <1>2, <1>t, <2>1, AppendIsConcat DEF NodeBlocks
  <2>4. e.kind = "Blocked" /\ e.node = n /\ DOMAIN <<e>> = 1 .. 1 BY DEF Event
  <2>5. \A i \in 1 .. 1 : i = 1 OBVIOUS
  <2> HIDE DEF e
  <2>6. /\ <<e>>[Len(<<e>>)].kind = "Blocked" /\ \A i \in DOMAIN <<e>> : <<e>>[i].node = n
    BY <2>2, <2>4, <2>5
  <2>7. /\ up = "going" /\ n \in todo /\ todo' = todo \ {n}
        /\ fate' = [fate EXCEPT ![n] = "Blocked"] /\ \E m \in Nodes : fate[m] = "Failed"
        /\ UNCHANGED <<fileVars, callVars, kept, up, faultVars>>
    BY <1>2 DEF NodeBlocks
  <2> QED BY <1>1, <2>2, <2>3, <2>6, <2>7 DEF Ends
<1>3. ASSUME NEW n \in Nodes, NEW batch \in Batches[n], NodeEnds(n, batch)
      PROVE  FatesFit' /\ \A M : Accounted(M) => Accounted(M)'
  <2>1. batch \in Seq(TaskKinds) /\ batch # <<>> /\ Last(batch) \in Outcomes
    BY VaultAssumption
  <2> DEFINE es == [i \in DOMAIN batch |-> Event(batch[i], n)]
             K == Len(batch)
  <2>2. K \in Nat \ {0} /\ DOMAIN batch = 1 .. K BY <2>1, LenProperties, EmptySeq
  <2>3. \A i \in 1 .. K : batch[i] \in TaskKinds BY <2>1, ElementOfSeq
  <2>4. es \in [1 .. K -> Events] BY <2>2, <2>3 DEF Event, Events, Kinds
  <2>5. es \in Seq(Events) /\ DOMAIN es = 1 .. K BY <2>2, <2>4, IsASeq
  <2>6. Len(es) = K BY <2>2, <2>5, LenProperties
  <2>7. es # <<>> BY <2>2, <2>6, EmptySeq
  <2>8. K \in 1 .. K /\ Last(batch) = batch[K] BY <2>2 DEF Last
  <2>9. es[Len(es)].kind = Last(batch) BY <2>2, <2>6, <2>8 DEF Event
  <2>10. \A i \in DOMAIN es : es[i].node = n BY <2>2 DEF Event
  <2>11. /\ up = "going" /\ n \in todo /\ todo' = todo \ {n}
         /\ fate' = [fate EXCEPT ![n] = Last(batch)] /\ chan' = chan \o es
         /\ UNCHANGED <<fileVars, callVars, kept, up, faultVars>>
    BY <1>3 DEF NodeEnds
  <2>12. Last(batch) \in Ends /\ Last(batch) # "Blocked" BY <2>1 DEF Ends, Outcomes
  <2> HIDE DEF es
  <2> QED BY <1>1, <2>5, <2>7, <2>9, <2>10, <2>11, <2>12
<1>4. ASSUME RunEnds
      PROVE  FatesFit' /\ \A M : Accounted(M) => Accounted(M)'
  <2> DEFINE e == Event("DagDone", NoNode)
  <2>1. e \in Events /\ e.node = NoNode BY DEF Event, Events, Kinds
  <2>2. <<e>> \in Seq(Events) /\ <<e>>[1] = e /\ DOMAIN <<e>> = 1 .. 1 BY <2>1
  <2>3. chan' = chan \o <<e>> BY <1>4, <1>t, <2>1, AppendIsConcat DEF RunEnds
  <2>4. \A i \in 1 .. 1 : i = 1 OBVIOUS
  <2> HIDE DEF e
  <2>5. \A i \in DOMAIN <<e>> : <<e>>[i].node = NoNode BY <2>1, <2>2, <2>4
  <2>6. NoNode \notin Nodes BY VaultAssumption
  <2>7. UNCHANGED <<kept, script, cur, db, fate, todo>> /\ todo = {} BY <1>4 DEF RunEnds
  <2>8. ASSUME NEW M, Accounted(M) PROVE Accounted(M)'
    BY <1>t, <2>2, <2>3, <2>5, <2>6, <2>7, <2>8, AccountedSent
  <2>9. FatesFit' BY <1>f, <2>7 DEF FatesFit
  <2> QED BY <2>8, <2>9
<1> QED BY <1>2, <1>3, <1>4 DEF RunProgress

LEMMA RecordedInit == ServerInit => RecordedIInv
<1> SUFFICES ASSUME ServerInit PROVE RecordedIInv OBVIOUS
<1>1. /\ task = "none" /\ up = "no" /\ chan = <<>> /\ script[Sink] = <<>> /\ db \in Vaults
      /\ \A n \in Nodes : fate[n] = "none"
      /\ \A h \in Handlers : call[h].what = "none"
      /\ kept \/ db.log = <<>>
  BY ClientsDiffer DEF ServerInit, VaultInit, NoCall
<1>2. ASSUME ~kept, NEW n \in Nodes PROVE db.state[n] = "none"
  <2>1. db.log = <<>> /\ db.state[n] = StateInLog(db.log, n) BY <1>1, <1>2, VaultsAssumption
  <2>2. DOMAIN db.log = {} BY <2>1
  <2>3. Positions(db.log, n, StateKinds) = {} BY <2>2 DEF Positions
  <2> QED BY <2>1, <2>3 DEF StateInLog, LastAt
<1> QED BY <1>1, <1>2 DEF RecordedIInv, NothingYet, FatesFit, LossesCounted, NothingLost,
                          CountsAtEnd, Live, Drained

\* What an await has seen of the end of a run.
LEMMA CountsStep ==
  ASSUME ServerIInv, CountsAtEnd, [ServerNext]_allVars
  PROVE  CountsAtEnd'
<1>i. CallTypeOK /\ OneTask BY DEF ServerIInv
<1> USE DEF fileVars, callVars, runVars, readerVars, faultVars, vaultVars, serverVars
<1>1. CASE VaultStep /\ UNCHANGED serverVars BY <1>1 DEF CountsAtEnd
<1>2. CASE Submit BY <1>i, <1>2 DEF Submit, OneTask, Free, NoCall, CountsAtEnd
<1>3. CASE TaskEnds \/ TaskAborts \/ Cancel \/ Sweep \/ Dies
  BY <1>i, <1>3 DEF TaskEnds, TaskAborts, Cancel, Sweep, Dies, CountsAtEnd, NoCall
\* A request begins, goes on or ends.
<1>c. ASSUME NEW h \in Handlers, UNCHANGED <<entry, task>>,
             \A g \in Handlers \ {h} : call'[g] = call[g],
             call'[h].what = "counting" => call[h].what = "counting" \/ task = "ended"
      PROVE  CountsAtEnd'
  BY <1>c DEF CountsAtEnd
<1>t. call \in [Handlers -> [what : {"none", "await", "status", "counting", "tokening", "retry"},
                             node : Nodes \cup {NoNode}]]
  BY <1>i DEF CallTypeOK
<1>4. ASSUME NEW h \in Handlers, SeesEnd(h) PROVE CountsAtEnd'
  <2>1. task = "ended" BY <1>i, <1>4 DEF SeesEnd, IsTerminal, OneTask
  <2> QED BY <1>c, <1>t, <1>4, <2>1 DEF SeesEnd, Goes
<1>5. ASSUME NEW h \in Handlers,
             Await(h) \/ Status(h) \/ GivesUp(h) \/ \E n \in Nodes : Retry(h, n)
      PROVE  CountsAtEnd'
  BY <1>c, <1>t, <1>5 DEF Await, Status, GivesUp, Retry, Goes
<1>6. ASSUME NEW h \in Handlers, HandlerStep(h) \/ HandlerFails(h) PROVE CountsAtEnd'
  BY <1>c, <1>t, <1>6 DEF HandlerStep, HandlerFails, NoCall
<1>7. ASSUME NEW h \in Handlers, UNCHANGED serverVars PROVE CountsAtEnd'
  BY <1>7 DEF CountsAtEnd
<1>8. CASE UNCHANGED allVars BY <1>8 DEF allVars, CountsAtEnd
<1> QED BY <1>1, <1>2, <1>3, <1>4, <1>5, <1>6, <1>7, <1>8 DEF ServerNext, HandlerMoves

LEMMA RecordedStep == ServerIInv /\ RecordedIInv /\ [ServerNext]_allVars => RecordedIInv'
<1> SUFFICES ASSUME ServerIInv, RecordedIInv, [ServerNext]_allVars PROVE RecordedIInv'
  OBVIOUS
<1>i. VaultTypeOK /\ CallTypeOK /\ ScriptsFollow /\ OneTask BY DEF ServerIInv
<1>n. VaultTypeOK' /\ OneTask' BY VaultTypeStep, TaskStep
<1>r. NothingYet /\ FatesFit /\ LossesCounted /\ NothingLost BY DEF RecordedIInv
<1>c. CountsAtEnd' BY CountsStep DEF RecordedIInv
<1>w. Writable' => Writable BY WritableStep
<1>t. /\ kept' = kept /\ clashes \in Nat /\ clashes' \in Nat /\ db \in Tables
      /\ script \in [Clients -> Seq(Ops)]
  BY <1>i, <1>n, KeptStays DEF VaultTypeOK
<1>d. /\ Sink \in Clients /\ Reader \in Clients /\ Handlers \subseteq Clients
      /\ Sink \notin Handlers /\ Sink # Reader
  BY ClientsDiffer
<1> DEFINE Goal == NothingYet' /\ FatesFit' /\ LossesCounted' /\ NothingLost'
\* A server's run has nothing to do with a file that `pidag run` keeps open.
<1>k. CASE kept
  <2>1. task' = "none" BY <1>k, <1>n, <1>t DEF OneTask
  <2> QED BY <1>c, <1>k, <1>t, <2>1 DEF RecordedIInv, NothingYet, FatesFit, LossesCounted,
                                        NothingLost, Live
<1>g. CASE ~kept
  <2> USE DEF fileVars, callVars, runVars, readerVars, faultVars, vaultVars, serverVars
  \* The run does not move.
  <2>q. ASSUME UNCHANGED <<chan, fate, cur, todo, up, task>>, script'[Sink] = script[Sink],
               retried \subseteq retried', lost => lost', clashes' >= clashes,
               \A n \in Nodes \ retried' : db'.state[n] = db.state[n],
               task = "none" => db'.state = db.state
        PROVE  Goal
    <3>1. NothingYet' BY <1>r, <1>t, <2>q DEF NothingYet, Drained
    <3>2. FatesFit' BY <1>r, <2>q DEF FatesFit, Live
    <3>3. \A M : Accounted(M) => Accounted(M)'
      <4>1. ASSUME NEW M, Accounted(M) PROVE Accounted(M)'
        BY <1>t, <2>q, <4>1, AccountedFrame
      <4> QED BY <4>1
    <3>4. Live' => Live BY <2>q DEF Live
    <3>5. LossesCounted' /\ NothingLost' BY <1>r, <1>w, <1>t, <2>q, <3>3, <3>4, LossesStep
    <3> QED BY <3>1, <3>2, <3>5
  \* A step of the sink or of the run: one has been submitted.
  <2>s. ASSUME UNCHANGED <<lost, clashes, task>>, task # "none", Live => FatesFit',
               Live => \A M : Accounted(M) => Accounted(M)'
        PROVE  Goal
    <3>1. NothingYet' BY <2>s DEF NothingYet
    <3>2. CASE Live
      <4>1. clashes' >= clashes BY <1>t, <2>s
      <4> QED BY <1>r, <1>w, <1>t, <2>s, <3>1, <3>2, <4>1, LossesStep
    <3>3. CASE ~Live
      <4>1. ~Live' BY <2>s, <3>3 DEF Live
      <4> QED BY <3>1, <4>1 DEF FatesFit, LossesCounted, NothingLost
    <3> QED BY <3>2, <3>3
  <2> HIDE DEF Goal
  <2>1. ASSUME NEW c \in Clients, Open(c) \/ MigrateRecord(c) \/ MigrateCommit(c),
               UNCHANGED serverVars
        PROVE  Goal
    <3>1. db'.state = db.state
      BY <1>t, <2>1 DEF Open, MigrateRecord, MigrateCommit, Tables
    <3>2. UNCHANGED <<chan, fate, cur, todo, up, task, script, retried, lost, clashes>>
      BY <2>1 DEF Open, MigrateRecord, MigrateCommit
    <3> QED BY <1>t, <2>q, <3>1, <3>2
  <2>2. ASSUME Take, UNCHANGED serverVars PROVE Goal
    <3>1. UNCHANGED <<lost, clashes, task, fate, todo, up, retried>> /\ chan # <<>>
      BY <2>2 DEF Take
    <3>2. task # "none" BY <1>r, <1>g, <3>1 DEF NothingYet, Drained
    <3>3. FatesFit' BY <1>r, <3>1 DEF FatesFit, Live
    <3>4. ASSUME NEW M, Accounted(M) PROVE Accounted(M)'
      BY <1>i, <2>2, <3>1, <3>4, AccountedTake
    <3> QED BY <2>s, <3>1, <3>2, <3>3, <3>4
  <2>3. ASSUME SinkStep, UNCHANGED serverVars PROVE Goal
    <3>1. UNCHANGED <<lost, clashes, task, fate, todo, up, retried>> /\ script[Sink] # <<>>
      BY <2>3 DEF SinkStep
    <3>2. task # "none" BY <1>r, <1>g, <3>1 DEF NothingYet, Drained
    <3>3. FatesFit' BY <1>r, <3>1 DEF FatesFit, Live
    <3>4. ASSUME NEW M, Accounted(M) PROVE Accounted(M)'
      BY <1>i, <1>g, <2>3, <3>1, <3>4, AccountedSinkStep
    <3> QED BY <2>s, <3>1, <3>2, <3>3, <3>4
  <2>4. ASSUME SinkFails, UNCHANGED serverVars PROVE Goal
    <3>1. /\ UNCHANGED <<db, task, fate, todo, up, retried>> /\ lost' = TRUE
          /\ script[Sink] # <<>>
      <4>1. stage[Sink] = "migrating" => script[Sink] # <<>> BY <1>i DEF ScriptsFollow
      <4>2. script[Sink] # <<>>
        BY <1>d, <2>4, <4>1 DEF SinkFails, Refused, Unreadable, Wants
      <4> QED BY <2>4, <4>2 DEF SinkFails
    <3>2. task # "none" BY <1>r, <1>g, <3>1 DEF NothingYet, Drained
    <3>3. NothingYet' /\ FatesFit' /\ NothingLost'
      BY <1>r, <3>1, <3>2 DEF NothingYet, FatesFit, NothingLost, Live
    <3>4. ASSUME Live, Writable
          PROVE  \E M \in SUBSET Nodes : Cardinality(M) <= clashes' /\ Accounted(M)'
      <4>1. clashes' = clashes + 1
        <5>1. ~Unreadable(Sink)
          <6>1. stage[Sink] = "migrating" => db.version < Current BY <1>d DEF ServerIInv, FileHeld
          <6>2. db.version < Current => db.version # Current BY <1>t DEF Tables, Current
          <6>3. db.bad \ done # {} => db.bad # {} OBVIOUS
          <6> QED BY <3>4, <6>1, <6>2, <6>3 DEF Unreadable, Writable
        <5>2. ~(db.version > Current) BY <1>t, <3>4 DEF Writable, Tables, Current
        <5> QED BY <2>4, <5>1, <5>2 DEF SinkFails, Refused
      <4>2. PICK M \in SUBSET Nodes : Cardinality(M) <= clashes /\ Accounted(M)
        BY <1>r, <3>4 DEF LossesCounted
      <4>3. PICK k : k = cur.node OBVIOUS
      <4>4. Accounted(M \cup {k})' BY <1>i, <2>4, <3>1, <4>2, <4>3, AccountedSinkFails
      <4>5. IsFiniteSet(M) /\ Cardinality(M) \in Nat
        BY <4>2, FS_Subset, FS_CardinalityType, VaultAssumption
      <4>6. CASE k \in Nodes
        <5>1. Cardinality(M \cup {k}) = IF k \in M THEN Cardinality(M) ELSE Cardinality(M) + 1
          BY <4>5, FS_AddElement
        <5>2. Cardinality(M \cup {k}) <= clashes'
          <6>1. CASE k \in M BY <1>t, <4>1, <4>2, <4>5, <5>1, <6>1
          <6>2. CASE k \notin M BY <1>t, <4>1, <4>2, <4>5, <5>1, <6>2
          <6> QED BY <6>1, <6>2
        <5>3. M \cup {k} \in SUBSET Nodes BY <4>2, <4>6
        <5> QED BY <4>4, <5>2, <5>3
      <4>7. CASE k \notin Nodes
        <5>1. Accounted(M)' BY <4>4, <4>7 DEF Accounted
        <5>2. Cardinality(M) <= clashes' BY <1>t, <4>1, <4>2, <4>5
        <5> QED BY <4>2, <5>1, <5>2
      <4> QED BY <4>6, <4>7
    <3>5. LossesCounted' BY <1>w, <3>1, <3>4 DEF LossesCounted, Live
    <3> QED BY <3>3, <3>5 DEF Goal

  <2>5. ASSUME RunProgress, UNCHANGED serverVars PROVE Goal
    <3>1. UNCHANGED <<lost, clashes, task>> /\ up = "going"
      BY <2>5 DEF RunProgress, RunEnds, NodeBlocks, NodeEnds
    <3>2. task # "none" BY <1>r, <1>g, <3>1 DEF NothingYet
    <3>3. Live => FatesFit' /\ \A M : Accounted(M) => Accounted(M)'
      BY <1>g, <2>5, RunRecorded
    <3> QED BY <2>s, <3>1, <3>2, <3>3
  <2>6. ASSUME ReaderStep \/ ReaderFails, UNCHANGED serverVars PROVE Goal
    <3>1. UNCHANGED <<db, chan, fate, cur, todo, up, task, script, retried, lost>>
      BY <2>6 DEF ReaderStep, ReaderFails
    <3>2. clashes' >= clashes BY <1>t, <2>6 DEF ReaderStep, ReaderFails, Unreadable
    <3> QED BY <2>q, <3>1, <3>2
  <2>7. ASSUME VaultStep, UNCHANGED serverVars PROVE Goal
    <3>1. ~Start /\ ~Exit /\ ~Crash BY <1>g DEF Start, Exit, Crash
    <3>2. ~Started /\ ~StartFails
      <4>1. script[Sink] # <<"start">> BY <1>i, <1>g, PlaceFacts DEF ScriptsFollow, SinkScript
      <4> QED BY <4>1 DEF Started, StartFails
    <3> QED BY <1>d, <2>1, <2>2, <2>3, <2>4, <2>5, <2>6, <2>7, <3>1, <3>2 DEF VaultStep
  \* The tasks and the requests.
  <2>8. ASSUME Submit PROVE Goal
    <3>1. task = "none" /\ up = "no" /\ Drained
          /\ \A n \in Nodes : fate[n] = "none" /\ db.state[n] = "none"
      BY <1>r, <1>g, <2>8 DEF Submit, NothingYet
    <3>2. /\ task' = "running" /\ up' = "going" /\ todo' = Nodes
          /\ chan' = <<Event("Submitted", NoNode)>>
          /\ UNCHANGED <<db, script, cur, fate, lost, clashes, retried>>
      BY <2>8 DEF Submit
    <3>3. ASSUME NEW n \in Nodes PROVE Settled(n)'
      <4>1. \A i \in Nat : ~Place(i)' BY <1>t, <3>1, <3>2, PlacesNext DEF Drained
      <4>2. ~AtWork(n)' BY <4>1 DEF AtWork
      <4>3. NoneComes(n)'
        <5>1. NoNode # n BY VaultAssumption
        <5>2. \A i \in DOMAIN chan' : chan'[i].node = NoNode BY <3>2 DEF Event
        <5> QED BY <5>1, <5>2 DEF NoneComes
      <4> QED BY <3>1, <3>2, <4>2, <4>3 DEF Settled
    <3>4. Accounted({})' BY <3>3 DEF Accounted
    <3>5. Cardinality({}) = 0 /\ 0 <= clashes' /\ {} \in SUBSET Nodes
      BY <1>t, FS_EmptySet
    <3>6. NothingYet' /\ NothingLost' BY <3>2, <3>4 DEF NothingYet, NothingLost
    <3>7. LossesCounted' BY <3>4, <3>5 DEF LossesCounted
    <3>8. FatesFit' BY <3>1, <3>2 DEF FatesFit
    <3> QED BY <3>6, <3>7, <3>8 DEF Goal
  <2>9. ASSUME TaskEnds PROVE Goal
    <3>1. /\ task \in {"running", "aborting"} /\ up = "ending" /\ task' = "ended" /\ up' = "no"
          /\ UNCHANGED <<db, chan, script, cur, fate, todo, lost, clashes, retried>>
      BY <2>9 DEF TaskEnds
    <3>2. Live /\ task' # "none" BY <3>1 DEF Live
    <3>3. NothingYet' /\ FatesFit' BY <1>r, <3>1, <3>2 DEF NothingYet, FatesFit
    <3>4. ASSUME NEW M, Accounted(M) PROVE Accounted(M)'
      BY <1>t, <3>1, <3>4, AccountedFrame
    <3>5. clashes' >= clashes BY <1>t, <3>1
    <3>6. LossesCounted' /\ NothingLost'
      BY <1>r, <1>w, <1>t, <3>1, <3>2, <3>4, <3>5, LossesStep
    <3> QED BY <3>3, <3>6 DEF Goal
  <2>10. ASSUME Cancel \/ TaskAborts \/ Dies PROVE Goal
    <3>1. CASE task' = "aborted"
      <4>1. ~Live' /\ task' # "none" BY <3>1 DEF Live
      <4> QED BY <4>1 DEF Goal, NothingYet, FatesFit, LossesCounted, NothingLost
    <3>2. CASE task' # "aborted"
      <4>1. Cancel BY <2>10, <3>2 DEF TaskAborts, Dies
      <4>2. /\ UNCHANGED <<vaultVars, retried>> /\ entry = "listed"
            /\ task' = IF task = "running" THEN "aborting" ELSE task
        BY <4>1 DEF Cancel
      <4>3. task # "none" /\ task' # "none" BY <1>i, <4>2 DEF OneTask
      <4>4. Live' => Live BY <4>2 DEF Live
      <4>5. NothingYet' /\ FatesFit' BY <1>r, <4>2, <4>3, <4>4 DEF NothingYet, FatesFit
      <4>6. ASSUME NEW M, Accounted(M) PROVE Accounted(M)'
        BY <1>t, <4>2, <4>6, AccountedFrame
      <4>7. clashes' >= clashes BY <1>t, <4>2
      <4>8. LossesCounted' /\ NothingLost'
        BY <1>r, <1>w, <1>t, <4>2, <4>4, <4>6, <4>7, LossesStep
      <4> QED BY <4>5, <4>8 DEF Goal
    <3> QED BY <3>1, <3>2
  <2>11. ASSUME Sweep \/ UNCHANGED allVars PROVE Goal
    <3>1. UNCHANGED <<vaultVars, task, retried>> BY <2>11 DEF Sweep, allVars
    <3>2. clashes' >= clashes BY <1>t, <3>1
    <3> QED BY <2>q, <3>1, <3>2
  <2>12. ASSUME NEW h \in Handlers,
                \/ Await(h) \/ Status(h) \/ SeesEnd(h) \/ GivesUp(h)
                \/ \E n \in Nodes : Retry(h, n)
         PROVE  Goal
    <3>1. /\ UNCHANGED <<db, chan, fate, cur, todo, up, task, lost, clashes>>
          /\ retried \subseteq retried'
          /\ \E ops : script' = [script EXCEPT ![h] = ops]
      BY <2>12 DEF Await, Status, SeesEnd, GivesUp, Retry, Goes
    <3>2. script'[Sink] = script[Sink] BY <1>t, <1>d, <3>1
    <3>3. clashes' >= clashes BY <1>t, <3>1
    <3> QED BY <2>q, <3>1, <3>2, <3>3
  <2>13. ASSUME NEW h \in Handlers, HandlerStep(h) PROVE Goal
    <3> DEFINE e == Event("ManualRetry", call[h].node)
    <3>1. /\ UNCHANGED <<chan, fate, cur, todo, up, task, lost, clashes, retried>>
          /\ stage[h] = "open"
      BY <2>13 DEF HandlerStep
    <3>2. /\ script'[Sink] = script[Sink]
          /\ \/ db' = db
             \/ /\ call[h].what = "retry" /\ db' = PutState(db, e)
             \/ db' = Append_(db, e)
      BY <1>i, <1>d, <2>13, HandlerStepEffect
    <3>3. call[h].what = "retry" => call[h].node \in retried
      BY <1>i DEF ScriptsFollow, CallScript
    <3>4. \A n \in Nodes \ retried' : db'.state[n] = db.state[n]
      <4>1. CASE db' = db BY <4>1
      <4>2. CASE db' = Append_(db, e) BY <1>t, <4>2 DEF Append_, Tables
      <4>3. CASE call[h].what = "retry" /\ db' = PutState(db, e)
        <5>1. e.node = call[h].node /\ e.kind # "Critic" BY DEF Event
        <5> QED BY <1>t, <3>1, <3>3, <4>3, <5>1 DEF PutState, Tables
      <4> QED BY <3>2, <4>1, <4>2, <4>3
    <3>5. task # "none"
      <4>1. script[h] # <<>> /\ CallScript(h) BY <1>i, <3>1 DEF ScriptsFollow
      <4>2. call[h].what # "none" BY <4>1 DEF CallScript
      <4> QED BY <1>i, <4>2 DEF OneTask, Free, NoCall
    <3>6. clashes' >= clashes BY <1>t, <3>1
    <3> QED BY <2>q, <3>1, <3>2, <3>4, <3>5, <3>6
  <2>14. ASSUME NEW h \in Handlers, HandlerFails(h) PROVE Goal
    <3>1. /\ UNCHANGED <<db, chan, fate, cur, todo, up, task, retried>>
          /\ script' = [script EXCEPT ![h] = <<>>]
      BY <2>14 DEF HandlerFails
    <3>4. lost => lost' BY <2>14 DEF HandlerFails
    <3>2. script'[Sink] = script[Sink] BY <1>t, <1>d, <3>1
    <3>3. clashes' >= clashes BY <1>t, <2>14 DEF HandlerFails, Refused, Unreadable
    <3> QED BY <2>q, <3>1, <3>2, <3>3, <3>4
  <2>15. Goal
    BY <1>d, <2>1, <2>7, <2>8, <2>9, <2>10, <2>11, <2>12, <2>13, <2>14
       DEF ServerNext, HandlerMoves
  <2> QED BY <1>c, <2>15 DEF Goal, RecordedIInv
<1> QED BY <1>k, <1>g

\* What handle_dag_await and handle_dag_status report of a run that has ended is how the
\* scheduler ended each node, but for a record per clash, however requests, the sink, the
\* cleanup and a cancellation interleave.  (Of a run without nodes dag.status says
\* "running" for ever: the records of such a run are none, as at its beginning.)
THEOREM EndReportSound == Nodes # {} => (ServerSpec => []EndReported)
<1> SUFFICES ASSUME Nodes # {} PROVE ServerSpec => []EndReported OBVIOUS
<1>1. ServerIInv /\ RecordedIInv => EndReported
  <2> SUFFICES ASSUME ServerIInv, RecordedIInv PROVE EndReported OBVIOUS
  <2>i. VaultTypeOK /\ OneTask BY DEF ServerIInv
  <2>r. FatesFit /\ LossesCounted /\ NothingLost /\ CountsAtEnd BY DEF RecordedIInv
  <2>1. \A h \in Handlers :
          call[h].what = "counting" => entry = "gone" \/ (task = "ended" /\ Drained)
    BY <2>i, <2>r DEF CountsAtEnd, OneTask
  <2> SUFFICES ASSUME task = "ended"
               PROVE  /\ db.version = Current => Cardinality(Misrecorded \ retried) <= clashes
                      /\ ~lost /\ retried = {} =>
                           db.extra \/ Verdict(db) = IF \E n \in Nodes : fate[n] = "Failed"
                                                     THEN "failed" ELSE "done"
    BY <2>1 DEF EndReported
  <2>2. Live /\ chan = <<>> /\ script[Sink] = <<>> /\ up = "no"
    BY <2>i DEF Live, OneTask, Drained
  <2>3. ASSUME NEW M, Accounted(M), NEW n \in Nodes \ (M \cup retried)
        PROVE  db.state[n] = fate[n]
    <3>1. ~Coming(n) BY <2>2 DEF Coming
    <3>2. ~Writing(n)
      <4>1. ~Place(1) /\ ~Place(2) BY <2>2, PlaceFacts
      <4> QED BY <4>1 DEF Writing, AtWork
    <3> QED BY <2>3, <3>1, <3>2 DEF Accounted, Settled
  <2>4. ASSUME db.version = Current PROVE Cardinality(Misrecorded \ retried) <= clashes
    <3>1. PICK M \in SUBSET Nodes : Cardinality(M) <= clashes /\ Accounted(M)
      BY <2>r, <2>2, <2>4 DEF LossesCounted, Writable
    <3>2. Misrecorded \ retried \subseteq M BY <2>3, <3>1 DEF Misrecorded
    <3>3. IsFiniteSet(M) /\ Cardinality(M) \in Nat
      BY <3>1, FS_Subset, FS_CardinalityType, VaultAssumption
    <3>4. Cardinality(Misrecorded \ retried) \in Nat
          /\ Cardinality(Misrecorded \ retried) <= Cardinality(M)
      BY <3>2, <3>3, FS_Subset, FS_CardinalityType
    <3> QED BY <2>i, <3>1, <3>3, <3>4 DEF VaultTypeOK
  <2>5. ASSUME ~lost, retried = {}, ~db.extra
        PROVE  Verdict(db) = IF \E n \in Nodes : fate[n] = "Failed" THEN "failed" ELSE "done"
    <3>1. \A n \in Nodes : db.state[n] = fate[n]
      BY <2>r, <2>2, <2>3, <2>5 DEF NothingLost
    <3>2. \A n \in Nodes : fate[n] \in Ends
      BY <2>i, <2>r, <2>2 DEF FatesFit, VaultTypeOK
    <3>3. {n \in Nodes : db.state[n] # "none"} = Nodes
      BY <3>1, <3>2 DEF Ends, Outcomes
    <3>4. CASE \E n \in Nodes : fate[n] = "Failed"
      BY <3>1, <3>3, <3>4 DEF Verdict
    <3>5. CASE ~\E n \in Nodes : fate[n] = "Failed"
      <4>1. \A n \in Nodes : fate[n] = "Done"
        BY <2>r, <2>2, <3>2, <3>5 DEF FatesFit, Ends, Outcomes
      <4> QED BY <2>5, <3>1, <3>3, <3>5, <4>1 DEF Verdict
    <3> QED BY <3>4, <3>5
  <2> QED BY <2>4, <2>5
<1> QED BY <1>1, RecordedInit, RecordedStep, ServerInvariance, PTL DEF ServerSpec

=============================================================================
