----------------------------- MODULE AwaitProofs -----------------------------
(***************************************************************************)
(* Proofs about the waiting loops of AwaitLoop over the snapshot of        *)
(* WatchSnapshot, for every set of nodes and number of resume tokens.      *)
(***************************************************************************)
EXTENDS AwaitLoop, FiniteSetTheorems, SequenceTheorems, TLAPS

-----------------------------------------------------------------------------
(* The inductive invariant.                                                *)

AwaitTypeOK ==
  /\ state \in [Nodes -> {"Pending"} \cup Outcomes]
  /\ order \in Seq(Nodes) /\ done \in BOOLEAN
  /\ version \in Nat /\ run \in {"none", "going", "over", "aborted"}
  /\ call \in {"none", "dag", "any"} /\ timed \in BOOLEAN
  /\ at \in {"check", "checked", "parked"}
  /\ seen \in 0 .. version /\ tokens \subseteq 0 .. version
  /\ consumed \subseteq Nodes /\ handed \in Seq(Nodes)

\* A node is listed when it becomes terminal, and then once.
ListedOnce ==
  /\ \A n \in Nodes : state[n] = "Pending" => \A i \in 1 .. Len(order) : order[i] # n
  /\ \A i, j \in 1 .. Len(order) : order[i] = order[j] => i = j

\* What wait_any has consumed is what it handed back, a prefix of terminal_order.
HandedPrefix ==
  /\ Len(handed) <= Len(order)
  /\ \A i \in 1 .. Len(handed) : handed[i] = order[i]
  /\ consumed = {handed[i] : i \in 1 .. Len(handed)}

\* From the check on, a call that has seen all publications has nothing to return.
CheckedInVain ==
  at # "check" =>
    /\ call # "none"
    /\ seen = version => ~done /\ (call = "any" => Fresh = {})

AwaitIInv == AwaitTypeOK /\ ListedOnce /\ HandedPrefix /\ CheckedInVain

-----------------------------------------------------------------------------
(* The loop over terminal_order finds the node after the last one handed back. *)
LEMMA FirstFresh ==
  ASSUME AwaitTypeOK, ListedOnce, HandedPrefix
  PROVE  /\ Fresh = (Len(handed) + 1) .. Len(order)
         /\ Fresh # {} => /\ Len(handed) < Len(order)
                          /\ First = order[Len(handed) + 1]
<1>1. Len(order) \in Nat /\ Len(handed) \in Nat BY LenProperties DEF AwaitTypeOK
<1>2. \A i \in 1 .. Len(order) : order[i] \in consumed <=> i <= Len(handed)
  <2> SUFFICES ASSUME NEW i \in 1 .. Len(order)
               PROVE  order[i] \in consumed <=> i <= Len(handed)
    OBVIOUS
  <2>1. CASE i <= Len(handed)
    <3>1. i \in 1 .. Len(handed) BY <1>1, <2>1
    <3> QED BY <2>1, <3>1 DEF HandedPrefix
  <2>2. CASE ~ (i <= Len(handed))
    <3> SUFFICES ASSUME order[i] \in consumed PROVE FALSE BY <2>2
    <3>1. PICK j \in 1 .. Len(handed) : order[i] = handed[j] BY DEF HandedPrefix
    <3>2. j \in 1 .. Len(order) /\ order[j] = order[i] BY <1>1, <3>1 DEF HandedPrefix
    <3>3. j = i BY <3>2 DEF ListedOnce
    <3> QED BY <1>1, <2>2, <3>3
  <2> QED BY <2>1, <2>2
<1>3. Fresh = (Len(handed) + 1) .. Len(order)
  BY <1>1, <1>2 DEF Fresh
<1>4. ASSUME Fresh # {}
      PROVE  Len(handed) < Len(order) /\ First = order[Len(handed) + 1]
  <2>1. Len(handed) < Len(order) BY <1>1, <1>3, <1>4
  <2>2. /\ Len(handed) + 1 \in Fresh
        /\ \A j \in Fresh : Len(handed) + 1 <= j
    BY <1>1, <1>3, <2>1
  <2>3. \A i \in Fresh : (\A j \in Fresh : i <= j) => i = Len(handed) + 1
    BY <1>1, <1>3, <2>2
  <2>4. (CHOOSE i \in Fresh : \A j \in Fresh : i <= j) = Len(handed) + 1
    BY <2>2, <2>3
  <2> QED BY <2>1, <2>4 DEF First
<1> QED BY <1>3, <1>4

-----------------------------------------------------------------------------
LEMMA AwaitInitIInv == AwaitInit => AwaitIInv
<1> SUFFICES ASSUME AwaitInit PROVE AwaitIInv OBVIOUS
<1> USE DEF AwaitInit, Init
<1>1. AwaitTypeOK
  <2>1. order \in Seq(Nodes) /\ handed \in Seq(Nodes) BY EmptySeq
  <2>2. seen \in 0 .. version /\ version \in Nat /\ tokens \subseteq 0 .. version OBVIOUS
  <2>3. state \in [Nodes -> {"Pending"} \cup Outcomes] BY Zenon
  <2> QED BY <2>1, <2>2, <2>3 DEF AwaitTypeOK
<1>2. order = <<>> /\ handed = <<>> /\ consumed = {} /\ at = "check" OBVIOUS
<1>3. ListedOnce /\ HandedPrefix /\ CheckedInVain
  BY <1>2 DEF ListedOnce, HandedPrefix, CheckedInVain
<1> QED BY <1>1, <1>3 DEF AwaitIInv

\* What a publication does to the snapshot: the order only grows, by a node that was
\* pending.
LEMMA PublicationEffect ==
  ASSUME AwaitTypeOK, ListedOnce, Next
  PROVE  /\ ~done
         /\ state' \in [Nodes -> {"Pending"} \cup Outcomes]
         /\ order' \in Seq(Nodes) /\ done' \in BOOLEAN
         /\ ListedOnce'
         /\ Len(order) <= Len(order')
         /\ \A i \in 1 .. Len(order) : order'[i] = order[i]
<1> USE DEF AwaitTypeOK, Outcomes
<1> DEFINE Goal ==
             /\ state' \in [Nodes -> {"Pending"} \cup Outcomes]
             /\ order' \in Seq(Nodes) /\ done' \in BOOLEAN
             /\ ListedOnce'
             /\ Len(order) <= Len(order')
             /\ \A i \in 1 .. Len(order) : order'[i] = order[i]
<1>0. Len(order) \in Nat BY LenProperties
<1>1. ASSUME NEW n \in Nodes, NEW how \in Outcomes, Publish(n, how) PROVE Goal
  <2>1. /\ order' \in Seq(Nodes) /\ Len(order') = Len(order) + 1
        /\ \A i \in 1 .. Len(order) : order'[i] = order[i]
        /\ order'[Len(order) + 1] = n
    BY <1>1, AppendProperties DEF Publish
  <2>2. /\ state[n] = "Pending" /\ state' = [state EXCEPT ![n] = how] /\ done' = done
        /\ how # "Pending"
    BY <1>1 DEF Publish
  <2>3. Len(order) \in Nat BY LenProperties
  <2>4. \A i \in 1 .. Len(order') : i \in 1 .. Len(order) \/ i = Len(order) + 1
    BY <2>1, <2>3
  <2>5. \A i \in 1 .. Len(order) : order[i] # n BY <2>2 DEF ListedOnce
  <2>6. \A i, j \in 1 .. Len(order') : order'[i] = order'[j] => i = j
    BY <2>1, <2>4, <2>5 DEF ListedOnce
  <2>7. \A m \in Nodes : state'[m] = "Pending" => \A i \in 1 .. Len(order') : order'[i] # m
    BY <2>1, <2>2, <2>4 DEF ListedOnce
  <2> QED BY <2>1, <2>2, <2>3, <2>6, <2>7 DEF ListedOnce
<1>2. ASSUME NEW n \in Nodes, Overwrite(n) PROVE Goal
  <2>1. state' = [state EXCEPT ![n] = "Blocked"] /\ order' = order /\ done' = done
    BY <1>2 DEF Overwrite
  <2>2. \A m \in Nodes : state'[m] = "Pending" => state[m] = "Pending" BY <2>1
  <2> QED BY <1>0, <2>1, <2>2 DEF ListedOnce
<1>3. ASSUME End PROVE Goal
  BY <1>0, <1>3 DEF End, ListedOnce
<1>4. ~done BY DEF Next, Publish, Overwrite, End
<1> HIDE DEF Goal
<1>5. Goal BY <1>1, <1>2, <1>3 DEF Next
<1> QED BY <1>4, <1>5 DEF Goal

LEMMA AwaitNextIInv == AwaitIInv /\ [AwaitNext]_awaitVars => AwaitIInv'
<1> SUFFICES ASSUME AwaitIInv, [AwaitNext]_awaitVars PROVE AwaitIInv'
  OBVIOUS
<1>0. AwaitTypeOK /\ ListedOnce /\ HandedPrefix /\ CheckedInVain BY DEF AwaitIInv
<1>s. Len(order) \in Nat /\ Len(handed) \in Nat BY <1>0, LenProperties DEF AwaitTypeOK
\* The steps of a call leave the snapshot alone.
<1>l. ASSUME UNCHANGED snapVars PROVE ListedOnce'
  BY <1>0, <1>l DEF snapVars, ListedOnce
<1>h. ASSUME UNCHANGED snapVars, handed' = handed, consumed' = consumed PROVE HandedPrefix'
  BY <1>0, <1>h DEF snapVars, HandedPrefix
<1>1. CASE RunStep
  <2>1. /\ Next /\ version' = version + 1 /\ run' \in {"over", "going"}
        /\ UNCHANGED <<call, timed, at, seen, consumed, tokens, handed>>
    BY <1>1 DEF RunStep, clientVars
  <2>2. AwaitTypeOK' BY <1>0, <2>1, PublicationEffect DEF AwaitTypeOK
  <2>3. ListedOnce' BY <1>0, <2>1, PublicationEffect
  <2>4. HandedPrefix'
    <3>1. /\ Len(order) <= Len(order')
          /\ \A i \in 1 .. Len(order) : order'[i] = order[i]
      BY <1>0, <2>1, PublicationEffect
    <3>2. Len(order') \in Nat BY <2>2, LenProperties DEF AwaitTypeOK
    <3> QED BY <1>0, <1>s, <2>1, <3>1, <3>2 DEF HandedPrefix
  <2>5. seen' # version' BY <1>0, <2>1 DEF AwaitTypeOK
  <2>6. CheckedInVain' BY <1>0, <2>1, <2>5 DEF CheckedInVain
  <2> QED BY <2>2, <2>3, <2>4, <2>6 DEF AwaitIInv
<1>2. CASE RunAborts
  <2>1. /\ UNCHANGED <<snapVars, version, call, timed, at, seen, consumed, tokens, handed>>
        /\ run' = "aborted"
    BY <1>2 DEF RunAborts, clientVars
  <2>2. AwaitTypeOK' BY <1>0, <2>1 DEF AwaitTypeOK, snapVars
  <2>3. CheckedInVain' BY <1>0, <2>1 DEF CheckedInVain, Fresh, snapVars
  <2> QED BY <1>l, <1>h, <2>1, <2>2, <2>3 DEF AwaitIInv
<1>3. ASSUME NEW limit \in BOOLEAN, NEW k \in {"dag", "any"}, Call(k, limit) PROVE AwaitIInv'
  <2>1. AwaitTypeOK' BY <1>0, <1>3 DEF AwaitTypeOK, Call, snapVars
  <2>2. CheckedInVain' BY <1>3 DEF CheckedInVain, Call
  <2> QED BY <1>3, <1>l, <1>h, <2>1, <2>2 DEF AwaitIInv, Call
<1>4. ASSUME NEW limit \in BOOLEAN, NEW token \in tokens, Resume(token, limit) PROVE AwaitIInv'
  <2>1. AwaitTypeOK' BY <1>0, <1>4 DEF AwaitTypeOK, Resume, snapVars
  <2>2. CheckedInVain' BY <1>4 DEF CheckedInVain, Resume
  <2> QED BY <1>4, <1>l, <1>h, <2>1, <2>2 DEF AwaitIInv, Resume
<1>5. CASE ReturnDone
  <2>1. AwaitTypeOK' BY <1>0, <1>5 DEF AwaitTypeOK, ReturnDone, Return, snapVars
  <2>2. CheckedInVain' BY <1>5 DEF CheckedInVain, ReturnDone, Return
  <2> QED BY <1>5, <1>l, <1>h, <2>1, <2>2 DEF AwaitIInv, ReturnDone, Return
<1>6. CASE ReturnNode
  <2>1. Len(handed) < Len(order) /\ First = order[Len(handed) + 1]
    BY <1>0, <1>6, FirstFresh DEF ReturnNode
  <2>2. First \in Nodes BY <1>0, <1>s, <2>1 DEF AwaitTypeOK
  <2>3. /\ handed' \in Seq(Nodes) /\ Len(handed') = Len(handed) + 1
        /\ \A i \in 1 .. Len(handed) : handed'[i] = handed[i]
        /\ handed'[Len(handed) + 1] = First
    BY <1>0, <1>6, <2>2, AppendProperties DEF AwaitTypeOK, ReturnNode
  <2>4. consumed' = consumed \cup {First} /\ UNCHANGED snapVars
    BY <1>6 DEF ReturnNode, Return
  <2>5. AwaitTypeOK' BY <1>0, <1>6, <2>2, <2>3, <2>4 DEF AwaitTypeOK, ReturnNode, Return, snapVars
  <2>6. HandedPrefix'
    <3>1. 1 .. Len(handed') = (1 .. Len(handed)) \cup {Len(handed) + 1} BY <1>s, <2>3
    <3>2. order' = order BY <2>4 DEF snapVars
    <3>3. Len(handed') <= Len(order') BY <1>s, <2>1, <2>3, <3>2
    <3>4. \A i \in 1 .. Len(handed') : handed'[i] = order'[i]
      BY <1>0, <2>1, <2>3, <3>1, <3>2 DEF HandedPrefix
    <3>5. consumed' = {handed'[i] : i \in 1 .. Len(handed')}
      BY <1>0, <2>3, <2>4, <3>1 DEF HandedPrefix
    <3> QED BY <3>3, <3>4, <3>5 DEF HandedPrefix
  <2>7. CheckedInVain' BY <1>6 DEF CheckedInVain, ReturnNode, Return
  <2> QED BY <1>l, <2>4, <2>5, <2>6, <2>7 DEF AwaitIInv
<1>7. CASE Check
  <2>1. AwaitTypeOK' BY <1>0, <1>7 DEF AwaitTypeOK, Check, snapVars
  <2>2. CheckedInVain' BY <1>7 DEF CheckedInVain, Check, Fresh, snapVars, NoCall
  <2> QED BY <1>7, <1>l, <1>h, <2>1, <2>2 DEF AwaitIInv, Check
<1>8. CASE Park
  <2>1. AwaitTypeOK' BY <1>0, <1>8 DEF AwaitTypeOK, Park, snapVars
  <2>2. CheckedInVain' BY <1>0, <1>8 DEF CheckedInVain, Park, Fresh, snapVars
  <2> QED BY <1>8, <1>l, <1>h, <2>1, <2>2 DEF AwaitIInv, Park
<1>9. CASE Wake
  <2>1. AwaitTypeOK' BY <1>0, <1>9 DEF AwaitTypeOK, Wake, snapVars
  <2>2. CheckedInVain' BY <1>9 DEF CheckedInVain, Wake
  <2> QED BY <1>9, <1>l, <1>h, <2>1, <2>2 DEF AwaitIInv, Wake
<1>10. CASE Timeout
  <2>1. AwaitTypeOK' BY <1>0, <1>10 DEF AwaitTypeOK, Timeout, Return, snapVars
  <2>2. CheckedInVain' BY <1>10 DEF CheckedInVain, Timeout, Return
  <2> QED BY <1>10, <1>l, <1>h, <2>1, <2>2 DEF AwaitIInv, Timeout, Return
<1>11. CASE UNCHANGED awaitVars
  BY <1>0, <1>11 DEF awaitVars, clientVars, snapVars, AwaitIInv, AwaitTypeOK, ListedOnce,
     HandedPrefix, CheckedInVain, Fresh
<1> QED
  BY <1>1, <1>2, <1>3, <1>4, <1>5, <1>6, <1>7, <1>8, <1>9, <1>10, <1>11 DEF AwaitNext, Serve

-----------------------------------------------------------------------------
(* The theorems                                                            *)

THEOREM AwaitInvariance == AwaitSpec => []AwaitIInv
BY AwaitInitIInv, AwaitNextIInv, PTL DEF AwaitSpec

\* wait_any hands back the nodes of terminal_order one after another, without a gap and
\* without a repetition, whatever calls, timeouts and tokens come between.
THEOREM HandedInOrderSound == AwaitSpec => []HandedInOrder
<1>1. AwaitIInv => HandedInOrder
  <2> SUFFICES ASSUME AwaitIInv PROVE HandedInOrder OBVIOUS
  <2>1. /\ order \in Seq(Nodes) /\ handed \in Seq(Nodes)
        /\ Len(order) \in Nat /\ Len(handed) \in Nat /\ Len(handed) <= Len(order)
        /\ \A i \in 1 .. Len(handed) : handed[i] = order[i]
    BY LenProperties DEF AwaitIInv, AwaitTypeOK, HandedPrefix
  <2>2. /\ SubSeq(order, 1, Len(handed)) \in Seq(Nodes)
        /\ Len(SubSeq(order, 1, Len(handed))) = Len(handed)
        /\ \A i \in 1 .. Len(handed) : SubSeq(order, 1, Len(handed))[i] = order[i]
    <3>1. \A i \in 1 .. Len(handed) : i \in 1 .. Len(order) BY <2>1
    <3> QED BY <2>1, <3>1, SubSeqProperties
  <2>3. handed = SubSeq(order, 1, Len(handed)) BY <2>1, <2>2, SeqEqual
  <2> QED BY <2>1, <2>3 DEF HandedInOrder
<1> QED BY <1>1, AwaitInvariance, PTL

\* A call parks in changed() only when it has nothing to return, and what is published
\* between its check and its parking wakes it.
THEOREM NothingSleptThroughSound == AwaitSpec => []NothingSleptThrough
<1>1. AwaitIInv => NothingSleptThrough
  BY DEF AwaitIInv, CheckedInVain, NothingSleptThrough
<1> QED BY <1>1, AwaitInvariance, PTL
=============================================================================
