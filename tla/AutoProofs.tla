----------------------------- MODULE AutoProofs -----------------------------
(***************************************************************************)
(* Proofs about the passes over the queue, and the split of a spec.        *)
(*                                                                         *)
(* Of the pid lock: passes whose acquire() calls do not overlap exclude    *)
(* one another, for every set of pids and number of passes.                *)
(*                                                                         *)
(* Of the queue, for all projects, specs, weights, batches and passes: the *)
(* carousel uses the batch and favours nobody beyond its backlog; a pass   *)
(* runs no spec that is Done, so that one stays Done.                      *)
(*                                                                         *)
(* Of the ordered split of a spec: it loses no exit criterion.             *)
(***************************************************************************)
EXTENDS PidLock, Split, Queue, FiniteSetTheorems, SequenceTheorems, WellFoundedInduction,
        NaturalsInduction, TLAPS

-----------------------------------------------------------------------------
(* The run lock: its inductive invariant.                                  *)

LockTypeOK ==
  /\ at \in [Pids -> Acquiring \cup {"free", "hold", "refused", "other"}]
  /\ exists \in BOOLEAN
  /\ creator \in Pids \cup {Nobody} /\ body \in Pids \cup {Nobody}
  /\ saw \in [Pids -> Pids \cup {Nobody}]
  /\ used \subseteq Pids /\ passes \in Nat /\ overlap \in BOOLEAN

OneInside == \A p, q \in Inside : p = q

\* The file is its creator's, from the create to the drop of the guard, and names it once
\* the pid is written.
FileOfHolder == \A p \in Holders : exists /\ creator = p /\ body = p
FileOfWriter == \A p \in Pids : at[p] = "write" => exists /\ creator = p

\* Whoever looks at the file while it is held sees its holder, which is alive; so nobody is
\* about to remove it.
HolderSeen ==
  \A p \in Holders, q \in Pids : /\ at[q] = "judge" => saw[q] = p
                                 /\ at[q] # "remove"

LockIInv ==
  LockTypeOK /\ (~overlap => OneInside /\ FileOfHolder /\ FileOfWriter /\ HolderSeen)

-----------------------------------------------------------------------------
LEMMA AtMostOne ==
  ASSUME NEW S \in SUBSET Pids
  PROVE  ~ (Cardinality(S) > 1) => \A x, y \in S : x = y
<1> SUFFICES ASSUME ~ (Cardinality(S) > 1), NEW x \in S, NEW y \in S, x # y PROVE FALSE
  OBVIOUS
<1>1. IsFiniteSet(S) BY LockAssumption, FS_Subset
<1>2. Cardinality(S) \in Nat BY <1>1, FS_CardinalityType
<1>3. IsFiniteSet({x, y}) /\ Cardinality({x, y}) = 2
  <2>1. IsFiniteSet({x}) /\ Cardinality({x}) = 1 BY FS_Singleton
  <2> DEFINE X == {x}
  <2>o. y \notin X /\ IsFiniteSet(X) /\ Cardinality(X) = 1 BY <2>1
  <2> HIDE DEF X
  <2>a. IsFiniteSet(X \cup {y}) /\ Cardinality(X \cup {y}) = Cardinality(X) + 1
    BY <2>o, FS_AddElement
  <2>2. Cardinality({x} \cup {y}) = 2 /\ IsFiniteSet({x} \cup {y}) BY <2>o, <2>a DEF X
  <2>3. {x} \cup {y} = {x, y} OBVIOUS
  <2> QED BY <2>2, <2>3
<1>4. Cardinality({x, y}) <= Cardinality(S) BY <1>1, FS_Subset
<1> QED BY <1>2, <1>3, <1>4

\* No process is inside acquire() at first, and none holds the lock.
LEMMA LockInitIInv == LockInit => LockIInv
<1> SUFFICES ASSUME LockInit PROVE LockIInv OBVIOUS
<1>1. LockTypeOK BY LockAssumption DEF LockInit, LockTypeOK, Acquiring
<1>2. \A p \in Pids : at[p] = "free" BY DEF LockInit
<1>3. Inside = {} /\ Holders = {} BY <1>2 DEF Inside, Holders, Acquiring
<1> QED
  BY <1>1, <1>2, <1>3 DEF LockIInv, OneInside, FileOfHolder, FileOfWriter, HolderSeen

\* The history variable remembers an overlap, and notes a new one.
LEMMA GotoEffect ==
  ASSUME LockTypeOK, NEW p \in Pids, NEW where, Goto(p, where), ~overlap'
  PROVE  ~overlap /\ OneInside'
<1>1. ~overlap /\ ~ (Cardinality({q \in Pids : at'[q] \in Acquiring}) > 1) BY DEF Goto
<1> QED BY <1>1, AtMostOne DEF OneInside, Inside

LEMMA LockTypeStep == LockTypeOK /\ [LockNext]_lockVars => LockTypeOK'
<1> SUFFICES ASSUME LockTypeOK, [LockNext]_lockVars PROVE LockTypeOK'
  OBVIOUS
<1> USE LockAssumption DEF LockTypeOK, Acquiring, lockFile, Unlinked
<1>1. ASSUME NEW p \in Pids, NEW where \in Acquiring \cup {"free", "hold", "refused", "other"},
             Goto(p, where)
      PROVE  /\ at' \in [Pids -> Acquiring \cup {"free", "hold", "refused", "other"}]
             /\ overlap' \in BOOLEAN
  BY <1>1 DEF Goto
<1>2. ASSUME NEW p \in Pids, Begin(p) PROVE LockTypeOK' BY <1>1, <1>2 DEF Begin
<1>3. ASSUME NEW p \in Pids, Create(p) PROVE LockTypeOK' BY <1>1, <1>3 DEF Create
<1>4. ASSUME NEW p \in Pids, WriteBody(p) PROVE LockTypeOK' BY <1>1, <1>4 DEF WriteBody
<1>5. ASSUME NEW p \in Pids, Read(p) PROVE LockTypeOK' BY <1>1, <1>5 DEF Read
<1>6. ASSUME NEW p \in Pids, Judge(p) PROVE LockTypeOK' BY <1>1, <1>6 DEF Judge
<1>7. ASSUME NEW p \in Pids, Reclaim(p) PROVE LockTypeOK' BY <1>1, <1>7 DEF Reclaim
<1>8. ASSUME NEW p \in Pids, Leave(p) PROVE LockTypeOK' BY <1>1, <1>8 DEF Leave
<1>9. ASSUME NEW p \in Pids, Die(p) PROVE LockTypeOK' BY <1>1, <1>9 DEF Die
<1>10. ASSUME NEW p \in Pids, Reuse(p) PROVE LockTypeOK' BY <1>1, <1>10 DEF Reuse
<1>11. CASE UNCHANGED lockVars BY <1>11 DEF lockVars
<1> QED
  BY <1>2, <1>3, <1>4, <1>5, <1>6, <1>7, <1>8, <1>9, <1>10, <1>11 DEF LockNext, Acquire

\* While one process at a time is inside, a file that is created, read, judged or removed
\* is changed by nobody else but a holder that leaves.
LEMMA LockStep == LockIInv /\ [LockNext]_lockVars => LockIInv'
<1> SUFFICES ASSUME LockIInv, [LockNext]_lockVars PROVE LockIInv'
  OBVIOUS
<1>1. LockTypeOK /\ LockTypeOK' BY LockTypeStep DEF LockIInv
<1> SUFFICES ASSUME ~overlap' PROVE (OneInside /\ FileOfHolder /\ FileOfWriter /\ HolderSeen)'
  BY <1>1 DEF LockIInv
<1>2. ~overlap /\ OneInside'
  <2>1. ASSUME NEW p \in Pids, NEW where, Goto(p, where) PROVE ~overlap /\ OneInside'
    BY <1>1, <2>1, GotoEffect
  <2>2. CASE LockNext
    <3>1. PICK p \in Pids : \E where : Goto(p, where)
      BY <2>2 DEF LockNext, Acquire, Begin, Create, WriteBody, Read, Judge, Reclaim, Leave,
                  Die, Reuse
    <3> QED BY <2>1, <3>1
  <2>3. CASE UNCHANGED lockVars
    BY <2>3 DEF lockVars, LockIInv, OneInside, Inside
  <2> QED BY <2>2, <2>3
<1>3. OneInside /\ FileOfHolder /\ FileOfWriter /\ HolderSeen BY <1>2 DEF LockIInv
<1> DEFINE Kept == (FileOfHolder /\ FileOfWriter /\ HolderSeen)'
<1> USE <1>1, <1>3, LockAssumption
    DEF LockTypeOK, OneInside, FileOfHolder, FileOfWriter, HolderSeen, Inside, Holders,
        Acquiring, Goto, lockFile, Unlinked
<1>4. ASSUME NEW p \in Pids, Begin(p) PROVE Kept BY <1>4 DEF Begin
<1>5. ASSUME NEW p \in Pids, Create(p) PROVE Kept BY <1>5 DEF Create
<1>6. ASSUME NEW p \in Pids, WriteBody(p) PROVE Kept BY <1>6 DEF WriteBody
<1>7. ASSUME NEW p \in Pids, Read(p) PROVE Kept BY <1>7 DEF Read
<1>8. ASSUME NEW p \in Pids, Judge(p) PROVE Kept BY <1>8 DEF Judge, Alive
<1>9. ASSUME NEW p \in Pids, Reclaim(p) PROVE Kept BY <1>9 DEF Reclaim
<1>10. ASSUME NEW p \in Pids, Leave(p) PROVE Kept BY <1>10 DEF Leave
<1>11. ASSUME NEW p \in Pids, Die(p) PROVE Kept BY <1>11 DEF Die
<1>12. ASSUME NEW p \in Pids, Reuse(p) PROVE Kept BY <1>12 DEF Reuse
<1>13. CASE UNCHANGED lockVars BY <1>13 DEF lockVars
<1> QED
  BY <1>2, <1>4, <1>5, <1>6, <1>7, <1>8, <1>9, <1>10, <1>11, <1>12, <1>13
     DEF LockNext, Acquire

THEOREM LockInvariance == LockSpec => []LockIInv
BY LockInitIInv, LockStep, PTL DEF LockSpec

\* Whoever was killed at whatever step, and whoever has its pid now: as long as two
\* processes were never inside acquire() at once, at most one pass holds the lock, and the
\* file is its own and says so.
THEOREM LockExcludes == LockSpec => []SerialPassesExclude
<1>1. LockIInv => SerialPassesExclude
  BY DEF LockIInv, FileOfHolder, SerialPassesExclude, Holders
<1> QED BY <1>1, LockInvariance, PTL

-----------------------------------------------------------------------------
(* Least and greatest numbers, induction, and sets ranked by a key.        *)

LEMMA MinOfTwo == \A a, b \in Int : Min({a, b}) = IF a <= b THEN a ELSE b
<1> SUFFICES ASSUME NEW a \in Int, NEW b \in Int
             PROVE  Min({a, b}) = IF a <= b THEN a ELSE b
  OBVIOUS
<1> DEFINE M == IF a <= b THEN a ELSE b
<1>1. M \in {a, b} /\ \A y \in {a, b} : M <= y OBVIOUS
<1>2. \A x \in {a, b} : (\A y \in {a, b} : x <= y) => x = M OBVIOUS
<1> QED BY <1>1, <1>2 DEF Min

LEMMA MaxOfTwo == \A a, b \in Int : Max({a, b}) = IF a >= b THEN a ELSE b
<1> SUFFICES ASSUME NEW a \in Int, NEW b \in Int
             PROVE  Max({a, b}) = IF a >= b THEN a ELSE b
  OBVIOUS
<1> DEFINE M == IF a >= b THEN a ELSE b
<1>1. M \in {a, b} /\ \A y \in {a, b} : M >= y OBVIOUS
<1>2. \A x \in {a, b} : (\A y \in {a, b} : x >= y) => x = M OBVIOUS
<1> QED BY <1>1, <1>2 DEF Max

LEMMA MinOfThree ==
  \A a, b, c \in Int : /\ Min({a, b, c}) \in {a, b, c}
                       /\ Min({a, b, c}) <= a /\ Min({a, b, c}) <= b /\ Min({a, b, c}) <= c
<1> SUFFICES ASSUME NEW a \in Int, NEW b \in Int, NEW c \in Int
             PROVE  /\ Min({a, b, c}) \in {a, b, c}
                    /\ Min({a, b, c}) <= a /\ Min({a, b, c}) <= b /\ Min({a, b, c}) <= c
  OBVIOUS
<1>1. \E x \in {a, b, c} : \A y \in {a, b, c} : x <= y
  <2>1. CASE a <= b /\ a <= c BY <2>1
  <2>2. CASE b <= a /\ b <= c BY <2>2
  <2>3. CASE c <= a /\ c <= b BY <2>3
  <2> QED BY <2>1, <2>2, <2>3
<1> QED BY <1>1 DEF Min

\* A set of numbers has a smallest one.
LEMMA SmallestOf ==
  ASSUME NEW S \in SUBSET Nat, S # {}
  PROVE  \E m \in S : \A k \in S : m <= k
<1>1. \E m \in S : \A k \in S : ~(<<k, m>> \in OpToRel(<, Nat))
  BY NatLessThanWellFounded, WFMin, Zenon
<1>2. PICK m \in S : \A k \in S : ~(<<k, m>> \in OpToRel(<, Nat)) BY <1>1, Zenon
<1>3. \A k \in S : ~(k < m) BY <1>2 DEF OpToRel
<1> QED BY <1>3

\* Induction over the numbers of a set.
LEMMA ByInduction ==
  ASSUME NEW Q, 0 \in Q, \A k \in Nat : k \in Q => k + 1 \in Q
  PROVE  \A n \in Nat : n \in Q
<1> SUFFICES ASSUME NEW n \in Nat, n \notin Q PROVE FALSE OBVIOUS
<1> DEFINE out == {k \in Nat : k \notin Q}
<1>1. out \in SUBSET Nat /\ out # {} OBVIOUS
<1>2. PICK m \in out : \A k \in out : m <= k
  <2> HIDE DEF out
  <2> QED BY <1>1, SmallestOf
<1>3. m # 0 /\ m - 1 \in Nat OBVIOUS
<1>4. m - 1 \in Q BY <1>2, <1>3
<1>5. (m - 1) + 1 \in Q BY <1>3, <1>4
<1> QED BY <1>3, <1>5

\* R orders S strictly and totally.
Orders(R, S) ==
  /\ \A x \in S : <<x, x>> \notin R
  /\ \A x, y, z \in S : <<x, y>> \in R /\ <<y, z>> \in R => <<x, z>> \in R
  /\ \A x, y \in S : x = y \/ <<x, y>> \in R \/ <<y, x>> \in R

Least(x, R, S) == x \in S /\ \A y \in S \ {x} : <<x, y>> \in R

LEMMA LeastExists ==
  ASSUME NEW S, IsFiniteSet(S), S # {}, NEW R, Orders(R, S)
  PROVE  \E x : Least(x, R, S)
<1> DEFINE Below(x) == {y \in S : <<y, x>> \in R}
           sizes == {n \in Nat : \E x \in S : Cardinality(Below(x)) = n}
<1>1. \A x \in S : IsFiniteSet(Below(x)) /\ Cardinality(Below(x)) \in Nat
  <2> TAKE x \in S
  <2>1. Below(x) \in SUBSET S OBVIOUS
  <2> HIDE DEF Below
  <2> QED BY <2>1, FS_Subset, FS_CardinalityType
<1>2. sizes \in SUBSET Nat /\ sizes # {} BY <1>1
<1>3. PICK n \in sizes : \A k \in sizes : n <= k
  <2> HIDE DEF sizes
  <2> QED BY <1>2, SmallestOf
<1>4. PICK m \in S : Cardinality(Below(m)) = n BY <1>3
<1>5. ASSUME NEW y \in Below(m) PROVE FALSE
  <2>1. y \in S /\ Below(y) \in SUBSET (Below(m) \ {y}) BY DEF Orders
  <2> HIDE DEF Below
  <2>2. /\ IsFiniteSet(Below(m) \ {y})
        /\ Cardinality(Below(m) \ {y}) = Cardinality(Below(m)) - 1
    BY <1>1, FS_RemoveElement
  <2>3. Cardinality(Below(y)) <= Cardinality(Below(m)) - 1 BY <2>1, <2>2, FS_Subset
  <2>4. n <= Cardinality(Below(y)) BY <1>1, <1>3, <2>1
  <2> QED BY <1>1, <1>4, <2>1, <2>3, <2>4
<1> QED BY <1>5 DEF Orders, Least

\* A finite set of numbers has a largest one.
LEMMA MaxExists ==
  ASSUME NEW S \in SUBSET Nat, IsFiniteSet(S), S # {}
  PROVE  \E m \in S : \A y \in S : m >= y
<1> DEFINE R == {x \in S \X S : x[1] > x[2]}
<1>1. \A x, y \in S : <<x, y>> \in R <=> x > y OBVIOUS
<1> HIDE DEF R
<1>2. Orders(R, S) BY <1>1 DEF Orders
<1>3. PICK m : Least(m, R, S) BY <1>2, LeastExists
<1>4. m \in S /\ \A y \in S \ {m} : m > y BY <1>1, <1>3 DEF Least
<1> QED BY <1>4

LEMMA UpToFinite == \A n \in Nat : IsFiniteSet(1 .. n) /\ Cardinality(1 .. n) = n
<1> TAKE n \in Nat
<1>1. /\ IsFiniteSet(1 .. n)
      /\ Cardinality(1 .. n) = IF 1 > n THEN 0 ELSE n - 1 + 1
  BY FS_Interval
<1> QED BY <1>1

\* s lists the n elements of S by a key that tells them apart.
KeyOf(key, S) == key \in [S -> Nat] /\ \A x, y \in S : key[x] = key[y] => x = y
Lists(s, n, S, key) ==
  /\ s \in Seq(S) /\ Len(s) = n
  /\ \A i, j \in 1 .. n : i < j => key[s[i]] < key[s[j]]
  /\ \A x \in S : \E i \in 1 .. n : s[i] = x

\* s lists the elements of S by a rank that goes with the key.
ListsByRank(s, n, S, key, rank) ==
  /\ n \in Nat /\ KeyOf(key, S) /\ rank \in [S -> 0 .. n - 1]
  /\ \A x, y \in S : key[x] < key[y] => rank[x] < rank[y]
  /\ s \in [1 .. n -> S] /\ \A i \in 1 .. n : rank[s[i]] = i - 1

\* Elements listed by their rank are listed by their key.
LEMMA RankOrders ==
  ASSUME NEW S, NEW n, NEW key, NEW rank, NEW s, ListsByRank(s, n, S, key, rank)
  PROVE  Lists(s, n, S, key)
<1> USE DEF ListsByRank, KeyOf
<1>1. s \in Seq(S) /\ Len(s) = n OBVIOUS
<1>2. ASSUME NEW i \in 1 .. n, NEW j \in 1 .. n, i < j PROVE key[s[i]] < key[s[j]]
  <2>1. s[i] \in S /\ s[j] \in S OBVIOUS
  <2>2. rank[s[i]] < rank[s[j]] BY <1>2
  <2>3. rank[s[i]] \in Nat /\ rank[s[j]] \in Nat /\ key[s[i]] \in Nat /\ key[s[j]] \in Nat
    BY <2>1
  <2>4. ~ (key[s[j]] < key[s[i]]) BY <2>1, <2>2, <2>3
  <2>5. key[s[i]] # key[s[j]] BY <2>1, <2>2, <2>3
  <2> QED BY <2>3, <2>4, <2>5
<1>3. ASSUME NEW x \in S PROVE \E i \in 1 .. n : s[i] = x
  <2>1. rank[x] \in 0 .. n - 1 /\ rank[x] + 1 \in 1 .. n OBVIOUS
  <2> DEFINE y == s[rank[x] + 1]
  <2>2. y \in S /\ rank[y] = rank[x] BY <2>1
  <2>3. rank[y] \in Nat /\ rank[x] \in Nat /\ key[x] \in Nat /\ key[y] \in Nat BY <2>1, <2>2
  <2>4. ~ (key[x] < key[y]) /\ ~ (key[y] < key[x]) BY <2>2, <2>3
  <2>5. x = y BY <2>2, <2>3, <2>4
  <2> QED BY <2>1, <2>5
<1> QED BY <1>1, <1>2, <1>3 DEF Lists

\* The elements of a finite set, ranked by a key that tells them apart.
LEMMA RankedSound ==
  ASSUME NEW S, IsFiniteSet(S), NEW key, KeyOf(key, S),
         NEW s, s = [i \in 1 .. Cardinality(S) |->
                       CHOOSE x \in S : Cardinality({y \in S : key[y] < key[x]}) = i - 1]
  PROVE  Lists(s, Cardinality(S), S, key)
<1> DEFINE n == Cardinality(S)
           Below(x) == {y \in S : key[y] < key[x]}
           rank == [x \in S |-> Cardinality(Below(x))]
<1>k. key \in [S -> Nat] /\ \A x, y \in S : key[x] = key[y] => x = y BY DEF KeyOf
<1>n. n \in Nat BY FS_CardinalityType
<1>b. \A x \in S : Cardinality(Below(x)) \in Nat /\ Cardinality(Below(x)) < n
  <2> TAKE x \in S
  <2>1. IsFiniteSet(S \ {x}) /\ Cardinality(S \ {x}) = n - 1 BY FS_RemoveElement
  <2>2. Below(x) \in SUBSET (S \ {x}) BY <1>k
  <2>3. IsFiniteSet(Below(x)) /\ Cardinality(Below(x)) <= n - 1 BY <2>1, <2>2, FS_Subset
  <2>4. Cardinality(Below(x)) \in Nat BY <2>3, FS_CardinalityType
  <2> QED BY <2>3, <2>4, <1>n
<1>l. \A x, y \in S : key[x] < key[y] => rank[x] < rank[y]
  <2> SUFFICES ASSUME NEW x \in S, NEW y \in S, key[x] < key[y] PROVE rank[x] < rank[y]
    OBVIOUS
  <2>1. Below(x) \in SUBSET S /\ Below(y) \in SUBSET S OBVIOUS
  <2>2. IsFiniteSet(Below(x)) /\ IsFiniteSet(Below(y)) BY <2>1, FS_Subset
  <2>3. Below(x) \cup {x} \in SUBSET Below(y)
    <3>1. \A z \in S : key[z] < key[x] => key[z] < key[y] BY <1>k
    <3> QED BY <3>1
  <2>4. x \notin Below(x) BY <1>k
  <2>5. Cardinality(Below(x) \cup {x}) = Cardinality(Below(x)) + 1
    BY <2>2, <2>4, FS_AddElement
  <2>6. Cardinality(Below(x) \cup {x}) <= Cardinality(Below(y)) BY <2>2, <2>3, FS_Subset
  <2> HIDE DEF Below
  <2> QED BY <2>5, <2>6, <1>b
<1>r. rank \in [S -> 0 .. n - 1]
  <2> HIDE DEF Below, n
  <2> QED BY <1>b, <1>n
<1>i. \A x, y \in S : rank[x] = rank[y] => x = y
  <2> HIDE DEF rank
  <2> QED BY <1>l, <1>r, <1>n, <1>k
<1>s. \A k \in 0 .. n - 1 : \E x \in S : rank[x] = k
  <2> HIDE DEF rank, Below
  <2>1. rank \in Injection(S, 0 .. n - 1) BY <1>r, <1>i DEF Injection, IsInjective
  <2>2. IsFiniteSet(0 .. n - 1) /\ Cardinality(0 .. n - 1) = n
    <3>1. 0 \in Int /\ n - 1 \in Int BY <1>n
    <3>2. /\ IsFiniteSet(0 .. n - 1)
          /\ Cardinality(0 .. n - 1) = IF 0 > n - 1 THEN 0 ELSE n - 1 - 0 + 1
      BY <3>1, FS_Interval
    <3> QED BY <3>2, <1>n
  <2>3. rank \in Surjection(S, 0 .. n - 1) BY <2>1, <2>2, FS_Injection
  <2> QED BY <2>3 DEF Surjection
<1>c. \A i \in 1 .. n : s[i] \in S /\ rank[s[i]] = i - 1
  <2> TAKE i \in 1 .. n
  <2>1. \E x \in S : Cardinality(Below(x)) = i - 1
    <3>1. i - 1 \in 0 .. n - 1 BY <1>n
    <3> HIDE DEF Below
    <3> QED BY <3>1, <1>s
  <2>2. s[i] = CHOOSE x \in S : Cardinality(Below(x)) = i - 1 OBVIOUS
  <2> HIDE DEF Below
  <2> QED BY <2>1, <2>2
<1>d. s \in [1 .. n -> S] /\ \A i \in 1 .. n : rank[s[i]] = i - 1
  <2> HIDE DEF rank
  <2> QED BY <1>c
<1> HIDE DEF n, rank
<1>1. ListsByRank(s, n, S, key, rank) BY <1>n, <1>r, <1>l, <1>d DEF ListsByRank
<1>2. Lists(s, n, S, key) BY <1>1, RankOrders
<1> QED BY <1>2 DEF n

-----------------------------------------------------------------------------
(* How many turns an order gives to a project.                             *)

\* The turns of p in an order.
Places(order, p) == {k \in DOMAIN order : order[k] = p}

LEMMA PlacesFinite ==
  ASSUME NEW S, NEW order \in Seq(S), NEW p
  PROVE  IsFiniteSet(Places(order, p)) /\ Turns(order, p) = Cardinality(Places(order, p))
         /\ Turns(order, p) \in Nat
<1>1. Len(order) \in Nat /\ DOMAIN order = 1 .. Len(order) BY LenProperties
<1>2. IsFiniteSet(1 .. Len(order)) BY <1>1, UpToFinite
<1>3. Places(order, p) \in SUBSET (1 .. Len(order)) BY <1>1 DEF Places
<1>4. IsFiniteSet(Places(order, p)) BY <1>2, <1>3, FS_Subset
<1>5. Turns(order, p) = Cardinality(Places(order, p)) BY DEF Turns, Places
<1> QED BY <1>4, <1>5, FS_CardinalityType

LEMMA TurnsConcat ==
  ASSUME NEW S, NEW s \in Seq(S), NEW t \in Seq(S), NEW p
  PROVE  s \o t \in Seq(S) /\ Turns(s \o t, p) = Turns(s, p) + Turns(t, p)
<1> DEFINE n == Len(s)
           U == {n + k : k \in Places(t, p)}
           shift == [k \in Places(t, p) |-> n + k]
<1>c. /\ s \o t \in Seq(S) /\ Len(s \o t) = n + Len(t)
      /\ \A i \in 1 .. n + Len(t) : (s \o t)[i] = IF i <= n THEN s[i] ELSE t[i - n]
  BY ConcatProperties
<1>d. /\ n \in Nat /\ DOMAIN s = 1 .. n /\ Len(t) \in Nat /\ DOMAIN t = 1 .. Len(t)
      /\ DOMAIN (s \o t) = 1 .. n + Len(t)
  BY <1>c, LenProperties
<1> HIDE DEF n
<1>1. Places(s \o t, p) = Places(s, p) \cup U
  <2>1. \A i \in 1 .. n : (s \o t)[i] = s[i] /\ i \in 1 .. n + Len(t) BY <1>c, <1>d
  <2>2. \A k \in 1 .. Len(t) : (s \o t)[n + k] = t[k] /\ n + k \in 1 .. n + Len(t)
    BY <1>c, <1>d
  <2>3. \A i \in 1 .. n + Len(t) : i \in 1 .. n \/ \E k \in 1 .. Len(t) : i = n + k
    <3> TAKE i \in 1 .. n + Len(t)
    <3>1. i > n => i - n \in 1 .. Len(t) /\ i = n + (i - n) BY <1>d
    <3> QED BY <3>1, <1>d
  <2>4. Places(s, p) \cup U \subseteq Places(s \o t, p) BY <2>1, <2>2, <1>d DEF Places
  <2>5. Places(s \o t, p) \subseteq Places(s, p) \cup U BY <2>1, <2>2, <2>3, <1>d DEF Places
  <2> QED BY <2>4, <2>5
<1>2. Places(s, p) \cap U = {} BY <1>d DEF Places
<1>3. IsFiniteSet(U) /\ Cardinality(U) = Cardinality(Places(t, p))
  <2>1. shift \in [Places(t, p) -> U] OBVIOUS
  <2>2. \A j, k \in Places(t, p) : n + j = n + k => j = k BY <1>d DEF Places
  <2>3. \A j, k \in Places(t, p) : shift[j] = shift[k] => j = k BY <2>2
  <2>4. \A u \in U : \E k \in Places(t, p) : shift[k] = u OBVIOUS
  <2> HIDE DEF shift, U
  <2>5. shift \in Bijection(Places(t, p), U)
    BY <2>1, <2>3, <2>4 DEF Bijection, Injection, Surjection, IsInjective
  <2>6. ExistsBijection(Places(t, p), U) BY <2>5 DEF ExistsBijection
  <2> QED BY <2>6, PlacesFinite, FS_Bijection
<1>4. /\ IsFiniteSet(Places(s, p)) /\ Turns(s, p) = Cardinality(Places(s, p))
      /\ Turns(s, p) \in Nat
  BY PlacesFinite
<1>5. Turns(t, p) = Cardinality(Places(t, p)) /\ Turns(t, p) \in Nat BY PlacesFinite
<1>6. Turns(s \o t, p) = Cardinality(Places(s \o t, p)) BY <1>c, PlacesFinite
<1> HIDE DEF U
<1>7. Cardinality(Places(s, p) \cup U)
        = Cardinality(Places(s, p)) + Cardinality(U) - Cardinality(Places(s, p) \cap U)
  BY <1>3, <1>4, FS_Union
<1>8. Cardinality(Places(s, p) \cap U) = 0 BY <1>2, FS_EmptySet
<1> QED BY <1>c, <1>1, <1>3, <1>4, <1>5, <1>6, <1>7, <1>8

\* A block of n turns of q.
LEMMA TurnsOfBlock ==
  ASSUME NEW S, NEW q \in S, NEW n \in Nat, NEW p
  PROVE  /\ [j \in 1 .. n |-> q] \in Seq(S) /\ Len([j \in 1 .. n |-> q]) = n
         /\ Turns([j \in 1 .. n |-> q], p) = IF p = q THEN n ELSE 0
<1> DEFINE b == [j \in 1 .. n |-> q]
<1>1. b \in Seq(S) /\ Len(b) = n OBVIOUS
<1>2. {k \in DOMAIN b : b[k] = p} = IF p = q THEN 1 .. n ELSE {} OBVIOUS
<1>3. Cardinality(1 .. n) = n BY UpToFinite
<1>4. Turns(b, p) = IF p = q THEN n ELSE 0
  <2> HIDE DEF b
  <2>1. CASE p = q BY <2>1, <1>2, <1>3 DEF Turns
  <2>2. CASE p # q BY <2>2, <1>2, FS_EmptySet DEF Turns
  <2> QED BY <2>1, <2>2
<1> QED BY <1>1, <1>4

LEMMA TurnsOfAppend ==
  ASSUME NEW S, NEW s \in Seq(S), NEW q \in S, NEW p
  PROVE  /\ Append(s, q) \in Seq(S) /\ Len(Append(s, q)) = Len(s) + 1
         /\ Turns(Append(s, q), p) = IF p = q THEN Turns(s, p) + 1 ELSE Turns(s, p)
<1> DEFINE block(n) == [j \in 1 .. n |-> q]
           b == block(1)
<1>b. \A n \in Nat : /\ block(n) \in Seq(S) /\ Len(block(n)) = n
                     /\ Turns(block(n), p) = IF p = q THEN n ELSE 0
  BY TurnsOfBlock
<1>2. Append(s, q) = s \o b OBVIOUS
<1> HIDE DEF block
<1>1. b \in Seq(S) /\ Len(b) = 1 /\ Turns(b, p) = IF p = q THEN 1 ELSE 0 BY <1>b
<1> HIDE DEF b
<1>3. Turns(s \o b, p) = Turns(s, p) + Turns(b, p) BY <1>1, TurnsConcat
<1>4. Turns(s, p) \in Nat BY PlacesFinite
<1> QED BY <1>1, <1>2, <1>3, <1>4

\* A list gives each of its elements one turn.
LEMMA TurnsOfList ==
  ASSUME NEW S, NEW n, NEW key, NEW s, Lists(s, n, S, key), KeyOf(key, S), NEW p
  PROVE  s \in Seq(S) /\ Turns(s, p) = IF p \in S THEN 1 ELSE 0
<1>1. s \in Seq(S) /\ Len(s) \in Nat /\ DOMAIN s = 1 .. Len(s) /\ Len(s) = n
  BY LenProperties DEF Lists
<1>2. \A i, j \in 1 .. n : s[i] = s[j] => i = j
  <2> SUFFICES ASSUME NEW i \in 1 .. n, NEW j \in 1 .. n, s[i] = s[j], i < j PROVE FALSE
    BY <1>1
  <2>1. key[s[i]] < key[s[j]] BY DEF Lists
  <2>2. key[s[i]] \in Nat BY <1>1 DEF KeyOf
  <2> QED BY <2>1, <2>2
<1>3. CASE p \in S
  <2>1. PICK i \in 1 .. n : s[i] = p BY <1>3 DEF Lists
  <2>2. {k \in DOMAIN s : s[k] = p} = {i} BY <1>1, <1>2, <2>1
  <2> QED BY <1>1, <1>3, <2>2, FS_Singleton DEF Turns
<1>4. CASE p \notin S
  <2>1. {k \in DOMAIN s : s[k] = p} = {} BY <1>1, <1>4
  <2> QED BY <1>1, <1>4, <2>1, FS_EmptySet DEF Turns
<1> QED BY <1>3, <1>4

\* Which of its project's turns the i-th one is.
Nth(order, i) == Turns(Take(i, order), order[i])
Before(order, i, p) == {k \in 1 .. i : order[k] = p}

LEMMA TakeSound ==
  ASSUME NEW S, NEW order \in Seq(S), NEW n \in Nat
  PROVE  /\ Take(n, order) \in Seq(S)
         /\ Len(Take(n, order)) = IF n <= Len(order) THEN n ELSE Len(order)
         /\ \A i \in 1 .. Len(Take(n, order)) : Take(n, order)[i] = order[i]
<1> DEFINE m == IF n <= Len(order) THEN n ELSE Len(order)
<1>1. Len(order) \in Nat /\ \A i \in 1 .. Len(order) : order[i] \in S BY ElementOfSeq, LenProperties
<1>2. m \in Nat /\ m <= Len(order) BY <1>1
<1>3. Take(n, order) = SubSeq(order, 1, m)
  <2>1. Min({n, Len(order)}) = m BY <1>1, MinOfTwo
  <2> HIDE DEF m
  <2> QED BY <2>1 DEF Take
<1> HIDE DEF m
<1>4. /\ SubSeq(order, 1, m) \in Seq(S) /\ Len(SubSeq(order, 1, m)) = m
      /\ \A i \in 1 .. m : SubSeq(order, 1, m)[i] = order[i]
  BY <1>1, <1>2
<1> QED BY <1>3, <1>4 DEF m

LEMMA NthSound ==
  ASSUME NEW S, NEW order \in Seq(S), NEW i \in 1 .. Len(order)
  PROVE  Nth(order, i) = Cardinality(Before(order, i, order[i]))
<1>1. /\ Take(i, order) \in Seq(S) /\ Len(Take(i, order)) = i
      /\ \A k \in 1 .. i : Take(i, order)[k] = order[k]
  <2>1. i \in Nat /\ i <= Len(order) /\ Len(order) \in Nat BY LenProperties
  <2> QED BY <2>1, TakeSound
<1>2. DOMAIN Take(i, order) = 1 .. i BY <1>1, LenProperties
<1>3. {k \in DOMAIN Take(i, order) : Take(i, order)[k] = order[i]} = Before(order, i, order[i])
  BY <1>1, <1>2 DEF Before
<1> QED BY <1>3 DEF Nth, Turns

\* The turns of a project are numbered in order, from 1 to how many it has.
LEMMA NthOrder ==
  ASSUME NEW S, NEW order \in Seq(S)
  PROVE  /\ \A i \in 1 .. Len(order) : Nth(order, i) \in 1 .. Turns(order, order[i])
         /\ \A i, j \in 1 .. Len(order) :
              i < j /\ order[i] = order[j] => Nth(order, i) < Nth(order, j)
<1>1. Len(order) \in Nat /\ DOMAIN order = 1 .. Len(order) BY LenProperties
<1>2. ASSUME NEW i \in 1 .. Len(order), NEW p
      PROVE  /\ Before(order, i, p) \in SUBSET Places(order, p)
             /\ IsFiniteSet(Before(order, i, p)) /\ Cardinality(Before(order, i, p)) \in Nat
             /\ Cardinality(Before(order, i, p)) <= Turns(order, p)
  <2>1. Before(order, i, p) \in SUBSET Places(order, p) BY <1>1 DEF Before, Places
  <2>2. IsFiniteSet(Places(order, p)) /\ Turns(order, p) = Cardinality(Places(order, p))
    BY PlacesFinite
  <2> QED BY <2>1, <2>2, FS_Subset, FS_CardinalityType
<1>3. ASSUME NEW i \in 1 .. Len(order) PROVE Nth(order, i) \in 1 .. Turns(order, order[i])
  <2>1. Cardinality(Before(order, i, order[i])) # 0
    <3>1. i \in Before(order, i, order[i]) BY <1>1 DEF Before
    <3> QED BY <3>1, <1>2, FS_EmptySet
  <2>2. Turns(order, order[i]) \in Nat BY PlacesFinite
  <2> QED BY <2>1, <2>2, <1>2, NthSound
<1>4. ASSUME NEW i \in 1 .. Len(order), NEW j \in 1 .. Len(order), i < j, order[i] = order[j]
      PROVE  Nth(order, i) < Nth(order, j)
  <2> DEFINE p == order[j]
  <2>1. /\ IsFiniteSet(Before(order, i, p)) /\ Cardinality(Before(order, i, p)) \in Nat
        /\ IsFiniteSet(Before(order, j, p)) /\ Cardinality(Before(order, j, p)) \in Nat
    BY <1>2
  <2>2. j \notin Before(order, i, p) BY <1>4, <1>1 DEF Before
  <2>3. Before(order, i, p) \cup {j} \in SUBSET Before(order, j, p) BY <1>4, <1>1 DEF Before
  <2>4. Cardinality(Before(order, i, p) \cup {j}) = Cardinality(Before(order, i, p)) + 1
    BY <2>1, <2>2, FS_AddElement
  <2>5. Cardinality(Before(order, i, p) \cup {j}) <= Cardinality(Before(order, j, p))
    BY <2>1, <2>3, FS_Subset
  <2>6. Nth(order, i) = Cardinality(Before(order, i, p))
        /\ Nth(order, j) = Cardinality(Before(order, j, p))
    BY <1>4, NthSound
  <2> HIDE DEF p
  <2> QED BY <2>1, <2>4, <2>5, <2>6
<1> QED BY <1>3, <1>4

\* The pairs that Total counts.
Pairs(f, S) == UNION {{p} \X (1 .. f[p]) : p \in S}

LEMMA PairsSound ==
  ASSUME NEW S, IsFiniteSet(S), NEW f, \A p \in S : f[p] \in Nat
  PROVE  /\ IsFiniteSet(Pairs(f, S)) /\ Total(f, S) = Cardinality(Pairs(f, S))
         /\ Total(f, S) \in Nat
         /\ \A p, k : <<p, k>> \in Pairs(f, S) <=> p \in S /\ k \in 1 .. f[p]
         /\ \A x \in Pairs(f, S) : \E p \in S : \E k \in 1 .. f[p] : x = <<p, k>>
<1> DEFINE part == [p \in S |-> {p} \X (1 .. f[p])]
           parts == {{p} \X (1 .. f[p]) : p \in S}
<1>1. \A p \in S : IsFiniteSet({p} \X (1 .. f[p]))
  <2> TAKE p \in S
  <2>1. IsFiniteSet({p}) BY FS_Singleton
  <2>2. IsFiniteSet(1 .. f[p]) BY FS_Interval
  <2> QED BY <2>1, <2>2, FS_Product
<1>2. IsFiniteSet(parts)
  <2>1. part \in Surjection(S, parts) BY DEF Surjection
  <2> QED BY <2>1, FS_Surjection
<1>3. \A x \in parts : IsFiniteSet(x) BY <1>1
<1>4. Pairs(f, S) = UNION parts BY DEF Pairs
<1>5. IsFiniteSet(Pairs(f, S))
  <2> HIDE DEF parts
  <2> QED BY <1>2, <1>3, <1>4, FS_UNION
<1>6. Total(f, S) = Cardinality(Pairs(f, S)) BY DEF Total, Pairs
<1>7. \A p, k : <<p, k>> \in Pairs(f, S) <=> p \in S /\ k \in 1 .. f[p] BY DEF Pairs
<1>8. \A x \in Pairs(f, S) : \E p \in S : \E k \in 1 .. f[p] : x = <<p, k>> BY DEF Pairs
<1> QED BY <1>5, <1>6, <1>7, <1>8, FS_CardinalityType

LEMMA TotalMonotone ==
  ASSUME NEW S, IsFiniteSet(S), NEW f, NEW g,
         \A p \in S : f[p] \in Nat /\ g[p] \in Nat /\ f[p] <= g[p]
  PROVE  /\ Total(f, S) \in Nat /\ Total(g, S) \in Nat
         /\ Total(f, S) <= Total(g, S)
         /\ Total(f, S) = Total(g, S) => \A p \in S : f[p] = g[p]
<1>1. /\ IsFiniteSet(Pairs(f, S)) /\ Total(f, S) = Cardinality(Pairs(f, S))
      /\ Total(f, S) \in Nat
      /\ \A p, k : <<p, k>> \in Pairs(f, S) <=> p \in S /\ k \in 1 .. f[p]
      /\ \A x \in Pairs(f, S) : \E p \in S : \E k \in 1 .. f[p] : x = <<p, k>>
  BY PairsSound
<1>2. /\ IsFiniteSet(Pairs(g, S)) /\ Total(g, S) = Cardinality(Pairs(g, S))
      /\ Total(g, S) \in Nat
      /\ \A p, k : <<p, k>> \in Pairs(g, S) <=> p \in S /\ k \in 1 .. g[p]
  BY PairsSound
<1>3. Pairs(f, S) \in SUBSET Pairs(g, S)
  <2> SUFFICES ASSUME NEW x \in Pairs(f, S) PROVE x \in Pairs(g, S) OBVIOUS
  <2>p. PICK p \in S : \E k \in 1 .. f[p] : x = <<p, k>> BY <1>1
  <2>1. PICK k \in 1 .. f[p] : x = <<p, k>> BY <2>p
  <2>2. k \in 1 .. g[p] OBVIOUS
  <2> QED BY <2>1, <2>2, <1>2
<1>4. Total(f, S) <= Total(g, S) BY <1>1, <1>2, <1>3, FS_Subset
<1>5. ASSUME Total(f, S) = Total(g, S), NEW p \in S PROVE f[p] = g[p]
  <2>1. Pairs(g, S) = Pairs(f, S) BY <1>1, <1>2, <1>3, <1>5, FS_Subset
  <2>2. CASE g[p] = 0 BY <2>2
  <2>3. CASE g[p] # 0
    <3>1. g[p] \in 1 .. g[p] BY <2>3
    <3>2. <<p, g[p]>> \in Pairs(f, S) BY <3>1, <2>1, <1>2
    <3>3. g[p] \in 1 .. f[p] BY <3>2, <1>1
    <3> QED BY <3>3
  <2> QED BY <2>2, <2>3
<1> QED BY <1>1, <1>2, <1>4, <1>5

LEMMA TotalPositive ==
  ASSUME NEW S, IsFiniteSet(S), NEW f, \A q \in S : f[q] \in Nat, NEW p \in S, f[p] > 0
  PROVE  Total(f, S) \in Nat \ {0}
<1>1. /\ IsFiniteSet(Pairs(f, S)) /\ Total(f, S) = Cardinality(Pairs(f, S))
      /\ Total(f, S) \in Nat
      /\ \A q, k : <<q, k>> \in Pairs(f, S) <=> q \in S /\ k \in 1 .. f[q]
  BY PairsSound
<1>2. 1 \in 1 .. f[p] OBVIOUS
<1>3. <<p, 1>> \in Pairs(f, S) BY <1>1, <1>2
<1> QED BY <1>1, <1>3, FS_EmptySet

\* An order has as many turns as its projects have together.
LEMMA TotalOfTurns ==
  ASSUME NEW S, IsFiniteSet(S), NEW order \in Seq(S), NEW f, \A p \in S : f[p] = Turns(order, p)
  PROVE  Len(order) = Total(f, S)
<1>1. Len(order) \in Nat /\ DOMAIN order = 1 .. Len(order) BY LenProperties
<1>2. \A i \in 1 .. Len(order) : order[i] \in S BY ElementOfSeq
<1>3. \A p : /\ IsFiniteSet(Places(order, p)) /\ Turns(order, p) = Cardinality(Places(order, p))
             /\ Turns(order, p) \in Nat
  BY PlacesFinite
<1>4. /\ IsFiniteSet(Pairs(f, S)) /\ Total(f, S) = Cardinality(Pairs(f, S))
      /\ \A p, k : <<p, k>> \in Pairs(f, S) <=> p \in S /\ k \in 1 .. f[p]
      /\ \A x \in Pairs(f, S) : \E p \in S : \E k \in 1 .. f[p] : x = <<p, k>>
  <2>1. \A p \in S : f[p] \in Nat BY <1>3
  <2> QED BY <2>1, PairsSound
<1>5. /\ \A i \in 1 .. Len(order) : Nth(order, i) \in 1 .. Turns(order, order[i])
      /\ \A i, j \in 1 .. Len(order) :
           i < j /\ order[i] = order[j] => Nth(order, i) < Nth(order, j)
  BY NthOrder
<1>d. \A i, j \in 1 .. Len(order) : order[i] = order[j] /\ Nth(order, i) = Nth(order, j) => i = j
  <2> SUFFICES ASSUME NEW i \in 1 .. Len(order), NEW j \in 1 .. Len(order),
                      order[i] = order[j], Nth(order, i) = Nth(order, j), i < j
               PROVE  FALSE
    BY <1>1
  <2>1. Nth(order, i) < Nth(order, j) BY <1>5
  <2>2. Nth(order, i) \in Nat BY <1>3, <1>5
  <2> QED BY <2>1, <2>2
<1> DEFINE g == [i \in 1 .. Len(order) |-> <<order[i], Nth(order, i)>>]
<1>6. g \in [1 .. Len(order) -> Pairs(f, S)]
  <2>1. ASSUME NEW i \in 1 .. Len(order) PROVE <<order[i], Nth(order, i)>> \in Pairs(f, S)
    <3>1. order[i] \in S /\ Nth(order, i) \in 1 .. f[order[i]] BY <1>2, <1>5
    <3> QED BY <3>1, <1>4
  <2> QED BY <2>1
<1>7. \A i, j \in 1 .. Len(order) : g[i] = g[j] => i = j
  <2> SUFFICES ASSUME NEW i \in 1 .. Len(order), NEW j \in 1 .. Len(order), g[i] = g[j]
               PROVE  i = j
    OBVIOUS
  <2>1. order[i] = order[j] /\ Nth(order, i) = Nth(order, j) OBVIOUS
  <2> QED BY <2>1, <1>d
<1>8. ASSUME NEW p \in S, NEW k \in 1 .. f[p]
      PROVE  \E i \in 1 .. Len(order) : order[i] = p /\ Nth(order, i) = k
  <2> DEFINE n == [i \in Places(order, p) |-> Nth(order, i)]
  <2>1. \A i \in Places(order, p) : i \in 1 .. Len(order) /\ order[i] = p BY <1>1 DEF Places
  <2>2. n \in [Places(order, p) -> 1 .. f[p]]
    <3>1. ASSUME NEW i \in Places(order, p) PROVE Nth(order, i) \in 1 .. f[p]
      BY <2>1, <1>5
    <3> QED BY <3>1
  <2>3. \A i, j \in Places(order, p) : n[i] = n[j] => i = j BY <2>1, <1>d
  <2>4. IsFiniteSet(1 .. f[p]) /\ Cardinality(1 .. f[p]) = Cardinality(Places(order, p))
    <3>1. f[p] \in Nat /\ f[p] = Cardinality(Places(order, p)) BY <1>3
    <3> QED BY <3>1, UpToFinite
  <2> HIDE DEF n
  <2>5. n \in Injection(Places(order, p), 1 .. f[p]) BY <2>2, <2>3 DEF Injection, IsInjective
  <2>6. n \in Surjection(Places(order, p), 1 .. f[p]) BY <2>4, <2>5, FS_Injection
  <2>7. PICK i \in Places(order, p) : n[i] = k BY <2>6 DEF Surjection
  <2>8. Nth(order, i) = k BY <2>7 DEF n
  <2> QED BY <2>1, <2>8
<1>9. \A x \in Pairs(f, S) : \E i \in 1 .. Len(order) : g[i] = x
  <2> SUFFICES ASSUME NEW x \in Pairs(f, S) PROVE \E i \in 1 .. Len(order) : g[i] = x OBVIOUS
  <2>p. PICK p \in S : \E k \in 1 .. f[p] : x = <<p, k>> BY <1>4
  <2>1. PICK k \in 1 .. f[p] : x = <<p, k>> BY <2>p
  <2>2. PICK i \in 1 .. Len(order) : order[i] = p /\ Nth(order, i) = k BY <1>8
  <2> QED BY <2>1, <2>2
<1> HIDE DEF g
<1>10. g \in Bijection(1 .. Len(order), Pairs(f, S))
  BY <1>6, <1>7, <1>9 DEF Bijection, Injection, Surjection, IsInjective
<1>11. ExistsBijection(1 .. Len(order), Pairs(f, S)) BY <1>10 DEF ExistsBijection
<1>12. IsFiniteSet(1 .. Len(order)) /\ Cardinality(1 .. Len(order)) = Len(order)
  BY <1>1, UpToFinite
<1> QED BY <1>4, <1>11, <1>12, FS_Bijection

-----------------------------------------------------------------------------
(* Projects in path order, and the specs of a project by priority.         *)

PathKey(S) == [p \in S |-> p]
NameKey(S) == [e \in S |-> Name(e)]

LEMMA ListedSound ==
  ASSUME NEW S \in SUBSET Projects
  PROVE  /\ IsFiniteSet(S) /\ Cardinality(S) \in Nat
         /\ Lists(Listed(S), Cardinality(S), S, PathKey(S)) /\ KeyOf(PathKey(S), S)
<1>1. IsFiniteSet(S) /\ Cardinality(S) \in Nat
  BY QueueAssumption, FS_Subset, FS_CardinalityType
<1>2. KeyOf(PathKey(S), S) BY QueueAssumption DEF KeyOf, PathKey
<1>3. \A p \in S : PathKey(S)[p] = p BY DEF PathKey
<1>4. \A x \in S : {y \in S : PathKey(S)[y] < PathKey(S)[x]} = {y \in S : y < x} BY <1>3
<1>5. Listed(S) = [i \in 1 .. Cardinality(S) |->
                     CHOOSE x \in S : Cardinality({y \in S : y < x}) = i - 1]
  BY DEF Listed, Ranked
<1>6. \A i \in 1 .. Cardinality(S) :
        (CHOOSE x \in S : Cardinality({y \in S : y < x}) = i - 1)
          = CHOOSE x \in S : Cardinality({y \in S : PathKey(S)[y] < PathKey(S)[x]}) = i - 1
  BY <1>4
<1>7. Listed(S) = [i \in 1 .. Cardinality(S) |->
         CHOOSE x \in S : Cardinality({y \in S : PathKey(S)[y] < PathKey(S)[x]}) = i - 1]
  BY <1>5, <1>6
<1>8. Lists(Listed(S), Cardinality(S), S, PathKey(S)) BY <1>1, <1>2, <1>7, RankedSound
<1> QED BY <1>1, <1>2, <1>8

LEMMA ByPrioritySound ==
  ASSUME NEW p \in Projects, NEW S \in SUBSET Of(p)
  PROVE  /\ IsFiniteSet(S) /\ Cardinality(S) \in Nat
         /\ Lists(ByPriority(S), Cardinality(S), S, NameKey(S)) /\ KeyOf(NameKey(S), S)
<1>1. \A e \in Of(p) : \E n \in SpecsOf[p] : e = <<p, n>> BY DEF Of, Entries, Project
<1>2. IsFiniteSet(S) /\ Cardinality(S) \in Nat
  <2> DEFINE g == [n \in SpecsOf[p] |-> <<p, n>>]
             T == {<<p, n>> : n \in SpecsOf[p]}
  <2>1. IsFiniteSet(SpecsOf[p]) BY QueueAssumption
  <2>2. g \in Surjection(SpecsOf[p], T) BY DEF Surjection
  <2>3. S \in SUBSET T BY <1>1
  <2> HIDE DEF g, T
  <2>4. IsFiniteSet(T) BY <2>1, <2>2, FS_Surjection
  <2> QED BY <2>3, <2>4, FS_Subset, FS_CardinalityType
<1>3. KeyOf(NameKey(S), S)
  <2>1. \A e \in S : Name(e) \in Nat /\ e = <<p, Name(e)>>
    BY <1>1, QueueAssumption DEF Name
  <2> QED BY <2>1 DEF KeyOf, NameKey
<1>4. \A e \in S : NameKey(S)[e] = Name(e) BY DEF NameKey
<1>5. \A x \in S : {y \in S : NameKey(S)[y] < NameKey(S)[x]} = {y \in S : Name(y) < Name(x)}
  BY <1>4
<1>6. ByPriority(S) = [i \in 1 .. Cardinality(S) |->
         CHOOSE x \in S : Cardinality({y \in S : Name(y) < Name(x)}) = i - 1]
  BY DEF ByPriority, Ranked
<1>7. \A i \in 1 .. Cardinality(S) :
        (CHOOSE x \in S : Cardinality({y \in S : Name(y) < Name(x)}) = i - 1)
          = CHOOSE x \in S : Cardinality({y \in S : NameKey(S)[y] < NameKey(S)[x]}) = i - 1
  BY <1>5
<1>8. ByPriority(S) = [i \in 1 .. Cardinality(S) |->
         CHOOSE x \in S : Cardinality({y \in S : NameKey(S)[y] < NameKey(S)[x]}) = i - 1]
  BY <1>6, <1>7
<1>9. Lists(ByPriority(S), Cardinality(S), S, NameKey(S)) BY <1>2, <1>3, <1>8, RankedSound
<1> QED BY <1>2, <1>3, <1>9

-----------------------------------------------------------------------------
(* The round robin: every project has as many turns as it has specs.       *)

Swept(len, order, k) == order \o Listed({p \in Projects : len[p] >= k})

LEMMA SweepsExist ==
  ASSUME NEW len, NEW n \in Nat
  PROVE  \E f : f = [k \in 0 .. n |-> IF k = 0 THEN <<>> ELSE Swept(len, f[k - 1], k)]
<1> DEFINE Q == {m \in Nat :
                   \E f : f = [k \in 0 .. m |-> IF k = 0 THEN <<>> ELSE Swept(len, f[k - 1], k)]}
<1>1. 0 \in Q
  <2> DEFINE f == [k \in 0 .. 0 |-> <<>>]
  <2>1. f = [k \in 0 .. 0 |-> IF k = 0 THEN <<>> ELSE Swept(len, f[k - 1], k)] OBVIOUS
  <2> HIDE DEF f
  <2> QED BY <2>1
<1>2. ASSUME NEW m \in Nat, m \in Q PROVE m + 1 \in Q
  <2>1. PICK f : f = [k \in 0 .. m |-> IF k = 0 THEN <<>> ELSE Swept(len, f[k - 1], k)] BY <1>2
  <2> DEFINE g == [k \in 0 .. m + 1 |-> IF k = m + 1 THEN Swept(len, f[m], k) ELSE f[k]]
  <2>2. \A k \in 0 .. m : g[k] = f[k] OBVIOUS
  <2>3. ASSUME NEW k \in 0 .. m + 1
        PROVE  g[k] = IF k = 0 THEN <<>> ELSE Swept(len, g[k - 1], k)
    <3>1. CASE k = 0 BY <3>1, <2>1
    <3>2. CASE k \in 1 .. m
      <4>1. f[k] = Swept(len, f[k - 1], k) BY <3>2, <2>1
      <4>2. g[k] = f[k] /\ g[k - 1] = f[k - 1] BY <3>2
      <4> QED BY <3>2, <4>1, <4>2
    <3>3. CASE k = m + 1
      <4>1. g[k] = Swept(len, f[m], k) /\ g[k - 1] = f[m] BY <3>3
      <4> QED BY <3>3, <4>1
    <3> QED BY <3>1, <3>2, <3>3
  <2>4. g = [k \in 0 .. m + 1 |-> IF k = 0 THEN <<>> ELSE Swept(len, g[k - 1], k)] BY <2>3
  <2> HIDE DEF g
  <2> QED BY <2>4
<1> HIDE DEF Q
<1>3. n \in Q BY <1>1, <1>2, ByInduction
<1> QED BY <1>3 DEF Q

LEMMA RoundRobinSound ==
  ASSUME NEW len \in [Projects -> Nat]
  PROVE  /\ RoundRobin(len) \in Seq(Projects)
         /\ \A p \in Projects : Turns(RoundRobin(len), p) = len[p]
<1> DEFINE lens   == {len[p] : p \in Projects} \cup {0}
           sweeps == Max(lens)
           order  == CHOOSE f : f = [k \in 0 .. sweeps |->
                                       IF k = 0 THEN <<>> ELSE Swept(len, f[k - 1], k)]
           Done(k) == /\ order[k] \in Seq(Projects)
                      /\ \A p \in Projects :
                           Turns(order[k], p) = IF k <= len[p] THEN k ELSE len[p]
           Q == {k \in Nat : k <= sweeps => Done(k)}
<1>1. sweeps \in Nat /\ \A p \in Projects : len[p] <= sweeps
  <2>1. IsFiniteSet(lens)
    <3> DEFINE g == [p \in Projects |-> len[p]]
               T == {len[p] : p \in Projects}
    <3>1. g \in Surjection(Projects, T) BY DEF Surjection
    <3> HIDE DEF g, T
    <3>2. IsFiniteSet(T) BY <3>1, QueueAssumption, FS_Surjection
    <3>3. IsFiniteSet(T \cup {0}) BY <3>2, FS_AddElement
    <3> QED BY <3>3 DEF T
  <2>2. lens \in SUBSET Nat /\ lens # {} OBVIOUS
  <2> HIDE DEF lens
  <2>3. \E m \in lens : \A y \in lens : m >= y BY <2>1, <2>2, MaxExists
  <2>4. sweeps \in lens /\ \A y \in lens : sweeps >= y BY <2>3 DEF Max
  <2>5. \A p \in Projects : len[p] \in lens BY DEF lens
  <2> HIDE DEF sweeps
  <2> QED BY <2>2, <2>4, <2>5
<1>2. order = [k \in 0 .. sweeps |-> IF k = 0 THEN <<>> ELSE Swept(len, order[k - 1], k)]
  <2> HIDE DEF sweeps
  <2> QED BY <1>1, SweepsExist
<1>3. RoundRobin(len) = order[sweeps] BY DEF RoundRobin, Swept
<1> HIDE DEF lens, sweeps, order
<1>4. 0 \in Q
  <2>1. order[0] = <<>> BY <1>1, <1>2
  <2>2. <<>> \in Seq(Projects) /\ \A p : Turns(<<>>, p) = 0
    <3>1. \A p : {k \in DOMAIN <<>> : <<>>[k] = p} = {} OBVIOUS
    <3> QED BY <3>1, FS_EmptySet DEF Turns
  <2>3. Done(0) BY <2>1, <2>2
  <2> HIDE DEF Done
  <2> QED BY <2>3
<1>5. ASSUME NEW k \in Nat, k \in Q PROVE k + 1 \in Q
  <2> SUFFICES ASSUME k + 1 <= sweeps PROVE Done(k + 1) OBVIOUS
  <2> DEFINE S == {p \in Projects : len[p] >= k + 1}
  <2>1. Done(k) BY <1>1, <1>5
  <2>2. order[k + 1] = order[k] \o Listed(S)
    <3>1. k + 1 \in 0 .. sweeps /\ k + 1 # 0 /\ (k + 1) - 1 = k BY <1>1
    <3>2. order[k + 1] = Swept(len, order[k], k + 1) BY <1>2, <3>1
    <3> QED BY <3>2 DEF Swept
  <2>3. S \in SUBSET Projects OBVIOUS
  <2> HIDE DEF S
  <2>4. /\ Lists(Listed(S), Cardinality(S), S, PathKey(S)) /\ KeyOf(PathKey(S), S)
    BY <2>3, ListedSound
  <2>5. Listed(S) \in Seq(S) /\ \A p : Turns(Listed(S), p) = IF p \in S THEN 1 ELSE 0
    BY <2>4, TurnsOfList
  <2>6. Listed(S) \in Seq(Projects) BY <2>3, <2>5, SeqMonotonic
  <2>7. /\ order[k + 1] \in Seq(Projects)
        /\ \A p : Turns(order[k + 1], p) = Turns(order[k], p) + Turns(Listed(S), p)
    BY <2>1, <2>2, <2>6, TurnsConcat
  <2>8. \A p \in Projects : p \in S <=> k + 1 <= len[p] BY DEF S
  <2>9. ASSUME NEW p \in Projects
        PROVE  Turns(order[k + 1], p) = IF k + 1 <= len[p] THEN k + 1 ELSE len[p]
    <3>1. Turns(order[k], p) = IF k <= len[p] THEN k ELSE len[p] BY <2>1
    <3>2. Turns(order[k + 1], p)
            = Turns(order[k], p) + IF k + 1 <= len[p] THEN 1 ELSE 0
      BY <2>5, <2>7, <2>8
    <3> QED BY <3>1, <3>2
  <2> QED BY <2>7, <2>9
<1>6. Done(sweeps)
  <2> HIDE DEF Q
  <2>1. sweeps \in Q BY <1>1, <1>4, <1>5, ByInduction
  <2> QED BY <2>1, <1>1 DEF Q
<1> QED BY <1>1, <1>3, <1>6

-----------------------------------------------------------------------------
(* The weighted sweep: how large the shares are.                           *)

LEMMA ProductsGrow ==
  ASSUME NEW a \in Nat, NEW b \in Nat, NEW c \in Nat, NEW d \in Nat, a <= b, c <= d
  PROVE  a * c \in Nat /\ b * d \in Nat /\ a * c <= b * d
<1>1. a * c <= a * d
  <2>1. a * d = a * c + a * (d - c) /\ a * (d - c) \in Nat OBVIOUS
  <2> QED BY <2>1
<1>2. a * d <= b * d
  <2>1. b * d = a * d + (b - a) * d /\ (b - a) * d \in Nat OBVIOUS
  <2> QED BY <2>1
<1> QED BY <1>1, <1>2

LEMMA QuotientsGrow ==
  ASSUME NEW x \in Nat, NEW y \in Nat, NEW m \in Nat \ {0}, x <= y
  PROVE  x \div m \in Nat /\ y \div m \in Nat /\ x \div m <= y \div m
<1> DEFINE q == x \div m
           r == y \div m
<1>1. q \in Int /\ r \in Int /\ m * q <= x /\ x < m * q + m /\ m * r <= y /\ y < m * r + m
  OBVIOUS
<1> HIDE DEF q, r
<1>2. r >= q
  <2> SUFFICES ASSUME r + 1 <= q PROVE FALSE BY <1>1
  <2>1. m * (r + 1) <= m * q
    <3>1. m * q = m * (r + 1) + m * (q - (r + 1)) BY <1>1
    <3>2. m * (q - (r + 1)) >= 0 BY <1>1
    <3> QED BY <3>1, <3>2, <1>1
  <2>2. m * (r + 1) = m * r + m BY <1>1
  <2> QED BY <1>1, <2>1, <2>2
<1>3. q >= 0
  <2> SUFFICES ASSUME q <= -1 PROVE FALSE BY <1>1
  <2>1. m * q + m = m * (q + 1) BY <1>1
  <2>2. m * (q + 1) <= 0 BY <1>1
  <2> QED BY <1>1, <2>1, <2>2
<1>4. q \in Nat /\ r \in Nat /\ q <= r BY <1>1, <1>2, <1>3
<1> QED BY <1>4 DEF q, r

LEMMA RoundedSound ==
  ASSUME NEW x \in Nat, NEW z \in Nat, NEW y \in Nat \ {0}, x <= z
  PROVE  Rounded(x, y) \in Nat /\ Rounded(z, y) \in Nat /\ Rounded(x, y) <= Rounded(z, y)
<1>1. 2 * x + y \in Nat /\ 2 * z + y \in Nat /\ 2 * y \in Nat \ {0} /\ 2 * x + y <= 2 * z + y
  OBVIOUS
<1>2. /\ (2 * x + y) \div (2 * y) \in Nat /\ (2 * z + y) \div (2 * y) \in Nat
      /\ (2 * x + y) \div (2 * y) <= (2 * z + y) \div (2 * y)
  BY <1>1, QuotientsGrow
<1> QED BY <1>2 DEF Rounded

\* A share fits in what remains and in the backlog.
LEMMA ShareFits ==
  ASSUME NEW specs \in Nat, NEW own \in Nat, NEW total \in Nat \ {0}, NEW remaining \in Nat
  PROVE  /\ Share(specs, own, total, remaining) \in Nat
         /\ Share(specs, own, total, remaining) <= remaining
         /\ Share(specs, own, total, remaining) <= specs
<1> DEFINE part == Max({Rounded(remaining * own, total), 1})
<1>1. part \in Nat
  <2>1. remaining * own \in Nat OBVIOUS
  <2>2. Rounded(remaining * own, total) \in Nat BY <2>1, RoundedSound
  <2> QED BY <2>2, MaxOfTwo
<1>2. Share(specs, own, total, remaining) = Min({part, remaining, specs}) BY DEF Share
<1> HIDE DEF part
<1>3. part \in Int /\ remaining \in Int /\ specs \in Int BY <1>1
<1>4. /\ Min({part, remaining, specs}) \in {part, remaining, specs}
      /\ Min({part, remaining, specs}) <= remaining /\ Min({part, remaining, specs}) <= specs
  BY <1>3, MinOfThree, Zenon
<1> QED BY <1>1, <1>2, <1>4

\* Of two with equal backlogs, the one of the greater weight that is served when as much
\* remains has a share as large.
LEMMA ShareGrows ==
  ASSUME NEW specs \in Nat, NEW total \in Nat \ {0}, NEW own \in Nat, NEW more \in Nat,
         own <= more, NEW remaining \in Nat, NEW before \in Nat, remaining <= before
  PROVE  Share(specs, own, total, remaining) <= Share(specs, more, total, before)
<1> DEFINE x == Rounded(remaining * own, total)
           z == Rounded(before * more, total)
           a == Max({x, 1})
           b == Max({z, 1})
<1>1. x \in Nat /\ z \in Nat /\ x <= z
  <2>1. /\ remaining * own \in Nat /\ before * more \in Nat
        /\ remaining * own <= before * more
    BY ProductsGrow
  <2> QED BY <2>1, RoundedSound
<1>2. /\ Share(specs, own, total, remaining) = Min({a, remaining, specs})
      /\ Share(specs, more, total, before) = Min({b, before, specs})
  BY DEF Share
<1> HIDE DEF x, z
<1>3. a \in Nat /\ b \in Nat /\ a <= b BY <1>1, MaxOfTwo
<1> HIDE DEF a, b
<1>i. a \in Int /\ b \in Int /\ remaining \in Int /\ before \in Int /\ specs \in Int BY <1>3
<1>4. /\ Min({a, remaining, specs}) \in {a, remaining, specs}
      /\ Min({a, remaining, specs}) <= a /\ Min({a, remaining, specs}) <= remaining
      /\ Min({a, remaining, specs}) <= specs
  BY <1>i, MinOfThree, Zenon
<1>5. Min({b, before, specs}) \in {b, before, specs} BY <1>i, MinOfThree, Zenon
<1> QED BY <1>2, <1>3, <1>4, <1>5

Block(len, w, total, batch, order, p) ==
  order \o [j \in 1 .. Share(len[p], w[p], total, batch - Len(order)) |-> p]

\* f[k] is the order after the blocks of the first k projects of the list.
Blocks(f, n, len, w, total, batch, list) ==
  f = [k \in 0 .. n |-> IF k = 0 THEN <<>> ELSE Block(len, w, total, batch, f[k - 1], list[k])]

LEMMA BlocksExist ==
  ASSUME NEW len, NEW w, NEW total, NEW batch, NEW list, NEW n \in Nat
  PROVE  \E f : Blocks(f, n, len, w, total, batch, list)
<1> DEFINE Q == {m \in Nat :
                   \E f : f = [k \in 0 .. m |->
                                 IF k = 0 THEN <<>>
                                 ELSE Block(len, w, total, batch, f[k - 1], list[k])]}
<1>1. 0 \in Q
  <2> DEFINE f == [k \in 0 .. 0 |-> <<>>]
  <2>1. f = [k \in 0 .. 0 |-> IF k = 0 THEN <<>>
                              ELSE Block(len, w, total, batch, f[k - 1], list[k])]
    OBVIOUS
  <2> HIDE DEF f
  <2> QED BY <2>1
<1>2. ASSUME NEW m \in Nat, m \in Q PROVE m + 1 \in Q
  <2>1. PICK f : f = [k \in 0 .. m |-> IF k = 0 THEN <<>>
                                       ELSE Block(len, w, total, batch, f[k - 1], list[k])]
    BY <1>2
  <2> DEFINE g == [k \in 0 .. m + 1 |->
                     IF k = m + 1 THEN Block(len, w, total, batch, f[m], list[k]) ELSE f[k]]
  <2>2. \A k \in 0 .. m : g[k] = f[k] OBVIOUS
  <2>3. ASSUME NEW k \in 0 .. m + 1
        PROVE  g[k] = IF k = 0 THEN <<>>
                      ELSE Block(len, w, total, batch, g[k - 1], list[k])
    <3>1. CASE k = 0 BY <3>1, <2>1
    <3>2. CASE k \in 1 .. m
      <4>1. f[k] = Block(len, w, total, batch, f[k - 1], list[k]) BY <3>2, <2>1
      <4>2. g[k] = f[k] /\ g[k - 1] = f[k - 1] BY <3>2
      <4> QED BY <3>2, <4>1, <4>2
    <3>3. CASE k = m + 1
      <4>1. g[k] = Block(len, w, total, batch, f[m], list[k]) /\ g[k - 1] = f[m] BY <3>3
      <4> QED BY <3>3, <4>1
    <3> QED BY <3>1, <3>2, <3>3
  <2>4. g = [k \in 0 .. m + 1 |-> IF k = 0 THEN <<>>
                                  ELSE Block(len, w, total, batch, g[k - 1], list[k])]
    BY <2>3
  <2> HIDE DEF g
  <2> QED BY <2>4
<1> HIDE DEF Q
<1>3. n \in Q BY <1>1, <1>2, ByInduction
<1> QED BY <1>3 DEF Q, Blocks

\* The first k projects of the list have had their blocks.
Served(len, w, total, batch, list, order, k) ==
  /\ order \in Seq(Projects) /\ Len(order) <= batch
  /\ \A p : (\A j \in 1 .. k : list[j] # p) => Turns(order, p) = 0
  /\ \A j \in 1 .. k :
       \E r \in Nat : /\ r >= batch - Len(order)
                      /\ Turns(order, list[j]) = Share(len[list[j]], w[list[j]], total, r)
  /\ \A i, j \in 1 .. k :
       i < j /\ w[list[i]] > w[list[j]] /\ len[list[i]] = len[list[j]]
       => Turns(order, list[i]) >= Turns(order, list[j])

\* n turns of q.
Copies(n, q) == [j \in 1 .. n |-> q]

LEMMA CopiesAppended ==
  ASSUME NEW order \in Seq(Projects), NEW q \in Projects, NEW n \in Nat
  PROVE  /\ order \o Copies(n, q) \in Seq(Projects)
         /\ Len(order \o Copies(n, q)) = Len(order) + n
         /\ \A p : Turns(order \o Copies(n, q), p)
                     = IF p = q THEN Turns(order, p) + n ELSE Turns(order, p)
<1>1. /\ Copies(n, q) \in Seq(Projects) /\ Len(Copies(n, q)) = n
      /\ \A p : Turns(Copies(n, q), p) = IF p = q THEN n ELSE 0
  BY TurnsOfBlock DEF Copies
<1>2. /\ order \o Copies(n, q) \in Seq(Projects)
      /\ Len(order \o Copies(n, q)) = Len(order) + Len(Copies(n, q))
  BY <1>1, ConcatProperties
<1>3. \A p : Turns(order \o Copies(n, q), p) = Turns(order, p) + Turns(Copies(n, q), p)
  BY <1>1, TurnsConcat
<1>4. \A p : Turns(order, p) \in Nat BY PlacesFinite
<1> QED BY <1>1, <1>2, <1>3, <1>4

LEMMA BlockServes ==
  ASSUME NEW len \in [Projects -> Nat], NEW w \in [Projects -> Nat], NEW total \in Nat \ {0},
         NEW batch \in Nat, NEW n \in Nat, NEW list \in [1 .. n -> Projects],
         \A i, j \in 1 .. n : list[i] = list[j] => i = j,
         NEW order, NEW k \in Nat, k + 1 <= n,
         Served(len, w, total, batch, list, order, k)
  PROVE  Served(len, w, total, batch, list,
                Block(len, w, total, batch, order, list[k + 1]), k + 1)
<1> DEFINE q     == list[k + 1]
           r     == batch - Len(order)
           share == Share(len[q], w[q], total, r)
           after == Block(len, w, total, batch, order, q)
<1>o. /\ order \in Seq(Projects) /\ Len(order) <= batch /\ Len(order) \in Nat
      /\ \A p : (\A j \in 1 .. k : list[j] # p) => Turns(order, p) = 0
      /\ \A j \in 1 .. k :
           \E x \in Nat : /\ x >= batch - Len(order)
                          /\ Turns(order, list[j]) = Share(len[list[j]], w[list[j]], total, x)
      /\ \A i, j \in 1 .. k :
           i < j /\ w[list[i]] > w[list[j]] /\ len[list[i]] = len[list[j]]
           => Turns(order, list[i]) >= Turns(order, list[j])
  BY LenProperties DEF Served
<1>k. k + 1 \in 1 .. n /\ q \in Projects /\ r \in Nat BY <1>o
<1>l. \A j \in 1 .. k : j \in 1 .. n /\ list[j] \in Projects /\ list[j] # q BY <1>k
<1>1. share \in Nat /\ share <= r /\ share <= len[q] BY <1>k, ShareFits
<1>b. after = order \o Copies(share, q) BY DEF Block, Copies
<1> HIDE DEF share, r, q, after
<1>3. /\ after \in Seq(Projects) /\ Len(after) = Len(order) + share
      /\ \A p : Turns(after, p) = IF p = q THEN Turns(order, p) + share ELSE Turns(order, p)
  <2>1. order \in Seq(Projects) /\ q \in Projects /\ share \in Nat BY <1>o, <1>k, <1>1
  <2>2. /\ order \o Copies(share, q) \in Seq(Projects)
        /\ Len(order \o Copies(share, q)) = Len(order) + share
        /\ \A p : Turns(order \o Copies(share, q), p)
                    = IF p = q THEN Turns(order, p) + share ELSE Turns(order, p)
    BY <2>1, CopiesAppended, Zenon
  <2> QED BY <2>2, <1>b
<1>t. \A p : Turns(order, p) \in Nat BY <1>o, PlacesFinite
<1>4. /\ Turns(after, q) = share
      /\ \A p : p # q => Turns(after, p) = Turns(order, p)
  <2>1. Turns(order, q) = 0 BY <1>o, <1>l
  <2> QED BY <2>1, <1>1, <1>3
<1>5. Len(after) <= batch BY <1>1, <1>3, <1>o DEF r
<1>6. ASSUME NEW p, \A j \in 1 .. k + 1 : list[j] # p PROVE Turns(after, p) = 0
  <2>1. p # q /\ \A j \in 1 .. k : list[j] # p BY <1>6 DEF q
  <2> QED BY <2>1, <1>4, <1>o
<1>7. ASSUME NEW j \in 1 .. k + 1
      PROVE  \E x \in Nat : /\ x >= batch - Len(after)
                            /\ Turns(after, list[j])
                                 = Share(len[list[j]], w[list[j]], total, x)
  <2>1. CASE j = k + 1
    <3>1. r \in Nat /\ r >= batch - Len(after) BY <1>1, <1>3, <1>k, <1>o DEF r
    <3>2. Turns(after, list[j]) = Share(len[list[j]], w[list[j]], total, r)
      BY <2>1, <1>4 DEF share, q
    <3> QED BY <3>1, <3>2
  <2>2. CASE j \in 1 .. k
    <3>1. PICK x \in Nat : /\ x >= batch - Len(order)
                           /\ Turns(order, list[j])
                                = Share(len[list[j]], w[list[j]], total, x)
      BY <2>2, <1>o
    <3>2. x >= batch - Len(after) BY <3>1, <1>1, <1>3, <1>o
    <3>3. Turns(after, list[j]) = Turns(order, list[j]) BY <2>2, <1>l, <1>4
    <3> QED BY <3>1, <3>2, <3>3
  <2> QED BY <2>1, <2>2
<1>8. ASSUME NEW i \in 1 .. k + 1, NEW j \in 1 .. k + 1,
             i < j, w[list[i]] > w[list[j]], len[list[i]] = len[list[j]]
      PROVE  Turns(after, list[i]) >= Turns(after, list[j])
  <2>0. i \in 1 .. k BY <1>8
  <2>1. Turns(after, list[i]) = Turns(order, list[i]) BY <2>0, <1>l, <1>4
  <2>2. CASE j = k + 1
    <3>1. PICK x \in Nat : /\ x >= batch - Len(order)
                           /\ Turns(order, list[i])
                                = Share(len[list[i]], w[list[i]], total, x)
      BY <2>0, <1>o
    <3>2. list[j] = q BY <2>2 DEF q
    <3>3. /\ len[q] \in Nat /\ w[q] \in Nat /\ w[list[i]] \in Nat /\ w[q] <= w[list[i]]
          /\ len[list[i]] = len[q]
      BY <1>8, <1>k, <1>l, <2>0, <3>2
    <3>4. x >= r BY <3>1 DEF r
    <3>5. Share(len[q], w[q], total, r) <= Share(len[q], w[list[i]], total, x)
      BY <3>3, <3>4, <1>k, ShareGrows
    <3>6. Turns(after, list[i]) = Share(len[q], w[list[i]], total, x) BY <2>1, <3>1, <3>3
    <3>7. Turns(after, list[j]) = Share(len[q], w[q], total, r) BY <3>2, <1>4 DEF share
    <3>8. Turns(after, list[i]) \in Nat /\ Turns(after, list[j]) \in Nat
      BY <2>1, <3>2, <1>1, <1>4, <1>t
    <3> QED BY <3>5, <3>6, <3>7, <3>8
  <2>3. CASE j \in 1 .. k
    <3>1. Turns(after, list[j]) = Turns(order, list[j]) BY <2>3, <1>l, <1>4
    <3>2. Turns(order, list[i]) >= Turns(order, list[j]) BY <2>0, <2>3, <1>8, <1>o
    <3> QED BY <2>1, <3>1, <3>2
  <2> QED BY <2>2, <2>3
<1>9. Served(len, w, total, batch, list, after, k + 1)
  BY <1>3, <1>5, <1>6, <1>7, <1>8 DEF Served
<1> QED BY <1>9 DEF after, q

\* What the sweep leaves to the leftover turns: the heavier of two with equal backlogs that
\* is listed first has as many turns as the other.
LEMMA SweepSound ==
  ASSUME NEW len \in [Projects -> Nat], NEW w \in [Projects -> Nat], NEW batch \in Nat,
         NEW S, S = Sharers(len, w)
  PROVE  LET first == Sweep(len, w, batch, S) IN
         /\ first \in Seq(Projects) /\ Len(first) <= batch
         /\ \A p \in S : Turns(first, p) <= len[p]
         /\ \A p : p \notin S => Turns(first, p) = 0
         /\ \A p, q \in S : p < q /\ w[p] > w[q] /\ len[p] = len[q]
              => Turns(first, p) >= Turns(first, q)
<1> DEFINE total == Total(w, S)
           list  == Listed(S)
           order == CHOOSE f : f = [k \in 0 .. Len(list) |->
                                      IF k = 0 THEN <<>>
                                      ELSE Block(len, w, total, batch, f[k - 1], list[k])]
           n     == Cardinality(S)
<1>1. S \in SUBSET Projects /\ \A p \in S : w[p] > 0 /\ p \in Nat /\ w[p] \in Nat
  BY QueueAssumption DEF Sharers
<1>2. IsFiniteSet(S) /\ n \in Nat /\ Lists(list, n, S, PathKey(S)) BY <1>1, ListedSound
<1>3. Sweep(len, w, batch, S) = order[Len(list)] BY DEF Sweep, Block
<1>4. Len(list) = n BY <1>2 DEF Lists
<1>5. order = [k \in 0 .. n |-> IF k = 0 THEN <<>>
                                ELSE Block(len, w, total, batch, order[k - 1], list[k])]
  <2> HIDE DEF list, total, n
  <2>1. Len(list) \in Nat BY <1>2, <1>4
  <2>2. \E f : Blocks(f, Len(list), len, w, total, batch, list) BY <2>1, BlocksExist
  <2>3. order = CHOOSE f : Blocks(f, Len(list), len, w, total, batch, list) BY DEF Blocks
  <2> HIDE DEF order
  <2>4. Blocks(order, n, len, w, total, batch, list) BY <2>2, <2>3, <1>4
  <2> QED BY <2>4 DEF Blocks
<1> HIDE DEF list, n, order
<1>6. /\ list \in [1 .. n -> S]
      /\ \A i, j \in 1 .. n : i < j => list[i] < list[j]
      /\ \A p \in S : \E i \in 1 .. n : list[i] = p
  <2>1. /\ list \in Seq(S) /\ Len(list) = n
        /\ \A i, j \in 1 .. n : i < j => PathKey(S)[list[i]] < PathKey(S)[list[j]]
        /\ \A p \in S : \E i \in 1 .. n : list[i] = p
    BY <1>2 DEF Lists
  <2>2. list \in [1 .. n -> S] BY <2>1, LenProperties
  <2>3. \A i \in 1 .. n : PathKey(S)[list[i]] = list[i] BY <2>2 DEF PathKey
  <2> QED BY <2>1, <2>2, <2>3
<1>7. \A i, j \in 1 .. n : list[i] = list[j] => i = j
  <2> SUFFICES ASSUME NEW i \in 1 .. n, NEW j \in 1 .. n, list[i] = list[j], i < j PROVE FALSE
    BY <1>2
  <2>1. list[i] < list[j] /\ list[i] \in Nat BY <1>1, <1>6
  <2> QED BY <2>1
<1>8. Served(len, w, total, batch, list, order[n], n)
  <2>1. CASE S = {}
    <3>1. n = 0 BY <2>1, FS_EmptySet DEF n
    <3>2. order[0] = <<>> BY <1>2, <1>5
    <3>3. <<>> \in Seq(Projects) /\ Len(<<>>) = 0 /\ \A p : Turns(<<>>, p) = 0
      <4>1. \A p : {k \in DOMAIN <<>> : <<>>[k] = p} = {} OBVIOUS
      <4> QED BY <4>1, FS_EmptySet DEF Turns
    <3> QED BY <3>1, <3>2, <3>3 DEF Served
  <2>2. CASE S # {}
    <3> DEFINE Q == {k \in Nat :
                       k <= n => Served(len, w, total, batch, list, order[k], k)}
    <3>1. total \in Nat \ {0}
      <4>1. PICK p \in S : TRUE BY <2>2
      <4>2. w[p] > 0 /\ \A q \in S : w[q] \in Nat BY <1>1
      <4> QED BY <4>2, <1>2, TotalPositive
    <3>2. 0 \in Q
      <4>1. order[0] = <<>> BY <1>2, <1>5
      <4>2. <<>> \in Seq(Projects) /\ Len(<<>>) = 0 /\ \A p : Turns(<<>>, p) = 0
        <5>1. \A p : {k \in DOMAIN <<>> : <<>>[k] = p} = {} OBVIOUS
        <5> QED BY <5>1, FS_EmptySet DEF Turns
      <4>3. Served(len, w, total, batch, list, order[0], 0) BY <4>1, <4>2 DEF Served
      <4> QED BY <4>3
    <3>3. ASSUME NEW k \in Nat, k \in Q PROVE k + 1 \in Q
      <4> SUFFICES ASSUME k + 1 <= n
                   PROVE  Served(len, w, total, batch, list, order[k + 1], k + 1)
        OBVIOUS
      <4>1. Served(len, w, total, batch, list, order[k], k) BY <1>2, <3>3
      <4>2. order[k + 1] = Block(len, w, total, batch, order[k], list[k + 1])
        <5>1. k + 1 \in 0 .. n /\ k + 1 # 0 /\ (k + 1) - 1 = k BY <1>2
        <5> QED BY <5>1, <1>5
      <4>3. list \in [1 .. n -> Projects] BY <1>1, <1>6
      <4> HIDE DEF total
      <4>4. Served(len, w, total, batch, list,
                   Block(len, w, total, batch, order[k], list[k + 1]), k + 1)
        BY <1>2, <1>7, <3>1, <4>1, <4>3, BlockServes
      <4> QED BY <4>2, <4>4
    <3> HIDE DEF Q
    <3>4. n \in Q BY <1>2, <3>2, <3>3, ByInduction
    <3> QED BY <3>4, <1>2 DEF Q
  <2> QED BY <2>1, <2>2
<1> DEFINE first == order[n]
<1>9. /\ first \in Seq(Projects) /\ Len(first) <= batch
      /\ \A p : (\A j \in 1 .. n : list[j] # p) => Turns(first, p) = 0
      /\ \A j \in 1 .. n :
           \E r \in Nat : Turns(first, list[j]) = Share(len[list[j]], w[list[j]], total, r)
      /\ \A i, j \in 1 .. n :
           i < j /\ w[list[i]] > w[list[j]] /\ len[list[i]] = len[list[j]]
           => Turns(first, list[i]) >= Turns(first, list[j])
  BY <1>8 DEF Served
<1> HIDE DEF first
<1>10. ASSUME NEW p \in S PROVE Turns(first, p) <= len[p]
  <2>1. PICK j \in 1 .. n : list[j] = p BY <1>6
  <2>2. PICK r \in Nat : Turns(first, p) = Share(len[p], w[p], total, r) BY <1>9, <2>1
  <2>3. total \in Nat \ {0} BY <1>1, <1>2, TotalPositive
  <2>4. len[p] \in Nat /\ w[p] \in Nat BY <1>1
  <2> HIDE DEF total
  <2>5. Share(len[p], w[p], total, r) <= len[p] BY <2>3, <2>4, ShareFits, Zenon
  <2> QED BY <2>2, <2>5
<1>11. ASSUME NEW p, p \notin S PROVE Turns(first, p) = 0 BY <1>6, <1>9, <1>11
<1>12. ASSUME NEW p \in S, NEW q \in S, p < q, w[p] > w[q], len[p] = len[q]
       PROVE  Turns(first, p) >= Turns(first, q)
  <2>1. PICK i \in 1 .. n : list[i] = p BY <1>6
  <2>2. PICK j \in 1 .. n : list[j] = q BY <1>6
  <2>3. i < j
    <3>1. i # j /\ ~ (j < i) BY <1>1, <1>6, <1>12, <2>1, <2>2
    <3> QED BY <3>1, <1>2
  <2> QED BY <2>1, <2>2, <2>3, <1>9, <1>12
<1> QED BY <1>3, <1>4, <1>9, <1>10, <1>11, <1>12 DEF first

-----------------------------------------------------------------------------
(* The leftover turns: which project is the least served.                  *)

LEMMA Cancel ==
  ASSUME NEW x \in Nat, NEW y \in Nat, NEW c \in Nat \ {0}
  PROVE  /\ c * x <= c * y => x <= y
         /\ c * x < c * y => x < y
<1>1. CASE x <= y
  <2>1. c * x < c * y => x # y OBVIOUS
  <2> QED BY <1>1, <2>1
<1>2. CASE y < x
  <2>1. c * x = c * y + c * (x - y) /\ c * (x - y) >= c BY <1>2
  <2> QED BY <1>2, <2>1
<1> QED BY <1>1, <1>2

\* Fractions, compared by cross multiplication, are ordered.
LEMMA FractionsOrdered ==
  ASSUME NEW a \in Nat, NEW b \in Nat, NEW c \in Nat,
         NEW k \in Nat \ {0}, NEW l \in Nat \ {0}, NEW m \in Nat \ {0},
         a * l <= b * k, b * m <= c * l
  PROVE  /\ a * m <= c * k
         /\ a * l < b * k \/ b * m < c * l => a * m < c * k
<1>1. a * l \in Nat /\ b * k \in Nat /\ b * m \in Nat /\ c * l \in Nat
      /\ a * m \in Nat /\ c * k \in Nat
  OBVIOUS
<1>2. /\ (a * l) * m = l * (a * m) /\ (c * l) * k = l * (c * k)
      /\ (b * k) * m = (b * m) * k
  OBVIOUS
<1>3. /\ m * (a * l) <= m * (b * k)
      /\ k * (b * m) <= k * (c * l)
  BY <1>1, ProductsGrow
<1>4. /\ a * l < b * k => m * (a * l) < m * (b * k)
      /\ b * m < c * l => k * (b * m) < k * (c * l)
  <2>1. a * l < b * k => ~ (m * (b * k) <= m * (a * l)) BY <1>1, Cancel
  <2>2. b * m < c * l => ~ (k * (c * l) <= k * (b * m)) BY <1>1, Cancel
  <2> QED BY <1>1, <2>1, <2>2
<1>5. /\ l * (a * m) <= l * (c * k)
      /\ a * l < b * k \/ b * m < c * l => l * (a * m) < l * (c * k)
  BY <1>1, <1>2, <1>3, <1>4
<1> QED BY <1>1, <1>5, Cancel

Open(len, order, S) == {p \in S : Turns(order, p) < len[p]}

\* p comes before q when the next of the leftover turns is given out.
NeedsMore(len, w, order, p, q) ==
  \/ Turns(order, p) * len[q] < Turns(order, q) * len[p]
  \/ /\ Turns(order, p) * len[q] = Turns(order, q) * len[p]
     /\ w[p] < w[q] \/ (w[p] = w[q] /\ p < q)

LEMMA LeastServedSound ==
  ASSUME NEW len \in [Projects -> Nat], NEW w \in [Projects -> Nat],
         NEW order \in Seq(Projects), NEW S \in SUBSET Projects, Open(len, order, S) # {}
  PROVE  LET x == LeastServed(len, w, order, S) IN
         x \in Open(len, order, S)
         /\ \A q \in Open(len, order, S) \ {x} : NeedsMore(len, w, order, x, q)
<1> DEFINE O == Open(len, order, S)
           R == {x \in O \X O : NeedsMore(len, w, order, x[1], x[2])}
<1>1. \A p \in O : /\ p \in Nat /\ p \in Projects /\ w[p] \in Nat /\ len[p] \in Nat \ {0}
                   /\ Turns(order, p) \in Nat
  <2> TAKE p \in O
  <2>1. p \in Projects /\ Turns(order, p) < len[p] BY DEF Open
  <2>2. Turns(order, p) \in Nat BY PlacesFinite
  <2> QED BY <2>1, <2>2, QueueAssumption
<1>2. IsFiniteSet(O)
  <2>1. O \in SUBSET Projects BY DEF Open
  <2> HIDE DEF O
  <2> QED BY <2>1, QueueAssumption, FS_Subset
<1>3. \A p, q \in O : <<p, q>> \in R <=> NeedsMore(len, w, order, p, q) OBVIOUS
<1> HIDE DEF O, R
<1> DEFINE cross(p, q) == Turns(order, p) * len[q]
           lighter(p, q) == w[p] < w[q] \/ (w[p] = w[q] /\ p < q)
<1>4. \A p, q \in O : cross(p, q) \in Nat BY <1>1
<1>n. \A p, q \in O : NeedsMore(len, w, order, p, q) <=>
        \/ cross(p, q) < cross(q, p)
        \/ cross(p, q) = cross(q, p) /\ lighter(p, q)
  BY DEF NeedsMore
<1>o. \A p, q, r \in O :
        cross(p, q) <= cross(q, p) /\ cross(q, r) <= cross(r, q) =>
          /\ cross(p, r) <= cross(r, p)
          /\ cross(p, q) < cross(q, p) \/ cross(q, r) < cross(r, q) => cross(p, r) < cross(r, p)
  <2> SUFFICES ASSUME NEW p \in O, NEW q \in O, NEW r \in O,
                      cross(p, q) <= cross(q, p), cross(q, r) <= cross(r, q)
               PROVE  /\ cross(p, r) <= cross(r, p)
                      /\ cross(p, q) < cross(q, p) \/ cross(q, r) < cross(r, q)
                           => cross(p, r) < cross(r, p)
    OBVIOUS
  <2>1. /\ Turns(order, p) \in Nat /\ Turns(order, q) \in Nat /\ Turns(order, r) \in Nat
        /\ len[p] \in Nat \ {0} /\ len[q] \in Nat \ {0} /\ len[r] \in Nat \ {0}
    BY <1>1
  <2> QED BY <2>1, FractionsOrdered
<1>l. /\ \A p \in O : ~ lighter(p, p)
      /\ \A p, q, r \in O : lighter(p, q) /\ lighter(q, r) => lighter(p, r)
      /\ \A p, q \in O : p = q \/ lighter(p, q) \/ lighter(q, p)
  BY <1>1
<1> HIDE DEF cross, lighter
<1>5. Orders(R, O)
  <2>1. \A p \in O : <<p, p>> \notin R
    <3>1. \A p \in O : ~ NeedsMore(len, w, order, p, p) BY <1>l, <1>n, <1>4
    <3> QED BY <3>1, <1>3
  <2>2. ASSUME NEW p \in O, NEW q \in O, NEW r \in O, <<p, q>> \in R, <<q, r>> \in R
        PROVE  <<p, r>> \in R
    <3>1. NeedsMore(len, w, order, p, q) /\ NeedsMore(len, w, order, q, r) BY <2>2, <1>3
    <3>2. cross(p, q) <= cross(q, p) /\ cross(q, r) <= cross(r, q)
      <4>1. /\ cross(p, q) < cross(q, p) \/ cross(p, q) = cross(q, p)
            /\ cross(q, r) < cross(r, q) \/ cross(q, r) = cross(r, q)
        BY <3>1, <1>n, Zenon
      <4> QED BY <4>1, <1>4
    <3>3. /\ cross(p, r) <= cross(r, p)
          /\ cross(p, q) < cross(q, p) \/ cross(q, r) < cross(r, q) => cross(p, r) < cross(r, p)
      BY <3>2, <1>o, Zenon
    <3>4. CASE cross(p, q) < cross(q, p) \/ cross(q, r) < cross(r, q)
      BY <3>3, <3>4, <1>3, <1>n
    <3>5. CASE cross(p, q) = cross(q, p) /\ cross(q, r) = cross(r, q)
      <4>1. lighter(p, q) /\ lighter(q, r) BY <3>1, <3>5, <1>4, <1>n
      <4>2. lighter(p, r) BY <4>1, <1>l
      <4>3. NeedsMore(len, w, order, p, r) BY <3>3, <4>2, <1>4, <1>n
      <4> QED BY <4>3, <1>3
    <3> QED BY <3>2, <3>4, <3>5, <1>4
  <2>3. ASSUME NEW p \in O, NEW q \in O, p # q PROVE <<p, q>> \in R \/ <<q, p>> \in R
    <3>1. NeedsMore(len, w, order, p, q) \/ NeedsMore(len, w, order, q, p)
      BY <2>3, <1>l, <1>4, <1>n
    <3> QED BY <3>1, <1>3
  <2> QED BY <2>1, <2>2, <2>3 DEF Orders
<1>6. PICK m : Least(m, R, O)
  <2>1. O # {} BY DEF O
  <2> QED BY <2>1, <1>2, <1>5, LeastExists
<1>7. m \in O /\ \A q \in O \ {m} : NeedsMore(len, w, order, m, q)
  BY <1>3, <1>6 DEF Least
<1>8. LeastServed(len, w, order, S)
        = CHOOSE p \in O : \A q \in O \ {p} : NeedsMore(len, w, order, p, q)
  BY DEF LeastServed, NeedsMore, O, Open
<1> QED BY <1>7, <1>8 DEF O
-----------------------------------------------------------------------------
(* The leftover turns, one after another.                                  *)

Turned(len, w, order, S) == Append(order, LeastServed(len, w, order, S))

\* f[k] is the order after k of the leftover turns.
Tails(f, n, first, len, w, S) ==
  f = [k \in 0 .. n |-> IF k = 0 THEN first ELSE Turned(len, w, f[k - 1], S)]

LEMMA TailsExist ==
  ASSUME NEW first, NEW len, NEW w, NEW S, NEW n \in Nat
  PROVE  \E f : Tails(f, n, first, len, w, S)
<1> DEFINE Q == {m \in Nat :
                   \E f : f = [k \in 0 .. m |-> IF k = 0 THEN first
                                                ELSE Turned(len, w, f[k - 1], S)]}
<1>1. 0 \in Q
  <2> DEFINE f == [k \in 0 .. 0 |-> first]
  <2>1. f = [k \in 0 .. 0 |-> IF k = 0 THEN first ELSE Turned(len, w, f[k - 1], S)] OBVIOUS
  <2> HIDE DEF f
  <2> QED BY <2>1
<1>2. ASSUME NEW m \in Nat, m \in Q PROVE m + 1 \in Q
  <2>1. PICK f : f = [k \in 0 .. m |-> IF k = 0 THEN first ELSE Turned(len, w, f[k - 1], S)]
    BY <1>2
  <2> DEFINE g == [k \in 0 .. m + 1 |-> IF k = m + 1 THEN Turned(len, w, f[m], S) ELSE f[k]]
  <2>2. \A k \in 0 .. m : g[k] = f[k] OBVIOUS
  <2>3. ASSUME NEW k \in 0 .. m + 1
        PROVE  g[k] = IF k = 0 THEN first ELSE Turned(len, w, g[k - 1], S)
    <3>1. CASE k = 0 BY <3>1, <2>1
    <3>2. CASE k \in 1 .. m
      <4>1. f[k] = Turned(len, w, f[k - 1], S) BY <3>2, <2>1
      <4>2. g[k] = f[k] /\ g[k - 1] = f[k - 1] BY <3>2
      <4> QED BY <3>2, <4>1, <4>2
    <3>3. CASE k = m + 1
      <4>1. g[k] = Turned(len, w, f[m], S) /\ g[k - 1] = f[m] BY <3>3
      <4> QED BY <3>3, <4>1
    <3> QED BY <3>1, <3>2, <3>3
  <2>4. g = [k \in 0 .. m + 1 |-> IF k = 0 THEN first ELSE Turned(len, w, g[k - 1], S)]
    BY <2>3
  <2> HIDE DEF g
  <2> QED BY <2>4
<1> HIDE DEF Q
<1>3. n \in Q BY <1>1, <1>2, ByInduction
<1> QED BY <1>3 DEF Q, Tails

\* What is not in S counts for nothing.
LEMMA TotalRestricted ==
  ASSUME NEW T, IsFiniteSet(T), NEW S \in SUBSET T, NEW f, NEW g,
         \A p \in S : f[p] = g[p] /\ g[p] \in Nat, \A p \in T \ S : f[p] = 0
  PROVE  Total(f, T) = Total(g, S)
<1>1. Pairs(f, T) = Pairs(g, S)
  <2>1. \A p \in T \ S : {p} \X (1 .. f[p]) = {} OBVIOUS
  <2>2. \A p \in S : {p} \X (1 .. f[p]) = {p} \X (1 .. g[p]) OBVIOUS
  <2>3. Pairs(f, T) \subseteq Pairs(g, S)
    <3> SUFFICES ASSUME NEW p \in T, NEW x \in {p} \X (1 .. f[p])
                 PROVE  x \in Pairs(g, S)
      BY Zenon DEF Pairs
    <3>1. p \in S BY <2>1
    <3>2. x \in {p} \X (1 .. g[p]) BY <2>2, <3>1
    <3> QED BY <3>1, <3>2 DEF Pairs
  <2>4. Pairs(g, S) \subseteq Pairs(f, T) BY <2>2 DEF Pairs
  <2> QED BY <2>3, <2>4
<1> QED BY <1>1 DEF Total, Pairs

\* An order of n turns that favours no project beyond its backlog, and of two with equal
\* backlogs the lighter one, if it is listed last, by one turn at most.
Fair(len, w, S, order, n) ==
  /\ order \in Seq(Projects) /\ Len(order) = n
  /\ \A p \in S : Turns(order, p) <= len[p]
  /\ \A p : p \notin S => Turns(order, p) = 0
  /\ \A p, q \in S : p < q /\ w[p] > w[q] /\ len[p] = len[q]
       => Turns(order, p) + 1 >= Turns(order, q)

\* A fair order has no more turns than there is work, and all of it if no project is open.
LEMMA FairTotal ==
  ASSUME NEW len \in [Projects -> Nat], NEW w, NEW S \in SUBSET Projects,
         NEW order, NEW n, Fair(len, w, S, order, n)
  PROVE  /\ n \in Nat /\ Total(len, S) \in Nat /\ n <= Total(len, S)
         /\ Open(len, order, S) = {} => n = Total(len, S)
<1> DEFINE f == [p \in Projects |-> Turns(order, p)]
<1>1. /\ order \in Seq(Projects) /\ Len(order) = n /\ n \in Nat
      /\ \A p \in S : Turns(order, p) <= len[p]
      /\ \A p : p \notin S => Turns(order, p) = 0
  BY LenProperties DEF Fair
<1>2. \A p : Turns(order, p) \in Nat BY <1>1, PlacesFinite
<1>3. IsFiniteSet(Projects) /\ IsFiniteSet(S) BY QueueAssumption, FS_Subset
<1>f. \A p \in Projects : f[p] = Turns(order, p) OBVIOUS
<1>g. \A p \in S : f[p] = Turns(order, p) /\ f[p] \in Nat /\ len[p] \in Nat /\ f[p] <= len[p]
  BY <1>1, <1>2
<1>z. \A p \in Projects \ S : f[p] = 0 BY <1>1
<1> HIDE DEF f
<1>4. n = Total(f, Projects) BY <1>1, <1>3, <1>f, TotalOfTurns
<1>5. Total(f, Projects) = Total(f, S)
  <2>1. \A p \in S : f[p] = f[p] /\ f[p] \in Nat BY <1>g
  <2> QED BY <2>1, <1>3, <1>z, TotalRestricted
<1>6. /\ Total(f, S) \in Nat /\ Total(len, S) \in Nat /\ Total(f, S) <= Total(len, S)
  BY <1>3, <1>g, TotalMonotone
<1>7. ASSUME Open(len, order, S) = {} PROVE Total(len, S) <= Total(f, S)
  <2>1. \A p \in S : len[p] \in Nat /\ f[p] \in Nat /\ len[p] <= f[p]
    BY <1>7, <1>g DEF Open
  <2> QED BY <2>1, <1>3, TotalMonotone
<1> QED BY <1>1, <1>4, <1>5, <1>6, <1>7

\* One of the leftover turns keeps the order fair.
LEMMA TurnStaysFair ==
  ASSUME NEW len \in [Projects -> Nat], NEW w \in [Projects -> Nat],
         NEW S \in SUBSET Projects, NEW order, NEW n,
         Fair(len, w, S, order, n), n < Total(len, S)
  PROVE  Fair(len, w, S, Turned(len, w, order, S), n + 1)
<1> DEFINE x == LeastServed(len, w, order, S)
           after == Turned(len, w, order, S)
<1>1. /\ order \in Seq(Projects) /\ Len(order) = n /\ n \in Nat
      /\ \A p \in S : Turns(order, p) <= len[p]
      /\ \A p : p \notin S => Turns(order, p) = 0
      /\ \A p, q \in S : p < q /\ w[p] > w[q] /\ len[p] = len[q]
           => Turns(order, p) + 1 >= Turns(order, q)
  BY LenProperties DEF Fair
<1>2. \A p : Turns(order, p) \in Nat BY <1>1, PlacesFinite
<1>3. /\ x \in Open(len, order, S)
      /\ \A q \in Open(len, order, S) \ {x} : NeedsMore(len, w, order, x, q)
  <2>1. Open(len, order, S) # {}
    <3>1. n \in Nat /\ (Open(len, order, S) = {} => n = Total(len, S)) BY FairTotal
    <3> QED BY <3>1
  <2> QED BY <1>1, <2>1, LeastServedSound
<1>4. x \in S /\ x \in Projects /\ Turns(order, x) < len[x] BY <1>3 DEF Open
<1>a. after = Append(order, x) BY DEF Turned
<1> HIDE DEF x, after
<1>5. /\ after \in Seq(Projects) /\ Len(after) = n + 1
      /\ \A p : Turns(after, p) = IF p = x THEN Turns(order, p) + 1 ELSE Turns(order, p)
  BY <1>1, <1>4, <1>a, TurnsOfAppend
<1>6. ASSUME NEW p \in S PROVE Turns(after, p) <= len[p]
  <2>1. p \in Projects /\ len[p] \in Nat OBVIOUS
  <2>2. Turns(order, p) \in Nat /\ Turns(order, p) <= len[p] BY <1>1, <1>2
  <2>3. CASE p = x
    <3>1. Turns(order, p) < len[p] /\ Turns(after, p) = Turns(order, p) + 1
      BY <2>3, <1>4, <1>5
    <3> QED BY <2>1, <2>2, <3>1
  <2>4. CASE p # x
    <3>1. Turns(after, p) = Turns(order, p) BY <2>4, <1>5
    <3> QED BY <2>2, <3>1
  <2> QED BY <2>3, <2>4
<1>7. \A p : p \notin S => Turns(after, p) = 0 BY <1>1, <1>4, <1>5
<1>8. ASSUME NEW p \in S, NEW q \in S, p < q, w[p] > w[q], len[p] = len[q]
      PROVE  Turns(after, p) + 1 >= Turns(after, q)
  <2>0. /\ p \in Nat /\ q \in Nat /\ p # q /\ len[p] \in Nat /\ len[q] \in Nat
        /\ Turns(order, p) \in Nat /\ Turns(order, q) \in Nat
    <3>1. p \in Nat /\ q \in Nat BY QueueAssumption
    <3> QED BY <3>1, <1>2, <1>8
  <2>1. Turns(order, p) + 1 >= Turns(order, q) BY <1>1, <1>8
  <2>2. CASE x # q
    <3>1. Turns(after, q) = Turns(order, q) /\ Turns(after, p) >= Turns(order, p)
      BY <1>5, <2>0, <2>2
    <3>2. Turns(after, p) \in Nat BY <1>5, <2>0
    <3> QED BY <2>0, <2>1, <3>1, <3>2
  <2>3. CASE x = q
    <3>1. Turns(after, q) = Turns(order, q) + 1 /\ Turns(after, p) = Turns(order, p)
      BY <1>5, <2>0, <2>3
    <3>2. Turns(order, q) <= Turns(order, p)
      <4>1. CASE p \notin Open(len, order, S)
        <5>1. ~ (Turns(order, p) < len[p]) BY <4>1 DEF Open
        <5>2. Turns(order, q) < len[q] BY <1>4, <2>3
        <5> QED BY <5>1, <5>2, <1>8, <2>0
      <4>2. CASE p \in Open(len, order, S)
        <5>1. NeedsMore(len, w, order, q, p) BY <4>2, <1>3, <2>0, <2>3
        <5>2. \/ Turns(order, q) * len[p] < Turns(order, p) * len[q]
              \/ Turns(order, q) * len[p] = Turns(order, p) * len[q]
          BY <5>1 DEF NeedsMore
        <5>3. len[p] \in Nat \ {0} BY <1>4, <1>8, <2>0, <2>3
        <5> DEFINE c == len[p]
                   s == Turns(order, q)
                   t == Turns(order, p)
        <5>4. s * c < t * c \/ s * c = t * c BY <5>2, <1>8
        <5>5. c \in Nat \ {0} /\ s \in Nat /\ t \in Nat BY <5>3, <2>0
        <5> HIDE DEF c, s, t
        <5>6. c * s <= c * t BY <5>4, <5>5
        <5>7. s <= t BY <5>5, <5>6, Cancel
        <5> QED BY <5>7 DEF s, t
      <4> QED BY <4>1, <4>2
    <3> QED BY <2>0, <3>1, <3>2
  <2> QED BY <2>2, <2>3
<1>9. Fair(len, w, S, after, n + 1) BY <1>5, <1>6, <1>7, <1>8 DEF Fair
<1> QED BY <1>9 DEF after

\* What the properties ask of an order of the batch.
FairOrder(len, w, batch, order) ==
  /\ order \in Seq(Projects)
  /\ Len(order) = Min({batch, Total([p \in Projects |-> IF w[p] > 0 THEN len[p] ELSE 0],
                                    Projects)})
  /\ \A p \in Projects : Turns(order, p) <= IF w[p] > 0 THEN len[p] ELSE 0
  /\ \A p, q \in Projects : p < q /\ w[p] > w[q] /\ len[p] = len[q]
       => Turns(order, p) + 1 >= Turns(order, q)

\* A fair order that uses what it can of the batch is what is asked.
LEMMA FairSuffices ==
  ASSUME NEW len \in [Projects -> Nat], NEW w \in [Projects -> Nat], NEW batch \in Nat,
         NEW S, S = Sharers(len, w),
         NEW order, Fair(len, w, S, order, Min({batch, Total(len, S)}))
  PROVE  FairOrder(len, w, batch, order)
<1> DEFINE wanted == [p \in Projects |-> IF w[p] > 0 THEN len[p] ELSE 0]
<1>1. /\ order \in Seq(Projects) /\ Len(order) = Min({batch, Total(len, S)})
      /\ \A p \in S : Turns(order, p) <= len[p]
      /\ \A p : p \notin S => Turns(order, p) = 0
      /\ \A p, q \in S : p < q /\ w[p] > w[q] /\ len[p] = len[q]
           => Turns(order, p) + 1 >= Turns(order, q)
  BY DEF Fair
<1>2. /\ S \in SUBSET Projects
      /\ \A p \in Projects : p \in S <=> w[p] > 0 /\ len[p] > 0
      /\ \A p \in Projects : len[p] \in Nat /\ w[p] \in Nat
  BY DEF Sharers
<1>3. /\ \A p \in S : wanted[p] = len[p] /\ len[p] \in Nat
      /\ \A p \in Projects \ S : wanted[p] = 0
  BY <1>2
<1>4. Total(wanted, Projects) = Total(len, S)
  <2>1. IsFiniteSet(Projects) /\ S \in SUBSET Projects BY <1>2, QueueAssumption
  <2>2. /\ \A p \in S : wanted[p] = len[p] /\ len[p] \in Nat
        /\ \A p \in Projects \ S : wanted[p] = 0
    BY <1>3
  <2> HIDE DEF wanted
  <2> QED BY <2>1, <2>2, TotalRestricted
<1>5. \A p : Turns(order, p) \in Nat BY <1>1, PlacesFinite
<1>6. ASSUME NEW p \in Projects PROVE Turns(order, p) <= IF w[p] > 0 THEN len[p] ELSE 0
  <2>1. CASE p \in S BY <2>1, <1>1, <1>2
  <2>2. CASE p \notin S
    <3>1. Turns(order, p) = 0 BY <2>2, <1>1
    <3> QED BY <3>1, <1>2
  <2> QED BY <2>1, <2>2
<1>7. ASSUME NEW p \in Projects, NEW q \in Projects, p < q, w[p] > w[q], len[p] = len[q]
      PROVE  Turns(order, p) + 1 >= Turns(order, q)
  <2>1. CASE q \in S
    <3>1. p \in S BY <2>1, <1>2, <1>7
    <3> QED BY <2>1, <3>1, <1>1, <1>7
  <2>2. CASE q \notin S
    <3>1. Turns(order, q) = 0 BY <2>2, <1>1
    <3> QED BY <3>1, <1>5
  <2> QED BY <2>1, <2>2
<1> QED BY <1>1, <1>4, <1>6, <1>7 DEF FairOrder

\* Projects of the default weight.
LEMMA UnweightedFair ==
  ASSUME NEW len \in [Projects -> Nat], NEW w \in [Projects -> Nat], NEW batch \in Nat,
         NEW S, S = Sharers(len, w), \A p \in S : w[p] = UnitWeight
  PROVE  Fair(len, w, S, Unweighted(len, S, batch), Min({batch, Total(len, S)}))
<1> DEFINE lens  == [p \in Projects |-> IF p \in S THEN len[p] ELSE 0]
           all   == RoundRobin(lens)
           order == Take(batch, all)
<1>1. /\ S \in SUBSET Projects
      /\ \A p \in Projects : len[p] \in Nat /\ w[p] \in Nat
  BY DEF Sharers
<1>2. /\ lens \in [Projects -> Nat] /\ \A p \in S : lens[p] = len[p] /\ len[p] \in Nat
      /\ \A p \in Projects \ S : lens[p] = 0
  BY <1>1
<1>o. Unweighted(len, S, batch) = order BY DEF Unweighted
<1> HIDE DEF lens
<1>3. all \in Seq(Projects) /\ \A p \in Projects : Turns(all, p) = lens[p]
  BY <1>2, RoundRobinSound
<1> HIDE DEF all
<1>4. Len(all) = Total(len, S)
  <2>1. \A p \in Projects : lens[p] = Turns(all, p) BY <1>3
  <2>2. Len(all) = Total(lens, Projects) BY <1>3, <2>1, QueueAssumption, TotalOfTurns
  <2>3. Total(lens, Projects) = Total(len, S)
    <3>1. IsFiniteSet(Projects) /\ S \in SUBSET Projects BY <1>1, QueueAssumption
    <3>2. /\ \A p \in S : lens[p] = len[p] /\ len[p] \in Nat
          /\ \A p \in Projects \ S : lens[p] = 0
      BY <1>2
    <3> QED BY <3>1, <3>2, TotalRestricted
  <2> QED BY <2>2, <2>3
<1>5. /\ order \in Seq(Projects)
      /\ Len(order) = IF batch <= Len(all) THEN batch ELSE Len(all)
      /\ \A i \in 1 .. Len(order) : order[i] = all[i]
  BY <1>3, TakeSound
<1>6. Len(order) = Min({batch, Total(len, S)})
  <2>1. Len(all) \in Nat BY <1>3, LenProperties
  <2> QED BY <2>1, <1>4, <1>5, MinOfTwo
<1>7. \A p : Turns(order, p) \in Nat /\ Turns(all, p) \in Nat /\ Turns(order, p) <= Turns(all, p)
  <2> TAKE p
  <2>1. /\ DOMAIN order = 1 .. Len(order) /\ DOMAIN all = 1 .. Len(all)
        /\ Len(order) \in Nat /\ Len(all) \in Nat /\ Len(order) <= Len(all)
    BY <1>3, <1>5, LenProperties
  <2> HIDE DEF order
  <2>2. Places(order, p) \in SUBSET Places(all, p) BY <1>5, <2>1 DEF Places
  <2>3. /\ Turns(order, p) = Cardinality(Places(order, p)) /\ Turns(order, p) \in Nat
    BY <1>5, PlacesFinite
  <2>4. /\ IsFiniteSet(Places(all, p)) /\ Turns(all, p) = Cardinality(Places(all, p))
        /\ Turns(all, p) \in Nat
    BY <1>3, PlacesFinite
  <2> QED BY <2>2, <2>3, <2>4, FS_Subset
<1> HIDE DEF order
<1>8. \A p \in S : Turns(order, p) <= len[p] BY <1>1, <1>2, <1>3, <1>7
<1>9. ASSUME NEW p, p \notin S PROVE Turns(order, p) = 0
  <2>1. CASE p \in Projects
    <3>1. Turns(all, p) = 0 BY <2>1, <1>2, <1>3, <1>9
    <3> QED BY <3>1, <1>7
  <2>2. CASE p \notin Projects
    <3>1. \A k \in DOMAIN order : order[k] \in Projects BY <1>5, ElementOfSeq, LenProperties
    <3>2. {k \in DOMAIN order : order[k] = p} = {} BY <3>1, <2>2
    <3> QED BY <3>2, FS_EmptySet DEF Turns
  <2> QED BY <2>1, <2>2
<1>10. \A p, q \in S : ~ (w[p] > w[q])
  <2>1. \A p \in S : w[p] = UnitWeight /\ w[p] \in Nat BY <1>1
  <2> QED BY <2>1
<1>11. Fair(len, w, S, order, Min({batch, Total(len, S)}))
  BY <1>5, <1>6, <1>8, <1>9, <1>10 DEF Fair
<1> QED BY <1>11, <1>o

\* The carousel is fair, whatever the backlogs and the weights.
THEOREM CarouselFair ==
  ASSUME NEW len \in [Projects -> Nat], NEW w \in [Projects -> Nat], NEW batch \in Nat
  PROVE  FairOrder(len, w, batch, Carousel(len, w, batch))
<1> DEFINE S     == Sharers(len, w)
           first == Sweep(len, w, batch, S)
           wanted == Min({batch, Total(len, S)})
           left  == wanted - Len(first)
           order == CHOOSE f : Tails(f, left, first, len, w, S)
<1>1. CASE \A p \in S : w[p] = UnitWeight
  <2>1. Carousel(len, w, batch) = Unweighted(len, S, batch) BY <1>1 DEF Carousel
  <2> HIDE DEF S
  <2>2. S = Sharers(len, w) BY DEF S
  <2>3. Fair(len, w, S, Unweighted(len, S, batch), wanted) BY <1>1, <2>2, UnweightedFair
  <2> QED BY <2>1, <2>2, <2>3, FairSuffices
<1>2. CASE ~ \A p \in S : w[p] = UnitWeight
  <2>1. Carousel(len, w, batch) = order[left] BY <1>2 DEF Carousel, Tails, Turned
  <2>s. S = Sharers(len, w) /\ S \in SUBSET Projects BY DEF Sharers
  <2> HIDE DEF S
  <2>2. /\ first \in Seq(Projects) /\ Len(first) <= batch
        /\ \A p \in S : Turns(first, p) <= len[p]
        /\ \A p : p \notin S => Turns(first, p) = 0
        /\ \A p, q \in S : p < q /\ w[p] > w[q] /\ len[p] = len[q]
             => Turns(first, p) >= Turns(first, q)
    BY <2>s, SweepSound
  <2> HIDE DEF first
  <2>3. Fair(len, w, S, first, Len(first))
    <3>1. \A p : Turns(first, p) \in Nat BY <2>2, PlacesFinite
    <3>2. \A p, q \in S : p < q /\ w[p] > w[q] /\ len[p] = len[q]
            => Turns(first, p) + 1 >= Turns(first, q)
      BY <2>2, <3>1
    <3> QED BY <2>2, <3>2 DEF Fair
  <2>4. /\ Len(first) \in Nat /\ Total(len, S) \in Nat /\ Len(first) <= Total(len, S)
    BY <2>s, <2>3, FairTotal
  <2>5. /\ wanted \in Nat /\ wanted <= Total(len, S) /\ left \in Nat
        /\ Len(first) + left = wanted
    <3>1. wanted = IF batch <= Total(len, S) THEN batch ELSE Total(len, S) BY <2>4, MinOfTwo
    <3> HIDE DEF wanted
    <3> QED BY <3>1, <2>2, <2>4
  <2> HIDE DEF wanted, left
  <2>6. Tails(order, left, first, len, w, S)
    <3>1. \E f : Tails(f, left, first, len, w, S) BY <2>5, TailsExist
    <3> QED BY <3>1
  <2> HIDE DEF order
  <2> DEFINE Q == {k \in Nat : k <= left => Fair(len, w, S, order[k], Len(first) + k)}
  <2>7. 0 \in Q
    <3>1. order[0] = first BY <2>5, <2>6 DEF Tails
    <3>2. Len(first) + 0 = Len(first) BY <2>4
    <3>3. Fair(len, w, S, order[0], Len(first) + 0) BY <3>1, <3>2, <2>3
    <3> QED BY <3>3
  <2>8. ASSUME NEW k \in Nat, k \in Q PROVE k + 1 \in Q
    <3> SUFFICES ASSUME k + 1 <= left
                 PROVE  Fair(len, w, S, order[k + 1], Len(first) + (k + 1))
      OBVIOUS
    <3>1. Fair(len, w, S, order[k], Len(first) + k) BY <2>5, <2>8
    <3>2. order[k + 1] = Turned(len, w, order[k], S)
      <4>1. k + 1 \in 0 .. left /\ k + 1 # 0 /\ (k + 1) - 1 = k BY <2>5
      <4> QED BY <4>1, <2>6 DEF Tails
    <3>3. /\ Len(first) + k < Total(len, S)
          /\ (Len(first) + k) + 1 = Len(first) + (k + 1)
      BY <2>4, <2>5
    <3>4. Fair(len, w, S, Turned(len, w, order[k], S), (Len(first) + k) + 1)
      BY <3>1, <3>3, <2>s, TurnStaysFair
    <3> QED BY <3>2, <3>3, <3>4
  <2> HIDE DEF Q
  <2>9. left \in Q BY <2>5, <2>7, <2>8, ByInduction
  <2>10. Fair(len, w, S, order[left], Len(first) + left) BY <2>9, <2>5 DEF Q
  <2>11. Fair(len, w, S, order[left], Min({batch, Total(len, S)}))
    BY <2>10, <2>5 DEF wanted
  <2>12. FairOrder(len, w, batch, order[left]) BY <2>s, <2>11, FairSuffices
  <2> QED BY <2>1, <2>12
<1> QED BY <1>1, <1>2

\* Whatever the backlogs, the weights and the batch, the weighted carousel uses what it can
\* of the batch, and no project has more turns than specs; the heavier of two with equal
\* backlogs, if it is listed first, has at most one turn less (weighted_carousel_bounded).
THEOREM CarouselAlwaysSound == QueueSpec => []CarouselSound
<1>1. CarouselSound
  <2> SUFFICES ASSUME NEW len \in [Projects -> 0 .. Batch + 1], NEW b \in 1 .. Batch + 2,
                      NEW w \in [Projects -> 0 .. 2 * UnitWeight]
               PROVE  LET order  == Carousel(len, w, b)
                          wanted == Total([p \in Projects |-> IF w[p] > 0 THEN len[p] ELSE 0],
                                          Projects)
                      IN  /\ Len(order) = Min({b, wanted})
                          /\ \A p \in Projects :
                               Turns(order, p) <= IF w[p] > 0 THEN len[p] ELSE 0
                          /\ \A p, q \in Projects :
                               p < q /\ w[p] > w[q] /\ len[p] = len[q]
                               => Turns(order, p) + 1 >= Turns(order, q)
    BY Zenon DEF CarouselSound
  <2>1. len \in [Projects -> Nat] /\ w \in [Projects -> Nat] /\ b \in Nat OBVIOUS
  <2>2. FairOrder(len, w, b, Carousel(len, w, b)) BY <2>1, CarouselFair
  <2> QED BY <2>2 DEF FairOrder
<1> QED BY <1>1, PTL

-----------------------------------------------------------------------------
(* Entries, their owners, and the orders of the commands.                  *)

LEMMA EntryParts ==
  ASSUME NEW e \in Entries
  PROVE  /\ Project(e) \in Projects /\ Name(e) \in SpecsOf[Project(e)] /\ Name(e) \in Nat
         /\ e = <<Project(e), Name(e)>> /\ e \in Of(Project(e))
<1>1. PICK p \in Projects : e \in {<<p, s>> : s \in SpecsOf[p]} BY DEF Entries
<1>2. PICK s \in SpecsOf[p] : e = <<p, s>> BY <1>1
<1>3. Project(e) = p /\ Name(e) = s BY <1>2 DEF Project, Name
<1>4. SpecsOf[p] \in SUBSET Nat BY QueueAssumption
<1> QED BY <1>2, <1>3, <1>4 DEF Of

LEMMA EntryMade == \A p \in Projects : \A s \in SpecsOf[p] : <<p, s>> \in Entries
  BY DEF Entries

LEMMA OfProject == \A p \in Projects : \A e \in Of(p) : e \in Entries /\ Project(e) = p
  BY DEF Of

\* The entry that the workspace daemon updates is the one it runs, or has the same name.
LEMMA OwnerSound ==
  ASSUME NEW e \in Entries, NEW cmd
  PROVE  /\ Owner(cmd, e) \in Entries
         /\ Owner(cmd, e) # e => cmd = "wsdaemon" /\ Shared(e) /\ Shared(Owner(cmd, e))
<1>1. CASE cmd # "wsdaemon" BY <1>1 DEF Owner
<1>2. CASE cmd = "wsdaemon"
  <2> DEFINE S == {p \in Projects : Name(e) \in SpecsOf[p]}
             p == CHOOSE p \in Projects :
                    /\ Name(e) \in SpecsOf[p]
                    /\ \A q \in Projects : Name(e) \in SpecsOf[q] => p <= q
             o == Owner(cmd, e)
  <2>1. S \in SUBSET Nat /\ S # {}
    <3>1. Project(e) \in S BY EntryParts
    <3> QED BY <3>1, QueueAssumption
  <2>2. \E m \in S : \A k \in S : m <= k
    <3> HIDE DEF S
    <3> QED BY <2>1, SmallestOf
  <2>3. p \in Projects /\ Name(e) \in SpecsOf[p] BY <2>2
  <2>4. o = <<p, Name(e)>> BY <1>2 DEF Owner
  <2> HIDE DEF p
  <2>5. o \in Entries BY <2>3, <2>4, EntryMade
  <2>6. Name(o) = Name(e) BY <2>4 DEF Name
  <2> HIDE DEF o
  <2>7. o # e => Shared(e) /\ Shared(o) BY <2>5, <2>6 DEF Shared
  <2> QED BY <1>2, <2>5, <2>7 DEF o
<1> QED BY <1>1, <1>2

LEMMA FirstOfSound ==
  ASSUME NEW S \in SUBSET Entries, S # {}
  PROVE  FirstOf(S) \in S
<1> DEFINE names == {Name(e) : e \in S}
<1>1. names \in SUBSET Nat /\ names # {} BY EntryParts
<1>2. PICK m \in names : \A k \in names : m <= k
  <2> HIDE DEF names
  <2> QED BY <1>1, SmallestOf
<1>3. PICK e \in S : Name(e) = m BY <1>2
<1>4. \A x \in S : Name(e) <= Name(x) BY <1>2, <1>3
<1> QED BY <1>3, <1>4 DEF FirstOf

\* An auto pass picks a spec of the project that is not Done.
LEMMA CandidatesSound ==
  ASSUME NEW p \in Projects, NEW e \in Candidates(p)
  PROVE  e \in Entries /\ file[e] # "Done"
<1>1. Of(p) \in SUBSET Entries BY DEF Of
<1>2. /\ Retryable(p) \in SUBSET Entries
      /\ \A x \in Retryable(p) : Merged[x] \in {"Running", "Failed"}
  BY <1>1 DEF Retryable, InState
<1>3. e \in Entries /\ Merged[e] \in {"Pending", "Running", "Failed"}
  <2>1. CASE Retryable(p) # {}
    <3>1. FirstOf(Retryable(p)) \in Retryable(p) BY <2>1, <1>2, FirstOfSound
    <3> QED BY <2>1, <3>1, <1>2 DEF Candidates
  <2>2. CASE Retryable(p) = {} BY <2>2, <1>1 DEF Candidates, InState
  <2> QED BY <2>1, <2>2
<1> QED BY <1>3 DEF Merged

\* list holds elements of S, none twice.
Distinct(list, S) ==
  list \in Seq(S) /\ \A j, k \in 1 .. Len(list) : list[j] = list[k] => j = k

LEMMA ListsDistinct ==
  ASSUME NEW S, NEW n, NEW key, NEW s, Lists(s, n, S, key), KeyOf(key, S)
  PROVE  Distinct(s, S) /\ Len(s) = n
<1>1. s \in Seq(S) /\ Len(s) = n /\ n \in Nat /\ \A i \in 1 .. n : s[i] \in S
  BY LenProperties, ElementOfSeq DEF Lists
<1>2. ASSUME NEW i \in 1 .. n, NEW j \in 1 .. n, i < j PROVE s[i] # s[j]
  <2>1. key[s[i]] < key[s[j]] BY <1>2 DEF Lists
  <2>2. key[s[i]] \in Nat BY <1>1 DEF KeyOf
  <2> QED BY <2>1, <2>2
<1>3. \A i, j \in 1 .. n : i < j \/ j < i \/ i = j BY <1>1
<1> QED BY <1>1, <1>2, <1>3 DEF Distinct

\* What is dealt out: as many entries of each list as it has turns, none twice.
LEMMA DealtSound ==
  ASSUME NEW order \in Seq(Projects), NEW lists,
         \A p \in Projects : Distinct(lists[p], Of(p)),
         \A p \in Projects : Turns(order, p) <= Len(lists[p])
  PROVE  /\ Distinct(Dealt(order, lists), Entries)
         /\ \A i \in DOMAIN Dealt(order, lists) :
              \E p \in Projects : \E k \in 1 .. Len(lists[p]) :
                Dealt(order, lists)[i] = lists[p][k]
<1> DEFINE n == Len(order)
           D == Dealt(order, lists)
<1>1. n \in Nat /\ DOMAIN order = 1 .. n /\ \A i \in 1 .. n : order[i] \in Projects
  BY LenProperties, ElementOfSeq
<1>2. D = [i \in 1 .. n |-> lists[order[i]][Nth(order, i)]] BY <1>1 DEF Dealt, Nth
<1>3. /\ \A i \in 1 .. n : Nth(order, i) \in 1 .. Turns(order, order[i])
      /\ \A i, j \in 1 .. n : i < j /\ order[i] = order[j] => Nth(order, i) < Nth(order, j)
  BY NthOrder
<1>4. ASSUME NEW i \in 1 .. n
      PROVE  /\ order[i] \in Projects /\ Nth(order, i) \in 1 .. Len(lists[order[i]])
             /\ D[i] = lists[order[i]][Nth(order, i)]
             /\ D[i] \in Of(order[i])
  <2>1. order[i] \in Projects BY <1>1
  <2>2. Turns(order, order[i]) \in Nat BY PlacesFinite
  <2>3. /\ lists[order[i]] \in Seq(Of(order[i])) /\ Len(lists[order[i]]) \in Nat
        /\ Turns(order, order[i]) <= Len(lists[order[i]])
    BY <2>1, LenProperties DEF Distinct
  <2>4. Nth(order, i) \in 1 .. Len(lists[order[i]])
    <3>1. Nth(order, i) \in 1 .. Turns(order, order[i]) BY <1>3
    <3> QED BY <2>2, <2>3, <3>1
  <2>5. D[i] = lists[order[i]][Nth(order, i)] BY <1>2
  <2>6. lists[order[i]][Nth(order, i)] \in Of(order[i]) BY <2>3, <2>4, ElementOfSeq
  <2> QED BY <2>1, <2>4, <2>5, <2>6
<1>d. DOMAIN D = 1 .. n BY <1>2
<1> HIDE DEF D
<1>5. D \in Seq(Entries) /\ Len(D) = n
  <2>1. \A i \in 1 .. n : D[i] \in Entries BY <1>4, OfProject
  <2>2. D = [i \in 1 .. n |-> D[i]] BY <1>2
  <2>3. D \in [1 .. n -> Entries] BY <2>1, <2>2
  <2> QED BY <1>1, <2>3
<1>6. ASSUME NEW i \in 1 .. n, NEW j \in 1 .. n, i < j, D[i] = D[j] PROVE FALSE
  <2>1. order[i] = order[j] BY <1>4, <1>6, OfProject
  <2>2. Nth(order, i) < Nth(order, j) BY <1>3, <1>6, <2>1
  <2>3. Nth(order, i) = Nth(order, j)
    <3>1. /\ Nth(order, i) \in 1 .. Len(lists[order[i]])
          /\ Nth(order, j) \in 1 .. Len(lists[order[i]])
          /\ lists[order[i]][Nth(order, i)] = lists[order[i]][Nth(order, j)]
      BY <1>4, <1>6, <2>1
    <3>2. Distinct(lists[order[i]], Of(order[i])) BY <1>4
    <3> QED BY <3>1, <3>2 DEF Distinct
  <2>4. Nth(order, i) \in Nat
    <3>1. Nth(order, i) \in 1 .. Len(lists[order[i]]) BY <1>4
    <3> QED BY <3>1
  <2> QED BY <2>2, <2>3, <2>4
<1>7. \A i, j \in 1 .. n : D[i] = D[j] => i = j
  <2>1. \A i, j \in 1 .. n : i < j \/ j < i \/ i = j BY <1>1
  <2> QED BY <1>6, <2>1
<1>8. Distinct(D, Entries) BY <1>5, <1>7 DEF Distinct
<1>9. \A i \in 1 .. n : \E p \in Projects : \E k \in 1 .. Len(lists[p]) : D[i] = lists[p][k]
  BY <1>4
<1> QED BY <1>8, <1>9, <1>d DEF D

\* A list for each project, of specs of its own.
ListsOf(lists) == \A p \in Projects : Distinct(lists[p], Of(p))

LEMMA LengthsSound ==
  ASSUME NEW lists, ListsOf(lists)
  PROVE  Lengths(lists) \in [Projects -> Nat]
         /\ \A p \in Projects : Lengths(lists)[p] = Len(lists[p])
<1>1. \A p \in Projects : Len(lists[p]) \in Nat BY LenProperties DEF ListsOf, Distinct
<1> QED BY <1>1 DEF Lengths

\* The two ways to take turns give no project more turns than it has specs.
LEMMA CarouselTurns ==
  ASSUME NEW lists, ListsOf(lists), weight \in [Projects -> Nat]
  PROVE  LET order == Carousel(Lengths(lists), weight, Batch) IN
         order \in Seq(Projects) /\ \A p \in Projects : Turns(order, p) <= Len(lists[p])
<1> DEFINE len   == Lengths(lists)
           order == Carousel(len, weight, Batch)
<1>1. len \in [Projects -> Nat] /\ \A p \in Projects : len[p] = Len(lists[p]) BY LengthsSound
<1>2. Batch \in Nat BY QueueAssumption
<1> HIDE DEF len
<1>3. FairOrder(len, weight, Batch, order) BY <1>1, <1>2, CarouselFair
<1> HIDE DEF order
<1>4. /\ order \in Seq(Projects)
      /\ \A p \in Projects : Turns(order, p) <= IF weight[p] > 0 THEN len[p] ELSE 0
  BY <1>3 DEF FairOrder
<1>5. \A p : Turns(order, p) \in Nat BY <1>4, PlacesFinite
<1>6. ASSUME NEW p \in Projects PROVE Turns(order, p) <= len[p]
  <2>1. len[p] \in Nat BY <1>1
  <2> QED BY <2>1, <1>4, <1>5
<1> QED BY <1>1, <1>4, <1>6 DEF order, len

LEMMA RoundRobinTurns ==
  ASSUME NEW lists, ListsOf(lists)
  PROVE  LET order == RoundRobin(Lengths(lists)) IN
         order \in Seq(Projects) /\ \A p \in Projects : Turns(order, p) <= Len(lists[p])
<1>1. /\ Lengths(lists) \in [Projects -> Nat]
      /\ \A p \in Projects : Lengths(lists)[p] = Len(lists[p])
  BY LengthsSound
<1>2. /\ RoundRobin(Lengths(lists)) \in Seq(Projects)
      /\ \A p \in Projects : Turns(RoundRobin(Lengths(lists)), p) = Lengths(lists)[p]
  BY <1>1, RoundRobinSound
<1> QED BY <1>1, <1>2

LEMMA PendingSound ==
  ASSUME NEW p \in Projects
  PROVE  /\ Distinct(PendingOf(p), Of(p))
         /\ \A k \in 1 .. Len(PendingOf(p)) : Merged[PendingOf(p)[k]] = "Pending"
<1> DEFINE S == InState(Of(p), Merged, {"Pending"})
<1>1. S \in SUBSET Of(p) /\ \A e \in S : Merged[e] = "Pending" BY DEF InState
<1>2. PendingOf(p) = ByPriority(S) BY DEF PendingOf
<1> HIDE DEF S
<1>3. /\ Lists(PendingOf(p), Cardinality(S), S, NameKey(S)) /\ KeyOf(NameKey(S), S)
  BY <1>1, <1>2, ByPrioritySound
<1>4. Distinct(PendingOf(p), S) BY <1>3, ListsDistinct
<1>5. /\ PendingOf(p) \in Seq(S) /\ PendingOf(p) \in Seq(Of(p))
      /\ \A k \in 1 .. Len(PendingOf(p)) : PendingOf(p)[k] \in S
  BY <1>1, <1>4, SeqMonotonic, ElementOfSeq DEF Distinct
<1> QED BY <1>1, <1>4, <1>5 DEF Distinct

LEMMA FoundSound ==
  ASSUME NEW p \in Projects
  PROVE  Distinct(ByPriority(Of(p)), Of(p))
<1> DEFINE S == Of(p)
<1>1. S \in SUBSET Of(p) OBVIOUS
<1> HIDE DEF S
<1>2. /\ Lists(ByPriority(S), Cardinality(S), S, NameKey(S)) /\ KeyOf(NameKey(S), S)
  BY <1>1, ByPrioritySound
<1>3. Distinct(ByPriority(S), S) BY <1>2, ListsDistinct
<1> QED BY <1>3 DEF S

\* What an order may hold: specs of the scope, none twice, all pending but for the
\* workspace run.
OrderOK(cmd, p, order) ==
  /\ Distinct(order, Entries)
  /\ \A k \in DOMAIN order : order[k] \in Scope(cmd, p)
  /\ cmd # "wsrun" => \A k \in DOMAIN order : Merged[order[k]] = "Pending"

LEMMA OrderSound ==
  ASSUME NEW cmd \in QueueCommands, NEW p \in Projects, weight \in [Projects -> Nat]
  PROVE  OrderOK(cmd, p, OrderOf(cmd, p))
<1> DEFINE one     == [q \in Projects |-> IF q = p THEN PendingOf(q) ELSE <<>>]
           pending == [q \in Projects |-> PendingOf(q)]
           found   == [q \in Projects |-> ByPriority(Of(q))]
           order   == OrderOf(cmd, p)
<1>e. \A q \in Projects : \A e \in Of(q) : e \in Entries BY OfProject
<1>d. \A q \in Projects :
        /\ Distinct(PendingOf(q), Of(q)) /\ DOMAIN PendingOf(q) = 1 .. Len(PendingOf(q))
        /\ \A k \in 1 .. Len(PendingOf(q)) : /\ Merged[PendingOf(q)[k]] = "Pending"
                                             /\ PendingOf(q)[k] \in Of(q)
  BY PendingSound, LenProperties, ElementOfSeq DEF Distinct
<1>1. CASE cmd = "run"
  <2>1. order = PendingOf(p) BY <1>1 DEF OrderOf
  <2>2. Of(p) \in SUBSET Entries BY <1>e
  <2>3. PendingOf(p) \in Seq(Entries)
    <3>1. PendingOf(p) \in Seq(Of(p)) BY <1>d DEF Distinct
    <3> QED BY <3>1, <2>2, SeqMonotonic
  <2>4. Distinct(order, Entries) BY <2>1, <2>3, <1>d DEF Distinct
  <2>5. Scope(cmd, p) = Of(p) BY <1>1 DEF Scope
  <2> QED BY <2>1, <2>4, <2>5, <1>d DEF OrderOK
<1>2. CASE cmd = "daemon"
  <2>1. order = Dealt(Carousel(Lengths(one), weight, Batch), one) BY <1>2 DEF OrderOf
  <2>2. \A q \in Projects : one[q] = IF q = p THEN PendingOf(q) ELSE <<>> OBVIOUS
  <2> HIDE DEF one
  <2>3. ListsOf(one)
    <3>1. \A q \in Projects : Distinct(<<>>, Of(q)) BY DEF Distinct
    <3> QED BY <2>2, <3>1, <1>d DEF ListsOf
  <2>4. /\ Carousel(Lengths(one), weight, Batch) \in Seq(Projects)
        /\ \A q \in Projects :
             Turns(Carousel(Lengths(one), weight, Batch), q) <= Len(one[q])
    BY <2>3, CarouselTurns
  <2>5. /\ Distinct(order, Entries)
        /\ \A i \in DOMAIN order :
             \E q \in Projects : \E k \in 1 .. Len(one[q]) : order[i] = one[q][k]
    <3> HIDE DEF order
    <3>1. \A q \in Projects : Distinct(one[q], Of(q)) BY <2>3 DEF ListsOf
    <3> QED BY <2>1, <2>4, <3>1, DealtSound
  <2> HIDE DEF order
  <2>6. ASSUME NEW i \in DOMAIN order PROVE order[i] \in Of(p) /\ Merged[order[i]] = "Pending"
    <3>1. PICK q \in Projects : \E k \in 1 .. Len(one[q]) : order[i] = one[q][k] BY <2>5
    <3>2. PICK k \in 1 .. Len(one[q]) : order[i] = one[q][k] BY <3>1
    <3>3. q = p
      <4>1. ASSUME one[q] = <<>> PROVE FALSE BY <3>2, <4>1
      <4> QED BY <4>1, <2>2
    <3>4. order[i] = PendingOf(p)[k] /\ k \in 1 .. Len(PendingOf(p)) BY <2>2, <3>2, <3>3
    <3> QED BY <3>4, <1>d
  <2>7. Scope(cmd, p) = Of(p) BY <1>2 DEF Scope
  <2>8. OrderOK(cmd, p, order) BY <2>5, <2>6, <2>7 DEF OrderOK
  <2> QED BY <2>8 DEF order
<1>3. CASE cmd = "wsrun"
  <2>1. order = Dealt(RoundRobin(Lengths(found)), found) BY <1>3 DEF OrderOf
  <2>2. \A q \in Projects : found[q] = ByPriority(Of(q)) OBVIOUS
  <2> HIDE DEF found
  <2>3. ListsOf(found) BY <2>2, FoundSound DEF ListsOf
  <2>4. /\ RoundRobin(Lengths(found)) \in Seq(Projects)
        /\ \A q \in Projects : Turns(RoundRobin(Lengths(found)), q) <= Len(found[q])
    BY <2>3, RoundRobinTurns
  <2>5. Distinct(order, Entries)
    <3> HIDE DEF order
    <3>1. \A q \in Projects : Distinct(found[q], Of(q)) BY <2>3 DEF ListsOf
    <3> QED BY <2>1, <2>4, <3>1, DealtSound
  <2> HIDE DEF order
  <2>6. Scope(cmd, p) = Entries BY <1>3 DEF Scope
  <2>7. \A k \in DOMAIN order : order[k] \in Entries
    BY <2>5, LenProperties, ElementOfSeq DEF Distinct
  <2>8. OrderOK(cmd, p, order) BY <1>3, <2>5, <2>6, <2>7 DEF OrderOK
  <2> QED BY <2>8 DEF order
<1>4. CASE cmd = "wsdaemon"
  <2>1. order = Dealt(Carousel(Lengths(pending), weight, Batch), pending) BY <1>4 DEF OrderOf
  <2>2. \A q \in Projects : pending[q] = PendingOf(q) OBVIOUS
  <2> HIDE DEF pending
  <2>3. ListsOf(pending) BY <2>2, <1>d DEF ListsOf
  <2>4. /\ Carousel(Lengths(pending), weight, Batch) \in Seq(Projects)
        /\ \A q \in Projects :
             Turns(Carousel(Lengths(pending), weight, Batch), q) <= Len(pending[q])
    BY <2>3, CarouselTurns
  <2>5. /\ Distinct(order, Entries)
        /\ \A i \in DOMAIN order :
             \E q \in Projects : \E k \in 1 .. Len(pending[q]) : order[i] = pending[q][k]
    <3> HIDE DEF order
    <3>1. \A q \in Projects : Distinct(pending[q], Of(q)) BY <2>3 DEF ListsOf
    <3> QED BY <2>1, <2>4, <3>1, DealtSound
  <2> HIDE DEF order
  <2>6. ASSUME NEW i \in DOMAIN order PROVE order[i] \in Entries /\ Merged[order[i]] = "Pending"
    <3>1. PICK q \in Projects : \E k \in 1 .. Len(pending[q]) : order[i] = pending[q][k]
      BY <2>5
    <3>2. PICK k \in 1 .. Len(PendingOf(q)) : order[i] = PendingOf(q)[k] BY <2>2, <3>1
    <3> QED BY <3>2, <1>d, <1>e
  <2>7. Scope(cmd, p) = Entries BY <1>4 DEF Scope
  <2>8. OrderOK(cmd, p, order) BY <2>5, <2>6, <2>7 DEF OrderOK
  <2> QED BY <2>8 DEF order
<1> QED BY <1>1, <1>2, <1>3, <1>4 DEF QueueCommands

-----------------------------------------------------------------------------
(* The queue: its inductive invariant.                                     *)

PassStates == [cmd  : QueueCommands \cup {"auto", "none"},
               at   : {"idle", "next", "child", "select"},
               stop : BOOLEAN, left : Seq(Entries), own : [Entries -> SpecStates],
               cur  : Entries \cup {NoSpec}, root : Projects \cup {0}]

QueueTypeOK ==
  /\ file \in [Entries -> SpecStates \cup {"Unknown"}]
  /\ weight \in [Projects -> Nat]
  /\ pass \in [Passes -> PassStates]
  /\ beaten \in [Passes -> SUBSET Projects]

\* What a command is doing where.
Stages(a) ==
  /\ a.at = "next"   => a.cmd \in QueueCommands
  /\ a.at = "child"  => a.cmd \in QueueCommands \cup {"auto"} /\ a.cur \in Entries
  /\ a.at = "select" => a.cmd = "auto" /\ a.root \in Projects
  /\ a.at = "idle"   => a.cmd = "none"

\* Nobody has written the file of an entry since the pass with record a, of which b are
\* beaten, read it.
Fresh(e, b) == Project(e) \notin b

\* An auto pass does not run a spec that is Done.
AutoPicks(a, b, f) ==
  a.cmd = "auto" /\ a.at = "child" => (Fresh(a.cur, b) => f[a.cur] # "Done")

\* The specs that a queue pass is about or has left are in the files it has read; its copy
\* of them knows each spec that is Done.
CopyKnows(a, b, f) ==
  \E p \in Projects :
    /\ \A k \in DOMAIN a.left : a.left[k] \in Scope(a.cmd, p)
    /\ a.at = "child" => a.cur \in Scope(a.cmd, p)
    /\ \A e \in Scope(a.cmd, p) : Fresh(e, b) /\ f[e] = "Done" => a.own[e] = "Done"

\* Of what is left no spec is there twice, and none is Done already or has its child
\* running, unless the pass takes the files of all specs or mixes up two of the same name.
LeftToDo(a) ==
  /\ \A j, k \in DOMAIN a.left : a.left[j] = a.left[k] => j = k
  /\ a.cmd # "wsrun" =>
       \A k \in DOMAIN a.left :
         a.own[a.left[k]] = "Done" \/ (a.at = "child" /\ a.cur = a.left[k])
           => a.cmd = "wsdaemon" /\ Shared(a.left[k])

CopyOK(a, b, f) ==
  a.cmd \in QueueCommands =>
    /\ CopyKnows(a, b, f) /\ LeftToDo(a)
    /\ a.at = "child" => a.own[a.cur] = "Running"
    /\ a.at = "next" /\ a.left = <<>> => a.cmd = "wsdaemon"

PassOK(a, b, f) == Stages(a) /\ AutoPicks(a, b, f) /\ CopyOK(a, b, f)

QueueIInv == QueueTypeOK /\ \A i \in Passes : PassOK(pass[i], beaten[i], file)

-----------------------------------------------------------------------------
(* Each step keeps the invariant.                                          *)

LEMMA IdleOK == /\ Idle \in PassStates
                /\ \A b, f : PassOK(Idle, b, f)
<1>1. Idle \in PassStates
  <2>1. <<>> \in Seq(Entries) /\ NoCopy \in [Entries -> SpecStates] BY DEF NoCopy, SpecStates
  <2> QED BY <2>1 DEF Idle, PassStates
<1>2. Idle.cmd = "none" /\ Idle.at = "idle" BY DEF Idle
<1>3. "none" \notin QueueCommands BY DEF QueueCommands
<1> QED BY <1>1, <1>2, <1>3 DEF PassOK, Stages, AutoPicks, CopyOK

LEMMA MergedType ==
  ASSUME QueueTypeOK
  PROVE  /\ Merged \in [Entries -> SpecStates]
         /\ \A e \in Entries : file[e] = "Done" => Merged[e] = "Done"
BY DEF QueueTypeOK, Merged, SpecStates

LEMMA ScopeEntries == \A cmd, p : Scope(cmd, p) \in SUBSET Entries
BY DEF Scope, Of

\* A write of the files of S beats a pass, and is nothing worse to it.
LEMMA BeatenKept ==
  ASSUME NEW a, NEW b, NEW f, NEW g, NEW S, PassOK(a, b, f),
         \A e \in Entries : Project(e) \notin S => g[e] = f[e]
  PROVE  PassOK(a, b \cup S, g)
<1>1. Stages(a) /\ AutoPicks(a, b, f) /\ CopyOK(a, b, f) BY DEF PassOK
<1>2. \A e \in Entries : Fresh(e, b \cup S) => Fresh(e, b) /\ g[e] = f[e] BY DEF Fresh
<1>3. AutoPicks(a, b \cup S, g)
  <2> SUFFICES ASSUME a.cmd = "auto", a.at = "child", Fresh(a.cur, b \cup S)
               PROVE  g[a.cur] # "Done"
    BY DEF AutoPicks
  <2>1. a.cur \in Entries BY <1>1 DEF Stages
  <2> QED BY <1>1, <1>2, <2>1 DEF AutoPicks
<1>4. CopyOK(a, b \cup S, g)
  <2> SUFFICES ASSUME a.cmd \in QueueCommands PROVE CopyKnows(a, b \cup S, g)
    BY <1>1 DEF CopyOK
  <2>1. CopyKnows(a, b, f) BY <1>1 DEF CopyOK
  <2>2. PICK p \in Projects :
          /\ \A k \in DOMAIN a.left : a.left[k] \in Scope(a.cmd, p)
          /\ a.at = "child" => a.cur \in Scope(a.cmd, p)
          /\ \A e \in Scope(a.cmd, p) : Fresh(e, b) /\ f[e] = "Done" => a.own[e] = "Done"
    BY <2>1 DEF CopyKnows
  <2>3. \A e \in Scope(a.cmd, p) :
          Fresh(e, b \cup S) /\ g[e] = "Done" => a.own[e] = "Done"
    BY <1>2, <2>2, ScopeEntries
  <2> QED BY <2>2, <2>3 DEF CopyKnows
<1> QED BY <1>1, <1>3, <1>4 DEF PassOK

\* A step of pass i, to the record a, that writes no file.
LEMMA StillKeeps ==
  ASSUME QueueIInv, NEW i \in Passes, NEW a \in PassStates, pass' = [pass EXCEPT ![i] = a],
         file' = file, weight' = weight,
         beaten' = beaten \/ beaten' = [beaten EXCEPT ![i] = {}],
         PassOK(a, beaten'[i], file)
  PROVE  QueueIInv'
<1>1. QueueTypeOK /\ \A j \in Passes : PassOK(pass[j], beaten[j], file) BY DEF QueueIInv
<1>2. beaten' \in [Passes -> SUBSET Projects] /\ \A j \in Passes \ {i} : beaten'[j] = beaten[j]
  BY <1>1 DEF QueueTypeOK
<1>3. pass' \in [Passes -> PassStates] /\ pass'[i] = a
      /\ \A j \in Passes \ {i} : pass'[j] = pass[j]
  BY <1>1 DEF QueueTypeOK
<1>4. QueueTypeOK' BY <1>1, <1>2, <1>3 DEF QueueTypeOK
<1>5. \A j \in Passes : PassOK(pass'[j], beaten'[j], file') BY <1>1, <1>2, <1>3
<1> QED BY <1>4, <1>5 DEF QueueIInv

\* A step of pass i, to the record a, that writes the files of S.
LEMMA WriteKeeps ==
  ASSUME QueueIInv, NEW i \in Passes, NEW a \in PassStates, pass' = [pass EXCEPT ![i] = a],
         NEW S \in SUBSET Projects, NEW st \in [Entries -> SpecStates],
         Write(i, S, st), weight' = weight,
         a = Idle \/ PassOK(a, beaten[i], file')
  PROVE  QueueIInv'
<1>1. QueueTypeOK /\ \A j \in Passes : PassOK(pass[j], beaten[j], file) BY DEF QueueIInv
<1>2. /\ file' = [e \in Entries |-> IF Project(e) \in S THEN st[e] ELSE file[e]]
      /\ beaten' = [j \in Passes |-> IF pass'[j] = Idle THEN {}
                                     ELSE IF j = i THEN beaten[j] ELSE beaten[j] \cup S]
  BY DEF Write
<1>3. pass' \in [Passes -> PassStates] /\ pass'[i] = a
      /\ \A j \in Passes \ {i} : pass'[j] = pass[j]
  BY <1>1 DEF QueueTypeOK
<1>4. QueueTypeOK'
  <2>1. file' \in [Entries -> SpecStates \cup {"Unknown"}] BY <1>1, <1>2 DEF QueueTypeOK
  <2>2. beaten' \in [Passes -> SUBSET Projects] BY <1>1, <1>2 DEF QueueTypeOK
  <2> QED BY <1>1, <1>3, <2>1, <2>2 DEF QueueTypeOK
<1>5. \A e \in Entries : Project(e) \notin S => file'[e] = file[e] BY <1>2
<1>6. ASSUME NEW j \in Passes PROVE PassOK(pass'[j], beaten'[j], file')
  <2>1. CASE pass'[j] = Idle BY <2>1, IdleOK
  <2>2. CASE pass'[j] # Idle /\ j = i
    <3>1. beaten'[j] = beaten[i] BY <1>2, <2>2
    <3>2. a # Idle BY <1>3, <2>2
    <3> QED BY <1>3, <2>2, <3>1, <3>2
  <2>3. CASE pass'[j] # Idle /\ j # i
    <3>1. beaten'[j] = beaten[j] \cup S BY <1>2, <2>3
    <3>2. pass'[j] = pass[j] BY <1>3, <2>3
    <3>3. PassOK(pass[j], beaten[j] \cup S, file') BY <1>1, <1>5, BeatenKept
    <3> QED BY <3>1, <3>2, <3>3
  <2> QED BY <2>1, <2>2, <2>3
<1> QED BY <1>4, <1>6 DEF QueueIInv

LEMMA QueueInitIInv == QueueInit => QueueIInv
<1> SUFFICES ASSUME QueueInit PROVE QueueIInv OBVIOUS
<1>1. QueueTypeOK
  <2>1. weight \in [Projects -> Nat] BY QueueAssumption DEF QueueInit
  <2>2. pass \in [Passes -> PassStates] BY IdleOK DEF QueueInit
  <2> QED BY <2>1, <2>2 DEF QueueInit, QueueTypeOK
<1>2. \A i \in Passes : pass[i] = Idle BY DEF QueueInit
<1> QED BY <1>1, <1>2, IdleOK DEF QueueIInv

LEMMA StartKeeps ==
  ASSUME QueueIInv, NEW i \in Passes, NEW cmd \in QueueCommands, NEW p \in Projects,
         StartQueue(i, cmd, p)
  PROVE  QueueIInv'
<1> DEFINE order == OrderOf(cmd, p)
           own   == [e \in Entries |-> IF e \in Scope(cmd, p) THEN Merged[e] ELSE "Pending"]
           a == [Idle EXCEPT !.cmd = cmd, !.at = "next",
                             !.stop = cmd # "daemon" /\ Len(order) > 1,
                             !.left = order, !.own = own]
<1>1. /\ cmd # "wsdaemon" => order # <<>>
      /\ pass' = [pass EXCEPT ![i] = a]
      /\ file' = file /\ weight' = weight /\ beaten' = beaten
  BY DEF StartQueue
<1>t. QueueTypeOK BY DEF QueueIInv
<1>2. OrderOK(cmd, p, order)
  <2>1. weight \in [Projects -> Nat] BY <1>t DEF QueueTypeOK
  <2> QED BY <2>1, OrderSound
<1> HIDE DEF order
<1>3. /\ order \in Seq(Entries) /\ DOMAIN order = 1 .. Len(order)
      /\ \A j, k \in DOMAIN order : order[j] = order[k] => j = k
      /\ \A k \in DOMAIN order : order[k] \in Scope(cmd, p)
      /\ cmd # "wsrun" => \A k \in DOMAIN order : Merged[order[k]] = "Pending"
  BY <1>2, LenProperties DEF OrderOK, Distinct
<1>4. /\ own \in [Entries -> SpecStates]
      /\ \A e \in Scope(cmd, p) : own[e] = Merged[e] /\ e \in Entries
      /\ \A e \in Entries : file[e] = "Done" => Merged[e] = "Done"
  <2>1. Merged \in [Entries -> SpecStates] /\ "Pending" \in SpecStates
        /\ \A e \in Entries : file[e] = "Done" => Merged[e] = "Done"
    BY <1>t, MergedType DEF SpecStates
  <2> QED BY <2>1, ScopeEntries
<1> HIDE DEF own
<1>5. /\ a \in PassStates /\ a.cmd = cmd /\ a.at = "next" /\ a.left = order /\ a.own = own
  <2>1. Idle \in PassStates BY IdleOK
  <2> QED BY <2>1, <1>3, <1>4 DEF PassStates, Idle
<1> HIDE DEF a
<1>6. cmd # "auto" /\ cmd # "none" BY DEF QueueCommands
<1>7. CopyKnows(a, beaten[i], file)
  <2>1. \A e \in Scope(cmd, p) : file[e] = "Done" => own[e] = "Done" BY <1>4
  <2> QED BY <2>1, <1>3, <1>5 DEF CopyKnows
<1>8. LeftToDo(a)
  <2>1. cmd # "wsrun" => \A k \in DOMAIN order : own[order[k]] # "Done"
    <3>1. \A k \in DOMAIN order : own[order[k]] = Merged[order[k]] BY <1>3, <1>4
    <3> QED BY <3>1, <1>3
  <2> QED BY <2>1, <1>3, <1>5 DEF LeftToDo
<1>9. PassOK(a, beaten[i], file)
  BY <1>1, <1>5, <1>6, <1>7, <1>8 DEF PassOK, Stages, AutoPicks, CopyOK
<1> QED BY <1>1, <1>5, <1>9, StillKeeps

\* A step of pass i takes back no spec that is Done, but for the reasons that DoneKept
\* names.
Spares(i) ==
  \A e \in Entries :
    file[e] = "Done" /\ file'[e] # "Done" =>
      \/ pass[i].cmd = "wsrun"
      \/ Project(e) \in beaten[i]
      \/ pass[i].cmd = "wsdaemon" /\ Shared(e)

\* What the invariant says of a queue pass.
LEMMA QueuePassFacts ==
  ASSUME QueueIInv, NEW i \in Passes, pass[i].cmd \in QueueCommands
  PROVE  /\ pass[i] \in PassStates
         /\ pass[i].left \in Seq(Entries) /\ Len(pass[i].left) \in Nat
         /\ DOMAIN pass[i].left = 1 .. Len(pass[i].left)
         /\ pass[i].own \in [Entries -> SpecStates]
         /\ Stages(pass[i]) /\ CopyKnows(pass[i], beaten[i], file) /\ LeftToDo(pass[i])
         /\ pass[i].at = "child" => pass[i].own[pass[i].cur] = "Running"
         /\ pass[i].at = "next" /\ pass[i].left = <<>> => pass[i].cmd = "wsdaemon"
<1>1. pass[i] \in PassStates /\ PassOK(pass[i], beaten[i], file)
  BY DEF QueueIInv, QueueTypeOK
<1>2. pass[i].left \in Seq(Entries) /\ pass[i].own \in [Entries -> SpecStates]
  BY <1>1 DEF PassStates
<1>3. Stages(pass[i]) /\ CopyOK(pass[i], beaten[i], file) BY <1>1 DEF PassOK
<1> QED BY <1>1, <1>2, <1>3, LenProperties DEF CopyOK

LEMMA RunNextKeeps ==
  ASSUME QueueIInv, NEW i \in Passes, RunNext(i)
  PROVE  QueueIInv' /\ Spares(i)
<1> DEFINE b == pass[i]
           h == Head(b.left)
           e == Owner(b.cmd, h)
           own == [b.own EXCEPT ![e] = "Running"]
           a == [b EXCEPT !.at = "child", !.cur = e, !.left = Tail(@), !.own = own]
<1>1. /\ b.at = "next" /\ b.left # <<>> /\ weight' = weight
      /\ pass' = [pass EXCEPT ![i].at = "child", ![i].cur = e, ![i].left = Tail(@),
                              ![i].own[e] = "Running"]
      /\ Write(i, {Project(e)}, pass'[i].own)
  BY DEF RunNext
<1>2. b \in PassStates /\ Stages(b) BY DEF QueueIInv, QueueTypeOK, PassOK
<1>3. b.cmd \in QueueCommands BY <1>1, <1>2 DEF Stages
<1>4. /\ b.left \in Seq(Entries) /\ Len(b.left) \in Nat /\ DOMAIN b.left = 1 .. Len(b.left)
      /\ b.own \in [Entries -> SpecStates]
      /\ CopyKnows(b, beaten[i], file) /\ LeftToDo(b)
  BY <1>3, QueuePassFacts
<1>p. pass' = [pass EXCEPT ![i] = a]
  <2>1. pass \in [Passes -> PassStates] BY DEF QueueIInv, QueueTypeOK
  <2> HIDE DEF e
  <2> QED BY <1>1, <2>1 DEF PassStates
<1>5. Len(b.left) > 0 /\ h = b.left[1] /\ h \in Entries BY <1>1, <1>4
<1>6. /\ e \in Entries
      /\ e # h => b.cmd = "wsdaemon" /\ Shared(h) /\ Shared(e)
  BY <1>5, OwnerSound
<1> HIDE DEF h, e
<1>7. /\ own \in [Entries -> SpecStates] /\ own[e] = "Running"
      /\ \A x \in Entries \ {e} : own[x] = b.own[x]
  BY <1>4, <1>6 DEF SpecStates
<1> HIDE DEF own
<1>l. /\ Tail(b.left) \in Seq(Entries) /\ DOMAIN Tail(b.left) = 1 .. Len(b.left) - 1
      /\ \A k \in 1 .. Len(b.left) - 1 : Tail(b.left)[k] = b.left[k + 1]
                                         /\ k + 1 \in DOMAIN b.left
  BY <1>4, <1>5
<1>8. /\ a \in PassStates /\ a.cmd = b.cmd /\ a.at = "child" /\ a.cur = e
      /\ a.left = Tail(b.left) /\ a.own = own
  BY <1>2, <1>6, <1>7, <1>l DEF PassStates
<1> HIDE DEF a
<1>w. Write(i, {Project(e)}, own)
  <2>1. pass'[i] = a BY <1>p DEF QueueIInv, QueueTypeOK
  <2> QED BY <1>1, <1>8, <2>1
<1>f. \A x \in Entries : file'[x] = IF Project(x) = Project(e) THEN own[x] ELSE file[x]
  BY <1>w DEF Write
<1>9. PICK p \in Projects :
        /\ \A k \in DOMAIN b.left : b.left[k] \in Scope(b.cmd, p)
        /\ \A x \in Scope(b.cmd, p) :
             Fresh(x, beaten[i]) /\ file[x] = "Done" => b.own[x] = "Done"
  BY <1>4 DEF CopyKnows
<1>10. \A k \in DOMAIN b.left : b.left[k] \in Entries BY <1>4, ElementOfSeq
<1>11. e \in Scope(b.cmd, p)
  <2>1. CASE e = h BY <2>1, <1>4, <1>5, <1>9
  <2>2. CASE e # h
    <3>1. Scope(b.cmd, p) = Entries BY <2>2, <1>6 DEF Scope
    <3> QED BY <3>1, <1>6
  <2> QED BY <2>1, <2>2
<1>12. CopyKnows(a, beaten[i], file')
  <2>1. \A k \in DOMAIN a.left : a.left[k] \in Scope(a.cmd, p) BY <1>l, <1>8, <1>9
  <2>2. ASSUME NEW x \in Scope(b.cmd, p), Fresh(x, beaten[i]), file'[x] = "Done"
        PROVE  own[x] = "Done"
    <3>1. x \in Entries BY ScopeEntries
    <3>2. CASE Project(x) = Project(e) BY <3>1, <3>2, <2>2, <1>f
    <3>3. CASE Project(x) # Project(e)
      <4>1. file[x] = "Done" /\ x # e BY <3>1, <3>3, <2>2, <1>f
      <4>2. b.own[x] = "Done" BY <4>1, <2>2, <1>9
      <4> QED BY <4>1, <4>2, <3>1, <1>7
    <3> QED BY <3>2, <3>3
  <2> QED BY <2>1, <2>2, <1>8, <1>11 DEF CopyKnows
<1>13. LeftToDo(a)
  <2>1. /\ \A j, k \in DOMAIN b.left : b.left[j] = b.left[k] => j = k
        /\ b.cmd # "wsrun" =>
             \A k \in DOMAIN b.left :
               b.own[b.left[k]] = "Done" => b.cmd = "wsdaemon" /\ Shared(b.left[k])
    BY <1>4 DEF LeftToDo
  <2>2. ASSUME NEW j \in 1 .. Len(b.left) - 1, NEW k \in 1 .. Len(b.left) - 1,
               Tail(b.left)[j] = Tail(b.left)[k]
        PROVE  j = k
    <3>1. j + 1 = k + 1 BY <1>l, <2>1, <2>2
    <3> QED BY <3>1, <1>4
  <2>3. ASSUME b.cmd # "wsrun", NEW k \in 1 .. Len(b.left) - 1,
               own[Tail(b.left)[k]] = "Done" \/ e = Tail(b.left)[k]
        PROVE  b.cmd = "wsdaemon" /\ Shared(Tail(b.left)[k])
    <3>1. /\ Tail(b.left)[k] = b.left[k + 1] /\ k + 1 \in DOMAIN b.left
          /\ b.left[k + 1] \in Entries
      BY <1>l, <1>10
    <3>2. CASE e = b.left[k + 1]
      <4>1. e # h
        <5> SUFFICES ASSUME e = h PROVE FALSE OBVIOUS
        <5>1. b.left[1] = b.left[k + 1] BY <3>2, <1>5
        <5>2. 1 \in DOMAIN b.left BY <1>4, <1>5
        <5>3. 1 = k + 1 BY <5>1, <5>2, <3>1, <2>1
        <5> QED BY <5>3
      <4> QED BY <4>1, <3>1, <3>2, <1>6
    <3>3. CASE e # b.left[k + 1]
      <4>1. own[b.left[k + 1]] = "Done" BY <3>1, <3>3, <2>3
      <4>2. b.own[b.left[k + 1]] = "Done" BY <4>1, <3>1, <3>3, <1>7
      <4> QED BY <4>2, <3>1, <2>1, <2>3
    <3> QED BY <3>2, <3>3
  <2> QED BY <2>2, <2>3, <1>l, <1>8 DEF LeftToDo
<1>14. PassOK(a, beaten[i], file')
  <2>1. "auto" \notin QueueCommands BY DEF QueueCommands
  <2> QED BY <2>1, <1>3, <1>6, <1>7, <1>8, <1>12, <1>13 DEF PassOK, Stages, AutoPicks, CopyOK
<1>15. QueueIInv'
  <2>1. {Project(e)} \in SUBSET Projects BY <1>6, EntryParts
  <2> QED BY <2>1, <1>1, <1>7, <1>8, <1>p, <1>w, <1>14, WriteKeeps
<1>16. ASSUME NEW x \in Entries, file[x] = "Done", file'[x] # "Done",
              b.cmd # "wsrun", Fresh(x, beaten[i])
       PROVE  b.cmd = "wsdaemon" /\ Shared(x)
  <2>1. Project(x) = Project(e) /\ own[x] # "Done" BY <1>16, <1>f
  <2>2. x \in Scope(b.cmd, p)
    <3>1. CASE Scope(b.cmd, p) = Entries BY <3>1
    <3>2. CASE Scope(b.cmd, p) = Of(p)
      <4>1. Project(e) = p BY <3>2, <1>11, OfProject
      <4> QED BY <4>1, <2>1, <3>2 DEF Of
    <3> QED BY <3>1, <3>2 DEF Scope
  <2>3. b.own[x] = "Done" BY <2>2, <1>9, <1>16
  <2>4. x = e BY <2>1, <2>3, <1>7
  <2>5. CASE e = h
    <3>1. 1 \in DOMAIN b.left /\ b.left[1] = x BY <2>4, <2>5, <1>4, <1>5
    <3>2. b.own[b.left[1]] = "Done" BY <2>3, <3>1
    <3>3. b.cmd = "wsdaemon" /\ Shared(b.left[1]) BY <3>1, <3>2, <1>4, <1>16 DEF LeftToDo
    <3> QED BY <3>1, <3>3
  <2>6. CASE e # h BY <2>4, <2>6, <1>6
  <2> QED BY <2>5, <2>6
<1>17. Spares(i) BY <1>16 DEF Spares, Fresh
<1> QED BY <1>15, <1>17

LEMMA ChildExitsKeeps ==
  ASSUME QueueIInv, NEW i \in Passes, NEW how \in Endings, ChildExits(i, how)
  PROVE  QueueIInv' /\ Spares(i)
<1> DEFINE b  == pass[i]
           e  == b.cur
           ok == how = "ok"
           st == [b.own EXCEPT ![e] = IF ok THEN "Done" ELSE "Failed"]
           after(left) == [b EXCEPT !.at = "next", !.cur = NoSpec, !.left = left,
                                    !.stop = @ /\ ok, !.own = st]
<1>1. /\ b.at = "child" /\ b.cmd # "auto"
      /\ Write(i, {Project(e)}, st) /\ weight' = weight
      /\ \E left \in {<<>>, b.left} :
           IF left = <<>> /\ b.cmd # "wsdaemon" THEN pass' = [pass EXCEPT ![i] = Idle]
           ELSE pass' = [pass EXCEPT ![i].at = "next", ![i].cur = NoSpec, ![i].left = left,
                                     ![i].stop = @ /\ ok, ![i].own = st]
  BY DEF ChildExits, End
<1>2. b \in PassStates /\ Stages(b) BY DEF QueueIInv, QueueTypeOK, PassOK
<1>3. b.cmd \in QueueCommands /\ e \in Entries BY <1>1, <1>2 DEF Stages
<1>4. /\ b.left \in Seq(Entries) /\ Len(b.left) \in Nat /\ DOMAIN b.left = 1 .. Len(b.left)
      /\ b.own \in [Entries -> SpecStates]
      /\ CopyKnows(b, beaten[i], file) /\ LeftToDo(b)
      /\ b.own[e] = "Running"
  BY <1>1, <1>3, QueuePassFacts
<1>5. \E left \in {<<>>, b.left} :
        IF left = <<>> /\ b.cmd # "wsdaemon" THEN pass' = [pass EXCEPT ![i] = Idle]
        ELSE pass' = [pass EXCEPT ![i] = after(left)]
  <2>1. pass \in [Passes -> PassStates] BY DEF QueueIInv, QueueTypeOK
  <2>2. ASSUME NEW left
        PROVE  [pass EXCEPT ![i].at = "next", ![i].cur = NoSpec, ![i].left = left,
                            ![i].stop = @ /\ ok, ![i].own = st]
                 = [pass EXCEPT ![i] = after(left)]
    <3> HIDE DEF st, ok
    <3> QED BY <2>1 DEF PassStates
  <2> HIDE DEF st, ok, after
  <2> QED BY <1>1, <2>2
<1>6. /\ st \in [Entries -> SpecStates]
      /\ \A x \in Entries \ {e} : st[x] = b.own[x]
  BY <1>3, <1>4 DEF SpecStates
<1>ok. ok \in BOOLEAN OBVIOUS
<1>7. ASSUME NEW left \in {<<>>, b.left}
      PROVE  /\ after(left) \in PassStates /\ after(left).cmd = b.cmd
             /\ after(left).at = "next" /\ after(left).left = left /\ after(left).own = st
  <2>1. left \in Seq(Entries)
    <3>1. <<>> \in Seq(Entries) /\ b.left \in Seq(Entries) BY <1>4
    <3> QED BY <3>1
  <2>2. (b.stop /\ ok) \in BOOLEAN OBVIOUS
  <2> HIDE DEF st, ok
  <2> QED BY <1>2, <1>6, <2>1, <2>2 DEF PassStates
<1> HIDE DEF e, ok, st, after
<1>f. \A x \in Entries : file'[x] = IF Project(x) = Project(e) THEN st[x] ELSE file[x]
  BY <1>1 DEF Write
<1>9. PICK p \in Projects :
        /\ \A k \in DOMAIN b.left : b.left[k] \in Scope(b.cmd, p)
        /\ e \in Scope(b.cmd, p)
        /\ \A x \in Scope(b.cmd, p) :
             Fresh(x, beaten[i]) /\ file[x] = "Done" => b.own[x] = "Done"
  BY <1>1, <1>4 DEF CopyKnows, e
<1>12. ASSUME NEW left \in {<<>>, b.left} PROVE CopyKnows(after(left), beaten[i], file')
  <2>1. \A k \in DOMAIN left : left[k] \in Scope(b.cmd, p)
    <3>1. CASE left = <<>> BY <3>1
    <3>2. CASE left = b.left BY <3>2, <1>9
    <3> QED BY <3>1, <3>2
  <2>2. ASSUME NEW x \in Scope(b.cmd, p), Fresh(x, beaten[i]), file'[x] = "Done"
        PROVE  st[x] = "Done"
    <3>1. x \in Entries BY ScopeEntries
    <3>2. CASE Project(x) = Project(e) BY <3>1, <3>2, <2>2, <1>f
    <3>3. CASE Project(x) # Project(e)
      <4>1. file[x] = "Done" /\ x # e BY <3>1, <3>3, <2>2, <1>f
      <4>2. b.own[x] = "Done" BY <4>1, <2>2, <1>9
      <4> QED BY <4>1, <4>2, <3>1, <1>6
    <3> QED BY <3>2, <3>3
  <2> QED BY <2>1, <2>2, <1>7 DEF CopyKnows
<1>13. ASSUME NEW left \in {<<>>, b.left} PROVE LeftToDo(after(left))
  <2>1. CASE left = <<>>
    <3>1. DOMAIN left = {} BY <2>1
    <3> QED BY <3>1, <1>7 DEF LeftToDo
  <2>2. CASE left = b.left
    <3>1. /\ \A j, k \in DOMAIN b.left : b.left[j] = b.left[k] => j = k
          /\ b.cmd # "wsrun" =>
               \A k \in DOMAIN b.left :
                 b.own[b.left[k]] = "Done" \/ e = b.left[k]
                   => b.cmd = "wsdaemon" /\ Shared(b.left[k])
      BY <1>1, <1>4 DEF LeftToDo, e
    <3>2. ASSUME NEW k \in DOMAIN b.left, st[b.left[k]] = "Done"
          PROVE  b.own[b.left[k]] = "Done" \/ e = b.left[k]
      <4>1. b.left[k] \in Entries BY <1>4, ElementOfSeq
      <4> QED BY <4>1, <3>2, <1>6
    <3> QED BY <2>2, <3>1, <3>2, <1>7 DEF LeftToDo
  <2> QED BY <2>1, <2>2
<1>14. ASSUME NEW left \in {<<>>, b.left}, ~ (left = <<>> /\ b.cmd # "wsdaemon")
       PROVE  PassOK(after(left), beaten[i], file')
  <2>1. "auto" \notin QueueCommands BY DEF QueueCommands
  <2>2. b.cmd # "auto" BY <1>1
  <2> QED
    BY <2>1, <2>2, <1>3, <1>7, <1>12, <1>13, <1>14 DEF PassOK, Stages, AutoPicks, CopyOK
<1>15. QueueIInv'
  <2>1. {Project(e)} \in SUBSET Projects BY <1>3, EntryParts DEF e
  <2>2. PICK left \in {<<>>, b.left} :
          IF left = <<>> /\ b.cmd # "wsdaemon" THEN pass' = [pass EXCEPT ![i] = Idle]
          ELSE pass' = [pass EXCEPT ![i] = after(left)]
    BY <1>5
  <2>3. CASE left = <<>> /\ b.cmd # "wsdaemon"
    <3>1. pass' = [pass EXCEPT ![i] = Idle] BY <2>2, <2>3
    <3> QED BY <2>1, <3>1, <1>1, <1>6, IdleOK, WriteKeeps
  <2>4. CASE ~ (left = <<>> /\ b.cmd # "wsdaemon")
    <3>1. pass' = [pass EXCEPT ![i] = after(left)] BY <2>2, <2>4
    <3>2. after(left) \in PassStates /\ PassOK(after(left), beaten[i], file')
      BY <2>4, <1>7, <1>14
    <3> QED BY <2>1, <3>1, <3>2, <1>1, <1>6, WriteKeeps
  <2> QED BY <2>3, <2>4
<1>16. ASSUME NEW x \in Entries, file[x] = "Done", file'[x] # "Done", Fresh(x, beaten[i])
       PROVE  FALSE
  <2>1. Project(x) = Project(e) /\ st[x] # "Done" BY <1>16, <1>f
  <2>2. x \in Scope(b.cmd, p)
    <3>1. CASE Scope(b.cmd, p) = Entries BY <3>1
    <3>2. CASE Scope(b.cmd, p) = Of(p)
      <4>1. Project(e) = p BY <3>2, <1>9, OfProject
      <4> QED BY <4>1, <2>1, <3>2 DEF Of
    <3> QED BY <3>1, <3>2 DEF Scope
  <2>3. b.own[x] = "Done" BY <2>2, <1>9, <1>16
  <2>4. x = e BY <2>1, <2>3, <1>6
  <2> QED BY <2>3, <2>4, <1>4
<1>17. Spares(i) BY <1>16 DEF Spares, Fresh
<1> QED BY <1>15, <1>17

LEMMA FinishKeeps ==
  ASSUME QueueIInv, NEW i \in Passes, Finish(i)
  PROVE  QueueIInv' /\ Spares(i)
<1> DEFINE b == pass[i]
<1>1. /\ b.at = "next" /\ b.left = <<>> /\ weight' = weight
      /\ pass' = [pass EXCEPT ![i] = Idle] /\ Write(i, Projects, b.own)
  BY DEF Finish, End
<1>2. Stages(b) BY DEF QueueIInv, PassOK
<1>3. b.cmd \in QueueCommands BY <1>1, <1>2 DEF Stages
<1>4. /\ b.own \in [Entries -> SpecStates] /\ CopyKnows(b, beaten[i], file)
      /\ b.cmd = "wsdaemon"
  BY <1>1, <1>3, QueuePassFacts
<1>5. QueueIInv'
  <2>1. Projects \in SUBSET Projects OBVIOUS
  <2> QED BY <2>1, <1>1, <1>4, IdleOK, WriteKeeps
<1>6. Scope(b.cmd, 0) = Entries /\ \A p : Scope(b.cmd, p) = Entries BY <1>4 DEF Scope
<1>7. \A x \in Entries : Fresh(x, beaten[i]) /\ file[x] = "Done" => b.own[x] = "Done"
  BY <1>4, <1>6 DEF CopyKnows
<1>8. \A x \in Entries : file'[x] = b.own[x] BY <1>1, EntryParts DEF Write
<1>9. Spares(i) BY <1>7, <1>8 DEF Spares, Fresh
<1> QED BY <1>5, <1>9

LEMMA RequeueKeeps ==
  ASSUME QueueIInv, NEW i \in Passes, NEW p \in Projects, NEW states, Requeue(i, p, states)
  PROVE  QueueIInv' /\ pass' = pass
<1> DEFINE st == [e \in Entries |-> IF Merged[e] \in states THEN "Pending" ELSE Merged[e]]
<1>1. /\ pass[i] = Idle /\ weight' = weight /\ pass' = pass /\ Write(i, {p}, st)
  BY DEF Requeue, Free
<1>2. st \in [Entries -> SpecStates]
  <2>1. Merged \in [Entries -> SpecStates] BY MergedType DEF QueueIInv
  <2> QED BY <2>1 DEF SpecStates
<1> HIDE DEF st
<1>3. pass' = [pass EXCEPT ![i] = Idle] BY <1>1 DEF QueueIInv, QueueTypeOK
<1>4. {p} \in SUBSET Projects OBVIOUS
<1>5. QueueIInv' BY <1>1, <1>2, <1>3, <1>4, IdleOK, WriteKeeps
<1> QED BY <1>1, <1>5

\* An auto pass takes a spec.
LEMMA AutoOK ==
  ASSUME NEW e \in Entries, file[e] # "Done", NEW b
  PROVE  AutoPass("child", e, 0) \in PassStates /\ PassOK(AutoPass("child", e, 0), b, file)
<1> DEFINE a == AutoPass("child", e, 0)
<1>1. /\ a \in PassStates /\ a.cmd = "auto" /\ a.at = "child" /\ a.cur = e
  <2>1. Idle \in PassStates BY IdleOK
  <2> QED BY <2>1 DEF AutoPass, Idle, PassStates
<1> HIDE DEF a
<1>2. "auto" \notin QueueCommands BY DEF QueueCommands
<1>3. PassOK(a, b, file) BY <1>1, <1>2 DEF PassOK, Stages, AutoPicks, CopyOK
<1> QED BY <1>1, <1>3 DEF a

LEMMA AutoProjectKeeps ==
  ASSUME QueueIInv, NEW i \in Passes, NEW p \in Projects, AutoProject(i, p)
  PROVE  QueueIInv'
<1>1. file' = file /\ weight' = weight /\ beaten' = beaten /\ pass[i] = Idle
  BY DEF AutoProject, Locks, Free
<1>2. CASE Candidates(p) = {}
  <2>1. pass' = pass BY <1>2 DEF AutoProject
  <2>2. pass' = [pass EXCEPT ![i] = Idle] BY <2>1, <1>1 DEF QueueIInv, QueueTypeOK
  <2> QED BY <2>2, <1>1, IdleOK, StillKeeps
<1>3. CASE Candidates(p) # {}
  <2>1. PICK e \in Candidates(p) : pass' = [pass EXCEPT ![i] = AutoPass("child", e, 0)]
    BY <1>3 DEF AutoProject
  <2>2. e \in Entries /\ file[e] # "Done" BY CandidatesSound
  <2>3. /\ AutoPass("child", e, 0) \in PassStates
        /\ PassOK(AutoPass("child", e, 0), beaten'[i], file)
    BY <2>2, AutoOK
  <2> QED BY <2>1, <2>3, <1>1, StillKeeps
<1> QED BY <1>2, <1>3

LEMMA AutoWorkspaceKeeps ==
  ASSUME QueueIInv, NEW i \in Passes, AutoWorkspace(i)
  PROVE  QueueIInv'
<1> DEFINE a(p) == AutoPass("select", NoSpec, p)
<1>1. file' = file /\ weight' = weight /\ beaten' = beaten /\ pass[i] = Idle
  BY DEF AutoWorkspace, Locks, Free
<1>2. pass' = pass \/ \E p \in Projects : pass' = [pass EXCEPT ![i] = a(p)]
  BY DEF AutoWorkspace
<1>3. CASE pass' = pass
  <2>1. pass' = [pass EXCEPT ![i] = Idle] BY <1>3, <1>1 DEF QueueIInv, QueueTypeOK
  <2> QED BY <2>1, <1>1, IdleOK, StillKeeps
<1>4. ASSUME NEW p \in Projects, pass' = [pass EXCEPT ![i] = a(p)] PROVE QueueIInv'
  <2>1. a(p) \in PassStates /\ a(p).cmd = "auto" /\ a(p).at = "select" /\ a(p).root = p
    <3>1. Idle \in PassStates BY IdleOK
    <3> QED BY <3>1 DEF AutoPass, Idle, PassStates
  <2> HIDE DEF a
  <2>2. "auto" \notin QueueCommands BY DEF QueueCommands
  <2>3. PassOK(a(p), beaten'[i], file) BY <2>1, <2>2 DEF PassOK, Stages, AutoPicks, CopyOK
  <2> QED BY <1>4, <2>1, <2>3, <1>1, StillKeeps
<1> QED BY <1>2, <1>3, <1>4

LEMMA SelectKeeps ==
  ASSUME QueueIInv, NEW i \in Passes, SelectSpec(i)
  PROVE  QueueIInv'
<1> DEFINE p == pass[i].root
<1>1. file' = file /\ weight' = weight /\ pass[i].at = "select" BY DEF SelectSpec
<1>2. p \in Projects
  <2>1. Stages(pass[i]) BY DEF QueueIInv, PassOK
  <2> QED BY <2>1, <1>1 DEF Stages
<1>3. CASE Candidates(p) = {}
  <2>1. pass' = [pass EXCEPT ![i] = Idle] /\ beaten' = [beaten EXCEPT ![i] = {}]
    BY <1>3 DEF SelectSpec, End
  <2> QED BY <2>1, <1>1, IdleOK, StillKeeps
<1>4. CASE Candidates(p) # {}
  <2>1. beaten' = beaten BY <1>4 DEF SelectSpec
  <2>2. PICK e \in Candidates(p) : pass' = [pass EXCEPT ![i] = AutoPass("child", e, 0)]
    BY <1>4 DEF SelectSpec
  <2>3. e \in Entries /\ file[e] # "Done" BY <1>2, CandidatesSound
  <2>4. /\ AutoPass("child", e, 0) \in PassStates
        /\ PassOK(AutoPass("child", e, 0), beaten'[i], file)
    BY <2>3, AutoOK
  <2> QED BY <2>1, <2>2, <2>4, <1>1, StillKeeps
<1> QED BY <1>3, <1>4

LEMMA RecordKeeps ==
  ASSUME QueueIInv, NEW i \in Passes, NEW how \in Endings, Record(i, how)
  PROVE  QueueIInv' /\ Spares(i)
<1> DEFINE e  == pass[i].cur
           st == [Merged EXCEPT ![e] = IF how = "ok" THEN "Done" ELSE "Failed"]
<1>1. /\ pass[i].at = "child" /\ pass[i].cmd = "auto" /\ weight' = weight
      /\ pass' = [pass EXCEPT ![i] = Idle] /\ Write(i, {Project(e)}, st)
  BY DEF Record, End
<1>2. /\ e \in Entries
      /\ Fresh(e, beaten[i]) => file[e] # "Done"
  <2>1. Stages(pass[i]) /\ AutoPicks(pass[i], beaten[i], file) BY DEF QueueIInv, PassOK
  <2> QED BY <2>1, <1>1 DEF Stages, AutoPicks
<1>3. /\ Merged \in [Entries -> SpecStates]
      /\ \A x \in Entries : file[x] = "Done" => Merged[x] = "Done"
  BY MergedType DEF QueueIInv
<1> HIDE DEF e
<1>4. /\ st \in [Entries -> SpecStates]
      /\ \A x \in Entries \ {e} : st[x] = Merged[x]
  BY <1>2, <1>3 DEF SpecStates
<1> HIDE DEF st
<1>5. QueueIInv'
  <2>1. {Project(e)} \in SUBSET Projects BY <1>2, EntryParts
  <2> QED BY <2>1, <1>1, <1>4, IdleOK, WriteKeeps
<1>6. \A x \in Entries : file'[x] = IF Project(x) = Project(e) THEN st[x] ELSE file[x]
  BY <1>1 DEF Write
<1>7. Spares(i)
  <2> SUFFICES ASSUME NEW x \in Entries, file[x] = "Done", file'[x] # "Done"
               PROVE  Project(x) \in beaten[i]
    BY DEF Spares
  <2>1. st[x] # "Done" BY <1>6
  <2>2. x = e BY <2>1, <1>3, <1>4
  <2> QED BY <2>2, <1>2 DEF Fresh
<1> QED BY <1>5, <1>7

LEMMA CrashKeeps ==
  ASSUME QueueIInv, NEW i \in Passes, Crash(i)
  PROVE  QueueIInv'
<1>1. /\ file' = file /\ weight' = weight /\ beaten' = [beaten EXCEPT ![i] = {}]
      /\ pass' = [pass EXCEPT ![i] = Idle]
  BY DEF Crash, End
<1> QED BY <1>1, IdleOK, StillKeeps

\* A step is of one pass; it writes no file, or spares what is Done, or leaves every pass
\* as it is.
StepOf(i) ==
  /\ \A j \in Passes \ {i} : pass'[j] = pass[j]
  /\ file' = file \/ Spares(i) \/ pass' = pass

LEMMA QueueNextKeeps ==
  ASSUME QueueIInv, QueueNext
  PROVE  QueueIInv' /\ \E i \in Passes : StepOf(i)
<1>t. pass \in [Passes -> PassStates] BY DEF QueueIInv, QueueTypeOK
<1>1. ASSUME NEW i \in Passes, NEW p \in Projects, NEW cmd \in QueueCommands,
             StartQueue(i, cmd, p)
      PROVE  QueueIInv' /\ StepOf(i)
  <2>1. file' = file /\ \A j \in Passes \ {i} : pass'[j] = pass[j] BY <1>1, <1>t DEF StartQueue
  <2> QED BY <1>1, <2>1, StartKeeps DEF StepOf
<1>2. ASSUME NEW i \in Passes, NEW p \in Projects, NEW states, Requeue(i, p, states)
      PROVE  QueueIInv' /\ StepOf(i)
  BY <1>2, RequeueKeeps DEF StepOf
<1>3. ASSUME NEW i \in Passes, AutoWorkspace(i) PROVE QueueIInv' /\ StepOf(i)
  <2>1. file' = file /\ \A j \in Passes \ {i} : pass'[j] = pass[j]
    BY <1>3, <1>t DEF AutoWorkspace
  <2> QED BY <1>3, <2>1, AutoWorkspaceKeeps DEF StepOf
<1>4. ASSUME NEW i \in Passes, NEW p \in Projects, AutoProject(i, p)
      PROVE  QueueIInv' /\ StepOf(i)
  <2>1. file' = file /\ \A j \in Passes \ {i} : pass'[j] = pass[j]
    BY <1>4, <1>t DEF AutoProject
  <2> QED BY <1>4, <2>1, AutoProjectKeeps DEF StepOf
<1>5. ASSUME NEW i \in Passes, RunNext(i) PROVE QueueIInv' /\ StepOf(i)
  <2>1. \A j \in Passes \ {i} : pass'[j] = pass[j] BY <1>5, <1>t DEF RunNext
  <2> QED BY <1>5, <2>1, RunNextKeeps DEF StepOf
<1>6. ASSUME NEW i \in Passes, Finish(i) PROVE QueueIInv' /\ StepOf(i)
  <2>1. \A j \in Passes \ {i} : pass'[j] = pass[j] BY <1>6, <1>t DEF Finish, End
  <2> QED BY <1>6, <2>1, FinishKeeps DEF StepOf
<1>7. ASSUME NEW i \in Passes, SelectSpec(i) PROVE QueueIInv' /\ StepOf(i)
  <2>1. file' = file /\ \A j \in Passes \ {i} : pass'[j] = pass[j]
    BY <1>7, <1>t DEF SelectSpec, End
  <2> QED BY <1>7, <2>1, SelectKeeps DEF StepOf
<1>8. ASSUME NEW i \in Passes, NEW how \in Endings, ChildExits(i, how)
      PROVE  QueueIInv' /\ StepOf(i)
  <2>1. \A j \in Passes \ {i} : pass'[j] = pass[j] BY <1>8, <1>t DEF ChildExits, End
  <2> QED BY <1>8, <2>1, ChildExitsKeeps DEF StepOf
<1>9. ASSUME NEW i \in Passes, NEW how \in Endings, Record(i, how)
      PROVE  QueueIInv' /\ StepOf(i)
  <2>1. \A j \in Passes \ {i} : pass'[j] = pass[j] BY <1>9, <1>t DEF Record, End
  <2> QED BY <1>9, <2>1, RecordKeeps DEF StepOf
<1>10. ASSUME NEW i \in Passes, Crash(i) PROVE QueueIInv' /\ StepOf(i)
  <2>1. file' = file /\ \A j \in Passes \ {i} : pass'[j] = pass[j] BY <1>10, <1>t DEF Crash, End
  <2> QED BY <1>10, <2>1, CrashKeeps DEF StepOf
<1> QED
  BY <1>1, <1>2, <1>3, <1>4, <1>5, <1>6, <1>7, <1>8, <1>9, <1>10, Zenon
     DEF QueueNext, Invoked, PassStep

LEMMA QueueStutterKeeps == QueueIInv /\ UNCHANGED queueVars => QueueIInv'
<1> SUFFICES ASSUME QueueIInv, UNCHANGED queueVars PROVE QueueIInv' OBVIOUS
<1>1. file' = file /\ weight' = weight /\ pass' = pass /\ beaten' = beaten BY DEF queueVars
<1> QED BY <1>1 DEF QueueIInv, QueueTypeOK

\* What a queue pass has read and has left to do, for any projects, specs and number of
\* passes (execute.rs, queue.rs, run.rs).
THEOREM QueueInvariance == QueueSpec => []QueueIInv
<1>1. QueueInit => QueueIInv BY QueueInitIInv
<1>2. QueueIInv /\ [QueueNext]_queueVars => QueueIInv'
  BY QueueNextKeeps, QueueStutterKeeps
<1> QED BY <1>1, <1>2, PTL DEF QueueSpec

\* A spec that is Done stays Done, but for the reasons that DoneKept names.
THEOREM DoneAlwaysKept == QueueSpec => DoneKept
<1> DEFINE Kept == \A i \in Passes, e \in Entries :
                     pass'[i] # pass[i] /\ file[e] = "Done" /\ file'[e] # "Done" =>
                       \/ pass[i].cmd = "wsrun"
                       \/ Project(e) \in beaten[i]
                       \/ pass[i].cmd = "wsdaemon" /\ Shared(e)
<1>1. QueueIInv /\ [QueueNext]_queueVars => [Kept]_queueVars
  <2> SUFFICES ASSUME QueueIInv, QueueNext PROVE Kept BY Zenon
  <2>1. PICK i \in Passes : StepOf(i) BY QueueNextKeeps
  <2> QED BY <2>1 DEF StepOf, Spares
<1> HIDE DEF Kept
<1>2. [][Kept]_queueVars => DoneKept BY DEF Kept, DoneKept
<1> QED BY <1>1, <1>2, QueueInvariance, PTL DEF QueueSpec

-----------------------------------------------------------------------------
(* The split of a spec, in order.                                          *)

\* n parts of k criteria, the p-th after b[p - 1] up to b[p], none empty.
Cuts(b, k, n) ==
  /\ b \in [0 .. n -> 0 .. k] /\ b[0] = 0 /\ b[n] = k
  /\ \A p \in 1 .. n : b[p - 1] < b[p]

PartsOf(b, k, n) == [p \in 1 .. n |-> SubSeq(All(k), b[p - 1] + 1, b[p])]

LEMMA PartIs ==
  ASSUME NEW k \in Nat, NEW n \in Nat \ {0}, NEW b, Cuts(b, k, n), NEW p \in 1 .. n
  PROVE  /\ PartsOf(b, k, n)[p] \in Seq(1 .. k)
         /\ b[p - 1] \in 0 .. k /\ b[p] \in 0 .. k
         /\ Len(PartsOf(b, k, n)[p]) = b[p] - b[p - 1]
         /\ \A i \in 1 .. b[p] - b[p - 1] : PartsOf(b, k, n)[p][i] = b[p - 1] + i
<1>1. p - 1 \in 0 .. n /\ p \in 0 .. n OBVIOUS
<1>2. b[p - 1] \in 0 .. k /\ b[p] \in 0 .. k /\ b[p - 1] < b[p]
  BY <1>1 DEF Cuts
<1>3. All(k) \in Seq(1 .. k) /\ Len(All(k)) = k /\ \A i \in 1 .. k : All(k)[i] = i
  BY DEF All
<1> DEFINE x == b[p - 1]
           y == b[p]
           s == All(k)
<1>4. PartsOf(b, k, n)[p] = SubSeq(s, x + 1, y) BY DEF PartsOf
<1>5. /\ x \in 0 .. k /\ y \in 0 .. k /\ x < y
      /\ s \in Seq(1 .. k) /\ Len(s) = k /\ \A i \in 1 .. k : s[i] = i
  BY <1>2, <1>3
<1> HIDE DEF x, y, s
<1>6. /\ SubSeq(s, x + 1, y) \in Seq(1 .. k) /\ Len(SubSeq(s, x + 1, y)) = y - x
      /\ \A i \in 1 .. y - x : SubSeq(s, x + 1, y)[i] = s[x + i]
  <2>1. x + 1 \in Int /\ y \in Int /\ x + 1 <= y /\ (y - (x + 1)) + 1 = y - x BY <1>5
  <2>2. \A i \in x + 1 .. y : s[i] \in 1 .. k BY <1>5
  <2>3. /\ SubSeq(s, x + 1, y) \in Seq(1 .. k)
        /\ Len(SubSeq(s, x + 1, y)) = y - (x + 1) + 1
        /\ \A i \in 1 .. y - (x + 1) + 1 : SubSeq(s, x + 1, y)[i] = s[(x + 1) + i - 1]
    BY <2>1, <2>2, SubSeqProperties
  <2>4. y - (x + 1) + 1 = y - x BY <1>5
  <2>5. \A i \in 1 .. y - x : (x + 1) + i - 1 = x + i BY <1>5
  <2> HIDE DEF s
  <2> QED BY <2>3, <2>4, <2>5
<1>7. \A i \in 1 .. y - x : x + i \in 1 .. k BY <1>5
<1> QED BY <1>4, <1>5, <1>6, <1>7 DEF x, y

\* The definition of FlattenSeq has a solution: a prefix of the parts is a fold of it.
LEMMA FoldOf ==
  ASSUME NEW m, NEW parts, NEW g,
         g = [i \in 1 .. m |-> IF i = 1 THEN parts[i] ELSE g[i - 1] \o parts[i]]
  PROVE  \E f : f = [i \in 1 .. m |-> IF i = 1 THEN parts[i] ELSE f[i - 1] \o parts[i]]
BY Zenon

\* g[i] is the first i of n parts, put one behind the other.
Joins(g, parts, n) ==
  /\ g = [i \in 1 .. n |-> g[i]]
  /\ \A i \in 1 .. n : g[i] = IF i = 1 THEN parts[i] ELSE g[i - 1] \o parts[i]

LEMMA FlattenIs ==
  ASSUME NEW n \in Nat \ {0}, NEW parts, Len(parts) = n, NEW g, Joins(g, parts, n)
  PROVE  FlattenSeq(parts) = g[n]
<1> DEFINE rhs(f, i) == IF i = 1 THEN parts[i] ELSE f[i - 1] \o parts[i]
           flatten[i \in 1 .. n] == rhs(flatten, i)
<1>1. g = [i \in 1 .. n |-> rhs(g, i)]
  <2>1. g = [i \in 1 .. n |-> g[i]] /\ \A i \in 1 .. n : g[i] = rhs(g, i) BY DEF Joins
  <2> HIDE DEF rhs
  <2> QED BY <2>1
<1>2. \E f : f = [i \in 1 .. n |-> rhs(f, i)] BY <1>1, FoldOf, Zenon
<1>3. flatten = [i \in 1 .. n |-> rhs(flatten, i)] BY <1>2
<1>4. FlattenSeq(parts) = flatten[n]
  <2>1. Len(parts) # 0 OBVIOUS
  <2> QED BY <2>1, Zenon DEF FlattenSeq
<1> HIDE DEF flatten
<1>5. \A i \in 1 .. n : g[i] = rhs(g, i) BY DEF Joins
<1>6. \A m \in Nat : m + 1 \in 1 .. n => flatten[m + 1] = g[m + 1]
  <2> DEFINE Q == {m \in Nat : m + 1 \in 1 .. n => flatten[m + 1] = g[m + 1]}
  <2>1. 0 \in Q
    <3>1. 1 \in 1 .. n /\ 0 + 1 = 1 OBVIOUS
    <3>2. flatten[1] = rhs(flatten, 1) /\ g[1] = rhs(g, 1) BY <1>3, <1>5, <3>1
    <3>3. flatten[1] = g[1] BY <3>2
    <3> QED BY <3>1, <3>3
  <2>2. ASSUME NEW m \in Nat, m \in Q PROVE m + 1 \in Q
    <3> SUFFICES ASSUME (m + 1) + 1 \in 1 .. n
                 PROVE  flatten[(m + 1) + 1] = g[(m + 1) + 1]
      OBVIOUS
    <3> DEFINE i == (m + 1) + 1
    <3>1. i \in 1 .. n /\ i # 1 /\ i - 1 = m + 1 /\ m + 1 \in 1 .. n OBVIOUS
    <3>2. flatten[m + 1] = g[m + 1] BY <2>2, <3>1, Zenon
    <3>3. flatten[i] = rhs(flatten, i) /\ g[i] = rhs(g, i) BY <1>3, <1>5, <3>1
    <3> HIDE DEF i, Q
    <3>4. flatten[i] = flatten[m + 1] \o parts[i] /\ g[i] = g[m + 1] \o parts[i]
      BY <3>1, <3>3
    <3>5. flatten[i] = g[i] BY <3>2, <3>4
    <3> QED BY <3>5 DEF i
  <2> HIDE DEF Q
  <2>3. \A m \in Nat : m \in Q BY <2>1, <2>2, ByInduction
  <2> QED BY <2>3 DEF Q
<1>7. (n - 1) + 1 = n /\ n - 1 \in Nat /\ n \in 1 .. n OBVIOUS
<1>8. flatten[n] = g[n] BY <1>6, <1>7
<1> QED BY <1>4, <1>8

\* Put one behind the other, such parts are all criteria in order.
LEMMA CutsFlatten ==
  ASSUME NEW k \in Nat, NEW n \in Nat \ {0}, NEW b, Cuts(b, k, n)
  PROVE  FlattenSeq(PartsOf(b, k, n)) = All(k)
<1> DEFINE parts == PartsOf(b, k, n)
<1>1. Len(parts) = n /\ DOMAIN parts = 1 .. n BY DEF PartsOf
<1>2. \A i \in 0 .. n : b[i] \in Nat BY DEF Cuts
<1>3. \A i \in 1 .. n : /\ parts[i] \in Seq(1 .. k)
                        /\ b[i - 1] \in Nat /\ b[i] \in Nat /\ b[i - 1] < b[i]
                        /\ Len(parts[i]) = b[i] - b[i - 1]
                        /\ \A j \in 1 .. b[i] - b[i - 1] : parts[i][j] = b[i - 1] + j
  <2> TAKE i \in 1 .. n
  <2>1. i - 1 \in 0 .. n /\ i \in 0 .. n OBVIOUS
  <2>2. b[i - 1] \in Nat /\ b[i] \in Nat BY <1>2, <2>1
  <2>3. b[i - 1] < b[i] BY DEF Cuts
  <2> HIDE DEF parts
  <2>4. /\ parts[i] \in Seq(1 .. k)
        /\ Len(parts[i]) = b[i] - b[i - 1]
        /\ \A j \in 1 .. b[i] - b[i - 1] : parts[i][j] = b[i - 1] + j
    BY PartIs DEF parts
  <2> QED BY <2>2, <2>3, <2>4
<1> DEFINE g == [i \in 1 .. n |-> All(b[i])]
           rhs(f, i) == IF i = 1 THEN parts[i] ELSE f[i - 1] \o parts[i]
<1> HIDE DEF parts
<1>4. \A i \in 0 .. n : All(b[i]) \in Seq(Nat) /\ Len(All(b[i])) = b[i]
                        /\ \A j \in 1 .. b[i] : All(b[i])[j] = j
  BY <1>2 DEF All
\* The criteria up to the end of a part are those before it and its own.
<1>5. ASSUME NEW i \in 1 .. n PROVE All(b[i]) = All(b[i - 1]) \o parts[i]
  <2>1. i - 1 \in 0 .. n /\ i \in 0 .. n OBVIOUS
  <2> DEFINE u == All(b[i - 1])
             v == parts[i]
             x == b[i - 1]
             y == b[i]
  <2>2. /\ x \in Nat /\ y \in Nat /\ x < y
        /\ u \in Seq(Nat) /\ Len(u) = x /\ \A j \in 1 .. x : u[j] = j
        /\ v \in Seq(1 .. k) /\ Len(v) = y - x /\ \A j \in 1 .. y - x : v[j] = x + j
        /\ All(y) \in Seq(Nat) /\ Len(All(y)) = y /\ \A j \in 1 .. y : All(y)[j] = j
    BY <1>3, <1>4, <2>1
  <2> HIDE DEF u, v, x, y
  <2>3. v \in Seq(Nat)
    <3>1. 1 .. k \subseteq Nat OBVIOUS
    <3> QED BY <2>2, <3>1, SeqMonotonic
  <2>4. /\ u \o v \in Seq(Nat) /\ Len(u \o v) = y
        /\ \A j \in 1 .. y : (u \o v)[j] = IF j <= x THEN u[j] ELSE v[j - x]
    <3>1. u \in Seq(Nat) /\ Len(u) = x /\ Len(u) + Len(v) = y BY <2>2
    <3>2. /\ u \o v \in Seq(Nat) /\ Len(u \o v) = Len(u) + Len(v)
          /\ \A j \in 1 .. Len(u) + Len(v) :
               (u \o v)[j] = IF j <= Len(u) THEN u[j] ELSE v[j - Len(u)]
      BY <2>3, <3>1, ConcatProperties
    <3> QED BY <3>1, <3>2
  <2>5. \A j \in 1 .. y : (u \o v)[j] = j
    <3> TAKE j \in 1 .. y
    <3>1. CASE j <= x BY <2>2, <2>4, <3>1
    <3>2. CASE ~(j <= x)
      <4>1. j - x \in 1 .. y - x /\ x + (j - x) = j BY <2>2, <3>2
      <4> QED BY <2>2, <2>4, <3>2, <4>1
    <3> QED BY <3>1, <3>2
  <2>6. All(y) = u \o v
    <3> DEFINE w == u \o v
               a == All(y)
    <3>1. w \in Seq(Nat) /\ Len(w) = y /\ \A j \in 1 .. y : w[j] = j BY <2>4, <2>5
    <3>2. a \in Seq(Nat) /\ Len(a) = y /\ \A j \in 1 .. y : a[j] = j BY <2>2
    <3> HIDE DEF w, a
    <3>3. /\ a \in Seq(Nat) /\ w \in Seq(Nat) /\ Len(a) = Len(w)
          /\ \A j \in 1 .. Len(a) : a[j] = w[j]
      BY <3>1, <3>2
    <3>4. a = w BY <3>3, SeqEqual
    <3> QED BY <3>4 DEF w, a
  <2> QED BY <2>6 DEF u, v, x, y
<1>6. b[0] = 0 BY DEF Cuts
<1>7. \A i \in 1 .. n : g[i] = rhs(g, i)
  <2> TAKE i \in 1 .. n
  <2>1. CASE i = 1
    <3>1. parts[1] \in Seq(1 .. k) /\ 1 \in 1 .. n /\ i - 1 = 0 BY <1>3, <2>1
    <3>2. All(0) = <<>> BY DEF All
    <3>3. <<>> \o parts[1] = parts[1] BY <3>1
    <3>4. All(b[1]) = parts[1] BY <1>5, <1>6, <3>1, <3>2, <3>3, <2>1
    <3> QED BY <2>1, <3>1, <3>4
  <2>2. CASE i # 1
    <3>1. i - 1 \in 1 .. n BY <2>2
    <3>2. g[i - 1] = All(b[i - 1]) BY <3>1
    <3> QED BY <1>5, <2>2, <3>2
  <2> QED BY <2>1, <2>2
<1>8. g = [i \in 1 .. n |-> g[i]] OBVIOUS
<1>9. FlattenSeq(parts) = g[n]
  <2>1. Joins(g, parts, n)
    <3>1. \A i \in 1 .. n : g[i] = IF i = 1 THEN parts[i] ELSE g[i - 1] \o parts[i]
      BY <1>7
    <3> HIDE DEF g
    <3> QED BY <1>8, <3>1 DEF Joins
  <2> HIDE DEF g
  <2> QED BY <1>1, <2>1, FlattenIs
<1>10. b[n] = k /\ n \in 1 .. n BY DEF Cuts
<1> QED BY <1>9, <1>10 DEF parts

\* Every criterion is in such a part, and no other is.
LEMMA CutsComplete ==
  ASSUME NEW k \in Nat, NEW n \in Nat \ {0}, NEW b, Cuts(b, k, n)
  PROVE  Complete(PartsOf(b, k, n), k)
<1> DEFINE parts == PartsOf(b, k, n)
<1>1. DOMAIN parts = 1 .. n BY DEF PartsOf
<1>2. \A p \in 1 .. n : /\ parts[p] \in Seq(1 .. k)
                        /\ b[p - 1] \in Nat /\ b[p] \in Nat
                        /\ Len(parts[p]) = b[p] - b[p - 1]
                        /\ \A i \in 1 .. b[p] - b[p - 1] : parts[p][i] = b[p - 1] + i
  <2> TAKE p \in 1 .. n
  <2>1. b[p - 1] \in 0 .. k /\ b[p] \in 0 .. k BY PartIs
  <2> HIDE DEF parts
  <2>2. /\ parts[p] \in Seq(1 .. k)
        /\ Len(parts[p]) = b[p] - b[p - 1]
        /\ \A j \in 1 .. b[p] - b[p - 1] : parts[p][j] = b[p - 1] + j
    BY PartIs DEF parts
  <2> QED BY <2>1, <2>2
<1> HIDE DEF parts
<1>3. \A p \in 1 .. n : ToSet(parts[p]) \subseteq 1 .. k
  <2> TAKE p \in 1 .. n
  <2>1. parts[p] \in Seq(1 .. k) BY <1>2
  <2> QED BY <2>1 DEF ToSet
<1>4. ASSUME NEW x \in 1 .. k PROVE \E p \in 1 .. n : x \in ToSet(parts[p])
  <2> DEFINE upto == {p \in Nat : p \in 0 .. n /\ x <= b[p]}
  <2>1. n \in upto BY DEF Cuts
  <2>2. PICK p \in upto : \A q \in upto : p <= q
    <3>1. upto \in SUBSET Nat /\ upto # {} BY <2>1
    <3> HIDE DEF upto
    <3> QED BY <3>1, SmallestOf
  <2>3. p # 0 BY <2>2 DEF Cuts
  <2>4. p \in 1 .. n /\ p - 1 \in 0 .. n /\ p - 1 \in Nat BY <2>2, <2>3
  <2>5. /\ b[p - 1] \in Nat /\ b[p] \in Nat /\ x <= b[p]
        /\ Len(parts[p]) = b[p] - b[p - 1] /\ parts[p] \in Seq(1 .. k)
        /\ \A i \in 1 .. b[p] - b[p - 1] : parts[p][i] = b[p - 1] + i
    BY <1>2, <2>2, <2>4
  <2>6. b[p - 1] < x
    <3>1. p - 1 \notin upto BY <2>2, <2>4
    <3> QED BY <2>4, <2>5, <3>1
  <2> HIDE DEF upto
  <2>7. x - b[p - 1] \in 1 .. b[p] - b[p - 1] /\ b[p - 1] + (x - b[p - 1]) = x
    BY <2>5, <2>6
  <2>8. DOMAIN parts[p] = 1 .. b[p] - b[p - 1] BY <2>5
  <2>9. x - b[p - 1] \in DOMAIN parts[p] /\ parts[p][x - b[p - 1]] = x BY <2>5, <2>7, <2>8
  <2> QED BY <2>4, <2>9 DEF ToSet
<1>5. UNION {ToSet(parts[p]) : p \in DOMAIN parts} = 1 .. k BY <1>1, <1>3, <1>4
<1>6. Cardinality(1 .. k) = k BY FS_Interval
<1> QED BY <1>5, <1>6 DEF Complete, parts

LEMMA CutsContiguous ==
  ASSUME NEW k \in Nat, NEW n \in Nat \ {0}, NEW b, Cuts(b, k, n)
  PROVE  Contiguous(PartsOf(b, k, n), k)
<1> DEFINE parts == PartsOf(b, k, n)
<1>1. DOMAIN parts = 1 .. n BY DEF PartsOf
<1>2. ASSUME NEW p \in 1 .. n PROVE parts[p] # <<>>
  <2>1. /\ parts[p] \in Seq(1 .. k)
        /\ b[p - 1] \in 0 .. k /\ b[p] \in 0 .. k
        /\ Len(parts[p]) = b[p] - b[p - 1]
        /\ \A i \in 1 .. b[p] - b[p - 1] : parts[p][i] = b[p - 1] + i
    BY PartIs
  <2>2. b[p - 1] < b[p] BY DEF Cuts
  <2> HIDE DEF parts
  <2>3. Len(parts[p]) = b[p] - b[p - 1] BY <2>1
  <2>4. Len(parts[p]) # 0 BY <2>1, <2>2, <2>3
  <2>5. Len(<<>>) = 0 OBVIOUS
  <2> QED BY <2>4, <2>5
<1> HIDE DEF parts
<1>3. \A p \in DOMAIN parts : parts[p] # <<>> BY <1>1, <1>2
<1> QED BY <1>3, CutsFlatten, CutsComplete DEF Contiguous, parts

\* Where the parts of the ordered split end.
EndsOf(k, n) == [p \in 0 .. n |-> p * (k \div n) + Min({p, k % n})]

LEMMA Division ==
  ASSUME NEW k \in Nat, NEW n \in Nat \ {0}
  PROVE  k \div n \in Nat /\ k % n \in 0 .. n - 1 /\ k = n * (k \div n) + (k % n)
<1>1. n \in Nat /\ n > 0 OBVIOUS
<1>2. k \div n \in Int /\ k = n * (k \div n) + (k % n) BY <1>1
<1>3. k % n \in 0 .. n - 1 BY <1>1
<1>4. k \div n >= 0 BY <1>1
<1> QED BY <1>2, <1>3, <1>4

LEMMA OrderedCuts ==
  ASSUME NEW k \in Nat, NEW n \in 1 .. k
  PROVE  /\ Cuts(EndsOf(k, n), k, n)
         /\ Ordered(k, n) = PartsOf(EndsOf(k, n), k, n)
         /\ \A p \in 1 .. n : EndsOf(k, n)[p] - EndsOf(k, n)[p - 1] <= k \div n + 1
<1> DEFINE q == k \div n
           r == k % n
           b == EndsOf(k, n)
           low(p) == Min({p, r})
<1>1. n \in Nat \ {0} /\ n <= k /\ q \in Nat /\ r \in 0 .. n - 1 /\ k = n * q + r
  <2>1. n \in Nat \ {0} /\ n <= k OBVIOUS
  <2>2. q \in Nat /\ r \in 0 .. n - 1 /\ k = n * q + r BY <2>1, Division
  <2> QED BY <2>1, <2>2
<1>2. /\ DOMAIN b = 0 .. n /\ b = [p \in 0 .. n |-> p * q + low(p)]
      /\ \A p \in 0 .. n : b[p] = p * q + low(p)
  BY DEF EndsOf
<1>3. Ordered(k, n) = PartsOf(b, k, n)
  <2>1. \A p \in 1 .. n : p - 1 \in 0 .. n /\ p \in 0 .. n OBVIOUS
  <2>2. Ordered(k, n)
          = [p \in 1 .. n |-> SubSeq(All(k), (p - 1) * q + low(p - 1) + 1, p * q + low(p))]
    BY DEF Ordered
  <2> HIDE DEF b, q, low
  <2>3. \A p \in 1 .. n : /\ b[p - 1] = (p - 1) * q + low(p - 1)
                          /\ b[p] = p * q + low(p)
    BY <1>2, <2>1
  <2> QED BY <2>2, <2>3 DEF PartsOf
<1> HIDE DEF q, r, b
<1>4. q # 0 BY <1>1
<1>5. \A p \in 0 .. n : low(p) = IF p <= r THEN p ELSE r
  <2> TAKE p \in 0 .. n
  <2>1. low(p) \in {p, r} /\ \A y \in {p, r} : low(p) <= y
    <3>1. \E x \in {p, r} : \A y \in {p, r} : x <= y BY <1>1
    <3> QED BY <3>1 DEF Min
  <2> HIDE DEF low
  <2> QED BY <1>1, <2>1
<1> HIDE DEF low
<1>6. b[0] = 0
  <2>1. 0 \in 0 .. n /\ low(0) = 0 /\ 0 * q = 0 BY <1>1, <1>5
  <2> QED BY <1>2, <2>1
<1>7. b[n] = k
  <2>1. n \in 0 .. n /\ low(n) = r BY <1>1, <1>5
  <2> QED BY <1>1, <1>2, <2>1
<1>8. ASSUME NEW p \in 0 .. n PROVE b[p] \in 0 .. k
  <2>1. b[p] = p * q + low(p) /\ low(p) \in 0 .. r BY <1>1, <1>2, <1>5
  <2>2. p * q \in Nat /\ n * q \in Nat BY <1>1
  <2>3. p * q <= n * q
    <3>1. (n - p) * q \in Nat BY <1>1
    <3>2. (n - p) * q = n * q - p * q BY <1>1
    <3> QED BY <2>2, <3>1, <3>2
  <2> DEFINE u == p * q
             v == n * q
  <2>4. u \in Nat /\ v \in Nat /\ u <= v /\ b[p] = u + low(p) /\ k = v + r
    BY <1>1, <2>1, <2>2, <2>3
  <2> HIDE DEF u, v
  <2> QED BY <1>1, <2>1, <2>4
<1>9. ASSUME NEW p \in 1 .. n PROVE b[p] - b[p - 1] \in {q, q + 1}
  <2>1. p - 1 \in 0 .. n /\ p \in 0 .. n OBVIOUS
  <2>2. b[p] = p * q + low(p) /\ b[p - 1] = (p - 1) * q + low(p - 1) BY <1>2, <2>1
  <2>3. p * q = (p - 1) * q + q /\ (p - 1) * q \in Nat BY <1>1
  <2>4. /\ low(p) = IF p <= r THEN p ELSE r
        /\ low(p - 1) = IF p - 1 <= r THEN p - 1 ELSE r
    BY <1>5, <2>1
  <2>5. low(p) - low(p - 1) \in {0, 1} /\ low(p) \in Nat /\ low(p - 1) \in Nat
    BY <1>1, <2>4
  <2> DEFINE u == (p - 1) * q
  <2>6. u \in Nat /\ b[p] = u + q + low(p) /\ b[p - 1] = u + low(p - 1)
    BY <2>2, <2>3
  <2> HIDE DEF u
  <2> QED BY <1>1, <2>5, <2>6
<1>10. Cuts(b, k, n)
  <2>1. b \in [0 .. n -> 0 .. k]
    <3>1. b = [p \in 0 .. n |-> b[p]] BY <1>2
    <3> QED BY <1>8, <3>1
  <2>2. ASSUME NEW p \in 1 .. n PROVE b[p - 1] < b[p]
    <3>1. p - 1 \in 0 .. n /\ p \in 0 .. n OBVIOUS
    <3>2. b[p - 1] \in 0 .. k /\ b[p] \in 0 .. k BY <1>8, <3>1
    <3> QED BY <1>1, <1>4, <1>9, <3>2
  <2> QED BY <1>6, <1>7, <2>1, <2>2 DEF Cuts
<1>11. \A p \in 1 .. n : b[p] - b[p - 1] <= q + 1 BY <1>1, <1>9
<1> QED BY <1>3, <1>10, <1>11 DEF b, q

LEMMA OrderedContiguous ==
  ASSUME NEW k \in Nat, NEW n \in 1 .. k
  PROVE  /\ Contiguous(Ordered(k, n), k)
         /\ \A s \in ToSet(Ordered(k, n)) : Len(s) \in Nat /\ Len(s) <= k \div n + 1
<1>1. n \in Nat \ {0} OBVIOUS
<1> DEFINE b == EndsOf(k, n)
<1>2. /\ Cuts(b, k, n) /\ Ordered(k, n) = PartsOf(b, k, n)
      /\ \A p \in 1 .. n : b[p] - b[p - 1] <= k \div n + 1
  BY OrderedCuts
<1> HIDE DEF b
<1>3. Contiguous(Ordered(k, n), k) BY <1>1, <1>2, CutsContiguous
<1>4. ASSUME NEW p \in 1 .. n
      PROVE  /\ Len(PartsOf(b, k, n)[p]) \in Nat
             /\ Len(PartsOf(b, k, n)[p]) <= k \div n + 1
  <2>1. /\ Len(PartsOf(b, k, n)[p]) = b[p] - b[p - 1]
        /\ PartsOf(b, k, n)[p] \in Seq(1 .. k)
    BY <1>1, <1>2, PartIs
  <2> QED BY <1>2, <2>1
<1>5. DOMAIN PartsOf(b, k, n) = 1 .. n BY DEF PartsOf
<1> QED BY <1>2, <1>3, <1>4, <1>5 DEF ToSet

\* A spec is split, in order, into any number of parts up to that of its exit criteria so
\* that each criterion is in exactly one, in its place, and none is empty; a spec that
\* `pidag auto` splits is split so, into parts that it would not split again.
THEOREM OrderedSplitSound ==
  ASSUME NEW sizes \in SUBSET Nat
  PROVE  KeepsAll(sizes, {})
<1>1. ASSUME NEW k \in sizes, NEW n \in 1 .. k PROVE Contiguous(Ordered(k, n), k)
  BY <1>1, OrderedContiguous
<1>2. ASSUME NEW k \in sizes, k <= 7 PROVE AutoParts(k) = <<>>
  BY <1>2 DEF AutoParts, SplitCount
<1>3. ASSUME NEW k \in sizes, ~(k <= 7)
      PROVE  /\ Contiguous(AutoParts(k), k)
             /\ \A s \in ToSet(AutoParts(k)) : AutoParts(Len(s)) = <<>>
  <2> DEFINE c == (k + 5) \div 6
  <2>1. k \in Nat /\ c \in 2 .. k /\ k <= 6 * c BY <1>3
  <2>2. SplitCount(k) = c BY <1>3 DEF SplitCount
  <2> HIDE DEF c
  <2>3. AutoParts(k) = Ordered(k, c) /\ c \in 1 .. k BY <2>1, <2>2 DEF AutoParts
  <2>4. k \div c <= 6
    <3> DEFINE q == k \div c
    <3>1. q \in Nat /\ c * q <= k /\ c \in Nat \ {0}
      <4>1. c \in Nat \ {0} BY <2>1
      <4>2. q \in Nat /\ k % c \in 0 .. c - 1 /\ k = c * q + (k % c) BY <2>1, <4>1, Division
      <4> HIDE DEF q
      <4>3. c * q \in Nat BY <4>1, <4>2
      <4> QED BY <4>1, <4>2, <4>3
    <3> HIDE DEF q
    <3>2. ASSUME q >= 7 PROVE FALSE
      <4>1. c * (q - 7) \in Nat BY <3>1, <3>2
      <4>2. c * (q - 7) = c * q - 7 * c BY <3>1
      <4>3. c * q \in Nat BY <3>1
      <4> QED BY <2>1, <3>1, <4>1, <4>2, <4>3
    <3>3. q <= 6 BY <3>1, <3>2
    <3> QED BY <3>3 DEF q
  <2>5. k \div c \in Nat
    <3>1. c \in Nat \ {0} BY <2>1
    <3> QED BY <2>1, <3>1, Division
  <2>6. ASSUME NEW s \in ToSet(Ordered(k, c)) PROVE AutoParts(Len(s)) = <<>>
    <3>1. Len(s) \in Nat /\ Len(s) <= k \div c + 1 BY <2>1, <2>3, OrderedContiguous
    <3>2. Len(s) <= 7 BY <2>4, <2>5, <3>1
    <3> QED BY <3>1, <3>2 DEF AutoParts, SplitCount
  <2>7. Contiguous(Ordered(k, c), k) BY <2>1, <2>3, OrderedContiguous
  <2> QED BY <2>3, <2>6, <2>7
<1>4. ASSUME NEW k \in sizes
      PROVE  IF k <= 7 THEN AutoParts(k) = <<>>
             ELSE /\ Contiguous(AutoParts(k), k)
                  /\ \A s \in ToSet(AutoParts(k)) : AutoParts(Len(s)) = <<>>
  BY <1>2, <1>3
<1> QED BY <1>1, <1>4 DEF KeepsAll

=============================================================================
