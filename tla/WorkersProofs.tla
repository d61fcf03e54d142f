---------------------------- MODULE WorkersProofs ----------------------------
(***************************************************************************)
(* Proofs of the safety properties of Workers, for every set of calls,     *)
(* every number of permits and of faults, and every mix of kinds.          *)
(***************************************************************************)
EXTENDS Workers, FiniteSetTheorems, FunctionTheorems, SequenceTheorems, TLAPS

-----------------------------------------------------------------------------
(* The inductive invariant.                                                *)

\* Where a call has a `pi` process of its own, a candidate that it checks included.
Owning == {"checking", "resetting", "opening", "prompting", "reading", "closing"}

\* Where a call has a permit: from the semaphore to the drop of the session.
Permitted == Owning \cup {"taking", "connecting", "releasing"}

Places    == Permitted \cup {"out", "waiting", "locking", "running", "sleeping", "ended"}

\* The calls for which a process is there, or is about to be made.
Engaged   == {c \in Calls : at[c] \in Owning \cup {"connecting"}}

WorkersTypeOK ==
  /\ backend \in BOOLEAN /\ deadline \in BOOLEAN
  /\ kind \in [Calls -> Kinds]
  /\ at \in [Calls -> Places]
  /\ client \in [Calls -> Clients \cup {NoClient}]
  /\ permit \subseteq Calls /\ poisoned \subseteq Calls
  /\ pool \in Seq(Clients)
  /\ health \in [Clients -> {"free", "live", "hung", "dead", "dropped"}]
  /\ talk \in [Clients -> SUBSET Calls]
  /\ child \in [Calls -> {"none", "running", "gone"}]
  /\ remote \in [Calls -> {"none", "working", "ended"}]
  /\ lock \in Calls \cup {NoCall}
  /\ answer \in [Calls -> {"none", "output", "error", "timeout"}]
  /\ faults \in Nat

\* Permits and processes follow the program counter of the call.
PermitsFollow ==
  /\ \A c \in Calls : c \in permit <=> at[c] \in Permitted
  /\ Cardinality(permit) <= Permits
  /\ \A c \in Calls : client[c] # NoClient <=> at[c] \in Owning

\* The pool was empty when a call set out to make a process; what was returned since then
\* left a call that no longer has one.  So the sum of the calls that have or make a process
\* and of the pooled ones never exceeds the permits, though a permit is released only
\* after the process was returned.
RoomForAll == Cardinality(Engaged) + Len(pool) <= Permits

\* One owner for each process, and a process that is owned exists.
OneOwner ==
  /\ \A c, d \in Calls : c # d /\ client[c] # NoClient => client[c] # client[d]
  /\ \A c \in Calls : \A i \in 1 .. Len(pool) : client[c] # pool[i]
  /\ \A i, j \in 1 .. Len(pool) : pool[i] = pool[j] => i = j
  /\ \A c \in Calls : client[c] # NoClient => health[client[c]] \in {"live", "hung", "dead"}
  /\ \A i \in 1 .. Len(pool) : health[pool[i]] \in {"live", "hung", "dead"}

\* Before the prompt the conversation is empty; after it, it holds that prompt.
TalkFresh ==
  \A c \in Calls : /\ at[c] \in {"opening", "prompting"} => talk[client[c]] = {}
                   /\ at[c] = "reading" => talk[client[c]] = {c}

\* Where a spawned process may be running.
ChildWaited ==
  \A c \in Calls : child[c] = "running" =>
    at[c] = "running" \/ (at[c] = "ended" /\ kind[c] = "mcp" /\ answer[c] = "timeout")

WorkersIInv == WorkersTypeOK /\ PermitsFollow /\ RoomForAll /\ OneOwner /\ TalkFresh /\ ChildWaited

-----------------------------------------------------------------------------
(* What steps of the pool do.                                              *)

LEMMA CallSets ==
  ASSUME NEW S \in SUBSET Calls
  PROVE  IsFiniteSet(S) /\ Cardinality(S) \in Nat
BY WorkersAssumption, FS_Subset, FS_CardinalityType

\* A new process has an identity that nobody else has.
LEMMA ConnectEffect ==
  ASSUME NEW c \in Calls, Connect(c)
  PROVE  \E p \in Clients :
           /\ at[c] = "connecting" /\ health[p] = "free"
           /\ at' = [at EXCEPT ![c] = "opening"]
           /\ client' = [client EXCEPT ![c] = p]
           /\ health' = [health EXCEPT ![p] = "live"]
           /\ talk' = [talk EXCEPT ![p] = {}]
           /\ UNCHANGED <<setVars, otherVars, permit, poisoned, pool, answer, faults>>
<1> DEFINE p == CHOOSE q \in Free : TRUE
<1>1. p \in Clients /\ health[p] = "free" BY DEF Connect, Free
<1> QED BY <1>1 DEF Connect, Go, AgentStep

-----------------------------------------------------------------------------
(* Type correctness                                                        *)

LEMMA WorkersInitType == WorkersInit => WorkersTypeOK
BY WorkersAssumption DEF WorkersInit, WorkersTypeOK, Places, Permitted, Owning

LEMMA AgentStepType ==
  ASSUME WorkersTypeOK, NEW c \in Calls, AgentSteps(c)
  PROVE  WorkersTypeOK'
<1> USE WorkersAssumption DEF WorkersTypeOK, Places, Permitted, Owning, AgentStep, Go, End,
        setVars, otherVars, poolVars
<1>1. CASE Acquire(c) BY <1>1 DEF Acquire
<1>2. CASE Pop(c)
  <2>1. CASE pool = <<>> BY <1>2, <2>1 DEF Pop
  <2>2. CASE pool # <<>>
    <3>1. Head(pool) \in Clients /\ Tail(pool) \in Seq(Clients) BY <2>2, HeadTailProperties
    <3>2. /\ client' = [client EXCEPT ![c] = Head(pool)] /\ pool' = Tail(pool)
          /\ at' = [at EXCEPT ![c] = "checking"]
          /\ UNCHANGED <<backend, deadline, kind, permit, poisoned, health, talk, child, remote,
                         lock, answer, faults>>
      BY <1>2, <2>2 DEF Pop
    <3>3. client' \in [Calls -> Clients \cup {NoClient}] BY <3>1, <3>2
    <3>4. at' \in [Calls -> Places] BY <3>2
    <3> QED BY <3>1, <3>2, <3>3, <3>4
  <2> QED BY <2>1, <2>2
<1>3. CASE Healthy(c) BY <1>3 DEF Healthy
<1>4. CASE Unhealthy(c) BY <1>4 DEF Unhealthy, Dropped
<1>5. CASE Connect(c)
  <2>1. PICK p \in Clients :
          /\ at' = [at EXCEPT ![c] = "opening"] /\ client' = [client EXCEPT ![c] = p]
          /\ health' = [health EXCEPT ![p] = "live"] /\ talk' = [talk EXCEPT ![p] = {}]
          /\ UNCHANGED <<setVars, otherVars, permit, poisoned, pool, answer, faults>>
    BY <1>5, ConnectEffect
  <2> QED BY <2>1
<1>6. CASE Reset(c) BY <1>6 DEF Reset
<1>7. CASE Initialize(c) BY <1>7 DEF Initialize
<1>8. CASE OpenFails(c) BY <1>8 DEF OpenFails, Dropped
<1>9. CASE SetModelFails(c) BY <1>9 DEF SetModelFails
<1>10. CASE Prompt(c) BY <1>10 DEF Prompt
<1>11. CASE Read(c) BY <1>11 DEF Read
<1>12. CASE PromptFails(c) BY <1>12 DEF PromptFails
<1>13. CASE Return(c)
  <2>1. Append(pool, client[c]) \in Seq(Clients)
    BY <1>13, AppendProperties DEF Return, Live
  <2> QED BY <1>13, <2>1 DEF Return
<1>14. CASE Discard(c) BY <1>14 DEF Discard, Dropped
<1>15. CASE Release(c) BY <1>15 DEF Release
<1> QED
  BY <1>1, <1>2, <1>3, <1>4, <1>5, <1>6, <1>7, <1>8, <1>9, <1>10, <1>11, <1>12, <1>13,
     <1>14, <1>15 DEF AgentSteps

LEMMA WorkersNextType == WorkersTypeOK /\ [WorkersNext]_workerVars => WorkersTypeOK'
<1> SUFFICES ASSUME WorkersTypeOK, [WorkersNext]_workerVars PROVE WorkersTypeOK'
  OBVIOUS
<1> USE WorkersAssumption DEF WorkersTypeOK, Places, Permitted, Owning, PlainStep, Go, End,
        setVars, otherVars, poolVars, Spawns, Unlocks
<1>1. ASSUME NEW c \in Calls, Start(c) PROVE WorkersTypeOK'
  <2>1. Route(c) \in {"locking", "running", "waiting"} BY DEF Route
  <2>2. UNCHANGED <<setVars, poolVars, remote, lock, faults>> BY <1>1 DEF Start
  <2>3. at' \in [Calls -> Places] BY <1>1, <2>1 DEF Start
  <2>4. answer' \in [Calls -> {"none", "output", "error", "timeout"}] BY <1>1 DEF Start
  <2>5. child' \in [Calls -> {"none", "running", "gone"}] BY <1>1 DEF Start
  <2> QED BY <2>2, <2>3, <2>4, <2>5
<1>2. ASSUME NEW c \in Calls, AgentSteps(c) PROVE WorkersTypeOK'
  BY <1>2, AgentStepType
<1>3. ASSUME NEW c \in Calls, Lock(c) PROVE WorkersTypeOK'
  BY <1>3 DEF Lock
<1>4. ASSUME NEW c \in Calls, PlainSteps(c) PROVE WorkersTypeOK'
  <2>1. CASE Exits(c) BY <2>1 DEF Exits
  <2>2. CASE Receives(c) BY <2>2 DEF Receives
  <2>3. CASE Finishes(c) BY <2>3 DEF Finishes
  <2>4. CASE Told(c) BY <2>4 DEF Told
  <2>5. CASE NotTold(c) BY <2>5 DEF NotTold
  <2> QED BY <1>4, <2>1, <2>2, <2>3, <2>4, <2>5 DEF PlainSteps
<1>5. ASSUME NEW c \in Calls, Poll(c) PROVE WorkersTypeOK'
  BY <1>5 DEF Poll
<1>6. ASSUME NEW c \in Calls, TimesOut(c) PROVE WorkersTypeOK'
  BY <1>6 DEF TimesOut
<1>7. ASSUME NEW c \in Calls, DeadlinePasses(c) PROVE WorkersTypeOK'
  BY <1>7 DEF DeadlinePasses, Dropped, Kills
<1>8. ASSUME NEW p \in Clients, Fault(p) \/ Reap(p) PROVE WorkersTypeOK'
  BY <1>8 DEF Fault, Reap
<1>9. CASE UNCHANGED workerVars BY <1>9 DEF workerVars
<1> QED
  BY <1>1, <1>2, <1>3, <1>4, <1>5, <1>6, <1>7, <1>8, <1>9 DEF WorkersNext

-----------------------------------------------------------------------------
(* Permits                                                                 *)

\* Acquire takes a permit while one is free, and every step that takes a call from the
\* places with a permit to one without gives it back.
LEMMA PermitsStep ==
  WorkersTypeOK /\ PermitsFollow /\ [WorkersNext]_workerVars => PermitsFollow'
<1> SUFFICES ASSUME WorkersTypeOK, PermitsFollow, [WorkersNext]_workerVars PROVE PermitsFollow'
  OBVIOUS
<1>0. WorkersTypeOK' BY WorkersNextType
<1> USE <1>0, WorkersAssumption DEF WorkersTypeOK, PermitsFollow, Places, Permitted, Owning,
        AgentStep, PlainStep, Go, End, setVars, otherVars, poolVars
<1> DEFINE Follows ==
             /\ \A c \in Calls : c \in permit' <=> at'[c] \in Permitted
             /\ \A c \in Calls : client'[c] # NoClient <=> at'[c] \in Owning
<1>a. ASSUME NEW c \in Calls, permit' = permit \/ permit' = permit \ {c}
      PROVE  Cardinality(permit') <= Permits
  <2>1. IsFiniteSet(permit) /\ Cardinality(permit) \in Nat BY CallSets
  <2>2. CASE permit' = permit BY <2>2
  <2>3. CASE permit' = permit \ {c}
    <3>1. Cardinality(permit') \in Nat /\ Cardinality(permit') <= Cardinality(permit)
      BY <2>1, <2>3, FS_Subset, FS_CardinalityType
    <3> QED BY <2>1, <3>1
  <2> QED BY <1>a, <2>2, <2>3
<1>1. ASSUME NEW c \in Calls, Start(c) PROVE PermitsFollow'
  <2>1. Route(c) \in {"locking", "running", "waiting"} BY DEF Route
  <2> QED BY <1>1, <2>1 DEF Start
<1>2. ASSUME NEW c \in Calls, AgentSteps(c) PROVE PermitsFollow'
  <2>1. CASE Acquire(c)
    <3>1. c \notin permit /\ permit' = permit \cup {c} BY <2>1 DEF Acquire
    <3>2. Cardinality(permit) \in Nat /\ Cardinality(permit') = Cardinality(permit) + 1
      BY <3>1, CallSets, FS_AddElement
    <3>3. Cardinality(permit') <= Permits BY <2>1, <3>2 DEF Acquire
    <3> QED BY <2>1, <3>3 DEF Acquire
  <2>2. CASE Pop(c)
    <3>1. CASE pool = <<>> BY <2>2, <3>1 DEF Pop
    <3>2. CASE pool # <<>>
      <4>1. PICK p \in Clients : client' = [client EXCEPT ![c] = p]
        BY <2>2, <3>2, HeadTailProperties DEF Pop
      <4> QED BY <2>2, <3>2, <4>1 DEF Pop
    <3> QED BY <3>1, <3>2
  <2>3. CASE Healthy(c) BY <2>3 DEF Healthy
  <2>4. CASE Unhealthy(c) BY <2>4 DEF Unhealthy, Dropped
  <2>5. CASE Connect(c)
    <3>1. PICK p \in Clients :
            /\ at[c] = "connecting" /\ at' = [at EXCEPT ![c] = "opening"]
            /\ client' = [client EXCEPT ![c] = p] /\ permit' = permit
      BY <2>5, ConnectEffect
    <3> QED BY <3>1
  <2>6. CASE Reset(c) BY <2>6 DEF Reset
  <2>7. CASE Initialize(c) BY <2>7 DEF Initialize
  <2>8. CASE OpenFails(c)
    <3>1. Follows BY <2>8 DEF OpenFails, Dropped
    <3> QED BY <2>8, <3>1, <1>a DEF OpenFails
  <2>9. CASE SetModelFails(c) BY <2>9 DEF SetModelFails
  <2>10. CASE Prompt(c) BY <2>10 DEF Prompt
  <2>11. CASE Read(c) BY <2>11 DEF Read
  <2>12. CASE PromptFails(c) BY <2>12 DEF PromptFails
  <2>13. CASE Return(c) BY <2>13 DEF Return
  <2>14. CASE Discard(c) BY <2>14 DEF Discard, Dropped
  <2>15. CASE Release(c)
    <3>1. Follows BY <2>15 DEF Release
    <3> QED BY <2>15, <3>1, <1>a DEF Release
  <2> QED
    BY <1>2, <2>1, <2>2, <2>3, <2>4, <2>5, <2>6, <2>7, <2>8, <2>9, <2>10, <2>11, <2>12,
       <2>13, <2>14, <2>15 DEF AgentSteps
<1>3. ASSUME NEW c \in Calls, Lock(c) PROVE PermitsFollow'
  BY <1>3 DEF Lock
<1>4. ASSUME NEW c \in Calls, PlainSteps(c) PROVE PermitsFollow'
  <2>1. CASE Exits(c) BY <2>1 DEF Exits
  <2>2. CASE Receives(c) BY <2>2 DEF Receives
  <2>3. CASE Finishes(c) BY <2>3 DEF Finishes
  <2>4. CASE Told(c) BY <2>4 DEF Told
  <2>5. CASE NotTold(c) BY <2>5 DEF NotTold
  <2> QED BY <1>4, <2>1, <2>2, <2>3, <2>4, <2>5 DEF PlainSteps
<1>5. ASSUME NEW c \in Calls, Poll(c) PROVE PermitsFollow'
  BY <1>5 DEF Poll
<1>6. ASSUME NEW c \in Calls, TimesOut(c) PROVE PermitsFollow'
  BY <1>6 DEF TimesOut
<1>7. ASSUME NEW c \in Calls, DeadlinePasses(c) PROVE PermitsFollow'
  <2>1. Follows BY <1>7 DEF DeadlinePasses, Dropped
  <2> QED BY <1>7, <2>1, <1>a DEF DeadlinePasses
<1>8. ASSUME NEW p \in Clients, Fault(p) \/ Reap(p) PROVE PermitsFollow'
  BY <1>8 DEF Fault, Reap
<1>9. CASE UNCHANGED workerVars BY <1>9 DEF workerVars
<1> QED
  BY <1>1, <1>2, <1>3, <1>4, <1>5, <1>6, <1>7, <1>8, <1>9 DEF WorkersNext

-----------------------------------------------------------------------------
(* Room in the pool                                                        *)

\* Only Pop makes a call engaged, and what Pop and Return do to the sum: a call that finds
\* the pool empty is one of the permitted, and the engaged are among these; any other Pop
\* takes a process from the pool, and Return puts one there.
LEMMA RoomStep ==
  WorkersTypeOK /\ PermitsFollow /\ RoomForAll /\ [WorkersNext]_workerVars => RoomForAll'
<1> SUFFICES ASSUME WorkersTypeOK, PermitsFollow, RoomForAll, [WorkersNext]_workerVars
             PROVE  RoomForAll'
  OBVIOUS
<1>0. WorkersTypeOK' /\ PermitsFollow' BY WorkersNextType, PermitsStep
<1> DEFINE E == Engaged
<1>e. /\ IsFiniteSet(E) /\ Cardinality(E) \in Nat
      /\ IsFiniteSet(E') /\ Cardinality(E') \in Nat
  BY CallSets DEF Engaged
<1>n. Permits \in Nat /\ Len(pool) \in Nat /\ Len(pool') \in Nat
  BY <1>0, WorkersAssumption, LenProperties DEF WorkersTypeOK
<1>u. Cardinality(E) + Len(pool) <= Permits BY DEF RoomForAll
<1>l. ASSUME E' \subseteq E, pool' = pool PROVE RoomForAll'
  <2>1. Cardinality(E') <= Cardinality(E) BY <1>e, <1>l, FS_Subset
  <2> QED BY <1>e, <1>n, <1>u, <1>l, <2>1 DEF RoomForAll
<1> USE DEF Engaged, Permitted, Owning, Places, AgentStep, PlainStep, Go, End, poolVars,
            WorkersTypeOK
<1>1. ASSUME NEW c \in Calls, Start(c) PROVE RoomForAll'
  <2>1. Route(c) \in {"locking", "running", "waiting"} BY DEF Route
  <2> HIDE DEF Route
  <2>2. E' \subseteq E BY <1>1, <2>1 DEF Start
  <2> QED BY <1>1, <1>l, <2>2 DEF Start
<1>2. ASSUME NEW c \in Calls, AgentSteps(c) PROVE RoomForAll'
  <2>1. CASE Acquire(c)
    <3>1. E' \subseteq E /\ pool' = pool BY <2>1 DEF Acquire
    <3> QED BY <3>1, <1>l
  <2>2. CASE Pop(c) /\ pool = <<>>
    <3>1. E' \subseteq permit' BY <2>2, <1>0 DEF Pop, PermitsFollow
    <3>2. IsFiniteSet(permit') /\ Cardinality(permit') <= Permits
      BY <1>0, CallSets DEF PermitsFollow
    <3>3. Cardinality(E') <= Cardinality(permit') BY <3>1, <3>2, FS_Subset
    <3>4. Cardinality(permit') \in Nat BY <1>0, CallSets
    <3>5. Len(pool') = 0 BY <2>2 DEF Pop
    <3> QED BY <1>e, <1>n, <3>2, <3>3, <3>4, <3>5 DEF RoomForAll
  <2>3. CASE Pop(c) /\ pool # <<>>
    <3>1. c \notin E /\ E' = E \cup {c} BY <2>3 DEF Pop
    <3>2. Cardinality(E') = Cardinality(E) + 1 BY <1>e, <3>1, FS_AddElement
    <3>3. Len(pool') = Len(pool) - 1 BY <2>3, HeadTailProperties DEF Pop
    <3> QED BY <1>e, <1>n, <1>u, <3>2, <3>3 DEF RoomForAll
  <2>4. CASE Return(c)
    <3>1. c \in E /\ E' = E \ {c} BY <2>4 DEF Return
    <3> HIDE DEF Engaged
    <3>2. Cardinality(E') = Cardinality(E) - 1 BY <1>e, <3>1, FS_RemoveElement
    <3>3. Len(pool') = Len(pool) + 1
      BY <2>4, AppendProperties DEF Return, Live
    <3> QED BY <1>e, <1>n, <1>u, <3>2, <3>3 DEF RoomForAll
  <2>5. CASE Connect(c)
    <3>1. E' \subseteq E /\ pool' = pool BY <2>5, ConnectEffect
    <3> QED BY <3>1, <1>l
  <2>6. CASE Healthy(c) \/ Unhealthy(c) \/ Reset(c) \/ Initialize(c) \/ OpenFails(c)
    <3>1. E' \subseteq E /\ pool' = pool
      BY <2>6 DEF Healthy, Unhealthy, Reset, Initialize, OpenFails
    <3> QED BY <3>1, <1>l
  <2>7. CASE SetModelFails(c) \/ Prompt(c) \/ Read(c) \/ PromptFails(c)
    <3>1. E' \subseteq E /\ pool' = pool
      BY <2>7 DEF SetModelFails, Prompt, Read, PromptFails
    <3> QED BY <3>1, <1>l
  <2>8. CASE Discard(c) \/ Release(c)
    <3>1. E' \subseteq E /\ pool' = pool BY <2>8 DEF Discard, Release
    <3> QED BY <3>1, <1>l
  <2> QED BY <1>2, <2>1, <2>2, <2>3, <2>4, <2>5, <2>6, <2>7, <2>8 DEF AgentSteps
<1>3. ASSUME NEW c \in Calls, Lock(c) \/ Poll(c) \/ TimesOut(c) PROVE RoomForAll'
  <2>1. E' \subseteq E /\ pool' = pool BY <1>3 DEF Lock, Poll, TimesOut
  <2> QED BY <2>1, <1>l
<1>4. ASSUME NEW c \in Calls, PlainSteps(c) PROVE RoomForAll'
  <2>1. E' \subseteq E /\ pool' = pool
    BY <1>4 DEF PlainSteps, Exits, Receives, Finishes, Told, NotTold
  <2> QED BY <2>1, <1>l
<1>5. ASSUME NEW c \in Calls, DeadlinePasses(c) PROVE RoomForAll'
  <2>1. E' \subseteq E /\ pool' = pool BY <1>5 DEF DeadlinePasses
  <2> QED BY <2>1, <1>l
<1>6. ASSUME NEW p \in Clients, Fault(p) \/ Reap(p) PROVE RoomForAll'
  <2>1. E' \subseteq E /\ pool' = pool BY <1>6 DEF Fault, Reap
  <2> QED BY <2>1, <1>l
<1>7. CASE UNCHANGED workerVars
  <2>1. E' \subseteq E /\ pool' = pool BY <1>7 DEF workerVars
  <2> QED BY <2>1, <1>l
<1> QED BY <1>1, <1>2, <1>3, <1>4, <1>5, <1>6, <1>7 DEF WorkersNext

-----------------------------------------------------------------------------
(* Owners of processes                                                     *)

\* A process is taken from the pool, from the free ones, or not at all; and one that a call
\* drops was its own.
LEMMA OwnerStep ==
  WorkersTypeOK /\ PermitsFollow /\ OneOwner /\ [WorkersNext]_workerVars => OneOwner'
<1> SUFFICES ASSUME WorkersTypeOK, PermitsFollow, OneOwner, [WorkersNext]_workerVars
             PROVE  OneOwner'
  OBVIOUS
<1>0. WorkersTypeOK' BY WorkersNextType
<1> USE WorkersAssumption DEF WorkersTypeOK, OneOwner, AgentStep, PlainStep, poolVars
<1>s. ASSUME client' = client, pool' = pool, health' = health PROVE OneOwner'
  BY <1>s
<1>d. ASSUME NEW c \in Calls, Dropped(c), pool' = pool PROVE OneOwner'
  BY <1>0, <1>d DEF Dropped
<1>1. ASSUME NEW c \in Calls, Start(c) PROVE OneOwner'
  BY <1>1, <1>s DEF Start
<1>2. ASSUME NEW c \in Calls, AgentSteps(c) PROVE OneOwner'
  <2>1. CASE Pop(c)
    <3>1. CASE pool = <<>> BY <2>1, <3>1, <1>s DEF Pop
    <3>2. CASE pool # <<>>
      <4>1. /\ Head(pool) = pool[1] /\ Len(pool) \in Nat \ {0}
            /\ pool' = Tail(pool) /\ Len(pool') = Len(pool) - 1
        BY <2>1, <3>2, HeadTailProperties, LenProperties, EmptySeq DEF Pop
      <4>2. \A i \in 1 .. Len(pool') :
              i + 1 \in 1 .. Len(pool) /\ i + 1 # 1 /\ pool'[i] = pool[i + 1]
        BY <3>2, <4>1, HeadTailProperties
      <4>3. 1 \in 1 .. Len(pool) /\ pool[1] \in Clients BY <4>1
      <4>4. client' = [client EXCEPT ![c] = pool[1]] /\ health' = health
        BY <2>1, <3>2, <4>1 DEF Pop
      <4>5. \A a, b \in Calls : a # b /\ client'[a] # NoClient => client'[a] # client'[b]
        BY <4>3, <4>4
      <4>6. \A a \in Calls : \A i \in 1 .. Len(pool') : client'[a] # pool'[i]
        BY <4>2, <4>3, <4>4
      <4>7. \A i, j \in 1 .. Len(pool') : pool'[i] = pool'[j] => i = j
        BY <4>2
      <4>8. \A a \in Calls :
              client'[a] # NoClient => health'[client'[a]] \in {"live", "hung", "dead"}
        BY <4>3, <4>4
      <4>9. \A i \in 1 .. Len(pool') : health'[pool'[i]] \in {"live", "hung", "dead"}
        BY <4>2, <4>4
      <4> QED BY <4>5, <4>6, <4>7, <4>8, <4>9
    <3> QED BY <3>1, <3>2
  <2>2. CASE Connect(c)
    <3>1. PICK p \in Clients :
            /\ health[p] = "free" /\ health' = [health EXCEPT ![p] = "live"]
            /\ client' = [client EXCEPT ![c] = p] /\ pool' = pool
      BY <2>2, ConnectEffect
    <3>2. \A a \in Calls : client[a] # p BY <3>1
    <3>3. \A i \in 1 .. Len(pool) : pool[i] # p BY <3>1
    <3> QED BY <3>1, <3>2, <3>3
  <2>3. CASE Return(c)
    <3>1. client[c] \in Clients /\ health[client[c]] = "live" BY <2>3 DEF Return, Live
    <3>2. /\ Len(pool') = Len(pool) + 1 /\ pool'[Len(pool) + 1] = client[c]
          /\ \A i \in 1 .. Len(pool) : pool'[i] = pool[i]
      BY <2>3, <3>1, AppendProperties DEF Return
    <3>3. \A i \in 1 .. Len(pool') : i = Len(pool) + 1 \/ i \in 1 .. Len(pool)
      BY <3>2, LenProperties
    <3>4. client' = [client EXCEPT ![c] = NoClient] /\ health' = health BY <2>3 DEF Return
    <3>5. \A a, b \in Calls : a # b /\ client'[a] # NoClient => client'[a] # client'[b]
      BY <3>4
    <3>6. \A a \in Calls : \A i \in 1 .. Len(pool') : client'[a] # pool'[i]
      BY <3>1, <3>2, <3>3, <3>4
    <3>7. \A i, j \in 1 .. Len(pool') : pool'[i] = pool'[j] => i = j
      BY <3>2, <3>3
    <3>8. \A a \in Calls : client'[a] # NoClient => health'[client'[a]] \in {"live", "hung", "dead"}
      BY <3>4
    <3>9. \A i \in 1 .. Len(pool') : health'[pool'[i]] \in {"live", "hung", "dead"}
      BY <3>1, <3>2, <3>3, <3>4
    <3> QED BY <3>5, <3>6, <3>7, <3>8, <3>9
  <2>4. CASE Unhealthy(c) \/ OpenFails(c) \/ Discard(c)
    BY <2>4, <1>d DEF Unhealthy, OpenFails, Discard
  <2>5. CASE Acquire(c) \/ Healthy(c) \/ Reset(c) \/ Initialize(c) \/ SetModelFails(c)
    BY <2>5, <1>s DEF Acquire, Healthy, Reset, Initialize, SetModelFails
  <2>6. CASE Prompt(c) \/ Read(c) \/ PromptFails(c) \/ Release(c)
    BY <2>6, <1>s DEF Prompt, Read, PromptFails, Release
  <2> QED BY <1>2, <2>1, <2>2, <2>3, <2>4, <2>5, <2>6 DEF AgentSteps
<1>3. ASSUME NEW c \in Calls, Lock(c) \/ PlainSteps(c) \/ Poll(c) \/ TimesOut(c)
      PROVE  OneOwner'
  BY <1>3, <1>s DEF Lock, PlainSteps, Exits, Receives, Finishes, Told, NotTold, Poll, TimesOut
<1>4. ASSUME NEW c \in Calls, DeadlinePasses(c) PROVE OneOwner'
  BY <1>4, <1>d DEF DeadlinePasses
<1>5. ASSUME NEW p \in Clients, Fault(p) \/ Reap(p) PROVE OneOwner'
  <2>1. CASE Fault(p)
    <3>1. PICK h \in {"dead", "hung"} : health' = [health EXCEPT ![p] = h] BY <2>1 DEF Fault
    <3>2. client' = client /\ pool' = pool BY <2>1 DEF Fault
    <3> QED BY <3>1, <3>2
  <2>2. CASE Reap(p)
    <3>1. /\ health[p] = "dropped" /\ health' = [health EXCEPT ![p] = "free"]
          /\ client' = client /\ pool' = pool
      BY <2>2 DEF Reap
    <3>2. \A a \in Calls : client[a] # p
      <4> SUFFICES ASSUME NEW a \in Calls, client[a] = p PROVE FALSE OBVIOUS
      <4>1. p # NoClient OBVIOUS
      <4> QED BY <3>1, <4>1
    <3>3. \A i \in 1 .. Len(pool) : pool[i] # p BY <3>1
    <3> QED BY <3>1, <3>2, <3>3
  <2> QED BY <1>5, <2>1, <2>2
<1>6. CASE UNCHANGED workerVars BY <1>6, <1>s DEF workerVars
<1> QED BY <1>1, <1>2, <1>3, <1>4, <1>5, <1>6 DEF WorkersNext

-----------------------------------------------------------------------------
(* Conversations                                                           *)

\* A call changes no conversation but that of its own process, which it has alone; and it
\* comes to "opening" only by new_session or with a new process.
LEMMA TalkStep ==
  /\ WorkersTypeOK /\ PermitsFollow /\ OneOwner /\ TalkFresh
  /\ [WorkersNext]_workerVars
  => TalkFresh'
<1> SUFFICES ASSUME WorkersTypeOK, PermitsFollow, OneOwner, TalkFresh, [WorkersNext]_workerVars
             PROVE  TalkFresh'
  OBVIOUS
<1> DEFINE Talking == {"opening", "prompting", "reading"}
<1>p. \A c \in Calls : at[c] \in Talking => client[c] \in Clients /\ client[c] # NoClient
  BY DEF WorkersTypeOK, PermitsFollow, Owning
<1>o. \A c, d \in Calls : c # d /\ client[c] # NoClient => client[c] # client[d]
  BY DEF OneOwner
<1>e. \A p \in Clients : health[p] = "free" => \A c \in Calls : client[c] # p
  BY WorkersAssumption DEF OneOwner
<1> USE DEF WorkersTypeOK, TalkFresh, AgentStep, PlainStep, Go, End, poolVars
\* A call that leaves the conversation, and all others alone.
<1>l. ASSUME NEW c \in Calls, NEW to \in Places \ Talking,
             at' = [at EXCEPT ![c] = to],
             client' = client \/ client' = [client EXCEPT ![c] = NoClient],
             \A p \in Clients : p # client[c] => talk'[p] = talk[p]
      PROVE  TalkFresh'
  BY <1>l, <1>p, <1>o
<1>s. ASSUME NEW c \in Calls, NEW to \in Places \ Talking,
             at' = [at EXCEPT ![c] = to] \/ at' = at, client' = client, talk' = talk
      PROVE  TalkFresh'
  BY <1>s
<1>d. ASSUME NEW c \in Calls, NEW to \in Places \ Talking,
             at' = [at EXCEPT ![c] = to], Dropped(c)
      PROVE  TalkFresh'
  BY <1>l, <1>d DEF Dropped
<1> USE DEF Places, Permitted, Owning
<1>1. ASSUME NEW c \in Calls, Start(c) PROVE TalkFresh'
  <2>1. Route(c) \in {"locking", "running", "waiting"} BY DEF Route
  <2>2. PICK to \in Places \ Talking : at' = [at EXCEPT ![c] = to] BY <1>1, <2>1 DEF Start
  <2> QED BY <1>1, <1>s, <2>2 DEF Start
<1>2. ASSUME NEW c \in Calls, AgentSteps(c) PROVE TalkFresh'
  <2>1. CASE Acquire(c) BY <2>1, <1>s DEF Acquire
  <2>2. CASE Pop(c)
    <3>1. PICK to \in {"connecting", "checking"} : at' = [at EXCEPT ![c] = to] BY <2>2 DEF Pop
    <3>2. at[c] = "taking" /\ talk' = talk /\ \A a \in Calls \ {c} : client'[a] = client[a]
      BY <2>2 DEF Pop
    <3> QED BY <3>1, <3>2
  <2>3. CASE Healthy(c) BY <2>3, <1>s DEF Healthy
  <2>4. CASE Unhealthy(c) BY <2>4, <1>d DEF Unhealthy
  <2>5. CASE Connect(c)
    <3>1. PICK p \in Clients :
            /\ health[p] = "free" /\ at' = [at EXCEPT ![c] = "opening"]
            /\ client' = [client EXCEPT ![c] = p] /\ talk' = [talk EXCEPT ![p] = {}]
      BY <2>5, ConnectEffect
    <3> QED BY <3>1, <1>e, <1>p
  <2>6. CASE Reset(c)
    <3>1. client[c] \in Clients /\ client[c] # NoClient BY <2>6 DEF Reset, Live
    <3> QED BY <2>6, <3>1, <1>o, <1>p DEF Reset
  <2>7. CASE Initialize(c) BY <2>7 DEF Initialize
  <2>8. CASE OpenFails(c) BY <2>8, <1>d DEF OpenFails
  <2>9. CASE SetModelFails(c) BY <2>9, <1>s DEF SetModelFails
  <2>10. CASE Prompt(c)
    <3>1. client[c] \in Clients /\ client[c] # NoClient BY <2>10 DEF Prompt, Live
    <3> QED BY <2>10, <3>1, <1>o, <1>p DEF Prompt
  <2>11. CASE Read(c) BY <2>11, <1>s DEF Read
  <2>12. CASE PromptFails(c)
    <3>1. client[c] \in Clients BY <2>12, <1>p DEF PromptFails
    <3>2. \A p \in Clients : p # client[c] => talk'[p] = talk[p] BY <2>12, <3>1 DEF PromptFails
    <3> QED BY <2>12, <3>2, <1>l DEF PromptFails
  <2>13. CASE Return(c)
    <3>1. at' = [at EXCEPT ![c] = "releasing"] /\ client' = [client EXCEPT ![c] = NoClient]
          /\ talk' = talk
      BY <2>13 DEF Return
    <3> QED BY <3>1, <1>l
  <2>14. CASE Discard(c) BY <2>14, <1>d DEF Discard
  <2>15. CASE Release(c) BY <2>15, <1>s DEF Release
  <2> QED
    BY <1>2, <2>1, <2>2, <2>3, <2>4, <2>5, <2>6, <2>7, <2>8, <2>9, <2>10, <2>11, <2>12,
       <2>13, <2>14, <2>15 DEF AgentSteps
<1>3. ASSUME NEW c \in Calls, Lock(c) \/ Poll(c) \/ TimesOut(c) PROVE TalkFresh'
  <2>1. client' = client /\ talk' = talk BY <1>3 DEF Lock, Poll, TimesOut
  <2>2. PICK to \in {"running", "ended"} : at' = [at EXCEPT ![c] = to]
    BY <1>3 DEF Lock, Poll, TimesOut
  <2> QED BY <2>1, <2>2, <1>s
<1>4. ASSUME NEW c \in Calls, PlainSteps(c) PROVE TalkFresh'
  <2>1. client' = client /\ talk' = talk
    BY <1>4 DEF PlainSteps, Exits, Receives, Finishes, Told, NotTold
  <2>2. CASE at' = at BY <2>1, <2>2
  <2>3. CASE at' # at
    <3>1. PICK to \in {"ended", "sleeping"} : at' = [at EXCEPT ![c] = to]
      BY <1>4, <2>3 DEF PlainSteps, Exits, Receives, Finishes, Told, NotTold
    <3> QED BY <2>1, <3>1, <1>s
  <2> QED BY <2>2, <2>3
<1>5. ASSUME NEW c \in Calls, DeadlinePasses(c) PROVE TalkFresh'
  BY <1>5, <1>d DEF DeadlinePasses
<1>6. ASSUME NEW p \in Clients, Fault(p) \/ Reap(p) PROVE TalkFresh'
  BY <1>6 DEF Fault, Reap
<1>7. CASE UNCHANGED workerVars BY <1>7 DEF workerVars
<1> QED BY <1>1, <1>2, <1>3, <1>4, <1>5, <1>6, <1>7 DEF WorkersNext

-----------------------------------------------------------------------------
(* Processes that were spawned                                             *)

\* Where the future of a running process is dropped, kill_on_drop kills it, the curl of an
\* MCP call excepted.
LEMMA ChildStep == WorkersTypeOK /\ ChildWaited /\ [WorkersNext]_workerVars => ChildWaited'
<1> SUFFICES ASSUME WorkersTypeOK, ChildWaited, [WorkersNext]_workerVars PROVE ChildWaited'
  OBVIOUS
<1> USE DEF WorkersTypeOK, ChildWaited, AgentStep, PlainStep, Go, End, Spawns, setVars, otherVars
<1>1. ASSUME NEW c \in Calls, Start(c) PROVE ChildWaited'
  <2>1. Unknown(c) => Route(c) # "running" BY DEF Unknown, Route
  <2>2. Route(c) \in {"locking", "running", "waiting"} BY DEF Route
  <2> QED BY <1>1, <2>1, <2>2 DEF Start
<1>2. ASSUME NEW c \in Calls, AgentSteps(c) PROVE ChildWaited'
  <2>1. at[c] \notin {"running", "ended"}
    BY <1>2 DEF AgentSteps, Acquire, Pop, Healthy, Unhealthy, Connect, Reset, Initialize,
                OpenFails, SetModelFails, Prompt, Read, PromptFails, Return, Discard, Release
  <2>2. child' = child /\ kind' = kind
    BY <1>2 DEF AgentSteps, Acquire, Pop, Healthy, Unhealthy, Connect, Reset, Initialize,
                OpenFails, SetModelFails, Prompt, Read, PromptFails, Return, Discard, Release
  <2>3. \A a \in Calls \ {c} : at'[a] = at[a] /\ answer'[a] = answer[a]
    BY <1>2 DEF AgentSteps, Acquire, Pop, Healthy, Unhealthy, Connect, Reset, Initialize,
                OpenFails, SetModelFails, Prompt, Read, PromptFails, Return, Discard, Release
  <2> QED BY <2>1, <2>2, <2>3
<1>3. ASSUME NEW c \in Calls, Lock(c) \/ Poll(c) \/ TimesOut(c) PROVE ChildWaited'
  BY <1>3 DEF Lock, Poll, TimesOut
<1>4. ASSUME NEW c \in Calls, PlainSteps(c) PROVE ChildWaited'
  <2>1. CASE Exits(c) BY <2>1 DEF Exits
  <2>2. CASE Receives(c) BY <2>2 DEF Receives
  <2>3. CASE Finishes(c) BY <2>3 DEF Finishes
  <2>4. CASE Told(c) BY <2>4 DEF Told
  <2>5. CASE NotTold(c) BY <2>5 DEF NotTold
  <2> QED BY <1>4, <2>1, <2>2, <2>3, <2>4, <2>5 DEF PlainSteps
<1>5. ASSUME NEW c \in Calls, DeadlinePasses(c) PROVE ChildWaited'
  BY <1>5 DEF DeadlinePasses, Kills
<1>6. ASSUME NEW p \in Clients, Fault(p) \/ Reap(p) PROVE ChildWaited'
  BY <1>6 DEF Fault, Reap
<1>7. CASE UNCHANGED workerVars BY <1>7 DEF workerVars
<1> QED BY <1>1, <1>2, <1>3, <1>4, <1>5, <1>6, <1>7 DEF WorkersNext

-----------------------------------------------------------------------------
(* The theorems                                                            *)

LEMMA WorkersInitIInv == WorkersInit => WorkersIInv
<1> SUFFICES ASSUME WorkersInit PROVE WorkersIInv OBVIOUS
<1>1. WorkersTypeOK BY WorkersInitType
<1>2. permit = {} /\ pool = <<>> /\ Engaged = {}
  BY DEF WorkersInit, Engaged, Owning
<1>3. PermitsFollow
  BY <1>2, FS_EmptySet, WorkersAssumption DEF PermitsFollow, WorkersInit, Permitted, Owning
<1>4. RoomForAll BY <1>2, FS_EmptySet, WorkersAssumption, EmptySeq DEF RoomForAll
<1>5. OneOwner BY <1>2 DEF OneOwner, WorkersInit
<1>6. TalkFresh /\ ChildWaited BY DEF TalkFresh, ChildWaited, WorkersInit
<1> QED BY <1>1, <1>3, <1>4, <1>5, <1>6 DEF WorkersIInv

\* Every step of a call, of its deadline, and of a process preserves the invariant.
THEOREM WorkersInvariance == WorkersSpec => []WorkersIInv
<1>1. WorkersIInv /\ [WorkersNext]_workerVars => WorkersIInv'
  BY WorkersNextType, PermitsStep, RoomStep, OwnerStep, TalkStep, ChildStep DEF WorkersIInv
<1> QED BY WorkersInitIInv, <1>1, PTL DEF WorkersSpec

LEMMA PoolBounded == WorkersIInv => CapacityKept
<1> SUFFICES ASSUME WorkersIInv PROVE CapacityKept OBVIOUS
<1> USE DEF WorkersIInv
<1> DEFINE Owners == {c \in Calls : client[c] # NoClient}
<1>1. /\ IsFiniteSet(Owners) /\ Cardinality(Owners) \in Nat
      /\ IsFiniteSet(Engaged) /\ Cardinality(Engaged) \in Nat
  BY CallSets DEF Engaged
<1>2. Cardinality(Owners) <= Cardinality(Engaged)
  <2>1. Owners \subseteq Engaged BY DEF PermitsFollow, Engaged
  <2> QED BY <1>1, <2>1, FS_Subset
<1>3. IsFiniteSet(Held) /\ Cardinality(Held) <= Cardinality(Owners)
  <2> DEFINE f == [c \in Owners |-> client[c]]
  <2>1. f \in Surjection(Owners, Held) BY Fun_IsSurj DEF Held
  <2> QED BY <1>1, <2>1, FS_Surjection
<1>4. Len(pool) \in Nat /\ pool \in [1 .. Len(pool) -> Clients]
  BY LenProperties DEF WorkersTypeOK
<1>5. IsFiniteSet(Pooled) /\ Cardinality(Pooled) = Len(pool)
  <2>1. Pooled = {pool[i] : i \in 1 .. Len(pool)} BY <1>4 DEF Pooled, ToSet
  <2>2. pool \in Bijection(1 .. Len(pool), Pooled)
    <3>1. pool \in [1 .. Len(pool) -> Pooled] BY <1>4, <2>1
    <3>2. \A i, j \in 1 .. Len(pool) : pool[i] = pool[j] => i = j BY DEF OneOwner
    <3>3. \A p \in Pooled : \E i \in 1 .. Len(pool) : pool[i] = p BY <2>1
    <3> QED BY <3>1, <3>2, <3>3, Fun_IsBij
  <2>3. ExistsBijection(1 .. Len(pool), Pooled) BY <2>2 DEF ExistsBijection
  <2>4. Cardinality(1 .. Len(pool)) = Len(pool) /\ IsFiniteSet(1 .. Len(pool))
    <3>1. 1 \in Int /\ Len(pool) \in Int /\ 1 <= Len(pool) + 1 /\ Len(pool) - 1 + 1 = Len(pool)
      BY <1>4
    <3>2. IsFiniteSet(1 .. Len(pool)) BY <3>1, FS_Interval
    <3>3. Cardinality(1 .. Len(pool)) = IF 1 > Len(pool) THEN 0 ELSE Len(pool) - 1 + 1
      BY <3>1, FS_Interval
    <3> QED BY <1>4, <3>2, <3>3
  <2> QED BY <2>3, <2>4, FS_Bijection
<1>6. Held \cap Pooled = {}
  <2>1. Pooled = {pool[i] : i \in 1 .. Len(pool)} BY <1>4 DEF Pooled, ToSet
  <2> QED BY <2>1 DEF Held, OneOwner
<1>7. Cardinality(Held \cup Pooled) = Cardinality(Held) + Cardinality(Pooled)
  <2>1. Cardinality(Held \cup Pooled)
          = Cardinality(Held) + Cardinality(Pooled) - Cardinality(Held \cap Pooled)
    BY <1>3, <1>5, FS_Union
  <2>2. Cardinality(Held \cap Pooled) = 0 BY <1>6, FS_EmptySet
  <2>3. Cardinality(Held) \in Nat /\ Cardinality(Pooled) \in Nat
    BY <1>3, <1>5, FS_CardinalityType
  <2> QED BY <2>1, <2>2, <2>3
<1>8. Cardinality(Held \cup Pooled) <= Permits
  BY <1>1, <1>2, <1>3, <1>4, <1>5, <1>7, FS_CardinalityType, WorkersAssumption DEF RoomForAll
<1>9. \A c, d \in Calls : c # d /\ client[c] = client[d] => client[c] = NoClient
  BY DEF OneOwner
<1> QED BY <1>5, <1>6, <1>8, <1>9 DEF CapacityKept

\* PiBackend never has more processes in use and in its pool than permits, and never gives
\* one process to two sessions, or to one and to the pool.
THEOREM CapacitySound == WorkersSpec => []CapacityKept
BY WorkersInvariance, PoolBounded, PTL

\* The text that a session reads is the answer to its own prompt, in a conversation
\* without any other: new_session, and the loss of poisoned sessions, see to it.
THEOREM ConversationsSound == WorkersSpec => []ConversationsApart
<1>1. WorkersIInv => ConversationsApart
  BY DEF WorkersIInv, TalkFresh, ConversationsApart
<1> QED BY <1>1, WorkersInvariance, PTL

\* A call that has ended, or sleeps between two polls, has no process left, but for the
\* curl of an MCP call at its deadline.
THEOREM NoOrphansSound == WorkersSpec => []NoOrphans
<1>1. WorkersIInv => NoOrphans
  BY DEF WorkersIInv, ChildWaited, NoOrphans
<1> QED BY <1>1, WorkersInvariance, PTL

=============================================================================
