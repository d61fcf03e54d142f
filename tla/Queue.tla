-------------------------------- MODULE Queue --------------------------------
(***************************************************************************)
(* The spec queue (src/queue, src/cli/queue.rs) and the autonomous driver  *)
(* (src/agent): passes over the queue.json files of the projects of a      *)
(* workspace.                                                              *)
(*                                                                         *)
(* A pass reads the files, decides on an order, and runs one spec at a     *)
(* time as a child process.  A queue pass works on its own copy of the     *)
(* files and writes a whole file from it after each change; an auto pass   *)
(* runs one spec and reads the file again before it writes.  Nothing       *)
(* keeps queue passes apart; the auto passes here share a pid lock (--lock *)
(* of the same path), which module PidLock models.                         *)
(*                                                                         *)
(* Every write succeeds.  Of what a child does only its exit status is     *)
(* seen, and whether it left a completed run with a failed node in the     *)
(* vault; a spec that is split (module Split) runs as one child, and the   *)
(* child of a pass that is killed is left out.                             *)
(***************************************************************************)
EXTENDS Naturals, FiniteSets, FiniteSetsExt, Sequences, SequencesExt

CONSTANTS
  Projects,    \* the projects of the workspace, numbered in path order
  SpecsOf,     \* the specs of each project, numbered by priority; a number is a file name
  Weights,     \* the weights that the queue files of the projects may hold
  UnitWeight,  \* the weight 1.0, the default
  Batch,       \* --batch
  NoSpec,
  Passes,      \* the passes that may be alive at once, numbered
  MaxTrouble   \* bound on the number of passes that are not auto and of passes killed

ASSUME QueueAssumption ==
  /\ IsFiniteSet(Projects) /\ Projects \subseteq Nat \ {0}
  /\ SpecsOf \in [Projects -> SUBSET Nat] /\ \A p \in Projects : IsFiniteSet(SpecsOf[p])
  /\ Weights \subseteq [Projects -> Nat] /\ UnitWeight \in Nat \ {0} /\ Batch \in Nat \ {0}
  /\ Passes \subseteq Nat /\ MaxTrouble \in Nat

\* A spec of a project.  QueueEntry.spec_file is only its file name.
Entries == UNION {{<<p, s>> : s \in SpecsOf[p]} : p \in Projects}
ASSUME NoSpecAssumption == NoSpec \notin Entries
Project(e) == e[1]
Name(e)    == e[2]

\* "Unknown": not in the file, as all are before the first write.
SpecStates == {"Pending", "Running", "Done", "Failed"}

VARIABLES
  file,     \* the state of each entry in the queue.json of its project
  weight,   \* the weight in each file
  pass,     \* what each pass is doing
  broken,   \* the entries whose run is complete in the vault with a failed node
  trouble,  \* number of passes so far that were not auto, and of passes killed
  beaten    \* history: projects whose file another pass wrote since this one read it

queueVars == <<file, weight, pass, broken, trouble, beaten>>

\* cmd: "run" and "daemon" are over one project, "wsrun" and "wsdaemon" over the
\* workspace; stop: it may turn out to have --stop-on-failure, which "daemon" ignores (and
\* which is nothing to a pass of one spec); left: the order decided on; own: its copy of
\* the files; cur: the entry whose child runs; root: the project an auto pass picked and
\* has not read again.
QueueCommands == {"run", "daemon", "wsrun", "wsdaemon"}
NoCopy == [e \in Entries |-> "Pending"]
Idle == [cmd |-> "none", at |-> "idle", stop |-> FALSE, left |-> <<>>, own |-> NoCopy,
         cur |-> NoSpec, root |-> 0]

-----------------------------------------------------------------------------
(* The order of a pass: the project that each of its turns goes to.        *)

Turns(order, p) == Cardinality({k \in DOMAIN order : order[k] = p})
Take(n, order)  == SubSeq(order, 1, Min({n, Len(order)}))

\* The sum of f[p] over the projects of S: there are so many pairs of one and a turn of it.
Total(f, S) == Cardinality(UNION {{p} \X (1 .. f[p]) : p \in S})

\* S by a key that no two of its elements share: each comes after those of smaller key.
Ranked(S, key(_)) ==
  [i \in 1 .. Cardinality(S) |->
     CHOOSE x \in S : Cardinality({y \in S : key(y) < key(x)}) = i - 1]

\* Projects in path order.
Listed(S) == Ranked(S, LAMBDA p : p)

\* round_robin_order of projects with len[p] specs each: one of each in every sweep.
RoundRobin(len) ==
  LET sweeps == Max({len[p] : p \in Projects} \cup {0})
      order[k \in 0 .. sweeps] ==
        IF k = 0 THEN <<>> ELSE order[k - 1] \o Listed({p \in Projects : len[p] >= k})
  IN  order[sweeps]

\* x / y to the nearest integer, halves up: f64::round.
Rounded(x, y) == (2 * x + y) \div (2 * y)

\* A project's share of the turns that remain, by its part of the weight.
Share(specs, own, total, remaining) ==
  Min({Max({Rounded(remaining * own, total), 1}), remaining, specs})

\* The weighted sweep: to each project in turn one block, of its share of what is left.
Sweep(len, w, batch, sharers) ==
  LET listed == Listed(sharers)
      block(order, p) ==
        LET share == Share(len[p], w[p], Total(w, sharers), batch - Len(order))
        IN  order \o [j \in 1 .. share |-> p]
      order[k \in 0 .. Len(listed)] ==
        IF k = 0 THEN <<>> ELSE block(order[k - 1], listed[k])
  IN  order[Len(listed)]

\* The next of the leftover turns goes to the project with the smallest part of its
\* specs taken, of these to the lightest, of these to the first.
LeastServed(len, w, order, sharers) ==
  LET open == {p \in sharers : Turns(order, p) < len[p]}
      served(p, q) == Turns(order, p) * len[q]    \* compare with served(q, p)
      better(p, q) == \/ served(p, q) < served(q, p)
                      \/ /\ served(p, q) = served(q, p)
                         /\ w[p] < w[q] \/ (w[p] = w[q] /\ p < q)
  IN  CHOOSE p \in open : \A q \in open \ {p} : better(p, q)

\* The projects that a pass shares its turns among.
Sharers(len, w) == {p \in Projects : w[p] > 0 /\ len[p] > 0}

\* Projects of the default weight: as many turns of the round robin as the batch has.
Unweighted(len, sharers, batch) ==
  Take(batch, RoundRobin([p \in Projects |-> IF p \in sharers THEN len[p] ELSE 0]))

\* Mutant: the leftover turns are not given out.
CarouselWithoutTail(len, w, batch) ==
  LET sharers == Sharers(len, w)
  IN  IF \A p \in sharers : w[p] = UnitWeight THEN Unweighted(len, sharers, batch)
      ELSE Sweep(len, w, batch, sharers)

\* weighted_carousel_bounded of projects with len[p] pending specs and weight w[p].
Carousel(len, w, batch) ==
  LET sharers == Sharers(len, w)
      first   == Sweep(len, w, batch, sharers)
      left    == Min({batch, Total(len, sharers)}) - Len(first)
      turn(order) == Append(order, LeastServed(len, w, order, sharers))
      order[k \in 0 .. left] == IF k = 0 THEN first ELSE turn(order[k - 1])
  IN  IF \A p \in sharers : w[p] = UnitWeight THEN Unweighted(len, sharers, batch)
      ELSE order[left]

-----------------------------------------------------------------------------
(* Reading and writing the files.                                          *)

\* Mutant: a spec that is known is taken for one just discovered.
MergeForgetful == [e \in Entries |-> "Pending"]

\* merge_queues with the specs discovered: a spec that the file does not know is Pending.
Merged == [e \in Entries |-> IF file[e] = "Unknown" THEN "Pending" ELSE file[e]]

Of(p) == {e \in Entries : Project(e) = p}
InState(S, st, states) == {e \in S : st[e] \in states}
ByPriority(S) == Ranked(S, Name)
FirstOf(S)    == CHOOSE e \in S : \A x \in S : Name(e) <= Name(x)

\* The entries in the order of the turns, where lists[p] are those of project p.
Dealt(order, lists) ==
  [i \in DOMAIN order |-> lists[order[i]][Turns(Take(i, order), order[i])]]
Lengths(lists) == [p \in Projects |-> Len(lists[p])]

\* Pass i writes the files of the projects S from the states st.
Write(i, S, st) ==
  /\ file' = [e \in Entries |-> IF Project(e) \in S THEN st[e] ELSE file[e]]
  /\ beaten' = [j \in Passes |-> IF pass'[j] = Idle THEN {}
                                  ELSE IF j = i THEN beaten[j] ELSE beaten[j] \cup S]

End(i) == pass' = [pass EXCEPT ![i] = Idle]

-----------------------------------------------------------------------------
\* Nothing has run; a file may be there already, written by hand for its weight.
QueueInit ==
  /\ file = [e \in Entries |-> "Unknown"]
  /\ weight \in Weights
  /\ pass = [i \in Passes |-> Idle]
  /\ broken = {}
  /\ trouble = 0
  /\ beaten = [i \in Passes |-> {}]

\* The specs that a pass over the merged files may run.
PendingOf(p) == ByPriority(InState(Of(p), Merged, {"Pending"}))

\* The orders of the four commands.  The workspace run deals out the specs that were
\* discovered, whose state is always Pending.
OrderOf(cmd, p) ==
  LET only(q) == IF q = p THEN PendingOf(q) ELSE <<>>
      one     == [q \in Projects |-> only(q)]
      pending == [q \in Projects |-> PendingOf(q)]
      found   == [q \in Projects |-> ByPriority(Of(q))]
  IN  CASE cmd = "run"      -> PendingOf(p)
        [] cmd = "daemon"   -> Dealt(Carousel(Lengths(one), weight, Batch), one)
        [] cmd = "wsrun"    -> Dealt(RoundRobin(Lengths(found)), found)
        [] cmd = "wsdaemon" -> Dealt(Carousel(Lengths(pending), weight, Batch), pending)

\* The entries whose files a command reads.
Scope(cmd, p) == IF cmd \in {"run", "daemon"} THEN Of(p) ELSE Entries

\* A pass takes the first number that is free.
Free(i) == pass[i] = Idle /\ \A j \in Passes : j < i => pass[j] # Idle

\* `pidag queue --run` or `--daemon`, over a project or the workspace.  A pass that finds
\* nothing to do ends at once, but for the workspace daemon.
StartQueue(i, cmd, p) ==
  /\ Free(i) /\ trouble < MaxTrouble
  /\ cmd # "wsdaemon" => OrderOf(cmd, p) # <<>>
  /\ pass' = [pass EXCEPT ![i] =
                [Idle EXCEPT !.cmd = cmd, !.at = "next",
                             !.stop = cmd # "daemon" /\ Len(OrderOf(cmd, p)) > 1,
                             !.left = OrderOf(cmd, p),
                             !.own = [e \in Entries |-> IF e \in Scope(cmd, p) THEN Merged[e]
                                                        ELSE "Pending"]]]
  /\ trouble' = trouble + 1
  /\ UNCHANGED <<file, weight, broken, beaten>>

\* The entry that execute_entry is called with updates: the workspace daemon looks for
\* the first project that has a spec of that file name.
Owner(cmd, e) ==
  IF cmd = "wsdaemon"
  THEN <<CHOOSE p \in Projects : /\ Name(e) \in SpecsOf[p]
                                 /\ \A q \in Projects : Name(e) \in SpecsOf[q] => p <= q,
         Name(e)>>
  ELSE e

\* The next spec is marked Running and its child is spawned.
RunNext(i) ==
  /\ pass[i].at = "next" /\ pass[i].left # <<>>
  /\ LET e == Owner(pass[i].cmd, Head(pass[i].left)) IN
       /\ pass' = [pass EXCEPT ![i].at = "child", ![i].cur = e, ![i].left = Tail(@),
                               ![i].own[e] = "Running"]
       /\ Write(i, {Project(e)}, pass'[i].own)
  /\ UNCHANGED <<weight, broken, trouble>>

\* How a child may end: its run completes, without or with a failed node, or it does
\* not complete (killed, out of budget, refused, a spec that is not found).
Endings == {"ok", "failed", "unfinished"}

\* The child exits and the spec is marked Done or Failed.  Its run starts afresh, over
\* the record of an earlier one.  The first failure tells whether the pass goes on after
\* one.  A pass with nothing left ends, but for the workspace daemon.
ChildExits(i, how) ==
  LET e  == pass[i].cur
      ok == how = "ok"
      st == [pass[i].own EXCEPT ![e] = IF ok THEN "Done" ELSE "Failed"]
  IN
  /\ pass[i].at = "child" /\ pass[i].cmd # "auto"
  /\ broken' \in CASE how = "ok"         -> {broken \ {e}}
                   [] how = "failed"     -> {broken \cup {e}}
                   [] how = "unfinished" -> {broken, broken \ {e}}
  /\ \E stopped \in {FALSE, ~ok /\ pass[i].stop} :
       LET left == IF stopped THEN <<>> ELSE pass[i].left IN
       IF left = <<>> /\ pass[i].cmd # "wsdaemon" THEN End(i)
       ELSE pass' = [pass EXCEPT ![i].at = "next", ![i].cur = NoSpec, ![i].left = left,
                                 ![i].stop = @ /\ ok, ![i].own = st]
  /\ Write(i, {Project(e)}, st)
  /\ UNCHANGED <<weight, trouble>>

\* The workspace daemon has come to its end and writes every project's file.
Finish(i) ==
  /\ pass[i].at = "next" /\ pass[i].left = <<>>
  /\ End(i)
  /\ Write(i, Projects, pass[i].own)
  /\ UNCHANGED <<weight, broken, trouble>>

\* --reset: every entry of the project is Pending, Done ones too.  --retry-failed: the
\* Failed ones are.  The file is read and written at once.
Requeue(i, p, states) ==
  /\ Free(i) /\ trouble < MaxTrouble
  /\ SpecsOf[p] # {}
  /\ UNCHANGED <<weight, broken, pass>>
  /\ Write(i, {p}, [e \in Entries |-> IF Merged[e] \in states THEN "Pending" ELSE Merged[e]])
  /\ trouble' = trouble + 1

-----------------------------------------------------------------------------
(* `pidag auto`: one spec per pass, under the pid lock.                    *)

\* The projects with something to run, by weight, then by workload, then by path.
Workload(p) == Cardinality(InState(Of(p), Merged, {"Pending", "Running", "Failed"}))
RanksBefore(p, q) ==
  \/ weight[p] > weight[q]
  \/ /\ weight[p] = weight[q]
     /\ Workload(p) > Workload(q) \/ (Workload(p) = Workload(q) /\ p < q)

\* Mutant: only failed specs are tried again, not those that a crash left Running.
RetryFailed(p) == InState(Of(p), Merged, {"Failed"})

\* A spec that failed, or that was left Running by a crash (or is running).
Retryable(p) == InState(Of(p), Merged, {"Running", "Failed"})

\* select_spec_for_project: a spec to retry, else a pending one: the one that HANDOFF.md
\* names, which may be any, or the first.
Candidates(p) ==
  IF Retryable(p) # {} THEN {FirstOf(Retryable(p))} ELSE InState(Of(p), Merged, {"Pending"})

\* The pass gets the lock.
Locks(i) == Free(i) /\ \A j \in Passes : pass[j].cmd # "auto"

AutoPass(at, e, p) == [Idle EXCEPT !.cmd = "auto", !.at = at, !.cur = e, !.root = p]

\* `pidag auto` over one project: it reads the file and spawns a child.  A pass that finds
\* nothing to do ends at once.
AutoProject(i, p) ==
  /\ Locks(i)
  /\ IF Candidates(p) = {} THEN UNCHANGED pass
     ELSE \E e \in Candidates(p) : pass' = [pass EXCEPT ![i] = AutoPass("child", e, 0)]
  /\ UNCHANGED <<file, weight, broken, trouble, beaten>>

\* `pidag auto --workspace`, select_from_workspace: the first project in the ranking.
AutoWorkspace(i) ==
  LET open == {p \in Projects : Workload(p) > 0} IN
  /\ Locks(i)
  /\ IF open = {} THEN UNCHANGED pass
     ELSE \E p \in open : /\ \A q \in open \ {p} : RanksBefore(p, q)
                          /\ pass' = [pass EXCEPT ![i] = AutoPass("select", NoSpec, p)]
  /\ UNCHANGED <<file, weight, broken, trouble, beaten>>

\* The file of the project is read again, and a spec of it taken.
SelectSpec(i) ==
  LET p == pass[i].root IN
  /\ pass[i].at = "select"
  /\ IF Candidates(p) = {}
     THEN End(i) /\ beaten' = [beaten EXCEPT ![i] = {}]
     ELSE /\ \E e \in Candidates(p) : pass' = [pass EXCEPT ![i] = AutoPass("child", e, 0)]
          /\ UNCHANGED beaten
  /\ UNCHANGED <<file, weight, broken, trouble>>

\* The child exits or outlives the agent timeout: record_queue_state reads the file
\* again and writes it.  The child is given --resume and never --retry-failed or --fresh,
\* so a run that is complete is not run again: its report is served from the vault.
Record(i, how) ==
  LET e == pass[i].cur IN
  /\ pass[i].at = "child" /\ pass[i].cmd = "auto"
  /\ how = "ok" => e \notin broken
  /\ broken' = IF how = "failed" THEN broken \cup {e} ELSE broken
  /\ End(i)
  /\ Write(i, {Project(e)}, [Merged EXCEPT ![e] = IF how = "ok" THEN "Done" ELSE "Failed"])
  /\ UNCHANGED <<weight, trouble>>

\* A pass is killed.
Crash(i) ==
  /\ pass[i] # Idle /\ trouble < MaxTrouble
  /\ trouble' = trouble + 1
  /\ End(i)
  /\ beaten' = [beaten EXCEPT ![i] = {}]
  /\ UNCHANGED <<file, weight, broken>>

\* A pass goes on by itself.
PassStep(i) == \/ RunNext(i) \/ Finish(i) \/ SelectSpec(i)
               \/ \E how \in Endings : ChildExits(i, how) \/ Record(i, how)

Invoked == \E i \in Passes, p \in Projects :
  \/ \E cmd \in QueueCommands : StartQueue(i, cmd, p)
  \/ Requeue(i, p, SpecStates) \/ Requeue(i, p, {"Failed"})

QueueNext ==
  \/ Invoked
  \/ \E i \in Passes : \/ AutoWorkspace(i) \/ \E p \in Projects : AutoProject(i, p)
                       \/ PassStep(i) \/ Crash(i)

QueueSpec == QueueInit /\ [][QueueNext]_queueVars

\* A pass goes on, a child ends, and cron starts `pidag auto --workspace` again and again,
\* also when no other auto pass is alive.  RunsComplete: its runs are not all cut short.
CronStartsAuto == SF_queueVars(\E i \in Passes : AutoWorkspace(i))
RunsComplete   == SF_queueVars(\E i \in Passes : Record(i, "ok") \/ Record(i, "failed"))
QueueFairSpec ==
  /\ QueueSpec /\ CronStartsAuto /\ RunsComplete
  /\ \A i \in Passes : WF_queueVars(PassStep(i))

-----------------------------------------------------------------------------
(* Properties *)

\* A file name that two projects use.
Shared(e) == \E x \in Entries \ {e} : Name(x) = Name(e)

\* A spec that is Done stays so, however passes of all kinds interleave and crash, until
\* a person asks for it to be run again (--reset, or the workspace run); unless a pass
\* writes its file from a copy that another pass has made stale, or takes the spec for
\* one of the same name in another project.
DoneKept ==
  [][\A i \in Passes, e \in Entries :
       pass'[i] # pass[i] /\ file[e] = "Done" /\ file'[e] # "Done" =>
         \/ pass[i].cmd = "wsrun"
         \/ Project(e) \in beaten[i]
         \/ pass[i].cmd = "wsdaemon" /\ Shared(e)]_queueVars

\* Once people leave the queue alone, `pidag auto` gets every spec done, whatever state
\* the other passes and crashes left it in, or else some spec has a completed run with a
\* failed node in the vault: that one is selected, and its report served, for ever.
AutoDrains ==
  <>[](broken = {}) => <>[](\A e \in Entries : file[e] = "Done")

\* What the weighted carousel does, whatever the backlogs and the weights: it uses the
\* whole batch if there is work for it, gives no project more turns than it has specs
\* nor one to a project of weight 0, and of two with equal backlogs the heavier, if it is
\* listed before the other, has at most one turn less (the leftovers can cost it that one).
CarouselSound ==
  (\A e \in Entries : file[e] = "Unknown") /\ trouble = 0 =>
    \A len \in [Projects -> 0 .. Batch + 1], b \in 1 .. Batch + 2,
       w \in [Projects -> 0 .. 2 * UnitWeight] :
      LET order  == Carousel(len, w, b)
          wanted == Total([p \in Projects |-> IF w[p] > 0 THEN len[p] ELSE 0], Projects)
      IN  /\ Len(order) = Min({b, wanted})
          /\ \A p \in Projects : Turns(order, p) <= IF w[p] > 0 THEN len[p] ELSE 0
          /\ \A p, q \in Projects : p < q /\ w[p] > w[q] /\ len[p] = len[q]
               => Turns(order, p) + 1 >= Turns(order, q)
=============================================================================
