------------------------------- MODULE Workers -------------------------------
(***************************************************************************)
(* One attempt to run a node: Worker::run (src/worker, src/a2a/worker.rs,  *)
(* src/mcp/call.rs) under the timeout of the node, and the pool of `pi`    *)
(* processes behind the agent backend (src/backend/pi.rs).                 *)
(*                                                                         *)
(* TypeDispatchWorker routes a call by its node: to the agent backend, if  *)
(* one is configured, or to a remote agent (A2A), a process that it spawns *)
(* (`pi -p`, bash), or an MCP server.  When the deadline of the node       *)
(* passes, the future of the call is dropped wherever it waits, and        *)
(* destructors do the rest.  How many calls of a node there are, and       *)
(* after what, is the business of module Dispatch.                         *)
(*                                                                         *)
(* External: `pi` and its RPC client, processes, remote agents and MCP     *)
(* servers; each may answer, fail, or never answer.                        *)
(***************************************************************************)
EXTENDS Naturals, FiniteSets, Sequences, SequencesExt

CONSTANTS
  Calls,     \* the calls, each an attempt of a node of its own
  Mixes,     \* what kinds of calls there may be
  NoCall,    \* nobody has the MCP client
  Clients,   \* identities for `pi` processes
  NoClient,
  Permits,   \* the concurrency that the pool is made for
  MaxFaults  \* bound on the number of clients that die or hang

\* A node with mcp_call, any other of type "shell" or for `pi -p`, one whose model is a
\* URL, and the critic of a node, which is no node of the DAG.
Kinds == {"llm", "critic", "url", "shell", "mcp"}

ASSUME WorkersAssumption ==
  /\ IsFiniteSet(Calls) /\ NoCall \notin Calls /\ Mixes \subseteq [Calls -> Kinds]
  /\ IsFiniteSet(Clients) /\ NoClient \notin Clients
  /\ Permits \in Nat \ {0} /\ MaxFaults \in Nat

VARIABLES
  backend,   \* an agent backend is configured
  deadline,  \* the nodes have a timeout
  kind,      \* of each call
  at,        \* where each call is
  client,    \* the `pi` process that it holds, a candidate in acquire_client included
  permit,    \* the calls that hold a permit of the pool
  poisoned,  \* the calls whose session is poisoned
  pool,      \* ClientPool.available
  health,    \* of each process: "free" (there is none), "live", "hung", "dead", "dropped"
  talk,      \* the calls whose prompts its conversation holds
  child,     \* of each call, the process it has spawned: "none", "running" or "gone"
  remote,    \* of each call, its task at the remote agent: "none", "working" or "ended"
  lock,      \* who holds the mutex of the MCP client
  answer,    \* of each call: "none", "output" (of success or failure), "error" or "timeout"
  faults     \* number of faults so far

poolVars   == <<client, permit, poisoned, pool, health, talk>>
otherVars  == <<child, remote, lock>>
setVars    == <<backend, deadline, kind>>
workerVars == <<setVars, at, poolVars, otherVars, answer, faults>>

WorkersInit ==
  /\ backend \in BOOLEAN /\ deadline \in BOOLEAN
  /\ kind \in Mixes
  /\ at = [c \in Calls |-> "out"]
  /\ client = [c \in Calls |-> NoClient] /\ permit = {} /\ poisoned = {} /\ pool = <<>>
  /\ health = [p \in Clients |-> "free"] /\ talk = [p \in Clients |-> {}]
  /\ child = [c \in Calls |-> "none"] /\ remote = [c \in Calls |-> "none"]
  /\ lock = NoCall
  /\ answer = [c \in Calls |-> "none"] /\ faults = 0

Go(c, to) == at' = [at EXCEPT ![c] = to]

End(c, how) == Go(c, "ended") /\ answer' = [answer EXCEPT ![c] = how]

-----------------------------------------------------------------------------
(* Routing: TypeDispatchWorker::run.                                       *)

Spawns(c) == child' = [child EXCEPT ![c] = "running"]

\* Where a call goes first.
Route(c) ==
  CASE kind[c] = "mcp"            -> "locking"
    [] kind[c] = "shell"          -> "running"
    [] backend                    -> "waiting"
    [] OTHER                      -> "running"

\* AgentWorker looks the node up in the DAG, where a critic is not.
Unknown(c) == backend /\ kind[c] = "critic"

Start(c) ==
  /\ at[c] = "out"
  /\ IF Unknown(c) THEN End(c, "error") ELSE Go(c, Route(c)) /\ UNCHANGED answer
  /\ IF Route(c) = "running" THEN Spawns(c) ELSE UNCHANGED child
  /\ UNCHANGED <<setVars, poolVars, remote, lock, faults>>

-----------------------------------------------------------------------------
(* The pool: PiBackend::open_session.                                      *)

AgentStep(c) == UNCHANGED <<setVars, otherVars, faults>>

\* Mutant: at capacity the call goes on without a permit.
AcquireAnyway(c) ==
  /\ at[c] = "waiting"
  /\ permit' = IF Cardinality(permit) < Permits THEN permit \cup {c} ELSE permit
  /\ Go(c, "taking")
  /\ UNCHANGED <<client, poisoned, pool, health, talk, answer>> /\ AgentStep(c)

\* A permit first.
Acquire(c) ==
  /\ at[c] = "waiting" /\ Cardinality(permit) < Permits
  /\ permit' = permit \cup {c}
  /\ Go(c, "taking")
  /\ UNCHANGED <<client, poisoned, pool, health, talk, answer>> /\ AgentStep(c)

\* acquire_client: a candidate is popped under the mutex ...
Pop(c) ==
  /\ at[c] = "taking"
  /\ IF pool = <<>> THEN Go(c, "connecting") /\ UNCHANGED <<client, pool>>
     ELSE /\ client' = [client EXCEPT ![c] = Head(pool)] /\ pool' = Tail(pool)
          /\ Go(c, "checking")
  /\ UNCHANGED <<permit, poisoned, health, talk, answer>> /\ AgentStep(c)

\* Mutant: a client from the pool is used as it is.
ReuseAsIs(c) ==
  /\ at[c] = "checking" /\ health[client[c]] = "live"
  /\ Go(c, "opening")
  /\ UNCHANGED <<poolVars, answer>> /\ AgentStep(c)

\* ... and checked outside it.
Healthy(c) ==
  /\ at[c] = "checking" /\ health[client[c]] = "live"
  /\ Go(c, "resetting")
  /\ UNCHANGED <<poolVars, answer>> /\ AgentStep(c)

Dropped(c) ==
  /\ client' = [client EXCEPT ![c] = NoClient]
  /\ health' = IF client[c] = NoClient THEN health
               ELSE [health EXCEPT ![client[c]] = "dropped"]
  /\ talk' = IF client[c] = NoClient THEN talk ELSE [talk EXCEPT ![client[c]] = {}]

\* It fails, or does not answer within two seconds: the next one is tried.
Unhealthy(c) ==
  /\ at[c] = "checking"
  /\ Dropped(c) /\ Go(c, "taking")
  /\ UNCHANGED <<permit, poisoned, pool, answer>> /\ AgentStep(c)

\* The pool is empty.  Which identity the new process gets is immaterial.
Free == {p \in Clients : health[p] = "free"}

Connect(c) ==
  /\ at[c] = "connecting" /\ Free # {}
  /\ LET p == CHOOSE p \in Free : TRUE IN
       /\ health' = [health EXCEPT ![p] = "live"] /\ talk' = [talk EXCEPT ![p] = {}]
       /\ client' = [client EXCEPT ![c] = p]
  /\ Go(c, "opening")
  /\ UNCHANGED <<permit, poisoned, pool, answer>> /\ AgentStep(c)

Live(c)  == client[c] # NoClient /\ health[client[c]] = "live"
Fails(c) == client[c] # NoClient => health[client[c]] \in {"live", "dead"}

\* new_session: the conversation of the node before is gone.
Reset(c) ==
  /\ at[c] = "resetting" /\ Live(c)
  /\ talk' = [talk EXCEPT ![client[c]] = {}] /\ Go(c, "opening")
  /\ UNCHANGED <<client, permit, poisoned, pool, health, answer>> /\ AgentStep(c)

\* set_thinking_level; AgentWorker sets it once more, and ignores a failure.
Initialize(c) ==
  /\ at[c] = "opening" /\ Live(c)
  /\ Go(c, "prompting")
  /\ UNCHANGED <<poolVars, answer>> /\ AgentStep(c)

\* The session is dropped, with its client and then its permit.
OpenFails(c) ==
  /\ at[c] \in {"connecting", "resetting", "opening"} /\ Fails(c)
  /\ Dropped(c) /\ permit' = permit \ {c}
  /\ End(c, "output")
  /\ UNCHANGED <<poisoned, pool>> /\ AgentStep(c)

-----------------------------------------------------------------------------
(* The session: PiSession::prompt and close.                               *)

\* The model is set, and is the one asked for or cannot be told; then the prompt is sent.
Prompt(c) ==
  /\ at[c] = "prompting" /\ Live(c)
  /\ talk' = [talk EXCEPT ![client[c]] = @ \cup {c}] /\ Go(c, "reading")
  /\ UNCHANGED <<client, permit, poisoned, pool, health, answer>> /\ AgentStep(c)

\* The model is another one, its provider is not known, or the client fails: no prompt is
\* sent, and the session is not poisoned.
SetModelFails(c) ==
  /\ at[c] = "prompting" /\ Fails(c)
  /\ Go(c, "closing")
  /\ UNCHANGED <<poolVars, answer>> /\ AgentStep(c)

\* get_last_assistant_text
Read(c) ==
  /\ at[c] = "reading" /\ Live(c)
  /\ Go(c, "closing")
  /\ UNCHANGED <<poolVars, answer>> /\ AgentStep(c)

\* A session whose prompt failed is poisoned.
PromptFails(c) ==
  /\ at[c] \in {"prompting", "reading"} /\ Fails(c)
  /\ poisoned' = poisoned \cup {c}
  /\ \/ UNCHANGED talk
     \/ at[c] = "prompting" /\ talk' = [talk EXCEPT ![client[c]] = @ \cup {c}]
  /\ Go(c, "closing")
  /\ UNCHANGED <<client, permit, pool, health, answer>> /\ AgentStep(c)

\* A client that is well goes back into the pool.
Return(c) ==
  /\ at[c] = "closing" /\ c \notin poisoned /\ Live(c)
  /\ pool' = Append(pool, client[c]) /\ client' = [client EXCEPT ![c] = NoClient]
  /\ Go(c, "releasing")
  /\ UNCHANGED <<permit, poisoned, health, talk, answer>> /\ AgentStep(c)

\* A poisoned one, or one that does not pass the check, does not.
Discard(c) ==
  /\ at[c] = "closing"
  /\ Dropped(c) /\ Go(c, "releasing")
  /\ UNCHANGED <<permit, poisoned, pool, answer>> /\ AgentStep(c)

\* The permit is let go of last.
Release(c) ==
  /\ at[c] = "releasing"
  /\ permit' = permit \ {c} /\ poisoned' = poisoned \ {c}
  /\ End(c, "output")
  /\ UNCHANGED <<client, pool, health, talk>> /\ AgentStep(c)

\* A process dies, or stops answering; one that is dropped is killed in the end.
Fault(p) ==
  /\ health[p] = "live" /\ faults < MaxFaults
  /\ \E h \in {"dead", "hung"} : health' = [health EXCEPT ![p] = h]
  /\ faults' = faults + 1
  /\ UNCHANGED <<setVars, at, client, permit, poisoned, pool, talk, otherVars, answer>>

Reap(p) ==
  /\ health[p] = "dropped"
  /\ health' = [health EXCEPT ![p] = "free"]
  /\ UNCHANGED <<setVars, at, client, permit, poisoned, pool, talk, otherVars, answer, faults>>

-----------------------------------------------------------------------------
(* Processes, remote agents and MCP servers.                               *)

PlainStep(c) == UNCHANGED <<setVars, poolVars, faults>>

\* McpCallWorker has one client, whose mutex a call holds to its end.
Lock(c) ==
  /\ at[c] = "locking" /\ lock = NoCall
  /\ lock' = c /\ Spawns(c) /\ Go(c, "running")
  /\ UNCHANGED <<remote, answer>> /\ PlainStep(c)

Unlocks(c) == lock' = IF lock = c THEN NoCall ELSE lock

\* The process ends by itself: bash, `pi -p`, or curl with the answer of an MCP server,
\* which is an Err if the call fails.
Exits(c) ==
  /\ at[c] = "running" /\ kind[c] # "url"
  /\ child' = [child EXCEPT ![c] = "gone"]
  /\ \/ End(c, "output")
     \/ kind[c] = "mcp" /\ End(c, "error")
  /\ Unlocks(c)
  /\ UNCHANGED remote /\ PlainStep(c)

\* A remote agent gets the message of tasks/send, and works on it.
Receives(c) ==
  /\ at[c] = "running" /\ kind[c] = "url" /\ remote[c] = "none"
  /\ remote' = [remote EXCEPT ![c] = "working"]
  /\ UNCHANGED <<at, child, lock, answer>> /\ PlainStep(c)

Finishes(c) ==
  /\ remote[c] = "working"
  /\ remote' = [remote EXCEPT ![c] = "ended"]
  /\ UNCHANGED <<at, child, lock, answer>> /\ PlainStep(c)

\* curl ends with the state of the task, as tasks/send and tasks/get tell it ...
Told(c) ==
  /\ at[c] = "running" /\ kind[c] = "url" /\ remote[c] # "none"
  /\ child' = [child EXCEPT ![c] = "gone"]
  /\ IF remote[c] = "ended" THEN End(c, "output") ELSE Go(c, "sleeping") /\ UNCHANGED answer
  /\ UNCHANGED <<remote, lock>> /\ PlainStep(c)

\* ... or with an error, or another state, whatever has become of the task.
NotTold(c) ==
  /\ at[c] = "running" /\ kind[c] = "url"
  /\ child' = [child EXCEPT ![c] = "gone"]
  /\ End(c, "output")
  /\ UNCHANGED <<remote, lock>> /\ PlainStep(c)

\* The next poll.
Poll(c) ==
  /\ at[c] = "sleeping"
  /\ Spawns(c) /\ Go(c, "running")
  /\ UNCHANGED <<remote, lock, answer>> /\ PlainStep(c)

\* Mutant: there is a limit for every request, and none for all of them.
TimesOutOnce(c) ==
  /\ at[c] = "running" /\ kind[c] \notin {"mcp", "url"}
  /\ child' = [child EXCEPT ![c] = "gone"]
  /\ End(c, "output")
  /\ UNCHANGED <<remote, lock>> /\ PlainStep(c)

\* The timeout of the worker itself: a process is killed, and so is a series of polls cut
\* short; the remote task goes on.  An MCP call, and the pool, have none.
TimesOut(c) ==
  /\ at[c] \in {"running", "sleeping"} /\ kind[c] # "mcp"
  /\ child' = [child EXCEPT ![c] = "gone"]
  /\ End(c, "output")
  /\ UNCHANGED <<remote, lock>> /\ PlainStep(c)

\* Mutant: a process outlives the future that waits for it.
KillsNone(c) == child' = child

\* kill_on_drop; the curl of an MCP call is spawned without.
Kills(c) ==
  child' = IF child[c] = "running" /\ kind[c] # "mcp" THEN [child EXCEPT ![c] = "gone"] ELSE child

\* run_with_node_timeout: the future is dropped where it waits, with what it owns.
DeadlinePasses(c) ==
  /\ deadline /\ at[c] \notin {"out", "connecting", "releasing", "ended"}
  /\ Dropped(c) /\ permit' = permit \ {c}
  /\ Kills(c) /\ Unlocks(c)
  /\ End(c, "timeout")
  /\ poisoned' = poisoned \ {c}
  /\ UNCHANGED <<setVars, pool, remote, faults>>

-----------------------------------------------------------------------------
AgentSteps(c) ==
  \/ Acquire(c) \/ Pop(c) \/ Healthy(c) \/ Unhealthy(c) \/ Connect(c) \/ Reset(c)
  \/ Initialize(c) \/ OpenFails(c) \/ SetModelFails(c)
  \/ Prompt(c) \/ Read(c) \/ PromptFails(c) \/ Return(c) \/ Discard(c) \/ Release(c)

PlainSteps(c) ==
  Exits(c) \/ Receives(c) \/ Finishes(c) \/ Told(c) \/ NotTold(c)

WorkersNext ==
  \/ \E c \in Calls : \/ Start(c) \/ AgentSteps(c) \/ Lock(c) \/ PlainSteps(c)
                      \/ Poll(c) \/ TimesOut(c) \/ DeadlinePasses(c)
  \/ \E p \in Clients : Fault(p) \/ Reap(p)

\* A `pi` process that is well answers; semaphore and mutex are fair; timers go off.
\* Nothing says that a process exits, or that a remote agent or a server answers.
WorkersFairness ==
  /\ \A c \in Calls : /\ WF_workerVars(AgentSteps(c) \/ Poll(c))
                      /\ SF_workerVars(Acquire(c) \/ Lock(c))
                      /\ WF_workerVars(TimesOut(c) \/ DeadlinePasses(c))
  /\ WF_workerVars(\E p \in Clients : Reap(p))

WorkersSpec     == WorkersInit /\ [][WorkersNext]_workerVars
WorkersFairSpec == WorkersSpec /\ WorkersFairness

-----------------------------------------------------------------------------
(* Properties *)

Held   == {client[c] : c \in Calls} \ {NoClient}
Pooled == ToSet(pool)

\* "At most 2 clients exist simultaneously; the other 3 wait" (specs/31, R2a): clients in
\* use and in the pool are never more than the permits, though an empty pool is seen before
\* a client is made and a permit released after one is given back; and no client is with
\* two sessions, or in the pool and with one, or there twice.
CapacityKept ==
  /\ Cardinality(Held \cup Pooled) <= Permits
  /\ Held \cap Pooled = {} /\ Cardinality(Pooled) = Len(pool)
  /\ \A c, d \in Calls : c # d /\ client[c] = client[d] => client[c] = NoClient

\* A call is answered from a conversation of its own, whichever calls the process has
\* served before, and however they ended.
ConversationsApart == \A c \in Calls : at[c] = "reading" => talk[client[c]] = {c}

\* "No orphaned `pi` processes" (pi_print.rs): no process outlives its call, except the
\* curl of an MCP call that the deadline cut short.
NoOrphans ==
  \A c \in Calls :
    at[c] \in {"ended", "sleeping"} /\ child[c] = "running"
      => kind[c] = "mcp" /\ answer[c] = "timeout"

\* What may hold up a call for ever, when its node has no timeout: `pi` does not answer
\* it, all permits are with such calls, or an MCP server does not answer.
Stuck(c) == ~deadline /\ (kind[c] = "mcp" \/ \E p \in Held : health[p] = "hung")

\* Every call ends: by its own timeout, or its node's, or an answer.
CallsEnd == \A c \in Calls : at[c] # "out" ~> at[c] = "ended" \/ Stuck(c)
=============================================================================
