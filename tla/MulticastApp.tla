---------------------------- MODULE MulticastApp ----------------------------
(***************************************************************************)
(* The listen loop of MulticastApp (multicast_app.py) and the tasks it      *)
(* starts: it takes a slot of the semaphore, receives a message, starts a   *)
(* task for it and reaps the tasks that have ended; when the app stops or   *)
(* the transport closes it drains the tasks and cancels those that take     *)
(* longer than shutdown_timeout.  All tasks share one event loop, so a step *)
(* is what runs between two awaits.  A drain that is itself cancelled leaves *)
(* its tasks to themselves.                                                 *)
(*                                                                         *)
(* `_await_or_stop` is a race of two tasks: the operation may finish in the *)
(* same turn of the loop in which stop() is called, and then stop() wins    *)
(* and what the operation obtained is lost.                                 *)
(***************************************************************************)
EXTENDS Integers, Sequences, FiniteSets

CONSTANTS
  Peers,          (* the ids the transport gives to its connections         *)
  Requests,       (* the messages the peers may send                        *)
  MaxConcurrency  (* max_concurrency                                        *)

NoPeer == "no peer"

ASSUME ConcurrencyAssumption == MaxConcurrency \in Nat \ {0}
ASSUME RequestsAssumption == IsFiniteSet(Requests)
ASSUME PeersAssumption == NoPeer \notin Peers

VARIABLES
  inbox,     (* what the transport has received and recv() has not returned *)
  peer,      (* the peer that sent each request                             *)
  listener,  (* where `_listen` is                                          *)
  received,  (* the message the receive task of `_next` has obtained        *)
  free,      (* the value of the semaphore `slots`                          *)
  count,     (* the counts of `_peer_locks`, 0 for an absent entry          *)
  task,      (* where the task of each request is                           *)
  busy,      (* the requests whose task was started with busy=True          *)
  tasks,     (* `_tasks`: the tasks started and not yet reaped              *)
  stopping   (* the event `_stopping`                                       *)

environment == <<inbox, peer>>
requestVars == <<task, busy, tasks, count, free>>
vars == <<environment, listener, received, requestVars, stopping>>

Serving == {"acquire", "acquired", "recv", "received"}
\* `_listen` has returned, or was cancelled while it drained.
Returned == {"stopped", "interrupted"}
Listener == Serving \cup {"drain", "cancelling"} \cup Returned
Live == {"created", "running", "sending"}
\* A task that raised CancelledError ends in "cancelled".
Ended == {"ended", "cancelled"}
Task == {"unsent", "queued", "lost"} \cup Live \cup Ended

LiveTasks == {r \in Requests : task[r] \in Live}
\* The requests whose task holds its peer's lock or is about to take it.
Executing == LiveTasks \ busy
\* The slot the listener holds for the request it is about to receive.
Held == IF listener \in {"acquired", "recv", "received"} THEN 1 ELSE 0

Init ==
  /\ inbox = <<>>
  /\ peer = [r \in Requests |-> NoPeer]
  /\ listener = "acquire"
  /\ received = {}
  /\ free = MaxConcurrency
  /\ count = [p \in Peers |-> 0]
  /\ task = [r \in Requests |-> "unsent"]
  /\ busy = {}
  /\ tasks = {}
  /\ stopping = FALSE

\* A peer's message reaches the transport.
Arrive(r) ==
  /\ task[r] = "unsent"
  /\ \E p \in Peers : peer' = [peer EXCEPT ![r] = p]
  /\ inbox' = Append(inbox, r)
  /\ task' = [task EXCEPT ![r] = "queued"]
  /\ UNCHANGED <<listener, received, free, count, busy, tasks, stopping>>

\* stop(), called by a handler or by the program.
Stop ==
  /\ ~stopping
  /\ stopping' = TRUE
  /\ UNCHANGED <<environment, listener, received, requestVars>>

----------------------------------------------------------------------------
\* The semaphore gives `_listen` a slot.
Acquire ==
  /\ listener = "acquire" /\ free > 0
  /\ free' = free - 1
  /\ listener' = "acquired"
  /\ UNCHANGED <<environment, received, task, busy, tasks, count, stopping>>

\* `_await_or_stop` returns and `_next` starts to receive.
AwaitMessage ==
  /\ listener = "acquired"
  /\ listener' = "recv"
  /\ UNCHANGED <<environment, received, requestVars, stopping>>

\* The receive task of `_next` takes the next message from the transport.
Receive ==
  /\ listener = "recv" /\ inbox # <<>>
  /\ inbox' = Tail(inbox)
  /\ received' = {Head(inbox)}
  /\ listener' = "received"
  /\ UNCHANGED <<peer, requestVars, stopping>>

\* The entry of the peer's lock is counted up and the task created.
Claim(r) ==
  /\ count' = [count EXCEPT ![peer[r]] = @ + 1]
  /\ busy' = IF count[peer[r]] > 0 THEN busy \cup {r} ELSE busy
  /\ task' = [task EXCEPT ![r] = "created"]

\* The loop reaps the tasks that have ended.  One that raised CancelledError
\* raises it in the loop too, which may have reaped others before it.
Accept(r) ==
  /\ listener = "received" /\ r \in received
  /\ Claim(r)
  /\ received' = {}
  /\ LET done == {s \in tasks : task[s] \in Ended}
         raised == {s \in done : task[s] = "cancelled"}
     IN  \/ /\ raised = {}
            /\ tasks' = (tasks \cup {r}) \ done
            /\ listener' = IF stopping THEN "drain" ELSE "acquire"
         \/ \E s \in raised, reaped \in SUBSET (done \ raised) :
            /\ tasks' = (tasks \cup {r}) \ (reaped \cup {s})
            /\ listener' = "drain"
  /\ UNCHANGED <<environment, free, stopping>>

\* What the receive task had obtained is dropped with it.
Discard ==
  /\ task' = [r \in Requests |-> IF r \in received THEN "lost" ELSE task[r]]
  /\ received' = {}

\* Mutant of StopWins: stop() is only noticed between two messages.
StopWinsBetween ==
  /\ listener \in {"acquire", "acquired"} /\ stopping
  /\ listener' = "drain"
  /\ Discard
  /\ UNCHANGED <<environment, free, busy, tasks, count, stopping>>

\* stop() wins the race.  The slot goes back if it was for a message; a slot
\* obtained in the same turn is forgotten.
StopWins ==
  /\ listener \in Serving /\ stopping
  /\ free' = IF listener \in {"recv", "received"} THEN free + 1 ELSE free
  /\ listener' = "drain"
  /\ Discard
  /\ UNCHANGED <<environment, busy, tasks, count, stopping>>

\* recv() raises: the transport is closed.
Closed ==
  /\ listener = "recv"
  /\ free' = free + 1
  /\ listener' = "drain"
  /\ UNCHANGED <<environment, received, task, busy, tasks, count, stopping>>

\* The task that runs the app is cancelled: CancelledError passes every handler
\* of `_listen` but its `finally`.
Interrupt ==
  /\ listener \in Serving
  /\ listener' = "drain"
  /\ Discard
  /\ UNCHANGED <<environment, free, busy, tasks, count, stopping>>

----------------------------------------------------------------------------
\* Mutant of Release: the entry is deleted when the request that ends is the
\* one that holds the lock.
ReleaseEntry(r) ==
  /\ count' = [count EXCEPT ![peer[r]] = IF r \in busy THEN @ - 1 ELSE 0]
  /\ free' = free + 1

\* The `finally` of `_serve_request`.
Release(r) ==
  /\ count' = [count EXCEPT ![peer[r]] = @ - 1]
  /\ free' = free + 1

\* Mutant of End: a cancelled task skips the `finally`.
EndKeeping(r, how) ==
  /\ task' = [task EXCEPT ![r] = how]
  /\ IF how = "ended" THEN Release(r) ELSE UNCHANGED <<count, free>>
  /\ UNCHANGED <<environment, listener, received, busy, tasks, stopping>>

End(r, how) ==
  /\ task' = [task EXCEPT ![r] = how]
  /\ Release(r)
  /\ UNCHANGED <<environment, listener, received, busy, tasks, stopping>>

\* The task has its first turn: `process` runs, with the peer's lock or, for a
\* request that was refused it, without.  It may then wait, as both do for the
\* principal.
Start(r) ==
  /\ task[r] = "created"
  /\ r \in busy \/ \A s \in Executing : task[s] = "running" => peer[s] # peer[r]
  /\ task' = [task EXCEPT ![r] = "running"]
  /\ UNCHANGED <<environment, listener, received, free, count, busy, tasks, stopping>>

\* `process` has returned a reply; the lock is released before it is sent.
Answer(r) ==
  /\ task[r] = "running"
  /\ task' = [task EXCEPT ![r] = "sending"]
  /\ UNCHANGED <<environment, listener, received, free, count, busy, tasks, stopping>>

\* Mutant of Silent: a task without a reply returns before the `finally`.
SilentReturns(r) ==
  /\ task[r] = "running"
  /\ task' = [task EXCEPT ![r] = "ended"]
  /\ UNCHANGED <<environment, listener, received, busy, tasks, count, free, stopping>>

\* `process` has returned None: a notification.
Silent(r) ==
  /\ task[r] = "running"
  /\ End(r, "ended")

\* The reply is sent, or sending it fails.
Sent(r) ==
  /\ task[r] = "sending"
  /\ End(r, "ended")

\* A handler raises CancelledError, as one that awaits a task somebody else
\* cancelled does.
Escape(r) ==
  /\ task[r] = "running" /\ r \notin busy
  /\ End(r, "cancelled")

\* The drain has cancelled the task; the CancelledError is raised in it.
Cancelled(r) ==
  /\ listener = "cancelling" /\ r \in tasks /\ task[r] \in {"running", "sending"}
  /\ End(r, "cancelled")

Unfinished == tasks \cap LiveTasks

\* shutdown_timeout has passed; by then every task has had its first turn.
GiveUp ==
  /\ listener = "drain" /\ Unfinished # {}
  /\ \A r \in tasks : task[r] # "created"
  /\ listener' = "cancelling"
  /\ UNCHANGED <<environment, received, requestVars, stopping>>

\* Every task has ended.  A cancellation while those that were given up are
\* gathered is raised after them, past `_tasks.clear()`.
Drained ==
  /\ listener \in {"drain", "cancelling"} /\ Unfinished = {}
  /\ \/ tasks' = {}
     \/ listener = "cancelling" /\ UNCHANGED tasks
  /\ listener' = "stopped"
  /\ UNCHANGED <<environment, received, free, count, task, busy, stopping>>

\* The task that runs the app is cancelled while the drain waits: the tasks are
\* neither cancelled nor awaited, and run on.
InterruptDrain ==
  /\ listener = "drain" /\ tasks # {}
  /\ listener' = "interrupted"
  /\ UNCHANGED <<environment, received, requestVars, stopping>>

----------------------------------------------------------------------------
Step(r) ==
  \/ Arrive(r) \/ Accept(r) \/ Start(r) \/ Answer(r) \/ Silent(r) \/ Sent(r)
  \/ Escape(r) \/ Cancelled(r)

Listen ==
  Acquire \/ AwaitMessage \/ Receive \/ StopWins \/ Closed \/ GiveUp \/ Drained

Next == Stop \/ Interrupt \/ InterruptDrain \/ Listen \/ \E r \in Requests : Step(r)

Spec == Init /\ [][Next]_vars

\* A task that can run gets its turn, and shutdown_timeout passes.  Nothing is
\* said of a handler that has started, or of a send.
LoopFairness ==
  /\ WF_vars(Acquire \/ AwaitMessage \/ Receive)
  /\ WF_vars(StopWins)
  /\ WF_vars(GiveUp)
  /\ WF_vars(Drained)
  /\ \A r \in Requests : WF_vars(Accept(r)) /\ WF_vars(Start(r)) /\ WF_vars(Cancelled(r))

LoopSpec == Spec /\ LoopFairness

\* What the listen loop itself cannot see to: handlers end within
\* handler_timeout, and sends within the transport's timeout.
HandlersEnd ==
  \A r \in Requests :
    WF_vars(task[r] \in {"running", "sending"} /\ (Answer(r) \/ Silent(r) \/ Sent(r)))

----------------------------------------------------------------------------
TypeOK ==
  /\ inbox \in Seq(Requests)
  /\ peer \in [Requests -> Peers \cup {NoPeer}]
  /\ listener \in Listener
  /\ received \in SUBSET Requests
  /\ free \in Nat
  /\ count \in [Peers -> Nat]
  /\ task \in [Requests -> Task]
  /\ busy \in SUBSET Requests
  /\ tasks \in SUBSET Requests
  /\ stopping \in BOOLEAN

\* The count of a peer's lock is the number of its unfinished tasks, however they
\* end: an entry deleted too early would admit a second request beside the
\* first, one kept too long would refuse the peer for ever.
CountsExact ==
  \A p \in Peers : count[p] = Cardinality({r \in LiveTasks : peer[r] = p})

\* While the app serves, every slot is free, held by a task or held by the
\* listener for its next message; none is lost and none is returned twice.
SlotsBalance ==
  listener \in Serving => free + Cardinality(LiveTasks) + Held = MaxConcurrency

\* "Each peer gets at most one request in flight" (multicast_app.py:37).
OnePerPeer ==
  \A r, s \in Executing : peer[r] = peer[s] => r = s

\* Nothing of a stopped app is still running: a task the drain gave up on has
\* ended before `_listen` returns, however often it is cancelled meanwhile.  A
\* drain cancelled before it gave up ("interrupted") keeps no such promise.
NothingOutlivesStop == listener = "stopped" => LiveTasks = {}

\* Every request that was accepted is accounted for, from the receive to the drain:
\* under its peer, against the slots and in what stop() has to wait for; and the
\* state is typed.
RequestsAccounted ==
  TypeOK /\ CountsExact /\ SlotsBalance /\ NothingOutlivesStop

\* stop() ends the app whatever its handlers, its sends and its peers do.
StopEnds == stopping ~> listener \in Returned

\* If handlers and sends end, a message the transport has received is served or
\* the app ends: the slots always come back, and no peer waits for another one's.
EveryRequestEnds ==
  HandlersEnd => \A r \in Requests :
    task[r] = "queued" ~> task[r] \in Ended \cup {"lost"} \/ listener \notin Serving

\* The promise to the peers, with the tasks, the counts and the slots hidden.
Service == INSTANCE PeerService WITH
  owner <- peer,
  executing <- Executing,
  refusing <- LiveTasks \cap busy,
  finished <- {r \in Requests : task[r] \in Ended}

ServiceSpec == Service!Spec
=============================================================================
