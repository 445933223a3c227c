-------------------------------- MODULE App --------------------------------
(***************************************************************************)
(* App (app.py): a run of the app starts what the transport needs, calls    *)
(* the startup hook, opens the transport, serves one message at a time and  *)
(* undoes all of it in reverse order, from wherever it fails, is cancelled  *)
(* or is stopped.  MulticastApp runs through the same `_run`; its listen    *)
(* loop is MulticastApp.tla.                                                *)
(***************************************************************************)
EXTENDS Integers, FiniteSets

CONSTANTS
  Runs,       (* the calls of serve() or run()                               *)
  Requests,   (* the messages received                                       *)
  MaxCancels  (* bound: how often the program cancels a run                  *)

None == "none"

ASSUME CancelsAssumption == MaxCancels \in Nat
ASSUME NamesAssumption == None \notin Runs \cup Requests

VARIABLES
  running,       (* `_running`                                               *)
  stopping,      (* the event `_stopping`                                    *)
  phase,         (* where `_run` and `_listen` of each run are               *)
  dependencies,  (* what the transport's startup() has made, until undone    *)
  context,       (* what the startup hook has made, until on_shutdown        *)
  open,          (* the transport is open                                    *)
  current,       (* the message of the task that runs `process`              *)
  abandoned,     (* a message whose cancelled task nobody waits for any more  *)
  handled,       (* the messages the app is done with                        *)
  lost,          (* the messages received and dropped                        *)
  cancels        (* how often a run was cancelled                            *)

flags == <<running, stopping>>
made == <<dependencies, context, open>>
messages == <<current, abandoned, handled, lost>>
vars == <<flags, phase, made, messages, cancels>>

Serving == {"recv", "processing", "draining", "reaping", "sending"}
Started == {"opening", "closing", "shutdown hook"} \cup Serving
Phase == {"idle", "refused", "startup", "startup hook", "undoing", "ended"} \cup Started

Executing == {current, abandoned} \ {None}
Unseen == Requests \ (Executing \cup handled \cup lost)

Init ==
  /\ running = FALSE
  /\ stopping = FALSE
  /\ phase = [r \in Runs |-> "idle"]
  /\ dependencies = FALSE
  /\ context = FALSE
  /\ open = FALSE
  /\ current = None
  /\ abandoned = None
  /\ handled = {}
  /\ lost = {}
  /\ cancels = 0

Go(r, from, to) == phase[r] = from /\ phase' = [phase EXCEPT ![r] = to]

\* serve() or run(): the app runs once.
Serve(r) ==
  /\ phase[r] = "idle"
  /\ IF running \/ stopping
       THEN Go(r, "idle", "refused") /\ UNCHANGED running
       ELSE Go(r, "idle", "startup") /\ running' = TRUE
  /\ UNCHANGED <<stopping, made, messages, cancels>>

\* stop(), by a handler or by the program.
Stop ==
  /\ stopping' = TRUE
  /\ UNCHANGED <<running, phase, made, messages, cancels>>

\* The transport's startup() is done.
DependenciesStarted(r) ==
  /\ Go(r, "startup", "startup hook")
  /\ dependencies' = TRUE
  /\ UNCHANGED <<flags, messages, context, open, cancels>>

\* The startup hook has returned the context.
HookStarted(r) ==
  /\ Go(r, "startup hook", "opening")
  /\ context' = TRUE
  /\ UNCHANGED <<flags, messages, dependencies, open, cancels>>

\* `while not self._stopping.is_set()`: where the loop goes on.
NextMessage == IF stopping THEN "closing" ELSE "recv"

Opened(r) ==
  /\ Go(r, "opening", NextMessage)
  /\ open' = TRUE
  /\ UNCHANGED <<flags, messages, dependencies, context, cancels>>

----------------------------------------------------------------------------
\* A message is received and its task started.
Receive(r) ==
  /\ ~stopping
  /\ Go(r, "recv", "processing")
  /\ \E m \in Unseen : current' = m
  /\ UNCHANGED <<flags, made, abandoned, handled, lost, cancels>>

\* The transport is closed, or the app is stopping: a message received in the
\* same turn is dropped.
LeaveLoop(r) ==
  /\ Go(r, "recv", "closing")
  /\ \/ UNCHANGED lost
     \/ stopping /\ \E m \in Unseen : lost' = lost \cup {m}
  /\ UNCHANGED <<flags, made, current, abandoned, handled, cancels>>

\* stop() came first: the message may take shutdown_timeout.
Drain(r) ==
  /\ stopping
  /\ Go(r, "processing", "draining")
  /\ UNCHANGED <<flags, made, messages, cancels>>

\* Mutant of Processed: the reply is sent while the loop goes on.
ProcessedInBackground(r) ==
  /\ phase[r] \in {"processing", "draining"}
  /\ phase' = [phase EXCEPT ![r] = NextMessage]
  /\ UNCHANGED <<flags, made, messages, cancels>>

\* `process` returned a reply, and it is sent.
Processed(r) ==
  /\ phase[r] \in {"processing", "draining"}
  /\ phase' = [phase EXCEPT ![r] = "sending"]
  /\ UNCHANGED <<flags, made, messages, cancels>>

\* Mutant of Abandon: the loop does not wait for the task it cancelled.
AbandonRunning(r) ==
  /\ Go(r, "draining", "closing")
  /\ UNCHANGED <<flags, made, messages, cancels>>

\* Mutant of Abandon: the drain has no deadline.
AbandonNever(r) == FALSE /\ UNCHANGED vars

\* shutdown_timeout is over: the task is cancelled.
Abandon(r) ==
  /\ Go(r, "draining", "reaping")
  /\ UNCHANGED <<flags, made, messages, cancels>>

\* The cancelled task has ended, its handler's cleanup included.
Reap(r) ==
  /\ Go(r, "reaping", "closing")
  /\ current' = None
  /\ handled' = handled \cup {current}
  /\ UNCHANGED <<flags, made, abandoned, lost, cancels>>

\* The reply was sent (or the notification finished).
Sent(r) ==
  /\ Go(r, "sending", NextMessage)
  /\ current' = None
  /\ handled' = handled \cup {current}
  /\ UNCHANGED <<flags, made, abandoned, lost, cancels>>

\* It could not be sent, or the handler raised CancelledError: the loop ends.
Escape(r) ==
  /\ phase[r] \in {"processing", "draining", "sending"}
  /\ phase' = [phase EXCEPT ![r] = "closing"]
  /\ current' = None
  /\ handled' = handled \cup {current}
  /\ UNCHANGED <<flags, made, abandoned, lost, cancels>>

\* The transport is closed, whether closing it succeeded or not.
Closed(r) ==
  /\ Go(r, "closing", "shutdown hook")
  /\ open' = FALSE
  /\ stopping' = TRUE
  /\ UNCHANGED <<running, messages, dependencies, context, cancels>>

----------------------------------------------------------------------------
\* Mutant of FailStartup: a startup hook that fails ends the run at once.
FailStartupAtOnce(r) ==
  /\ \/ Go(r, "startup", "ended")
     \/ Go(r, "startup hook", "ended")
     \/ Go(r, "opening", "shutdown hook")
  /\ stopping' = TRUE
  /\ running' = FALSE
  /\ UNCHANGED <<made, messages, cancels>>

\* A step of the startup fails or takes too long: what had been started before
\* it is undone.
FailStartup(r) ==
  /\ \/ Go(r, "startup", "ended") /\ running' = FALSE
     \/ Go(r, "startup hook", "undoing") /\ UNCHANGED running
     \/ Go(r, "opening", "shutdown hook") /\ UNCHANGED running
  /\ stopping' = TRUE
  /\ UNCHANGED <<made, messages, cancels>>

\* on_shutdown has returned, failed or taken shutdown_timeout.
HookEnded(r) ==
  /\ Go(r, "shutdown hook", "undoing")
  /\ context' = FALSE
  /\ UNCHANGED <<flags, messages, dependencies, open, cancels>>

\* The transport's shutdown() has, and the run is over.
DependenciesEnded(r) ==
  /\ Go(r, "undoing", "ended")
  /\ dependencies' = FALSE
  /\ running' = FALSE
  /\ UNCHANGED <<stopping, messages, context, open, cancels>>

\* Where a cancellation takes a run from each phase in which it awaits.
Interrupted(p) ==
  CASE p = "startup" -> "ended"
    [] p = "startup hook" -> "undoing"
    [] p = "opening" -> "shutdown hook"
    [] p \in {"processing", "draining"} -> "reaping"
    [] p \in {"recv", "reaping", "sending"} -> "closing"
    [] p = "closing" -> "shutdown hook"
    [] p = "shutdown hook" -> "undoing"
    [] p = "undoing" -> "ended"

\* The task that called serve() is cancelled.  A second time, it no longer waits
\* for the message's task it has cancelled itself.
Cancel(r) ==
  /\ phase[r] \in {"startup", "startup hook", "undoing"} \cup Started
  /\ cancels < MaxCancels
  /\ cancels' = cancels + 1
  /\ phase' = [phase EXCEPT ![r] = Interrupted(@)]
  /\ stopping' = (stopping \/ phase'[r] \in {"ended", "undoing", "shutdown hook"})
  /\ running' = (phase'[r] # "ended")
  /\ dependencies' = (dependencies /\ phase'[r] # "ended")
  /\ context' = (context /\ phase'[r] # "undoing")
  /\ open' = (open /\ phase'[r] # "shutdown hook")
  /\ CASE phase[r] = "sending" ->
            current' = None /\ handled' = handled \cup {current} /\ UNCHANGED abandoned
       [] phase[r] = "reaping" ->
            current' = None /\ abandoned' = current /\ UNCHANGED handled
       [] OTHER -> UNCHANGED <<current, abandoned, handled>>
  /\ UNCHANGED lost

\* The task nobody waits for ends.
OrphanEnds ==
  /\ abandoned # None
  /\ abandoned' = None
  /\ handled' = handled \cup {abandoned}
  /\ UNCHANGED <<flags, phase, made, current, lost, cancels>>

----------------------------------------------------------------------------
\* The steps that happen by themselves or that a deadline brings about.
Step(r) ==
  \/ DependenciesStarted(r) \/ HookStarted(r) \/ Opened(r) \/ FailStartup(r)
  \/ Drain(r) \/ Processed(r) \/ Abandon(r) \/ Reap(r) \/ Sent(r) \/ Escape(r)
  \/ Closed(r) \/ HookEnded(r) \/ DependenciesEnded(r)

Next == Stop \/ OrphanEnds \/ \E r \in Runs : Serve(r) \/ Receive(r) \/ LeaveLoop(r) \/ Step(r) \/ Cancel(r)

Spec == Init /\ [][Next]_vars

\* The startup and the shutdown steps have deadlines, a stopped loop leaves, the
\* request it drains has shutdown_timeout, and sending and closing end or fail
\* within the transport's own timeouts.  A cancelled handler ends.  No handler
\* is assumed to return otherwise.
FairStep(r) ==
  \/ stopping /\ LeaveLoop(r)
  \/ FailStartup(r) \/ Drain(r) \/ Abandon(r) \/ Reap(r) \/ Sent(r)
  \/ Closed(r) \/ HookEnded(r) \/ DependenciesEnded(r)

FairSpec == Spec /\ \A r \in Runs : WF_vars(FairStep(r))

----------------------------------------------------------------------------
TypeOK ==
  /\ running \in BOOLEAN /\ stopping \in BOOLEAN
  /\ phase \in [Runs -> Phase]
  /\ dependencies \in BOOLEAN /\ context \in BOOLEAN /\ open \in BOOLEAN
  /\ current \in Requests \cup {None} /\ abandoned \in Requests \cup {None}
  /\ current # None <=> \E r \in Runs : phase[r] \in Serving \ {"recv"}
  /\ handled \in SUBSET Requests /\ lost \in SUBSET Requests
  /\ cancels \in 0..MaxCancels

Active(r) == phase[r] \notin {"idle", "refused", "ended"}

\* "An app instance runs once" (docs/apps-and-lifecycle.md): two runs never
\* share the transport and the context, and none follows another.
RunsOnce ==
  \A r, s \in Runs : Active(r) /\ phase[s] \notin {"idle", "refused"} => r = s

\* A handler, its cleanup after a cancellation included, never runs without the
\* context, the open transport and what the transport depends on - unless the
\* run is cancelled while it waits for that cleanup.
HandlersHaveContext == current # None => context /\ open /\ dependencies

\* What exists is what the phase of the run accounts for: nothing is left when
\* it has ended, from whatever phase it was ended, and the context is undone
\* before what it may depend on.
NothingLeaks ==
  /\ context => dependencies
  /\ open => context
  /\ dependencies => \E r \in Runs : phase[r] \in Started \cup {"startup hook", "undoing"}
  /\ context => \E r \in Runs : phase[r] \in Started
  /\ open => \E r \in Runs : phase[r] \in Serving \cup {"closing"}
  /\ running <=> \E r \in Runs : Active(r)

\* The one run there may be accounts for all that exists, and the state is typed.
RunAccounted == TypeOK /\ RunsOnce /\ NothingLeaks

\* stop() ends the run, even if handlers never return and startup hangs.
StopEnds == \A r \in Runs : stopping /\ Active(r) ~> phase[r] = "ended"

----------------------------------------------------------------------------
\* App serves its peers as PeerService does with one request at a time.
Service == INSTANCE PeerService WITH
  MaxConcurrency <- 1,
  owner <- [m \in Requests |-> "peer"],
  executing <- Executing,
  refusing <- {},
  finished <- handled

ServiceSpec == Service!Spec
=============================================================================
