-------------------------- MODULE AuthenticatedApp --------------------------
(***************************************************************************)
(* An App whose transport is the HTTP server with a CookieSessionAuth       *)
(* (auth/cookie.py) over a PasswordCredentialValidator: the run of the app  *)
(* (App) starts and shuts down what the authenticator depends on            *)
(* (DependencyLifecycle, auth/_util.py), and while the transport is open    *)
(* clients log in and out.  A password is checked in a worker thread, which *)
(* goes on when the login is cancelled and keeps its place until it ends.   *)
(***************************************************************************)
EXTENDS App, Sequences

CONSTANTS
  Dependencies,  (* what DependencyLifecycle was given, in order, with repetitions *)
  Logins,        (* the clients that log in, once each                            *)
  Right,         (* those with the password of an enabled account                 *)
  Places,        (* the places for logins of the transport, `_auth_slots`         *)
  MaxVerifying   (* max_concurrency of the validator                              *)

ASSUME DependenciesAssumption == Dependencies \in Seq({Dependencies[i] : i \in DOMAIN Dependencies})
ASSUME LoginsAssumption == Right \subseteq Logins /\ IsFiniteSet(Logins)
ASSUME PlacesAssumption == {Places, MaxVerifying} \subseteq Nat \ {0}

VARIABLES
  lifecycle,  (* where startup() and shutdown() of the authenticator are    *)
  position,   (* how many of the dependencies startup() has dealt with      *)
  started,    (* `_started`                                                 *)
  up,         (* the dependencies started and not shut down                 *)
  cut,        (* a shutdown() or close() was cut short                      *)
  login,      (* where the login or logout of each client is                *)
  active,     (* `_active` of the validator                                 *)
  threads,    (* the clients whose password a thread checks                 *)
  sessions    (* those with a session in the store                          *)

backends == <<lifecycle, position, started, up>>
logins == <<login, active, threads, sessions>>
allVars == <<vars, backends, cut, logins>>

Elements(s) == {s[i] : i \in 1..Len(s)}
InProgress == {"body", "lookup", "verifying", "creating", "leaving"}
Handling == {l \in Logins : login[l] \in InProgress}
Listening == \E r \in Runs : phase[r] \in Serving
Moves(l, to) == login' = [login EXCEPT ![l] = to]

AuthInit ==
  /\ Init
  /\ lifecycle = "starting" /\ position = 0 /\ started = <<>> /\ up = {} /\ cut = FALSE
  /\ login = [l \in Logins |-> "idle"] /\ active = 0 /\ threads = {} /\ sessions = {}

----------------------------------------------------------------------------
\* startup(): the next dependency has started, unless it is one of those before.
DependencyStarted(r) ==
  /\ phase[r] = "startup" /\ lifecycle = "starting" /\ position < Len(Dependencies)
  /\ LET d == Dependencies[position + 1] IN
       /\ started' = IF d \in Elements(started) THEN started ELSE Append(started, d)
       /\ up' = up \cup {d}
  /\ position' = position + 1
  /\ UNCHANGED <<vars, lifecycle, cut, logins>>

AllStarted(r) ==
  /\ lifecycle = "starting" /\ position = Len(Dependencies)
  /\ DependenciesStarted(r)
  /\ lifecycle' = "started"
  /\ UNCHANGED <<position, started, up, cut, logins>>

\* Mutant of StartupFails: what had started is not undone.
StartupFailsAtOnce(r) ==
  /\ phase[r] = "startup" /\ lifecycle = "starting"
  /\ lifecycle' = "undoing" /\ started' = <<>>
  /\ UNCHANGED <<vars, position, up, cut, logins>>

\* A dependency fails to start, startup_timeout is over or the run is cancelled.
StartupFails(r) ==
  /\ phase[r] = "startup" /\ lifecycle = "starting"
  /\ lifecycle' = "undoing"
  /\ UNCHANGED <<vars, position, started, up, cut, logins>>

ShuttingDown(r) ==
  \/ phase[r] = "startup" /\ lifecycle = "undoing"
  \/ phase[r] = "undoing"

\* Mutant of DependencyEnds: a shutdown that fails ends the others'.
DependencyFails(r) ==
  /\ ShuttingDown(r) /\ started # <<>>
  /\ up' = up \ {started[Len(started)]}
  /\ started' \in {SubSeq(started, 1, Len(started) - 1), <<>>}
  /\ UNCHANGED <<vars, lifecycle, position, cut, logins>>

\* shutdown(): the last dependency that is left has ended, or failed to.
DependencyEnds(r) ==
  /\ ShuttingDown(r) /\ started # <<>>
  /\ up' = up \ {started[Len(started)]}
  /\ started' = SubSeq(started, 1, Len(started) - 1)
  /\ UNCHANGED <<vars, lifecycle, position, cut, logins>>

\* shutdown_timeout is over, or the run is cancelled again: `_started` was
\* emptied first, and those that are left stay up.
ShutdownCut(r) ==
  /\ ShuttingDown(r) /\ started # <<>>
  /\ started' = <<>> /\ cut' = TRUE
  /\ UNCHANGED <<vars, lifecycle, position, up, logins>>

StartupUndone(r) ==
  /\ phase[r] = "startup" /\ lifecycle = "undoing" /\ started = <<>>
  /\ FailStartup(r)
  /\ lifecycle' = "ended"
  /\ UNCHANGED <<position, started, up, cut, logins>>

AllEnded(r) ==
  /\ started = <<>> /\ DependenciesEnded(r)
  /\ lifecycle' = "ended"
  /\ UNCHANGED <<position, started, up, cut, logins>>

----------------------------------------------------------------------------
\* The other steps of the run.  close() ends when the handlers of the HTTP
\* server have ended; when it is cancelled they may go on.
AppRuns(r) ==
  \/ Serve(r) \/ Receive(r) \/ LeaveLoop(r) \/ HookStarted(r) \/ Opened(r) \/ Drain(r) \/ Processed(r)
  \/ Abandon(r) \/ Reap(r) \/ Sent(r) \/ Escape(r) \/ HookEnded(r)
  \/ phase[r] # "startup" /\ FailStartup(r)
  \/ Handling = {} /\ Closed(r)

AppStep(r) == AppRuns(r) /\ UNCHANGED <<backends, cut, logins>>

Stopped == (Stop \/ OrphanEnds) /\ UNCHANGED <<backends, cut, logins>>

AppCancelled(r) ==
  /\ phase[r] \notin {"startup", "undoing"} /\ Cancel(r)
  /\ cut' = (cut \/ (phase[r] = "closing" /\ Handling # {}))
  /\ UNCHANGED <<backends, logins>>

\* A cancellation of the last step of the run.
UndoingCancelled(r) ==
  /\ phase[r] = "undoing" /\ Cancel(r)
  /\ started' = <<>> /\ cut' = (cut \/ started # <<>>) /\ lifecycle' = "ended"
  /\ UNCHANGED <<position, up, logins>>

----------------------------------------------------------------------------
\* POST /login while the server listens.
Post(l) ==
  /\ login[l] = "idle" /\ Listening
  /\ Moves(l, IF Cardinality(Handling) < Places THEN "body" ELSE "unavailable")
  /\ UNCHANGED <<vars, backends, cut, active, threads, sessions>>

\* validate() is asked about a dict: it may be no pair of user name and password;
\* otherwise the account is looked up, unless the validator is at its limit.
Validates(l) ==
  \/ Moves(l, "refused") /\ UNCHANGED active
  \/ active >= MaxVerifying /\ Moves(l, "unavailable") /\ UNCHANGED active
  \/ active < MaxVerifying /\ Moves(l, "lookup") /\ active' = active + 1

\* The body is read, and need not be a JSON object.
Submit(l) ==
  /\ login[l] = "body"
  /\ \/ Moves(l, "refused") /\ UNCHANGED active
     \/ Validates(l)
  /\ UNCHANGED <<vars, backends, cut, threads, sessions>>

LookupFails(l) ==
  /\ login[l] = "lookup" /\ Moves(l, "unavailable")
  /\ active' = active - 1
  /\ UNCHANGED <<vars, backends, cut, threads, sessions>>

\* A thread checks the password, against a dummy if there is no account.
LookedUp(l) ==
  /\ login[l] = "lookup" /\ Moves(l, "verifying")
  /\ threads' = threads \cup {l}
  /\ UNCHANGED <<vars, backends, cut, active, sessions>>

\* It has, or found a record that is not a hash.
Checked(l) ==
  /\ login[l] = "verifying"
  /\ \/ Moves(l, IF l \in Right THEN "creating" ELSE "refused")
     \/ Moves(l, "unavailable")
  /\ active' = active - 1 /\ threads' = threads \ {l}
  /\ UNCHANGED <<vars, backends, cut, sessions>>

Created(l) ==
  /\ login[l] = "creating" /\ Moves(l, "in")
  /\ sessions' = sessions \cup {l}
  /\ UNCHANGED <<vars, backends, cut, active, threads>>

Logout(l) ==
  /\ login[l] = "in" /\ Listening
  /\ IF Cardinality(Handling) < Places THEN Moves(l, "leaving") ELSE UNCHANGED login
  /\ UNCHANGED <<vars, backends, cut, active, threads, sessions>>

LoggedOut(l) ==
  /\ login[l] = "leaving" /\ Moves(l, "out")
  /\ sessions' = sessions \ {l}
  /\ UNCHANGED <<vars, backends, cut, active, threads>>

\* The store is full or unavailable: what it was asked may have been done.
StoreFails(l) ==
  /\ login[l] \in {"creating", "leaving"} /\ Moves(l, "unavailable")
  /\ sessions' \in {sessions \cup {l}, sessions \ {l}}
  /\ UNCHANGED <<vars, backends, cut, active, threads>>

\* Mutant of LoginCancelled: the place is given back with the login.
LoginReleases(l) ==
  /\ login[l] \in InProgress /\ Moves(l, "cancelled")
  /\ active' = IF login[l] \in {"lookup", "verifying"} THEN active - 1 ELSE active
  /\ sessions' = sessions
  /\ UNCHANGED <<vars, backends, cut, threads>>

\* request_timeout is over, the client disconnects or close() cancels it.  A
\* thread that checks the password goes on, and keeps its place.
LoginCancelled(l) ==
  /\ login[l] \in InProgress /\ Moves(l, "cancelled")
  /\ active' = IF login[l] = "lookup" THEN active - 1 ELSE active
  /\ sessions' \in
       IF login[l] \in {"creating", "leaving"} THEN {sessions \cup {l}, sessions \ {l}} ELSE {sessions}
  /\ UNCHANGED <<vars, backends, cut, threads>>

\* Mutant of ThreadEnds: there is no callback that gives the place back.
ThreadEndsUnseen(l) ==
  /\ login[l] = "cancelled" /\ l \in threads
  /\ threads' = threads \ {l}
  /\ UNCHANGED <<vars, backends, cut, login, active, sessions>>

\* `finished`: the thread has ended.
ThreadEnds(l) ==
  /\ login[l] = "cancelled" /\ l \in threads
  /\ threads' = threads \ {l} /\ active' = active - 1
  /\ UNCHANGED <<vars, backends, cut, login, sessions>>

----------------------------------------------------------------------------
Backend(r) ==
  \/ DependencyStarted(r) \/ AllStarted(r) \/ StartupFails(r) \/ DependencyEnds(r) \/ ShutdownCut(r)
  \/ StartupUndone(r) \/ AllEnded(r)
Client(l) ==
  \/ Post(l) \/ Submit(l) \/ LookupFails(l) \/ LookedUp(l) \/ Checked(l) \/ Created(l)
  \/ Logout(l) \/ LoggedOut(l) \/ StoreFails(l) \/ LoginCancelled(l) \/ ThreadEnds(l)

AuthNext ==
  \/ Stopped
  \/ \E r \in Runs : Backend(r) \/ AppStep(r) \/ AppCancelled(r) \/ UndoingCancelled(r)
  \/ \E l \in Logins : Client(l)

AuthSpec == AuthInit /\ [][AuthNext]_allVars

\* The fairness of App, with the steps that its own now wait for: a dependency
\* starts or fails to within startup_timeout, and ends within shutdown_timeout
\* or, when startup failed, by itself.  A request is cancelled at its deadline
\* and when close() has waited for it, and a thread that hashes ends.
AuthFairSpec ==
  /\ AuthSpec
  /\ \A r \in Runs :
       WF_allVars(\/ StartupFails(r) \/ DependencyEnds(r) \/ ShutdownCut(r) \/ StartupUndone(r) \/ AllEnded(r)
                  \/ FairStep(r) /\ AppStep(r))
  /\ \A l \in Logins : WF_allVars(LoginCancelled(l)) /\ WF_allVars(ThreadEnds(l))

----------------------------------------------------------------------------
AuthTypeOK ==
  /\ lifecycle \in {"starting", "undoing", "started", "ended"}
  /\ position \in 0..Len(Dependencies)
  /\ started \in Seq(Elements(Dependencies)) /\ up \subseteq Elements(Dependencies)
  /\ cut \in BOOLEAN
  /\ login \in [Logins -> {"idle", "in", "out", "refused", "unavailable", "cancelled"} \cup InProgress]
  /\ active \in Nat /\ threads \subseteq Logins /\ sessions \subseteq Right

\* The places of the validator are those of the lookups and of the threads, the
\* threads of cancelled logins included, and the limit bounds them.
SlotsExact ==
  /\ {l \in Logins : login[l] = "verifying"} \subseteq threads
  /\ {l \in Logins : login[l] = "lookup"} \cap threads = {}
  /\ active = Cardinality(threads \cup {l \in Logins : login[l] = "lookup"})
  /\ active <= MaxVerifying

\* A login or logout finds its backends up, from the first request to the last,
\* unless close() was cut short.
LoginsFindBackends ==
  Handling # {} /\ ~cut => Elements(Dependencies) \subseteq up

\* They are down when the run has ended, wherever it was ended, unless their
\* shutdown was cut short; and those started first are shut down last.
BackendsUndone ==
  /\ (\E r \in Runs : phase[r] = "ended") /\ ~cut => up = {}
  /\ \A i, j \in 1..Len(Dependencies) :
       /\ i < j /\ Dependencies[j] \in up
       /\ \A k \in 1..(j - 1) : Dependencies[k] # Dependencies[j]
       => Dependencies[i] \in up

\* What the authenticator is made of is up while it is used and down
\* afterwards, and no more passwords are checked at once than allowed; and the
\* state is typed.
BackendsAccounted == AuthTypeOK /\ SlotsExact /\ LoginsFindBackends /\ BackendsUndone

\* A validator at its limit checks passwords again, whatever the clients do.
CapacityReturns == active = MaxVerifying ~> active < MaxVerifying
=============================================================================
