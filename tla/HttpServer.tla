----------------------------- MODULE HttpServer -----------------------------
(***************************************************************************)
(* HttpServerTransport (transports/http.py) between aiohttp, which runs a   *)
(* handler task per request and cancels it when its client disconnects, and *)
(* App, which receives one message and answers it before it receives the    *)
(* next.  They meet in the future of each request: App sets its result, the *)
(* request's deadline or disconnection cancels it, close() fails it.        *)
(***************************************************************************)
EXTENDS Subsequences, FiniteSets

CONSTANTS
  Requests,     (* the POSTs to /rpc                                          *)
  Size,         (* the length of the body of each                             *)
  MaxPending,   (* max_pending_requests                                       *)
  MaxBytes      (* max_queue_bytes                                            *)

None == "none"
Statuses == {"none", "200", "204", "401", "503", "504"}

ASSUME LimitsAssumption == {MaxPending, MaxBytes} \subseteq Nat \ {0}
ASSUME SizeAssumption == Size \in [Requests -> Nat]
ASSUME RequestsAssumption == None \notin Requests

VARIABLES
  handler,   (* where `_handle` of each request is                            *)
  future,    (* its future `response`                                         *)
  status,    (* what the client is answered                                   *)
  pending,   (* `_pending`                                                    *)
  queue,     (* `_queue`                                                      *)
  bytes,     (* `_queued_bytes`                                               *)
  active,    (* the request whose future is `_active`                         *)
  closing,   (* `_closing`                                                    *)
  app,       (* what App does: "free", "recv", "working" or "ended"           *)
  message    (* the request it works on                                       *)

requestVars == <<handler, future, status, pending>>
vars == <<requestVars, queue, bytes, active, closing, app, message>>

\* A cancelled future was given up by its handler, a failed one by close().
Future == {"none", "unset", "reply", "no content", "cancelled", "failed"}
Done(r) == future[r] \notin {"none", "unset"}
Handling == {"verifying", "reading", "waiting", "cancelled"}
InQueue(r) == r \in Items(queue)

Init ==
  /\ handler = [r \in Requests |-> "none"]
  /\ future = [r \in Requests |-> "none"]
  /\ status = [r \in Requests |-> "none"]
  /\ pending = {}
  /\ queue = <<>>
  /\ bytes = 0
  /\ active = None
  /\ closing = FALSE
  /\ app = "free"
  /\ message = None

----------------------------------------------------------------------------

\* A request is admitted: its place is taken before the first await.
Admit(r) ==
  /\ handler[r] = "none"
  /\ ~closing /\ Cardinality(pending) < MaxPending
  /\ handler' = [handler EXCEPT ![r] = "verifying"]
  /\ future' = [future EXCEPT ![r] = "unset"]
  /\ pending' = pending \cup {r}
  /\ UNCHANGED <<status, queue, bytes, active, closing, app, message>>

Refuse(r) ==
  /\ handler[r] = "none"
  /\ closing \/ Cardinality(pending) >= MaxPending
  /\ handler' = [handler EXCEPT ![r] = "done"]
  /\ status' = [status EXCEPT ![r] = "503"]
  /\ UNCHANGED <<future, pending, queue, bytes, active, closing, app, message>>

\* Mutant of Leave: the queue keeps the entry of a handler that has gone.
LeaveQueued(r, code) ==
  /\ handler' = [handler EXCEPT ![r] = "done"]
  /\ status' = [status EXCEPT ![r] = code]
  /\ pending' = pending \ {r}
  /\ future' = [future EXCEPT ![r] = IF @ = "unset" THEN "cancelled" ELSE @]
  /\ bytes' = IF InQueue(r) THEN bytes - Size[r] ELSE bytes
  /\ UNCHANGED queue

\* The `finally` of `_handle` and the answer of aiohttp.
Leave(r, code) ==
  /\ handler' = [handler EXCEPT ![r] = "done"]
  /\ status' = [status EXCEPT ![r] = code]
  /\ pending' = pending \ {r}
  /\ future' = [future EXCEPT ![r] = IF @ = "unset" THEN "cancelled" ELSE @]
  /\ IF InQueue(r)
       THEN queue' = Kept(queue, Requests \ {r}) /\ bytes' = bytes - Size[r]
       ELSE UNCHANGED <<queue, bytes>>

Verified(r) ==
  /\ handler[r] = "verifying"
  /\ handler' = [handler EXCEPT ![r] = "reading"]
  /\ UNCHANGED <<future, status, pending, queue, bytes, active, closing, app, message>>

\* The credentials are wrong, or the authenticator is unavailable.
Unauthorized(r) ==
  /\ handler[r] = "verifying"
  /\ \E code \in {"401", "503"} : Leave(r, code)
  /\ UNCHANGED <<active, closing, app, message>>

\* The body has been read; there may be no room for it.
Enqueue(r) ==
  /\ handler[r] = "reading"
  /\ ~closing /\ bytes + Size[r] <= MaxBytes
  /\ handler' = [handler EXCEPT ![r] = "waiting"]
  /\ queue' = Append(queue, r)
  /\ bytes' = bytes + Size[r]
  /\ UNCHANGED <<future, status, pending, active, closing, app, message>>

NoRoom(r) ==
  /\ handler[r] = "reading"
  /\ closing \/ bytes + Size[r] > MaxBytes
  /\ Leave(r, "503")
  /\ UNCHANGED <<active, closing, app, message>>

\* The future is done and the handler, woken, answers with it.
Respond(r) ==
  /\ handler[r] = "waiting" /\ Done(r)
  /\ Leave(r, CASE future[r] = "reply" -> "200"
                [] future[r] = "no content" -> "204"
                [] future[r] = "failed" -> "503")
  /\ UNCHANGED <<active, closing, app, message>>

\* Mutant of Cancel: the deadline ends with the reading of the body.
CancelEarly(r) ==
  /\ handler[r] \in {"verifying", "reading"}
  /\ handler' = [handler EXCEPT ![r] = "cancelled"]
  /\ UNCHANGED <<future, status, pending, queue, bytes, active, closing, app, message>>

\* request_timeout is over or the client has disconnected: a handler that
\* awaits its future cancels it at once, and ends in a later turn.
Cancel(r) ==
  /\ handler[r] \in {"verifying", "reading", "waiting"}
  /\ future' = [future EXCEPT ![r] = IF handler[r] = "waiting" /\ @ = "unset" THEN "cancelled" ELSE @]
  /\ handler' = [handler EXCEPT ![r] = "cancelled"]
  /\ UNCHANGED <<status, pending, queue, bytes, active, closing, app, message>>

Unwind(r) ==
  /\ handler[r] = "cancelled"
  /\ Leave(r, "504")
  /\ UNCHANGED <<active, closing, app, message>>

----------------------------------------------------------------------------
\* App calls recv().
Recv ==
  /\ app = "free"
  /\ app' = IF active # None THEN "misused" ELSE "recv"
  /\ UNCHANGED <<requestVars, queue, bytes, active, closing, message>>

\* Mutant of Take: what waits for nobody is received too.
TakeAny ==
  /\ app = "recv" /\ ~closing
  /\ queue # <<>>
  /\ queue' = Tail(queue)
  /\ bytes' = bytes - Size[Head(queue)]
  /\ active' = Head(queue)
  /\ message' = Head(queue)
  /\ app' = "working"
  /\ UNCHANGED <<requestVars, closing>>

\* It obtains the first request that still waits for its answer, and those
\* before it leave the queue.
Take ==
  /\ app = "recv" /\ ~closing
  /\ \E i \in 1..Len(queue) :
       /\ ~Done(queue[i])
       /\ \A j \in 1..(i - 1) : Done(queue[j])
       /\ queue' = SubSeq(queue, i + 1, Len(queue))
       /\ bytes' = bytes - Total(SubSeq(queue, 1, i), Size)
       /\ active' = queue[i]
       /\ message' = queue[i]
  /\ app' = "working"
  /\ UNCHANGED <<requestVars, closing>>

\* All those that are queued have given up.
Skip ==
  /\ app = "recv" /\ ~closing /\ queue # <<>>
  /\ \A i \in 1..Len(queue) : Done(queue[i])
  /\ queue' = <<>>
  /\ bytes' = bytes - Total(queue, Size)
  /\ UNCHANGED <<requestVars, active, closing, app, message>>

RecvRaises ==
  /\ app = "recv" /\ closing
  /\ app' = "ended"
  /\ UNCHANGED <<requestVars, queue, bytes, active, closing, message>>

\* App has a reply.  The active request gets it unless it has given up.
Send ==
  /\ app = "working" /\ ~closing
  /\ active' = None
  /\ message' = None
  /\ IF active = None
       THEN app' = "misused" /\ UNCHANGED future
       ELSE /\ app' = "free"
            /\ future' = [future EXCEPT ![active] = IF Done(active) THEN @ ELSE "reply"]
  /\ UNCHANGED <<handler, status, pending, queue, bytes, closing>>

SendRaises ==
  /\ app = "working" /\ closing
  /\ app' = "ended"
  /\ message' = None
  /\ UNCHANGED <<requestVars, queue, bytes, active, closing>>

\* Mutant of FinishNotification: the finished request stays the active one.
FinishKeeping ==
  /\ app = "working"
  /\ message' = None
  /\ app' = "free"
  /\ future' = [r \in Requests |-> IF r = active /\ ~Done(r) THEN "no content" ELSE future[r]]
  /\ UNCHANGED <<handler, status, pending, queue, bytes, active, closing>>

\* The message was a notification.
FinishNotification ==
  /\ app = "working"
  /\ active' = None
  /\ message' = None
  /\ app' = "free"
  /\ future' = [r \in Requests |-> IF r = active /\ ~Done(r) THEN "no content" ELSE future[r]]
  /\ UNCHANGED <<handler, status, pending, queue, bytes, closing>>

\* App stops: while it receives, or after a drain without a reply.
Stop ==
  /\ app \in {"free", "recv", "working"}
  /\ app' = "ended"
  /\ message' = None
  /\ UNCHANGED <<requestVars, queue, bytes, active, closing>>

\* close(), by the App that ended or by the program.
Close ==
  /\ ~closing
  /\ closing' = TRUE
  /\ future' = [r \in Requests |-> IF r \in pending /\ ~Done(r) THEN "failed" ELSE future[r]]
  /\ queue' = <<>> /\ bytes' = 0 /\ active' = None
  /\ UNCHANGED <<handler, status, pending, app, message>>

----------------------------------------------------------------------------
Handle(r) ==
  \/ Admit(r) \/ Refuse(r) \/ Verified(r) \/ Unauthorized(r) \/ Enqueue(r) \/ NoRoom(r)
  \/ Respond(r) \/ Cancel(r) \/ Unwind(r)

Next ==
  \/ Recv \/ Take \/ Skip \/ RecvRaises \/ Send \/ SendRaises \/ FinishNotification \/ Stop \/ Close
  \/ \E r \in Requests : Handle(r)

Spec == Init /\ [][Next]_vars

\* The event loop runs the handlers that are woken, and a request has a
\* deadline.  App may never answer.
FairSpec == Spec /\ \A r \in Requests : WF_vars(Respond(r) \/ Unwind(r)) /\ WF_vars(Cancel(r))

----------------------------------------------------------------------------
TypeOK ==
  /\ handler \in [Requests -> Handling \cup {"none", "done"}]
  /\ future \in [Requests -> Future]
  /\ status \in [Requests -> Statuses]
  /\ pending \in SUBSET Requests
  /\ queue \in Seq(Requests)
  /\ bytes \in Nat
  /\ active \in Requests \cup {None}
  /\ closing \in BOOLEAN
  /\ app \in {"free", "recv", "working", "ended", "misused"}
  /\ message \in Requests \cup {None}

\* A place is taken from admission to the answer, whatever ends the request, so
\* max_pending_requests bounds the requests being verified, uploaded and served.
PlacesExact ==
  /\ pending = {r \in Requests : handler[r] \in Handling}
  /\ Cardinality(pending) <= MaxPending

\* The bytes accounted are those queued, and what is queued is waited for.  An
\* entry left by a handler that gave up, or subtracted twice, would shrink or
\* stretch the budget for ever.
BytesExact ==
  /\ bytes = Total(queue, Size) /\ bytes <= MaxBytes
  /\ \A i \in 1..Len(queue) : handler[queue[i]] \in {"waiting", "cancelled"}

\* App and the transport never meet out of turn: recv() finds no unanswered
\* request (http.py:204-205) and send() finds the one it is for, whatever happened to
\* it meanwhile (http.py:268-270).
NeverMisused == app # "misused"

\* The request that App answers is the one whose message it works on.
AnswersItsOwn == app = "working" /\ ~closing => active = message /\ message # None

\* App is not given the message of a request whose handler has given up.
NoWorkForTheGone ==
  [][\A r \in Requests : message # r /\ message' = r => handler[r] = "waiting" /\ future[r] = "unset"]_vars

\* Once the transport is closed nobody waits for an answer of App: each request
\* admitted before has one.
NobodyWaitsAfterClose == closing => \A r \in Requests : handler[r] = "waiting" => Done(r)

\* What admission control counts is what is there, on each of the ways out of a
\* request, and App, the transport and the handlers stay in step through
\* deadlines, disconnections and close(); and the state is typed.
ServerAccounted ==
  /\ TypeOK /\ PlacesExact /\ BytesExact
  /\ NeverMisused /\ AnswersItsOwn /\ NobodyWaitsAfterClose

\* Every request is answered, although App may never do so: as each comes once,
\* there is always a time when none is left without an answer.
EveryRequestAnswered == []<>(\A r \in Requests : handler[r] # "none" => status[r] # "none")
=============================================================================
