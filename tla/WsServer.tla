------------------------------ MODULE WsServer ------------------------------
(***************************************************************************)
(* WsServerTransport and MulticastWsServerTransport (_WsServer in           *)
(* transports/websocket.py): the handler of each upgrade request, sends,    *)
(* broadcasts, revocations and close().                                     *)
(*                                                                         *)
(* aiohttp's ws.close() wakes the task that receives from the socket and    *)
(* goes on when that task has left its receive; a task that waits for room  *)
(* in the queue is not woken.                                               *)
(***************************************************************************)
EXTENDS Integers, FiniteSets, Functions

CONSTANTS
  Requests,        (* the upgrade requests                                  *)
  Senders,         (* the tasks that send                                   *)
  Modes,           (* the values of `_multicast` that are considered        *)
  MaxConnections,  (* max_connections of the multicast server               *)
  QueueSize        (* recv_queue_size                                       *)

LimitsAssumption == {MaxConnections, QueueSize} \subseteq Nat \ {0}
ModesAssumption == Modes \subseteq BOOLEAN
RequestsAssumption == IsFiniteSet(Requests)

VARIABLES
  multicast,   (* `_multicast`: many clients, or one session                *)
  handler,     (* where the handler of each request is                      *)
  active,      (* the connection limiter's `_active`                        *)
  used,        (* `_session_used`                                           *)
  clients,     (* `_clients`                                                *)
  principals,  (* `_requests` and `_principals`                             *)
  open,        (* the sockets that are not closed                           *)
  queued,      (* the messages each client has in the queue, its `_counts`  *)
  sessions,    (* the requests that were given a session                    *)
  sends,       (* what each sender does                                     *)
  closing,     (* `_closing`                                                *)
  queueClosed, (* the queue is closed                                       *)
  closed       (* close() has cleared its entries                           *)

entries == <<clients, principals>>
flags == <<multicast, closing, queueClosed, closed>>
vars == <<handler, active, used, entries, open, queued, sessions, sends, flags>>

\* max_connections; the single-client server has one.
Limit == IF multicast THEN MaxConnections ELSE 1

NotSending == [at |-> "idle"]
Sending(s, at) == sends[s].at = at
Handling(c) == handler[c] \in {"verify", "prepare", "reading", "put", "closing"}
Moves(c, to) == handler' = [handler EXCEPT ![c] = to]
Room == SumFunction(queued) < QueueSize
Emptied == [c \in Requests |-> 0]

Init ==
  /\ multicast \in Modes
  /\ handler = [c \in Requests |-> "none"]
  /\ active = 0 /\ used = FALSE
  /\ clients = {} /\ principals = {} /\ open = {} /\ sessions = {}
  /\ queued = Emptied
  /\ sends = [s \in Senders |-> NotSending]
  /\ closing = FALSE /\ queueClosed = FALSE /\ closed = FALSE

----------------------------------------------------------------------------
\* Mutant of Admit: the session is looked for only when it is made.
AdmitTwice(c) ==
  /\ handler[c] = "none"
  /\ IF closing \/ active >= Limit
       THEN Moves(c, "refused") /\ UNCHANGED active
       ELSE Moves(c, "verify") /\ active' = active + 1
  /\ UNCHANGED <<used, entries, open, queued, sessions, sends, flags>>

\* The upgrade request is refused with 503 or takes a slot.
Admit(c) ==
  /\ handler[c] = "none"
  /\ IF closing \/ (~multicast /\ used) \/ active >= Limit
       THEN Moves(c, "refused") /\ UNCHANGED active
       ELSE Moves(c, "verify") /\ active' = active + 1
  /\ UNCHANGED <<used, entries, open, queued, sessions, sends, flags>>

\* The credentials are refused, cannot be checked or not in time.
Unauthorized(c) ==
  /\ handler[c] = "verify"
  /\ Moves(c, "gone") /\ active' = active - 1
  /\ UNCHANGED <<used, entries, open, queued, sessions, sends, flags>>

Verified(c) ==
  /\ handler[c] = "verify" /\ Moves(c, "prepare")
  /\ UNCHANGED <<active, used, entries, open, queued, sessions, sends, flags>>

\* The handshake fails or is late.
PrepareFails(c) ==
  /\ handler[c] = "prepare"
  /\ Moves(c, "gone") /\ active' = active - 1
  /\ UNCHANGED <<used, entries, open, queued, sessions, sends, flags>>

\* Mutant of Prepared: close() during the handshake is not noticed.
PreparedLate(c) ==
  /\ handler[c] = "prepare"
  /\ Moves(c, "reading") /\ open' = open \cup {c}
  /\ clients' = clients \cup {c} /\ principals' = principals \cup {c}
  /\ sessions' = sessions \cup {c} /\ used' = ~multicast
  /\ UNCHANGED <<active, queued, sends, flags>>

\* The socket is open: the client is registered unless close() began.
Prepared(c) ==
  /\ handler[c] = "prepare"
  /\ IF closing
       THEN Moves(c, "closing") /\ UNCHANGED <<open, entries, sessions, used>>
       ELSE /\ Moves(c, "reading") /\ open' = open \cup {c}
            /\ clients' = clients \cup {c} /\ principals' = principals \cup {c}
            /\ sessions' = sessions \cup {c} /\ used' = ~multicast
  /\ UNCHANGED <<active, queued, sends, flags>>

\* A message is queued, or waits for room.
Message(c) ==
  /\ handler[c] = "reading" /\ c \in open /\ ~queueClosed
  /\ IF Room
       THEN queued' = [queued EXCEPT ![c] = @ + 1] /\ UNCHANGED handler
       ELSE Moves(c, "put") /\ UNCHANGED queued
  /\ UNCHANGED <<active, used, entries, open, sessions, sends, flags>>

Put(c) ==
  /\ handler[c] = "put" /\ ~queueClosed /\ Room
  /\ queued' = [queued EXCEPT ![c] = @ + 1] /\ Moves(c, "reading")
  /\ UNCHANGED <<active, used, entries, open, sessions, sends, flags>>

\* The finally of _serve_ws: the entries, the messages and, for one session,
\* the queue; then the socket is closed.
Leave(c) ==
  /\ IF c \in clients THEN clients' = clients \ {c} /\ principals' = principals \ {c}
                      ELSE UNCHANGED entries
  /\ queued' = IF multicast THEN [queued EXCEPT ![c] = 0] ELSE Emptied
  /\ queueClosed' = (queueClosed \/ ~multicast)
  /\ open' = open \ {c}
  /\ Moves(c, "closing")

\* The client hangs up or sends too much.
HangUp(c) ==
  /\ handler[c] = "reading"
  /\ Leave(c)
  /\ UNCHANGED <<active, used, sessions, sends, multicast, closing, closed>>

\* Mutant of ReaderEnds: what waits for room waits for the app.
ReaderEndsLate(c) ==
  /\ handler[c] = "reading" /\ c \notin open
  /\ Leave(c)
  /\ UNCHANGED <<active, used, sessions, sends, multicast, closing, closed>>

\* The receive meets a socket that was closed here, or the put a closed queue.
ReaderEnds(c) ==
  /\ \/ handler[c] = "reading" /\ c \notin open
     \/ handler[c] = "put" /\ queueClosed
  /\ Leave(c)
  /\ UNCHANGED <<active, used, sessions, sends, multicast, closing, closed>>

\* The socket is closed or close_timeout is over: the slot is free.
Ended(c) ==
  /\ handler[c] = "closing"
  /\ Moves(c, "gone") /\ active' = active - 1
  /\ UNCHANGED <<used, entries, open, queued, sessions, sends, flags>>

\* get_principal() finds the session expired or revoked.
Revoke(c) ==
  /\ c \in clients /\ c \in open
  /\ open' = open \ {c}
  /\ UNCHANGED <<handler, active, used, entries, queued, sessions, sends, flags>>

----------------------------------------------------------------------------
\* recv() takes a message.  Whose is left open: nothing here depends on the order,
\* which PayloadQueue has.
Recv(c) ==
  /\ ~queueClosed /\ queued[c] > 0
  /\ queued' = [queued EXCEPT ![c] = @ - 1]
  /\ UNCHANGED <<handler, active, used, entries, open, sessions, sends, flags>>

\* send() to a client, or the part of broadcast() that sends to it.
SendStart(s, c) ==
  /\ Sending(s, "idle") /\ c \in clients
  /\ \E kind \in {"send", "broadcast"} :
       /\ multicast \/ kind = "send"
       /\ sends' = [sends EXCEPT ![s] = [at |-> "writing", to |-> c, kind |-> kind]]
  /\ UNCHANGED <<handler, active, used, entries, open, queued, sessions, flags>>

SendDone(s) ==
  /\ Sending(s, "writing") /\ sends' = [sends EXCEPT ![s] = NotSending]
  /\ UNCHANGED <<handler, active, used, entries, open, queued, sessions, flags>>

\* Too slow, disconnected or cancelled: the socket is closed.
SendFails(s) ==
  /\ Sending(s, "writing") /\ sends' = [sends EXCEPT ![s].at = "closing"]
  /\ open' = open \ {sends[s].to}
  /\ UNCHANGED <<handler, active, used, entries, queued, sessions, flags>>

\* It is closed; broadcast() removes the client.
SendClosed(s) ==
  /\ Sending(s, "closing") /\ handler[sends[s].to] # "reading"
  /\ sends' = [sends EXCEPT ![s] = NotSending]
  /\ clients' = IF sends[s].kind = "broadcast" THEN clients \ {sends[s].to} ELSE clients
  /\ UNCHANGED <<handler, active, used, principals, open, queued, sessions, flags>>

----------------------------------------------------------------------------
\* close(): the queue, then every registered socket.
Close ==
  /\ ~closing /\ closing' = TRUE
  /\ queueClosed' = TRUE /\ queued' = Emptied
  /\ open' = open \ clients
  /\ UNCHANGED <<handler, active, used, entries, sessions, sends, multicast, closed>>

\* They are closed: the entries are cleared and the runner is cleaned up.
CloseClears ==
  /\ closing /\ ~closed
  /\ \A c \in clients : handler[c] # "reading"
  /\ closed' = TRUE /\ clients' = {} /\ principals' = {}
  /\ UNCHANGED <<handler, active, used, open, queued, sessions, sends, multicast, closing, queueClosed>>

----------------------------------------------------------------------------
Handler(c) ==
  \/ Admit(c) \/ Unauthorized(c) \/ Verified(c) \/ PrepareFails(c) \/ Prepared(c) \/ Message(c)
  \/ Put(c) \/ HangUp(c) \/ ReaderEnds(c) \/ Ended(c) \/ Revoke(c)

Next ==
  \/ \E c \in Requests : Handler(c)
  \/ \E s \in Senders : (\E c \in Requests : SendStart(s, c)) \/ SendDone(s) \/ SendFails(s) \/ SendClosed(s)
  \/ (\E c \in Requests : Recv(c)) \/ Close \/ CloseClears

Spec == Init /\ [][Next]_vars

\* Authentication, handshake, sends and closing sockets have deadlines; the app
\* need not receive.
Fairness ==
  /\ WF_vars(CloseClears)
  /\ \A c \in Requests :
       /\ WF_vars(Unauthorized(c) \/ Verified(c)) /\ WF_vars(PrepareFails(c) \/ Prepared(c))
       /\ WF_vars(ReaderEnds(c)) /\ WF_vars(Ended(c))
  /\ \A s \in Senders : WF_vars(SendDone(s) \/ SendFails(s)) /\ WF_vars(SendClosed(s))

FairSpec == Spec /\ Fairness

----------------------------------------------------------------------------
TypeOK ==
  /\ handler \in [Requests -> {"none", "refused", "verify", "prepare", "reading", "put", "closing", "gone"}]
  /\ multicast \in Modes /\ active \in 0..Limit
  /\ used \in BOOLEAN /\ closing \in BOOLEAN /\ queueClosed \in BOOLEAN /\ closed \in BOOLEAN
  /\ clients \subseteq Requests /\ principals \subseteq Requests
  /\ open \subseteq Requests /\ sessions \subseteq Requests
  /\ queued \in [Requests -> Nat]
  /\ sends \in [Senders -> {NotSending} \cup
                  [at : {"writing", "closing"}, to : Requests, kind : {"send", "broadcast"}]]

\* Every slot is held by one handler, on every way out of the handshake too.
SlotsExact == active = Cardinality({c \in Requests : Handling(c)})

\* get_principal() reads `_requests` and `_principals` of whatever `_clients`
\* holds: an entry without them would be a KeyError in place of an answer.
PrincipalsKnown == clients \subseteq principals

\* The single-client server serves one session ever, although admission and
\* registration are two awaits apart.
OneSession == multicast \/ Cardinality(sessions) <= 1

\* A handler that has ended leaves no entry to send to, no socket and no message.
GoneLeavesNothing ==
  \A c \in Requests : handler[c] = "gone" => c \notin clients \cup open /\ queued[c] = 0

\* After close() nothing is registered, also by handshakes it met on their way.
ClosedStaysEmpty == closed => clients = {} /\ principals = {} /\ open = {}

\* Slots, entries, sockets and messages follow the handler they belong to,
\* whichever of reader, broadcast and close() ends it, and the single-client
\* server serves one session; and the state is typed.
ConnectionsAccounted ==
  /\ TypeOK /\ SlotsExact /\ PrincipalsKnown /\ GoneLeavesNothing /\ ClosedStaysEmpty
  /\ OneSession

\* close() ends and so does every handler, without the app or the clients.
CloseEnds == closing ~> closed /\ \A c \in Requests : ~Handling(c)
=============================================================================
