------------------------------- MODULE Client -------------------------------
(***************************************************************************)
(* The client (client.py): tasks that share one Client make calls, batches, *)
(* notifications and waits for a notification, one exchange at a time under *)
(* `_call_lock`.  Any failure of an exchange closes the client for good,    *)
(* since a late reply would otherwise be read by the next exchange.         *)
(*                                                                         *)
(* The channel delivers in order in both directions until it fails.  At its *)
(* other end is a wire_rpc app as PeerService specifies it: with            *)
(* MaxConcurrency = 1 it is App, which receives nothing while it works.     *)
(***************************************************************************)
EXTENDS Subsequences

CONSTANTS
  Calls,           (* the exchanges; each has the uuid of its request         *)
  Kinds,           (* the operations used: see Kind                           *)
  MaxPushes,       (* bound: the notifications the server pushes              *)
  MaxConcurrency   (* max_concurrency of the app                              *)

\* "notes" is a batch of notifications only, "listen" is receive_notification.
Kind == {"call", "batch", "notes", "notify", "listen"}
Nobody == "nobody"
\* The replies the server owes to each kind of message.
Awaited == {"call", "batch"}
Outcome == {"none", "ok", "busy", "refused", "mismatched", "broken", "gave up"}

KindsAssumption == Kinds \subseteq Kind
CallsAssumption == Nobody \notin Calls
PushesAssumption == MaxPushes \in Nat

VARIABLES
  closed,     (* `_closed`                                                    *)
  lock,       (* the exchange that holds `_call_lock`                         *)
  waiters,    (* the exchanges that wait for it, in order                     *)
  op,         (* the operation of each exchange                               *)
  state,      (* where each exchange is                                       *)
  outcome,    (* what it returned or raised, or is about to                   *)
  parent,     (* the exchange whose on_notification handler made this one     *)
  link,       (* the connection                                               *)
  toServer,   (* the messages on their way, by the exchange that sent them    *)
  toClient,   (* the replies and pushed notifications on their way            *)
  pushes,     (* how many notifications were pushed                           *)
  executing, refusing, finished   (* the app, see PeerService                 *)

clientVars == <<closed, lock, waiters, op, state, outcome, parent>>
serverVars == <<executing, refusing, finished>>
channel == <<link, toServer, toClient, pushes>>
vars == <<clientVars, channel, serverVars>>

App == INSTANCE PeerService WITH Requests <- Calls, owner <- [c \in Calls |-> "client"]

Message == [kind : {"answer", "busy", "refusal", "push"}, re : Calls \cup {Nobody}]
Push == [kind |-> "push", re |-> Nobody]
Refusal == [kind |-> "refusal", re |-> Nobody]
Exchanging == {"sending", "receiving", "delivering", "aborting"}
InLink(c) == \E i \in 1..Len(toServer) : toServer[i] = c
Children(c) == {d \in Calls : parent[d] = c /\ state[d] # "done"}

Init ==
  /\ closed = FALSE
  /\ lock = Nobody
  /\ waiters = <<>>
  /\ op = [c \in Calls |-> "none"]
  /\ state = [c \in Calls |-> "idle"]
  /\ outcome = [c \in Calls |-> "none"]
  /\ parent = [c \in Calls |-> Nobody]
  /\ link = "none"
  /\ toServer = <<>>
  /\ toClient = <<>>
  /\ pushes = 0
  /\ App!Init

----------------------------------------------------------------------------
\* connect(): the transport connects, or the failure closes the client.
Connect ==
  /\ link = "none" /\ ~closed
  /\ \/ link' = "up" /\ UNCHANGED closed
     \/ link' = "down" /\ closed' = TRUE
  /\ UNCHANGED <<lock, waiters, op, state, outcome, parent, toServer, toClient, pushes, serverVars>>

\* close(): it does not wait for the exchange under way.
Close ==
  /\ closed' = TRUE
  /\ link' \in {link, "down"}
  /\ UNCHANGED <<lock, waiters, op, state, outcome, parent, toServer, toClient, pushes, serverVars>>

\* The exchange c obtains the lock: it goes on to send (or to listen), or finds
\* the client closed.
Enter(c, k) ==
  IF closed
    THEN /\ state' = [state EXCEPT ![c] = "done"]
         /\ outcome' = [outcome EXCEPT ![c] = "broken"]
         /\ lock' = Nobody
    ELSE /\ state' = [state EXCEPT ![c] = IF k = "listen" THEN "receiving" ELSE "sending"]
         /\ lock' = c
         /\ UNCHANGED outcome

\* A task begins an operation; p is the exchange whose handler it is, if any.
Begin(c, p) ==
  /\ state[c] = "idle"
  /\ \E k \in Kinds :
       /\ op' = [op EXCEPT ![c] = k]
       /\ parent' = [parent EXCEPT ![c] = p]
       /\ IF lock = Nobody /\ waiters = <<>>
            THEN Enter(c, k) /\ UNCHANGED waiters
            ELSE /\ waiters' = Append(waiters, c)
                 /\ state' = [state EXCEPT ![c] = "waiting"]
                 /\ UNCHANGED <<lock, outcome>>
  /\ UNCHANGED <<closed, channel, serverVars>>

Start(c) == Begin(c, Nobody)

\* The on_notification handler of p, which runs under the lock, uses the client.
HandlerCalls(c, p) == state[p] = "delivering" /\ Children(p) = {} /\ Begin(c, p)

\* The lock was released and the first waiter goes on.
Resume(c) ==
  /\ lock = Nobody /\ waiters # <<>> /\ Head(waiters) = c
  /\ waiters' = Tail(waiters)
  /\ Enter(c, op[c])
  /\ UNCHANGED <<closed, op, parent, channel, serverVars>>

\* c returns or raises, and the lock is free.
Return(c, result) ==
  /\ state' = [state EXCEPT ![c] = "done"]
  /\ outcome' = [outcome EXCEPT ![c] = result]
  /\ lock' = Nobody

\* Mutant of Abort: the client stays usable after a failure.
AbortOpen(c, result) ==
  /\ state' = [state EXCEPT ![c] = "aborting"]
  /\ outcome' = [outcome EXCEPT ![c] = result]
  /\ UNCHANGED <<closed, lock>>

\* `_abort` is entered with what will be raised.
Abort(c, result) ==
  /\ state' = [state EXCEPT ![c] = "aborting"]
  /\ outcome' = [outcome EXCEPT ![c] = result]
  /\ closed' = TRUE
  /\ UNCHANGED lock

----------------------------------------------------------------------------
\* The transport has sent the message; without a reply to wait for, that is all.
Send(c) ==
  /\ state[c] = "sending" /\ link = "up"
  /\ toServer' = Append(toServer, c)
  /\ IF op[c] \in Awaited
       THEN state' = [state EXCEPT ![c] = "receiving"] /\ UNCHANGED <<lock, outcome>>
       ELSE Return(c, "ok")
  /\ UNCHANGED <<closed, waiters, op, parent, link, toClient, pushes, serverVars>>

\* send or recv raises because the connection is not up.
Broken(c) ==
  /\ state[c] \in {"sending", "receiving"} /\ link # "up"
  /\ Abort(c, "broken")
  /\ UNCHANGED <<waiters, op, parent, channel, serverVars>>

\* `accept`: the reply is one that this exchange may get.
Accepts(c, m) ==
  \/ m.kind \in {"answer", "busy"} /\ m.re = c
  \/ m.kind = "refusal" /\ op[c] = "batch"

Result(m) ==
  CASE m.kind = "busy" -> "busy"
    [] m.kind = "refusal" -> "refused"
    [] OTHER -> "ok"

ReceiveReply(c) ==
  /\ state[c] = "receiving" /\ op[c] # "listen"
  /\ toClient # <<>> /\ Head(toClient).kind # "push"
  /\ toClient' = Tail(toClient)
  /\ IF Accepts(c, Head(toClient))
       THEN Return(c, Result(Head(toClient))) /\ UNCHANGED closed
       ELSE Abort(c, "mismatched")
  /\ UNCHANGED <<waiters, op, parent, link, toServer, pushes, serverVars>>

\* A notification meanwhile goes to on_notification, which may be awaited.
ReceivePush(c) ==
  /\ state[c] = "receiving" /\ op[c] # "listen"
  /\ toClient # <<>> /\ Head(toClient).kind = "push"
  /\ toClient' = Tail(toClient)
  /\ \/ state' = [state EXCEPT ![c] = "delivering"]
     \/ UNCHANGED state
  /\ UNCHANGED <<closed, lock, waiters, op, outcome, parent, link, toServer, pushes, serverVars>>

\* The handler returns, or what it raises is logged.
Delivered(c) ==
  /\ state[c] = "delivering" /\ Children(c) = {}
  /\ state' = [state EXCEPT ![c] = "receiving"]
  /\ UNCHANGED <<closed, lock, waiters, op, outcome, parent, channel, serverVars>>

\* receive_notification gets a message, which has to be a notification.
Listen(c) ==
  /\ state[c] = "receiving" /\ op[c] = "listen"
  /\ toClient # <<>>
  /\ toClient' = Tail(toClient)
  /\ IF Head(toClient).kind = "push"
       THEN Return(c, "ok") /\ UNCHANGED closed
       ELSE Abort(c, "mismatched")
  /\ UNCHANGED <<waiters, op, parent, link, toServer, pushes, serverVars>>

----------------------------------------------------------------------------
\* A cancelled send may already have handed over the whole message.
MaybeSent(c) ==
  \/ UNCHANGED toServer
  \/ state[c] = "sending" /\ link = "up" /\ toServer' = Append(toServer, c)

\* Mutant of GiveUpWaiting: a deadline in the queue closes the client.
GiveUpClosing(c) ==
  /\ state[c] = "waiting"
  /\ waiters' = Kept(waiters, Calls \ {c})
  /\ state' = [state EXCEPT ![c] = "done"]
  /\ outcome' = [outcome EXCEPT ![c] = "gave up"]
  /\ closed' = TRUE
  /\ UNCHANGED <<lock, op, parent, channel, serverVars>>

\* Mutant of GiveUpWaiting: only the exchange has a deadline.
GiveUpNever(c) == FALSE /\ UNCHANGED vars

\* Mutant of GiveUpWaiting: the waiter releases a lock it does not hold.
GiveUpReleasing(c) ==
  /\ state[c] = "waiting"
  /\ waiters' = Kept(waiters, Calls \ {c})
  /\ state' = [state EXCEPT ![c] = "done"]
  /\ outcome' = [outcome EXCEPT ![c] = "gave up"]
  /\ lock' = Nobody
  /\ UNCHANGED <<closed, op, parent, channel, serverVars>>

\* The deadline or a cancellation reaches c while it waits for the lock: it
\* leaves the exchange under way alone.
GiveUpWaiting(c) ==
  /\ state[c] = "waiting"
  /\ waiters' = Kept(waiters, Calls \ {c})
  /\ state' = [state EXCEPT ![c] = "done"]
  /\ outcome' = [outcome EXCEPT ![c] = "gave up"]
  /\ UNCHANGED <<closed, lock, op, parent, channel, serverVars>>

\* It reaches c in its exchange; what its handler awaits is cancelled with it.
GiveUpExchange(c) ==
  /\ state[c] \in {"sending", "receiving", "delivering"}
  /\ waiters' = Kept(waiters, Calls \ Children(c))
  /\ state' = [d \in Calls |-> IF d = c THEN "aborting"
                               ELSE IF d \in Children(c) THEN "done" ELSE state[d]]
  /\ outcome' = [d \in Calls |-> IF d \in Children(c) \cup {c} THEN "gave up" ELSE outcome[d]]
  /\ closed' = TRUE
  /\ MaybeSent(c)
  /\ UNCHANGED <<lock, op, parent, link, toClient, pushes, serverVars>>

GiveUp(c) == GiveUpWaiting(c) \/ GiveUpExchange(c)

\* `_abort` has closed the transport, or given up closing it.
Aborted(c) ==
  /\ state[c] = "aborting"
  /\ link' \in {link, "down"}
  /\ Return(c, outcome[c])
  /\ UNCHANGED <<closed, waiters, op, parent, toServer, toClient, pushes, serverVars>>

----------------------------------------------------------------------------
LinkFails ==
  /\ link = "up"
  /\ link' = "down"
  /\ UNCHANGED <<clientVars, toServer, toClient, pushes, serverVars>>

\* The app receives the next message and executes it, or refuses it because
\* another one of this peer is unfinished.
ServerReceives ==
  /\ toServer # <<>>
  /\ App!Execute(Head(toServer)) \/ App!Refuse(Head(toServer))
  /\ toServer' = Tail(toServer)
  /\ UNCHANGED <<clientVars, link, toClient, pushes>>

\* The replies it may send: a batch, even of notifications only, may be refused
\* for its size, and a call or the items of a batch because the peer is busy.
Replies(c) ==
  LET reply == [kind |-> IF c \in refusing THEN "busy" ELSE "answer", re |-> c]
  IN  (IF op[c] \in Awaited THEN {<<reply>>} ELSE {<<>>})
        \cup (IF op[c] \in {"batch", "notes"} THEN {<<Refusal>>} ELSE {})

ServerReplies(c) ==
  /\ App!Finish(c)
  /\ \E reply \in Replies(c) :
       toClient' = IF link = "up" THEN toClient \o reply ELSE toClient
  /\ UNCHANGED <<clientVars, link, toServer, pushes>>

ServerPushes ==
  /\ link = "up" /\ pushes < MaxPushes
  /\ toClient' = Append(toClient, Push)
  /\ pushes' = pushes + 1
  /\ UNCHANGED <<clientVars, link, toServer, serverVars>>

Act(c) ==
  \/ Resume(c) \/ Send(c) \/ Broken(c) \/ ReceiveReply(c) \/ ReceivePush(c)
  \/ Delivered(c) \/ Listen(c) \/ Aborted(c)

Next ==
  \/ Connect \/ Close \/ LinkFails \/ ServerReceives \/ ServerPushes
  \/ \E c \in Calls : Start(c) \/ Act(c) \/ GiveUp(c) \/ ServerReplies(c)
  \/ \E c, p \in Calls : HandlerCalls(c, p)

Spec == Init /\ [][Next]_vars

\* The event loop runs the tasks of the client, and every operation but
\* receive_notification has a deadline.  Nothing is assumed of the server, the
\* connection or the handlers.
Fairness ==
  \A c \in Calls : WF_vars(Resume(c) \/ Aborted(c)) /\ WF_vars(op[c] # "listen" /\ GiveUp(c))

FairSpec == Spec /\ Fairness

----------------------------------------------------------------------------
TypeOK ==
  /\ closed \in BOOLEAN
  /\ lock \in Calls \cup {Nobody}
  /\ waiters \in Seq(Calls)
  /\ op \in [Calls -> Kind \cup {"none"}]
  /\ state \in [Calls -> Exchanging \cup {"idle", "waiting", "done"}]
  /\ outcome \in [Calls -> Outcome]
  /\ \A c \in Calls : outcome[c] # "none" <=> state[c] \in {"aborting", "done"}
  /\ parent \in [Calls -> Calls \cup {Nobody}]
  /\ link \in {"none", "up", "down"}
  /\ toServer \in Seq(Calls)
  /\ toClient \in Seq(Message)
  /\ pushes \in 0..MaxPushes
  /\ executing \in SUBSET Calls /\ refusing \in SUBSET Calls /\ finished \in SUBSET Calls

\* The server owes a reply to the message of c, or has sent it.
Owed(c) ==
  /\ op[c] \in Awaited
  /\ InLink(c) \/ c \in executing \cup refusing

\* While the client is usable, the channel holds no reply but the one the
\* exchange under way waits for.  This is what lets the next exchange take the
\* first reply it reads for its own (client.py:267-289).
ChannelClean ==
  ~closed =>
    /\ \A i \in 1..Len(toClient) : toClient[i].kind # "push" => lock # Nobody /\ Accepts(lock, toClient[i])
    /\ \A c \in Calls : Owed(c) => lock = c

\* A server that answers as wire_rpc's apps do never makes the client close
\* because of a reply that is not its own (client.py:160-162).
NeverMismatched == \A c \in Calls : outcome[c] # "mismatched"

\* The lock is held by the exchange under way and by no other, and the waiters
\* are those that wait: an aborted or cancelled exchange neither keeps the lock
\* nor frees somebody else's.
LockFollowsExchange ==
  /\ \A c \in Calls : state[c] \in Exchanging <=> lock = c
  /\ \A c \in Calls : state[c] = "waiting" <=> \E i \in 1..Len(waiters) : waiters[i] = c

\* No exchange meets what another has left, in the channel or at the lock, however
\* that one ended; and the state is typed.
ExchangesAccounted == TypeOK /\ ChannelClean /\ LockFollowsExchange

\* "Cancelling a task that is waiting for a call to start ... is harmless"
\* (docs/client.md): a task that gives up waiting, or finds the client closed,
\* neither closes the client nor disturbs the exchange under way.  (What an
\* on_notification handler awaits is cancelled with the exchange it runs in.)
HarmlessWaiters ==
  [][\A c \in Calls : state[c] = "waiting" /\ state'[c] = "done" /\ parent[c] = Nobody
       => /\ UNCHANGED <<closed, channel>>
          /\ \A d \in Calls \ {c} : state'[d] = state[d]]_vars

\* Every operation with a deadline ends, whatever the server, the connection,
\* an unbounded receive_notification and the handlers do.
EveryCallEnds ==
  \A c \in Calls : state[c] # "idle" /\ op[c] # "listen" ~> state[c] = "done"

=============================================================================
