--------------------------- MODULE ThreadChannel ---------------------------
(***************************************************************************)
(* ThreadTransport (transports/thread.py): two ends in two threads, each    *)
(* with its own event loop.  An end reads and writes the other's fields     *)
(* from its own thread and hands messages over with call_soon_threadsafe,   *)
(* so a step here is a read or a write that the other thread can see.       *)
(* Each end has a task that sends, one that receives and one that connects  *)
(* and closes it.                                                           *)
(***************************************************************************)
EXTENDS Subsequences, FiniteSets

CONSTANTS
  MaxMessages,  (* bound: the messages each end sends, a function             *)
  MaxQueued     (* max_queue_size                                             *)

Ends == {"a", "b"}
Peer(e) == IF e = "a" THEN "b" ELSE "a"
\* What close() puts into an inbox.
Closing == 0

\* What is assumed of the constants.
BoundsAssumption == MaxMessages \in [Ends -> Nat] /\ MaxQueued \in Nat \ {0}

VARIABLES
  owner,      (* where the task that connects and closes each end is          *)
  hasInbox,   (* `_inbox` is set                                              *)
  loop,       (* `_loop`: not set, running or closed                          *)
  ready,      (* the threading event `_ready`                                 *)
  closed,     (* `_closed`                                                    *)
  callbacks,  (* what was handed to the end's loop and has not run            *)
  inbox,      (* the items of `_inbox`                                        *)
  sender,     (* where the task that sends is                                 *)
  receiver,   (* where the task that receives is                              *)
  sent,       (* the messages handed over by send() of each end               *)
  received    (* the messages returned by recv() of each end                  *)

lifecycle == <<owner, hasInbox, loop, ready, closed>>
vars == <<lifecycle, callbacks, inbox, sender, receiver, sent, received>>

Owner == {"new", "inbox", "loop", "connected", "closing", "own inbox", "peer inbox", "closed"}
Sender == {"idle", "waiting", "checked", "posting", "failed"}

Init ==
  /\ owner = [e \in Ends |-> "new"]
  /\ hasInbox = [e \in Ends |-> FALSE]
  /\ loop = [e \in Ends |-> "none"]
  /\ ready = [e \in Ends |-> FALSE]
  /\ closed = [e \in Ends |-> FALSE]
  /\ callbacks = [e \in Ends |-> <<>>]
  /\ inbox = [e \in Ends |-> <<>>]
  /\ sender = [e \in Ends |-> "idle"]
  /\ receiver = [e \in Ends |-> "idle"]
  /\ sent = [e \in Ends |-> <<>>]
  /\ received = [e \in Ends |-> <<>>]

\* connect(), close() and a send that does not wait run without suspending: no
\* other task or callback of the same end runs before their last step.
Suspended(e) ==
  /\ owner[e] \in {"new", "connected", "closed"}
  /\ sender[e] \notin {"checked", "posting"}

Goes(e, from, to) == owner[e] = from /\ owner' = [owner EXCEPT ![e] = to]
Messages(items) == Kept(items, Nat \ {Closing})

----------------------------------------------------------------------------
\* connect(): the inbox, then the loop, then `_ready`.
ConnectInbox(e) ==
  /\ Suspended(e) /\ Goes(e, "new", "inbox")
  /\ hasInbox' = [hasInbox EXCEPT ![e] = TRUE]
  /\ UNCHANGED <<loop, ready, closed, callbacks, inbox, sender, receiver, sent, received>>

ConnectLoop(e) ==
  /\ Goes(e, "inbox", "loop")
  /\ loop' = [loop EXCEPT ![e] = "running"]
  /\ UNCHANGED <<hasInbox, ready, closed, callbacks, inbox, sender, receiver, sent, received>>

ConnectReady(e) ==
  /\ Goes(e, "loop", "connected")
  /\ ready' = [ready EXCEPT ![e] = TRUE]
  /\ UNCHANGED <<hasInbox, loop, closed, callbacks, inbox, sender, receiver, sent, received>>

\* close(), before or after connect().
CloseStart(e) ==
  /\ Suspended(e)
  /\ Goes(e, "new", "closing") \/ Goes(e, "connected", "closing")
  /\ closed' = [closed EXCEPT ![e] = TRUE]
  /\ UNCHANGED <<hasInbox, loop, ready, callbacks, inbox, sender, receiver, sent, received>>

\* Mutant of CloseReady: the sends that wait for this end are not woken.
CloseUnready(e) ==
  /\ Goes(e, "closing", "own inbox")
  /\ UNCHANGED <<hasInbox, loop, ready, closed, callbacks, inbox, sender, receiver, sent, received>>

CloseReady(e) ==
  /\ Goes(e, "closing", "own inbox")
  /\ ready' = [ready EXCEPT ![e] = TRUE]
  /\ UNCHANGED <<hasInbox, loop, closed, callbacks, inbox, sender, receiver, sent, received>>

\* Its own receiver is woken.
CloseOwnInbox(e) ==
  /\ Goes(e, "own inbox", "peer inbox")
  /\ inbox' = IF hasInbox[e] THEN [inbox EXCEPT ![e] = Append(@, Closing)] ELSE inbox
  /\ UNCHANGED <<hasInbox, loop, ready, closed, callbacks, sender, receiver, sent, received>>

\* Mutant of ClosePeerInbox: the end is announced past the messages on their way.
ClosePeerDirectly(e) ==
  /\ Goes(e, "peer inbox", "closed")
  /\ inbox' = IF loop[Peer(e)] = "running"
                THEN [inbox EXCEPT ![Peer(e)] = Append(@, Closing)] ELSE inbox
  /\ UNCHANGED <<hasInbox, loop, ready, closed, callbacks, sender, receiver, sent, received>>

\* And the peer's, if it is connected by now and its loop not closed.
ClosePeerInbox(e) ==
  /\ Goes(e, "peer inbox", "closed")
  /\ callbacks' = IF loop[Peer(e)] = "running"
                    THEN [callbacks EXCEPT ![Peer(e)] = Append(@, Closing)] ELSE callbacks
  /\ UNCHANGED <<hasInbox, loop, ready, closed, inbox, sender, receiver, sent, received>>

\* The thread of a closed end ends its loop; what it had not run is lost.
LoopCloses(e) ==
  /\ owner[e] = "closed" /\ loop[e] = "running" /\ Suspended(e)
  /\ sender[e] # "waiting" /\ receiver[e] # "waiting"
  /\ loop' = [loop EXCEPT ![e] = "closed"]
  /\ UNCHANGED <<owner, hasInbox, ready, closed, callbacks, inbox, sender, receiver, sent, received>>

----------------------------------------------------------------------------
\* send(): is this end closed, and is the peer connected?
SendStart(e) ==
  /\ Suspended(e) /\ loop[e] = "running"
  /\ sender[e] = "idle" /\ Len(sent[e]) < MaxMessages[e]
  /\ sender' = [sender EXCEPT ![e] =
       IF closed[e] THEN "failed" ELSE IF ready[Peer(e)] THEN "checked" ELSE "waiting"]
  /\ UNCHANGED <<lifecycle, callbacks, inbox, receiver, sent, received>>

\* The helper thread that waits for the peer's `_ready` returns.
SendWoken(e) ==
  /\ Suspended(e) /\ sender[e] = "waiting" /\ ready[Peer(e)]
  /\ sender' = [sender EXCEPT ![e] = "checked"]
  /\ UNCHANGED <<lifecycle, callbacks, inbox, receiver, sent, received>>

\* connect_timeout is over, or the send is cancelled.
SendTimesOut(e) ==
  /\ Suspended(e) /\ sender[e] = "waiting"
  /\ sender' = [sender EXCEPT ![e] = "failed"]
  /\ UNCHANGED <<lifecycle, callbacks, inbox, receiver, sent, received>>

\* Mutant of SendOffer: only the peer is looked at after the wait.
SendOfferClosed(e) ==
  /\ sender[e] = "checked"
  /\ LET p == Peer(e)
         refused == closed[p] \/ ~hasInbox[p] \/ loop[p] = "none" \/ Len(inbox[p]) >= MaxQueued
     IN  sender' = [sender EXCEPT ![e] = IF refused THEN "failed" ELSE "posting"]
  /\ UNCHANGED <<lifecycle, callbacks, inbox, receiver, sent, received>>

\* Either end closed or never connected, or the peer's inbox is full.
SendOffer(e) ==
  /\ sender[e] = "checked"
  /\ LET p == Peer(e)
         refused == closed[e] \/ closed[p] \/ ~hasInbox[p] \/ loop[p] = "none" \/ Len(inbox[p]) >= MaxQueued
     IN  sender' = [sender EXCEPT ![e] = IF refused THEN "failed" ELSE "posting"]
  /\ UNCHANGED <<lifecycle, callbacks, inbox, receiver, sent, received>>

\* call_soon_threadsafe, which raises if the loop is closed.  The sender does
\* not suspend between the two, but the peer's thread runs.
SendPost(e) ==
  /\ sender[e] = "posting"
  /\ IF loop[Peer(e)] = "closed"
       THEN sender' = [sender EXCEPT ![e] = "failed"] /\ UNCHANGED <<callbacks, sent>>
       ELSE /\ sender' = [sender EXCEPT ![e] = "idle"]
            /\ sent' = [sent EXCEPT ![e] = Append(@, Len(@) + 1)]
            /\ callbacks' = [callbacks EXCEPT ![Peer(e)] = Append(@, Len(sent[e]) + 1)]
  /\ UNCHANGED <<lifecycle, inbox, receiver, received>>

----------------------------------------------------------------------------
\* The loop of an end runs the next callback, `put_nowait`.
Deliver(e) ==
  /\ Suspended(e) /\ loop[e] = "running" /\ callbacks[e] # <<>>
  /\ inbox' = [inbox EXCEPT ![e] = Append(@, Head(callbacks[e]))]
  /\ callbacks' = [callbacks EXCEPT ![e] = Tail(@)]
  /\ UNCHANGED <<lifecycle, sender, receiver, sent, received>>

\* recv(): closed, or the next item is awaited.
RecvStart(e) ==
  /\ Suspended(e) /\ loop[e] = "running"
  /\ receiver[e] = "idle"
  /\ receiver' = [receiver EXCEPT ![e] = IF closed[e] THEN "failed" ELSE "waiting"]
  /\ UNCHANGED <<lifecycle, callbacks, inbox, sender, sent, received>>

Recv(e) ==
  /\ Suspended(e) /\ receiver[e] = "waiting" /\ inbox[e] # <<>>
  /\ inbox' = [inbox EXCEPT ![e] = Tail(@)]
  /\ IF Head(inbox[e]) = Closing
       THEN receiver' = [receiver EXCEPT ![e] = "failed"] /\ UNCHANGED received
       ELSE /\ receiver' = [receiver EXCEPT ![e] = "idle"]
            /\ received' = [received EXCEPT ![e] = Append(@, Head(inbox[e]))]
  /\ UNCHANGED <<lifecycle, callbacks, sender, sent>>

----------------------------------------------------------------------------
Lifecycle(e) ==
  \/ ConnectInbox(e) \/ ConnectLoop(e) \/ ConnectReady(e) \/ CloseStart(e) \/ CloseReady(e)
  \/ CloseOwnInbox(e) \/ ClosePeerInbox(e) \/ LoopCloses(e)

Next ==
  \E e \in Ends :
    \/ Lifecycle(e)
    \/ SendStart(e) \/ SendWoken(e) \/ SendTimesOut(e) \/ SendOffer(e) \/ SendPost(e)
    \/ Deliver(e) \/ RecvStart(e) \/ Recv(e)

Spec == Init /\ [][Next]_vars

\* Both threads run: what has begun goes on.  No deadline is relied upon.
Fairness ==
  \A e \in Ends :
    /\ WF_vars(ConnectLoop(e) \/ ConnectReady(e) \/ CloseReady(e) \/ CloseOwnInbox(e) \/ ClosePeerInbox(e))
    /\ WF_vars(SendWoken(e) \/ SendOffer(e) \/ SendPost(e))
    /\ WF_vars(Deliver(e)) /\ WF_vars(Recv(e))

FairSpec == Spec /\ Fairness

----------------------------------------------------------------------------
Item == UNION {0..MaxMessages[e] : e \in Ends}

TypeOK ==
  /\ owner \in [Ends -> Owner]
  /\ hasInbox \in [Ends -> BOOLEAN]
  /\ loop \in [Ends -> {"none", "running", "closed"}]
  /\ ready \in [Ends -> BOOLEAN]
  /\ closed \in [Ends -> BOOLEAN]
  /\ callbacks \in [Ends -> Seq(Item)]
  /\ inbox \in [Ends -> Seq(Item)]
  /\ sender \in [Ends -> Sender]
  /\ receiver \in [Ends -> {"idle", "waiting", "failed"}]
  /\ sent \in [Ends -> Seq(Item)]
  /\ received \in [Ends -> Seq(Item)]
  /\ \A e \in Ends : loop[e] = "none" => callbacks[e] = <<>> /\ inbox[e] = <<>>

\* What one end sent is what the other has received, will receive and has on
\* its way, in that order: two loops and a handover between threads neither
\* lose, repeat nor reorder a message.
InOrder ==
  \A e \in Ends : sent[e] = received[Peer(e)] \o Messages(inbox[Peer(e)]) \o Messages(callbacks[Peer(e)])

\* "Messages that arrived before the other end closed are still returned first"
\* (thread.py:117-118): an open end whose recv() raises has received all that
\* the other end sent before it closed.
ClosedAfterMessages ==
  \A e \in Ends : receiver[e] = "failed" /\ ~closed[e] => received[e] = sent[Peer(e)]

\* Messages and the end arrive as they were sent, and the state is typed.
Delivery == TypeOK /\ InOrder /\ ClosedAfterMessages

\* A closed end hands nothing over any more, not even by a send that had waited
\* for the peer when it was closed.
NothingSentAfterClose == [][\A e \in Ends : closed[e] => sent'[e] = sent[e]]_vars

\* "If the other end closes before connecting, the send fails at once instead
\* of waiting" (docs/transports/thread.md): a send that waits for the peer goes
\* on when it connects or closes, without its deadline.
PeerWakesSend ==
  \A e \in Ends : sender[e] = "waiting" /\ owner[Peer(e)] \in {"connected", "closing"}
    ~> sender[e] # "waiting"

\* An end that was connected when the other closed does not wait for ever.
RecvEndsOnceConnected ==
  \A e \in Ends : receiver[e] = "waiting" /\ owner[Peer(e)] = "peer inbox" ~> receiver[e] # "waiting"

\* What waits for the other end learns that it came or went.
WaitsEnd == PeerWakesSend /\ RecvEndsOnceConnected
=============================================================================
