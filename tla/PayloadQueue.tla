---------------------------- MODULE PayloadQueue ----------------------------
(***************************************************************************)
(* PayloadQueue (transports/_queue.py), the queue between the readers of a  *)
(* server's connections and the app: bounded in messages, in bytes and per  *)
(* peer.  A put without room and a get without an item wait for one shared  *)
(* asyncio.Event, `_changed`, which every change sets; a task cleared it    *)
(* just before it waits, so the event's value is never seen.                *)
(*                                                                         *)
(* The event loop runs the tasks in the order in which they became ready,   *)
(* and setting the event readies its waiters in the order in which they     *)
(* began to wait.  A reader whose next frame is already buffered goes on    *)
(* without giving up its turn.                                              *)
(***************************************************************************)
EXTENDS Subsequences, FiniteSets

CONSTANTS
  Peers,     (* the connected peers, each with a reader task                *)
  Sizes,     (* the lengths of the frames they send                         *)
  MaxSize,   (* maxsize                                                     *)
  MaxBytes,  (* max_bytes                                                   *)
  PerPeer    (* per_peer                                                    *)

Getter == "getter"
Nobody == "nobody"
Tasks == Peers \cup {Getter}
Item == [peer : Peers, size : Sizes]

\* What is assumed of the constants.
LimitsAssumption == {MaxSize, MaxBytes, PerPeer} \subseteq Nat \ {0}
SizesAssumption == Sizes \subseteq Nat \ {0}
PeersAssumption == {Getter, Nobody} \cap Peers = {} /\ IsFiniteSet(Peers)

VARIABLES
  items,    (* `_items`                                                     *)
  bytes,    (* `_bytes`                                                     *)
  counts,   (* `_counts`, 0 for an absent peer                              *)
  closed,   (* `_closed`                                                    *)
  frame,    (* the length of the frame each reader is putting, 0 for none   *)
  running,  (* the task the event loop runs                                 *)
  ready,    (* the tasks it will run, in order                              *)
  waiters,  (* the tasks waiting for `_changed`, in order                   *)
  ended,    (* the tasks that have ended                                    *)
  gone      (* the peers whose connection the server has given up           *)

queue == <<items, bytes, counts, closed>>
schedule == <<running, ready, waiters>>
vars == <<queue, frame, schedule, ended, gone>>

In(p, tasks) == \E i \in 1..Len(tasks) : tasks[i] = p
Idle(p) == ~In(p, ready) /\ ~In(p, waiters) /\ p \notin ended
Runs(p) == running = p
\* Between two turns: callbacks and the tasks not modelled here may run.
Yielded == running = Nobody
Without(tasks, p) == Kept(tasks, Tasks \ {p})

Fits(p) ==
  /\ Len(items) < MaxSize
  /\ bytes + frame[p] <= MaxBytes
  /\ counts[p] < PerPeer

Init ==
  /\ items = <<>>
  /\ bytes = 0
  /\ counts = [p \in Peers |-> 0]
  /\ closed = FALSE
  /\ frame = [p \in Peers |-> 0]
  /\ running = Nobody
  /\ ready = <<>>
  /\ waiters = <<>>
  /\ ended = {}
  /\ gone = {}

\* `_changed.set()`: the waiters come after the tasks that are ready.
Changed == ready' = ready \o waiters /\ waiters' = <<>>

\* The task that runs suspends until `_changed` is set.
AwaitChange(p) ==
  /\ running' = Nobody
  /\ waiters' = Append(waiters, p)
  /\ UNCHANGED ready

\* The task that runs raises ConnectionError or ValueError and ends.
Raise(p) ==
  /\ running' = Nobody
  /\ ended' = ended \cup {p}
  /\ UNCHANGED <<queue, ready, waiters, gone>>

\* The event loop gives the next task its turn.
Turn ==
  /\ Yielded /\ ready # <<>>
  /\ running' = Head(ready)
  /\ ready' = Tail(ready)
  /\ UNCHANGED <<queue, frame, waiters, ended, gone>>

----------------------------------------------------------------------------
\* A peer's next frame arrives while its reader waits for the network.
Arrive(p) ==
  /\ Idle(p) /\ Yielded
  /\ \E n \in Sizes : frame' = [frame EXCEPT ![p] = n]
  /\ ready' = Append(ready, p)
  /\ UNCHANGED <<queue, running, waiters, ended, gone>>

\* The next frame of the reader that runs is already buffered.
NextFrame(p) ==
  /\ Runs(p) /\ frame[p] = 0
  /\ \E n \in Sizes : frame' = [frame EXCEPT ![p] = n]
  /\ UNCHANGED <<queue, schedule, ended, gone>>

\* It is not, and the reader waits for the network.
AwaitFrame(p) ==
  /\ Runs(p) /\ frame[p] = 0
  /\ running' = Nobody
  /\ UNCHANGED <<queue, frame, ready, waiters, ended, gone>>

\* The payload alone exceeds the budget, or the queue is closed.
PutRaises(p) ==
  /\ Runs(p) /\ frame[p] > 0
  /\ frame[p] > MaxBytes \/ closed
  /\ frame' = [frame EXCEPT ![p] = 0]
  /\ Raise(p)

\* Mutant of Put: the readers are only woken when the queue was empty.
PutQuietly(p) ==
  /\ Runs(p) /\ frame[p] \in 1..MaxBytes /\ ~closed
  /\ Fits(p)
  /\ items' = Append(items, [peer |-> p, size |-> frame[p]])
  /\ bytes' = bytes + frame[p]
  /\ counts' = [counts EXCEPT ![p] = @ + 1]
  /\ frame' = [frame EXCEPT ![p] = 0]
  /\ UNCHANGED <<closed, schedule, ended, gone>>

Put(p) ==
  /\ Runs(p) /\ frame[p] \in 1..MaxBytes /\ ~closed
  /\ Fits(p)
  /\ items' = Append(items, [peer |-> p, size |-> frame[p]])
  /\ bytes' = bytes + frame[p]
  /\ counts' = [counts EXCEPT ![p] = @ + 1]
  /\ frame' = [frame EXCEPT ![p] = 0]
  /\ Changed
  /\ UNCHANGED <<closed, running, ended, gone>>

PutWaits(p) ==
  /\ Runs(p) /\ frame[p] \in 1..MaxBytes /\ ~closed
  /\ ~Fits(p)
  /\ AwaitChange(p)
  /\ UNCHANGED <<queue, frame, ended, gone>>

----------------------------------------------------------------------------
\* The app asks for the next message.
StartGet ==
  /\ Idle(Getter) /\ Yielded
  /\ ready' = Append(ready, Getter)
  /\ UNCHANGED <<queue, frame, running, waiters, ended, gone>>

GetRaises ==
  /\ Runs(Getter) /\ closed
  /\ Raise(Getter)
  /\ UNCHANGED frame

\* The oldest item leaves the queue.
Take ==
  /\ items' = Tail(items)
  /\ bytes' = bytes - Head(items).size
  /\ counts' = [counts EXCEPT ![Head(items).peer] = @ - 1]

\* Mutant of Get: a get that did not find the queue full wakes nobody.
GetQuietly ==
  /\ Runs(Getter) /\ ~closed /\ items # <<>>
  /\ Take
  /\ running' = Nobody
  /\ IF Len(items) = MaxSize THEN Changed ELSE UNCHANGED <<ready, waiters>>
  /\ UNCHANGED <<closed, frame, ended, gone>>

Get ==
  /\ Runs(Getter) /\ ~closed /\ items # <<>>
  /\ Take
  /\ Changed
  /\ running' = Nobody
  /\ UNCHANGED <<closed, frame, ended, gone>>

GetWaits ==
  /\ Runs(Getter) /\ ~closed /\ items = <<>>
  /\ AwaitChange(Getter)
  /\ UNCHANGED <<queue, frame, ended, gone>>

----------------------------------------------------------------------------
\* The app is stopped while it waits for a message: the get is cancelled, even
\* if it is about to run again.
CancelGet ==
  /\ ~Idle(Getter) /\ Getter \notin ended /\ Yielded
  /\ waiters' = Without(waiters, Getter)
  /\ ready' = Without(ready, Getter)
  /\ ended' = ended \cup {Getter}
  /\ UNCHANGED <<queue, frame, running, gone>>

\* A reader that waits for the network, for room or for its turn is cancelled,
\* or its connection fails.
Leave(p) ==
  /\ p \notin ended /\ Yielded
  /\ waiters' = Without(waiters, p)
  /\ ready' = Without(ready, p)
  /\ ended' = ended \cup {p}
  /\ frame' = [frame EXCEPT ![p] = 0]
  /\ UNCHANGED <<queue, running, gone>>

Of(p) == [peer : {p}, size : Sizes]
SizeOf == [item \in Item |-> item.size]

\* Mutant of Drop: the items go and their bytes stay accounted.
DropKeeping(p) ==
  /\ items' = Kept(items, Item \ Of(p))
  /\ counts' = [counts EXCEPT ![p] = 0]
  /\ UNCHANGED bytes

\* What `drop_peer` removes.
Drop(p) ==
  /\ items' = Kept(items, Item \ Of(p))
  /\ bytes' = bytes - Total(Kept(items, Of(p)), SizeOf)
  /\ counts' = [counts EXCEPT ![p] = 0]

\* `drop_peer`: the peer disconnected, or a send to it failed while its reader
\* still runs.
DropPeer(p) ==
  /\ p \notin gone /\ Yielded
  /\ gone' = gone \cup {p}
  /\ Drop(p)
  /\ Changed
  /\ UNCHANGED <<closed, frame, running, ended>>

Close ==
  /\ ~closed /\ Yielded
  /\ closed' = TRUE
  /\ items' = <<>> /\ bytes' = 0 /\ counts' = [p \in Peers |-> 0]
  /\ Changed
  /\ UNCHANGED <<frame, running, ended, gone>>

----------------------------------------------------------------------------
Run ==
  \/ Turn \/ GetRaises \/ Get \/ GetWaits
  \/ \E p \in Peers : NextFrame(p) \/ AwaitFrame(p) \/ PutRaises(p) \/ Put(p) \/ PutWaits(p)

Next ==
  \/ Run \/ StartGet \/ CancelGet \/ Close
  \/ \E p \in Peers : Arrive(p) \/ Leave(p) \/ DropPeer(p)

Spec == Init /\ [][Next]_vars

\* The event loop runs its tasks and the app goes on asking for messages.
Fairness == WF_vars(Run) /\ SF_vars(StartGet)

FairSpec == Spec /\ Fairness

----------------------------------------------------------------------------
TypeOK ==
  /\ items \in Seq(Item)
  /\ bytes \in Nat
  /\ counts \in [Peers -> Nat]
  /\ closed \in BOOLEAN
  /\ frame \in [Peers -> Sizes \cup {0}]
  /\ running \in Tasks \cup {Nobody}
  /\ ready \in Seq(Tasks)
  /\ waiters \in Seq(Tasks)
  /\ ended \in SUBSET Tasks
  /\ gone \in SUBSET Peers

\* The accounts are the queue's contents, and within the limits: a count or a
\* byte left behind by a drop or a close would shrink the queue for ever.
AccountsExact ==
  /\ bytes = Total(items, SizeOf) /\ bytes <= MaxBytes
  /\ \A p \in Peers :
       /\ counts[p] = Len(Kept(items, Of(p)))
       /\ counts[p] <= PerPeer
  /\ Len(items) <= MaxSize

\* Nobody waits for what is already there: a put that waits has no room, a get
\* that waits finds nothing, and a closed queue has no waiters.  A change that
\* does not wake every task it concerns leaves one waiting for ever.
NobodyWaitsInVain ==
  \A i \in 1..Len(waiters) :
    /\ ~closed
    /\ IF waiters[i] = Getter THEN items = <<>> ELSE ~Fits(waiters[i])

\* What is accounted and who waits agree with what is in the queue; and the state
\* is typed.
QueueConsistent == TypeOK /\ AccountsExact /\ NobodyWaitsInVain

\* A peer at its quota gets room again while the app goes on receiving: the
\* messages before its own are received first.
QuotaIsReturned ==
  \A p \in Peers : counts[p] = PerPeer ~> counts[p] < PerPeer \/ Getter \in ended
=============================================================================
