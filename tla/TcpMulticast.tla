---------------------------- MODULE TcpMulticast ----------------------------
(***************************************************************************)
(* TcpMulticastServerTransport (transports/tcp/tcp.py): a task per          *)
(* connection that authenticates it and queues its frames, sends from the   *)
(* app that disconnect a client when they fail, and close().                *)
(*                                                                         *)
(* Frames are numbered per client.  The queue is bounded in messages only   *)
(* (PayloadQueue has the rest).  A broadcast is a send to each client.      *)
(* Time is what an idle deadline can tell apart.                            *)
(***************************************************************************)
EXTENDS Integers, Sequences, FiniteSets, Subsequences

CONSTANTS
  Clients,         (* the connections made to the server                    *)
  Senders,         (* the tasks that send                                   *)
  MaxConnections,  (* max_connections                                       *)
  QueueSize,       (* recv_queue_size                                       *)
  IdleTimeout,     (* idle_timeout in ticks, 0 for None                     *)
  MaxFrames        (* bound: the frames the clients send together           *)

LimitsAssumption == {MaxConnections, QueueSize} \subseteq Nat \ {0}
BoundsAssumption == {IdleTimeout, MaxFrames} \subseteq Nat
ClientsAssumption == IsFiniteSet(Clients)

VARIABLES
  conn,      (* where the task of each connection is                        *)
  active,    (* the connection limiter's `_active`                          *)
  clients,   (* `_clients`                                                  *)
  open,      (* the connections whose writer is not closing                 *)
  eof,       (* the clients that have hung up                               *)
  frames,    (* how many frames were read from each                         *)
  queue,     (* `_recv_queue`: the client and the number of each frame      *)
  received,  (* the numbers of the frames recv() returned of each client    *)
  sends,     (* what each sender does                                       *)
  failed,    (* the clients a send to whom has failed                       *)
  stage,     (* where close() is                                            *)
  quiet,     (* the ticks since `last_activity_at`                          *)
  left       (* the ticks until the reader's idle deadline                  *)

peer == <<open, eof, quiet, left>>
vars == <<conn, active, clients, peer, frames, queue, received, sends, failed, stage>>

NotSending == [at |-> "idle"]
Sending(s, at) == sends[s].at = at
Closing == stage # "open"
Serving(c) == conn[c] \notin {"none", "gone"}
Frame == [from : Clients, n : 1..MaxFrames]
FramesRead == {f \in Frame : f.n <= frames[f.from]}
From(c) == {f \in Frame : f.from = c}
Of(c) == Kept(queue, From(c))
DropPeer(c) == queue' = Kept(queue, Frame \ From(c))
Moves(c, to) == conn' = [conn EXCEPT ![c] = to]

Init ==
  /\ conn = [c \in Clients |-> "none"]
  /\ active = 0
  /\ clients = {} /\ open = {} /\ eof = {} /\ failed = {}
  /\ frames = [c \in Clients |-> 0]
  /\ queue = <<>>
  /\ received = [c \in Clients |-> <<>>]
  /\ sends = [s \in Senders |-> NotSending]
  /\ stage = "open"
  /\ quiet = [c \in Clients |-> 0]
  /\ left = [c \in Clients |-> IdleTimeout]

----------------------------------------------------------------------------
\* A connection is accepted, or closed because of close() or the limit.
Connect(c) ==
  /\ conn[c] = "none"
  /\ IF Closing \/ active >= MaxConnections
       THEN Moves(c, "gone") /\ UNCHANGED <<active, open>>
       ELSE Moves(c, "auth") /\ active' = active + 1 /\ open' = open \cup {c}
  /\ UNCHANGED <<clients, eof, quiet, left, frames, queue, received, sends, failed, stage>>

\* The end of the task: its slot is free again.
Ends(c) == Moves(c, "gone") /\ active' = active - 1

\* The finally of _serve_client: close() owns the registered connections.
Finally(c) ==
  IF Closing /\ conn[c] # "auth"
    THEN Ends(c) /\ UNCHANGED <<clients, open, queue>>
    ELSE /\ Moves(c, "cleanup") /\ open' = open \ {c}
         /\ IF conn[c] # "auth" THEN clients' = clients \ {c} /\ DropPeer(c)
                                ELSE UNCHANGED <<clients, queue>>
         /\ UNCHANGED active

\* Authentication fails, is unavailable or takes too long, or close() began.
Unauthenticated(c) ==
  /\ conn[c] = "auth"
  /\ Finally(c)
  /\ UNCHANGED <<eof, quiet, left, frames, received, sends, failed, stage>>

Register(c) ==
  /\ conn[c] = "auth" /\ ~Closing
  /\ Moves(c, "reading") /\ clients' = clients \cup {c}
  /\ left' = [left EXCEPT ![c] = IdleTimeout - quiet[c]]
  /\ UNCHANGED <<active, open, eof, quiet, frames, queue, received, sends, failed, stage>>

\* put() with room, after which the next read starts with a new deadline.
Queued(c, n) == queue' = Append(queue, [from |-> c, n |-> n]) /\ Len(queue) < QueueSize

\* Mutant of ReadFrame: a frame without room is dropped.
ReadFrameDrops(c) ==
  /\ conn[c] = "reading" /\ ~Closing /\ Cardinality(FramesRead) < MaxFrames
  /\ frames' = [frames EXCEPT ![c] = @ + 1]
  /\ Queued(c, frames'[c]) \/ (Len(queue) >= QueueSize /\ UNCHANGED queue)
  /\ left' = [left EXCEPT ![c] = IdleTimeout] /\ quiet' = [quiet EXCEPT ![c] = 0]
  /\ UNCHANGED <<conn, active, clients, open, eof, received, sends, failed, stage>>

\* A frame is read whole.  One that is buffered is read although the
\* connection is closing.
ReadFrame(c) ==
  /\ conn[c] = "reading" /\ ~Closing /\ Cardinality(FramesRead) < MaxFrames
  /\ frames' = [frames EXCEPT ![c] = @ + 1]
  /\ quiet' = [quiet EXCEPT ![c] = 0]
  /\ \/ Queued(c, frames'[c]) /\ left' = [left EXCEPT ![c] = IdleTimeout] /\ UNCHANGED conn
     \/ Len(queue) >= QueueSize /\ Moves(c, "put") /\ UNCHANGED <<queue, left>>
  /\ UNCHANGED <<active, clients, open, eof, received, sends, failed, stage>>

\* The reader that waited for room puts its frame.
Put(c) ==
  /\ conn[c] = "put" /\ ~Closing
  /\ Queued(c, frames[c]) /\ Moves(c, "reading")
  /\ left' = [left EXCEPT ![c] = IdleTimeout - quiet[c]]
  /\ UNCHANGED <<active, clients, open, eof, quiet, frames, received, sends, failed, stage>>

\* Mutant of ReaderLoses: only its own server's closing ends a reader.
ReaderStays(c) ==
  /\ \/ conn[c] = "reading" /\ c \notin open
     \/ conn[c] = "put" /\ Closing
  /\ Finally(c)
  /\ UNCHANGED <<eof, quiet, left, frames, received, sends, failed, stage>>

\* The reader meets the end of the stream, or its put a closed queue.
ReaderLoses(c) ==
  /\ \/ conn[c] = "reading" /\ (c \in eof \/ c \notin open)
     \/ conn[c] = "put" /\ Closing
  /\ Finally(c)
  /\ UNCHANGED <<eof, quiet, left, frames, received, sends, failed, stage>>

\* The size of a frame is not valid, the rest of it is late, or the transport
\* is closing when it was read.
ReaderRejects(c) ==
  /\ conn[c] = "reading"
  /\ Finally(c)
  /\ UNCHANGED <<eof, quiet, left, frames, received, sends, failed, stage>>

\* The idle deadline that the read began with is over.
ReaderIdles(c) ==
  /\ conn[c] = "reading" /\ IdleTimeout > 0 /\ left[c] = 0
  /\ Finally(c)
  /\ UNCHANGED <<eof, quiet, left, frames, received, sends, failed, stage>>

\* Mutant of CleanedUp: when close() cancels the wait the slot is lost.
CleanedUpHalf(c) ==
  /\ conn[c] = "cleanup"
  /\ IF stage = "readers" THEN Moves(c, "gone") /\ UNCHANGED active ELSE Ends(c)
  /\ UNCHANGED <<clients, peer, frames, queue, received, sends, failed, stage>>

\* The writer is closed, or close() cancelled the wait for it.
CleanedUp(c) ==
  /\ conn[c] = "cleanup"
  /\ Ends(c)
  /\ UNCHANGED <<clients, peer, frames, queue, received, sends, failed, stage>>

HangUp(c) ==
  /\ Serving(c) /\ c \notin eof
  /\ eof' = eof \cup {c}
  /\ UNCHANGED <<conn, active, clients, open, quiet, left, frames, queue, received, sends, failed, stage>>

\* get_principal() finds the credentials revoked.
Revoke(c) ==
  /\ c \in clients /\ c \in open
  /\ open' = open \ {c}
  /\ UNCHANGED <<conn, active, clients, eof, quiet, left, frames, queue, received, sends, failed, stage>>

----------------------------------------------------------------------------
Recv ==
  /\ ~Closing /\ queue # <<>>
  /\ LET f == Head(queue) IN received' = [received EXCEPT ![f.from] = Append(@, f.n)]
  /\ queue' = Tail(queue)
  /\ UNCHANGED <<conn, active, clients, peer, frames, sends, failed, stage>>

\* send() to a connected client waits for its write lock.
SendStart(s, c) ==
  /\ Sending(s, "idle") /\ ~Closing /\ c \in clients
  /\ IdleTimeout = 0 \/ quiet[c] < IdleTimeout
  /\ sends' = [sends EXCEPT ![s] = [at |-> "lock", to |-> c]]
  /\ UNCHANGED <<conn, active, clients, peer, frames, queue, received, failed, stage>>

\* The client is idle: it is disconnected.
SendIdle(s, c) ==
  /\ Sending(s, "idle") /\ ~Closing /\ c \in clients
  /\ IdleTimeout > 0 /\ quiet[c] >= IdleTimeout
  /\ clients' = clients \ {c} /\ open' = open \ {c} /\ failed' = failed \cup {c}
  /\ sends' = [sends EXCEPT ![s] = [at |-> "closing", to |-> c]]
  /\ UNCHANGED <<conn, active, eof, quiet, left, frames, queue, received, stage>>

Unlocked(c) == \A s \in Senders : ~(Sending(s, "drain") /\ sends[s].to = c)

\* The frame is written and drain() waits.
SendWrite(s) ==
  /\ Sending(s, "lock")
  /\ sends[s].to \in open /\ Unlocked(sends[s].to)
  /\ sends' = [sends EXCEPT ![s].at = "drain"]
  /\ UNCHANGED <<conn, active, clients, peer, frames, queue, received, failed, stage>>

SendDone(s) ==
  /\ Sending(s, "drain")
  /\ quiet' = [quiet EXCEPT ![sends[s].to] = 0]
  /\ sends' = [sends EXCEPT ![s] = NotSending]
  /\ UNCHANGED <<conn, active, clients, open, eof, left, frames, queue, received, failed, stage>>

\* The connection is closing or fails, the drain takes too long, or the sender
\* is cancelled, by its caller or by close().
SendFails(s) ==
  /\ Sending(s, "drain") \/ Sending(s, "lock")
  /\ LET c == sends[s].to IN
       /\ open' = open \ {c} /\ failed' = failed \cup {c}
       /\ IF c \in clients THEN clients' = clients \ {c} /\ DropPeer(c)
                           ELSE UNCHANGED <<clients, queue>>
  /\ sends' = [sends EXCEPT ![s].at = "closing"]
  /\ UNCHANGED <<conn, active, eof, quiet, left, frames, received, stage>>

\* The connection it gave up is closed, and the send raises.
SendClosed(s) ==
  /\ Sending(s, "closing")
  /\ sends' = [sends EXCEPT ![s] = NotSending]
  /\ UNCHANGED <<conn, active, clients, peer, frames, queue, received, failed, stage>>

----------------------------------------------------------------------------
Stage(from, to) == stage = from /\ stage' = to

Close ==
  /\ Stage("open", "draining")
  /\ queue' = <<>>
  /\ UNCHANGED <<conn, active, clients, peer, frames, received, sends, failed>>

\* The sends have ended by themselves or cancelled; the readers are cancelled.
CloseReaders ==
  /\ Stage("draining", "readers")
  /\ \A s \in Senders : Sending(s, "idle")
  /\ UNCHANGED <<conn, active, clients, peer, frames, queue, received, sends, failed>>

\* Mutant of ReaderCancelled: only the readers that wait for room are.
ReaderWaitedFor(c) ==
  /\ stage = "readers" /\ conn[c] = "put"
  /\ Finally(c)
  /\ UNCHANGED <<eof, quiet, left, frames, received, sends, failed, stage>>

ReaderCancelled(c) ==
  /\ stage = "readers" /\ conn[c] \in {"auth", "reading", "put"}
  /\ Finally(c)
  /\ UNCHANGED <<eof, quiet, left, frames, received, sends, failed, stage>>

\* They have ended; what is still registered is closed.
CloseConnections ==
  /\ Stage("readers", "closed")
  /\ \A c \in Clients : ~Serving(c)
  /\ open' = open \ clients /\ clients' = {}
  /\ UNCHANGED <<conn, active, eof, quiet, left, frames, queue, received, sends, failed>>

----------------------------------------------------------------------------
Tick ==
  /\ IdleTimeout > 0
  /\ quiet' = [c \in Clients |-> IF quiet[c] < IdleTimeout THEN quiet[c] + 1 ELSE IdleTimeout]
  /\ left' = [c \in Clients |-> IF left[c] > 0 THEN left[c] - 1 ELSE 0]
  /\ UNCHANGED <<conn, active, clients, open, eof, frames, queue, received, sends, failed, stage>>

Connection(c) ==
  \/ Connect(c) \/ Unauthenticated(c) \/ Register(c) \/ ReadFrame(c) \/ Put(c) \/ ReaderLoses(c)
  \/ ReaderRejects(c) \/ ReaderIdles(c) \/ CleanedUp(c) \/ HangUp(c) \/ Revoke(c) \/ ReaderCancelled(c)

Next ==
  \/ \E c \in Clients : Connection(c)
  \/ \E s \in Senders :
       \/ \E c \in Clients : SendStart(s, c) \/ SendIdle(s, c)
       \/ SendWrite(s) \/ SendDone(s) \/ SendFails(s) \/ SendClosed(s)
  \/ Recv \/ Close \/ CloseReaders \/ CloseConnections \/ Tick

Spec == Init /\ [][Next]_vars

\* The app keeps receiving, the tasks run, a send has its write_timeout and an
\* authentication its auth_timeout.
Fairness ==
  /\ WF_vars(Recv) /\ WF_vars(CloseReaders) /\ WF_vars(CloseConnections)
  /\ \A c \in Clients :
       /\ WF_vars(Unauthenticated(c) \/ Register(c)) /\ WF_vars(Put(c)) /\ WF_vars(ReaderLoses(c))
       /\ WF_vars(CleanedUp(c)) /\ WF_vars(ReaderCancelled(c))
  /\ \A s \in Senders : WF_vars(SendWrite(s) \/ SendDone(s) \/ SendFails(s) \/ SendClosed(s))

FairSpec == Spec /\ Fairness

----------------------------------------------------------------------------
TypeOK ==
  /\ conn \in [Clients -> {"none", "auth", "reading", "put", "cleanup", "gone"}]
  /\ active \in 0..MaxConnections
  /\ clients \subseteq Clients /\ open \subseteq Clients /\ eof \subseteq Clients /\ failed \subseteq Clients
  /\ frames \in [Clients -> 0..MaxFrames]
  /\ queue \in Seq(Frame)
  /\ received \in [Clients -> Seq(1..MaxFrames)]
  /\ sends \in [Senders -> {NotSending} \cup [at : {"lock", "drain", "closing"}, to : Clients]]
  /\ stage \in {"open", "draining", "readers", "closed"}
  /\ quiet \in [Clients -> 0..IdleTimeout] /\ left \in [Clients -> 0..IdleTimeout]

\* A slot is held by exactly the connections that are served, whatever ends
\* them: no slot is lost and none is given back twice.
SlotsExact == active = Cardinality({c \in Clients : Serving(c)})

\* A connection that has ended leaves nothing in the transport: no entry that
\* send() would write to, no open stream and no frame for the app.
GoneLeavesNothing ==
  \A c \in Clients : conn[c] = "gone" /\ ~Closing => c \notin clients \cup open /\ Of(c) = <<>>

\* While a client is registered its reader runs, so a failure of its stream is
\* noticed; once close() has begun the entry is close()'s.
RegisteredIsServed == \A c \in clients : conn[c] \in {"reading", "put"} \/ Closing

\* close() leaves no connection open and no task behind, whatever it met:
\* unauthenticated connections, waiting readers, sends that fail meanwhile.
NothingOutlivesClose ==
  stage = "closed" => open = {} /\ \A c \in Clients : ~Serving(c)

\* Slots, entries, streams and frames follow the connection they belong to,
\* whichever of its reader, a send and close() ends it; and the state is typed.
ConnectionsAccounted ==
  TypeOK /\ SlotsExact /\ GoneLeavesNothing /\ RegisteredIsServed /\ NothingOutlivesClose

\* The app gets the frames of a client that no send has failed for in order and
\* without a gap.
FramesInOrder ==
  \A c \in Clients \ failed :
    Closing \/ (received[c] \o [i \in 1..Len(Of(c)) |-> Of(c)[i].n])
                 = [i \in 1..(frames[c] - IF conn[c] = "put" THEN 1 ELSE 0) |-> i]
            \/ conn[c] \in {"cleanup", "gone"}

\* What a client cannot count on: put() has no order, and while others keep the
\* queue full its reader may wait for room for ever (_queue.py:69).
GetsRoom(c) == []<>(conn[c] # "put")

\* close() ends: neither clients that stay silent nor sends that are stuck hold
\* it up, nor readers that never get room.  And the slot of a client that has hung
\* up is given back if its reader, should it wait for room, gets it.
WaitsEnd ==
  /\ stage = "draining" ~> stage = "closed"
  /\ \A c \in Clients : GetsRoom(c) => (Serving(c) /\ c \in eof ~> conn[c] = "gone")
=============================================================================
