------------------------------ MODULE TcpLink -------------------------------
(***************************************************************************)
(* TcpServerTransport and the TcpClientTransports that connect to it        *)
(* (transports/tcp/tcp.py), with the handshake of their authenticators      *)
(* (auth/tcp.py).  The server keeps the first client that authenticates and *)
(* turns the others away.  The client and the server end then run the same  *)
(* recv() and send().                                                       *)
(*                                                                         *)
(* A frame is two parts, its length and its payload, that arrive one after  *)
(* the other.  A timeout may end any wait that has one.  Each end has one   *)
(* task that receives and one that sends, so that its locks are free.       *)
(***************************************************************************)
EXTENDS Integers, Sequences, FiniteSets

CONSTANTS
  Clients,    (* the client transports, one connection each                 *)
  Keyed,      (* those whose credentials the server accepts                 *)
  Server,
  None,
  Schemes,    (* the handshakes to check: "token", "hmac"                   *)
  Closers,    (* the ends whose close() is called                           *)
  MaxFrames   (* bound: the frames each end sends                           *)

ASSUME KeyedAssumption == Keyed \subseteq Clients
ASSUME NamesAssumption == Server \notin Clients /\ None \notin Clients /\ None # Server
ASSUME SchemesAssumption == Schemes \subseteq {"token", "hmac"}
ASSUME FramesAssumption == MaxFrames \in Nat \ {0}

VARIABLES
  scheme,     (* the handshake in use                                       *)
  listen,     (* `_server`                                                  *)
  accepting,  (* `_accepting`                                               *)
  held,       (* the server's `_connection`                                 *)
  serve,      (* where _handle_client is for each connection                *)
  client,     (* where each client's connect() is                           *)
  serverOpen, (* connections whose writer is not closing at the server      *)
  clientOpen, (* connections whose writer is not closing at the client      *)
  up, down,   (* what is under way to the server and to the client          *)
  rd, wr,     (* what the receiving and the sending task of each end do     *)
  sent, got,  (* frames each end has sent, and numbers of those it received *)
  stage       (* where close() of each end is                               *)

listener == <<scheme, listen, accepting, held>>
handshake == <<serve, client>>
ends == <<serverOpen, clientOpen>>
streams == <<up, down>>
traffic == <<rd, wr, sent, got>>
vars == <<listener, handshake, ends, streams, traffic, stage>>

Ends == Clients \cup {Server}
Handshaking == {"hello", "proof", "verified"}
Authenticating == {"opening", "challenge", "verdict"}
Closing(e) == stage[e] # "open"

\* What travels on a connection: handshake messages, and the parts of frames.
Message(kind, n) == [is |-> kind, n |-> n]
Hello(c) == Message("hello", IF c \in Keyed THEN 1 ELSE 0)
Proof(c) == Message("proof", IF c \in Keyed THEN 1 ELSE 0)

\* The connection of an end, the stream it reads, and whether it may write.
Connection(e) ==
  IF e = Server THEN held ELSE IF client[e] = "connected" THEN e ELSE None
Incoming(e) == IF e = Server THEN up[held] ELSE down[e]
IsOpen(e) == IF e = Server THEN held \in serverOpen ELSE e \in clientOpen

Takes(e) ==
  IF e = Server THEN up' = [up EXCEPT ![held] = Tail(@)] /\ UNCHANGED down
                ELSE down' = [down EXCEPT ![e] = Tail(@)] /\ UNCHANGED up
Writes(e, parts) ==
  IF e = Server THEN down' = [down EXCEPT ![held] = @ \o parts] /\ UNCHANGED up
                ELSE up' = [up EXCEPT ![e] = @ \o parts] /\ UNCHANGED down
Shuts(e) ==
  IF e = Server THEN serverOpen' = serverOpen \ {held} /\ UNCHANGED clientOpen
                ELSE clientOpen' = clientOpen \ {e} /\ UNCHANGED serverOpen

Serves(c, to) == serve' = [serve EXCEPT ![c] = to]
Connects(c, to) == client' = [client EXCEPT ![c] = to]
Reads(e, to) == rd' = [rd EXCEPT ![e] = to]
Sends(e, to) == wr' = [wr EXCEPT ![e] = to]
\* Event.set() of `_connected`: the tasks that wait for it will run.
Wakes ==
  rd' = [rd EXCEPT ![Server] = IF @ = "waiting" THEN "woken" ELSE @]

Init ==
  /\ scheme \in Schemes
  /\ listen = "new" /\ accepting = FALSE /\ held = None
  /\ serve = [c \in Clients |-> "none"] /\ client = [c \in Clients |-> "new"]
  /\ serverOpen = {} /\ clientOpen = {}
  /\ up = [c \in Clients |-> <<>>] /\ down = [c \in Clients |-> <<>>]
  /\ rd = [e \in Ends |-> "idle"] /\ wr = [e \in Ends |-> "idle"]
  /\ sent = [e \in Ends |-> 0] /\ got = [e \in Ends |-> <<>>]
  /\ stage = [e \in Ends |-> "open"]

----------------------------------------------------------------------------
\* _start(), from connect() or from `async with`.
Start ==
  /\ listen = "new" /\ ~Closing(Server)
  /\ listen' = "starting"
  /\ UNCHANGED <<scheme, accepting, held, handshake, ends, streams, traffic, stage>>

\* The sockets are bound.  When close() has begun they are closed again.
Started ==
  /\ listen = "starting"
  /\ IF Closing(Server) THEN listen' = "stopped"
                        ELSE listen' = "listening"
  /\ UNCHANGED <<scheme, accepting, held, handshake, ends, streams, traffic, stage>>

----------------------------------------------------------------------------
Connect(c) ==
  /\ client[c] = "new" /\ ~Closing(c)
  /\ Connects(c, "opening")
  /\ UNCHANGED <<listener, serve, ends, streams, traffic, stage>>

\* The connection is made: the client sends its token or the id of its key.
Opened(c) ==
  /\ client[c] = "opening" /\ listen = "listening"
  /\ Connects(c, IF scheme = "token" THEN "verdict" ELSE "challenge")
  /\ Serves(c, "accepted")
  /\ serverOpen' = serverOpen \cup {c} /\ clientOpen' = clientOpen \cup {c}
  /\ up' = [up EXCEPT ![c] = <<Hello(c)>>]
  /\ UNCHANGED <<listener, down, traffic, stage>>

\* Mutant of Handle: a client that is being authenticated is overlooked.
HandleHeldOnly(c) ==
  /\ serve[c] = "accepted"
  /\ IF Closing(Server) \/ held # None
       THEN Serves(c, "gone") /\ serverOpen' = serverOpen \ {c} /\ UNCHANGED accepting
       ELSE Serves(c, "hello") /\ accepting' = TRUE /\ UNCHANGED serverOpen
  /\ UNCHANGED <<scheme, listen, held, client, clientOpen, streams, traffic, stage>>

\* _handle_client runs: it turns the client away or reserves the place.
Handle(c) ==
  /\ serve[c] = "accepted"
  /\ IF Closing(Server) \/ accepting \/ held # None
       THEN Serves(c, "gone") /\ serverOpen' = serverOpen \ {c} /\ UNCHANGED accepting
       ELSE Serves(c, "hello") /\ accepting' = TRUE /\ UNCHANGED serverOpen
  /\ UNCHANGED <<scheme, listen, held, client, clientOpen, streams, traffic, stage>>

\* The finally of a connection that is not kept.
LetsGo(c) ==
  /\ Serves(c, "gone") /\ accepting' = FALSE
  /\ serverOpen' = serverOpen \ {c}

\* The handshake of the server: HMAC answers the key id with a challenge.
Challenge(c) ==
  /\ serve[c] = "hello" /\ scheme = "hmac" /\ up[c] # <<>>
  /\ up' = [up EXCEPT ![c] = Tail(@)]
  /\ down' = [down EXCEPT ![c] = Append(@, Message("challenge", 0))]
  /\ Serves(c, "proof")
  /\ UNCHANGED <<listener, client, ends, traffic, stage>>

\* The token or the proof is read and judged.
Judge(c) ==
  /\ serve[c] = (IF scheme = "token" THEN "hello" ELSE "proof") /\ up[c] # <<>>
  /\ up' = [up EXCEPT ![c] = Tail(@)]
  /\ IF Head(up[c]).n = 1
       THEN /\ down' = [down EXCEPT ![c] = Append(@, Message("OK", 0))]
            /\ Serves(c, "verified")
            /\ UNCHANGED <<accepting, serverOpen>>
       ELSE LetsGo(c) /\ UNCHANGED down
  /\ UNCHANGED <<scheme, listen, held, client, clientOpen, traffic, stage>>

\* Mutant of HandshakeFails: the place stays reserved.
HandshakeKeepsPlace(c) ==
  /\ serve[c] \in Handshaking
  /\ Serves(c, "gone") /\ serverOpen' = serverOpen \ {c}
  /\ UNCHANGED <<listener, client, clientOpen, streams, traffic, stage>>

\* It takes too long, the client is gone, the validator is unavailable, or
\* close() cancels the handler.
HandshakeFails(c) ==
  /\ serve[c] \in Handshaking
  /\ LetsGo(c)
  /\ UNCHANGED <<scheme, listen, held, client, clientOpen, streams, traffic, stage>>

\* The acceptance is written: the connection is kept, unless close() has begun.
Keep(c) ==
  /\ serve[c] = "verified"
  /\ IF Closing(Server)
       THEN LetsGo(c) /\ UNCHANGED <<held, rd>>
       ELSE /\ held' = c /\ accepting' = FALSE /\ Serves(c, "kept")
            /\ Wakes /\ UNCHANGED serverOpen
  /\ UNCHANGED <<scheme, listen, client, clientOpen, streams, wr, sent, got, stage>>

----------------------------------------------------------------------------
\* The handshake of the client.
Answer(c) ==
  /\ client[c] = "challenge" /\ down[c] # <<>>
  /\ down' = [down EXCEPT ![c] = Tail(@)]
  /\ up' = [up EXCEPT ![c] = Append(@, Proof(c))]
  /\ Connects(c, "verdict")
  /\ UNCHANGED <<listener, serve, ends, traffic, stage>>

Accepted(c) ==
  /\ client[c] = "verdict" /\ down[c] # <<>>
  /\ down' = [down EXCEPT ![c] = Tail(@)]
  /\ IF Closing(c) THEN Connects(c, "failed") /\ clientOpen' = clientOpen \ {c}
                   ELSE Connects(c, "connected") /\ UNCHANGED clientOpen
  /\ UNCHANGED <<listener, serve, serverOpen, up, traffic, stage>>

\* Nothing listens, the server hangs up, connect() takes too long or is
\* cancelled, by its caller or by close().
ConnectFails(c) ==
  /\ client[c] \in Authenticating
  /\ Connects(c, "failed")
  /\ clientOpen' = clientOpen \ {c}
  /\ UNCHANGED <<listener, serve, serverOpen, streams, traffic, stage>>

----------------------------------------------------------------------------
\* The server's task waits for its client: in connect(), or in recv() after
\* `async with`.
AwaitClient ==
  /\ rd[Server] = "idle" /\ ~Closing(Server) /\ held = None /\ listen = "listening"
  /\ Reads(Server, "waiting")
  /\ UNCHANGED <<listener, handshake, ends, streams, wr, sent, got, stage>>

\* It goes on to read, unless close() has begun.
ClientCame ==
  /\ rd[Server] = "woken"
  /\ Reads(Server, IF Closing(Server) \/ ~IsOpen(Server) THEN "idle" ELSE "header")
  /\ UNCHANGED <<listener, handshake, ends, streams, wr, sent, got, stage>>

Recv(e) ==
  /\ rd[e] = "idle" /\ ~Closing(e) /\ Connection(e) # None /\ IsOpen(e)
  /\ Reads(e, "header")
  /\ UNCHANGED <<listener, handshake, ends, streams, wr, sent, got, stage>>

\* The first bytes are taken for a length, whatever they are.
ReadHeader(e) ==
  /\ rd[e] = "header" /\ Incoming(e) # <<>>
  /\ Takes(e)
  /\ IF Head(Incoming(e)).is = "header"
       THEN Reads(e, "payload") /\ UNCHANGED got
       ELSE Reads(e, "idle") /\ got' = [got EXCEPT ![e] = Append(@, 0)]
  /\ UNCHANGED <<listener, handshake, ends, wr, sent, stage>>

ReadPayload(e) ==
  /\ rd[e] = "payload" /\ Incoming(e) # <<>>
  /\ Takes(e)
  /\ Reads(e, "idle") /\ got' = [got EXCEPT ![e] = Append(@, Head(Incoming(e)).n)]
  /\ UNCHANGED <<listener, handshake, ends, wr, sent, stage>>

\* Mutant of RecvFails: the connection stays open where the read stopped.
RecvStops(e) ==
  /\ rd[e] \in {"header", "payload"}
  /\ Reads(e, "idle")
  /\ UNCHANGED <<listener, handshake, ends, streams, wr, sent, got, stage>>

\* The stream ends, a deadline is over, the length is not valid or the task is
\* cancelled: the position in the stream is lost.
RecvFails(e) ==
  /\ rd[e] \in {"header", "payload"}
  /\ Reads(e, "idle") /\ Shuts(e)
  /\ UNCHANGED <<listener, handshake, streams, wr, sent, got, stage>>

\* Its caller cancels it, or close() does.
AwaitCancelled ==
  /\ rd[Server] = "waiting" /\ Reads(Server, "idle")
  /\ UNCHANGED <<listener, handshake, ends, streams, wr, sent, got, stage>>

Send(e) ==
  /\ wr[e] = "idle" /\ ~Closing(e) /\ Connection(e) # None /\ IsOpen(e)
  /\ sent[e] < MaxFrames
  /\ sent' = [sent EXCEPT ![e] = @ + 1]
  /\ Writes(e, <<Message("header", sent'[e]), Message("payload", sent'[e])>>)
  /\ Sends(e, "draining")
  /\ UNCHANGED <<listener, handshake, ends, rd, got, stage>>

SendDone(e) ==
  /\ wr[e] = "draining" /\ Sends(e, "idle")
  /\ UNCHANGED <<listener, handshake, ends, streams, rd, sent, got, stage>>

\* The connection is idle, the drain fails or is late, or the task is cancelled.
SendFails(e) ==
  /\ \/ wr[e] = "draining"
     \/ wr[e] = "idle" /\ ~Closing(e) /\ Connection(e) # None
  /\ Sends(e, "idle") /\ Shuts(e)
  /\ UNCHANGED <<listener, handshake, streams, rd, sent, got, stage>>

\* get_principal() finds the credentials revoked and closes the connection.
Revoke ==
  /\ held \in serverOpen
  /\ serverOpen' = serverOpen \ {held}
  /\ UNCHANGED <<listener, handshake, clientOpen, streams, traffic, stage>>

\* The frames that a closed or aborted end had not yet got across are lost.  (A
\* lost handshake message is one whose reader fails.)
CutDown(c) ==
  /\ c \notin serverOpen /\ serve[c] = "kept" /\ down[c] # <<>>
  /\ down' = [down EXCEPT ![c] = SubSeq(@, 1, Len(@) - 1)]
  /\ UNCHANGED <<listener, handshake, ends, up, traffic, stage>>

CutUp(c) ==
  /\ c \notin clientOpen /\ client[c] = "connected" /\ up[c] # <<>>
  /\ up' = [up EXCEPT ![c] = SubSeq(@, 1, Len(@) - 1)]
  /\ UNCHANGED <<listener, handshake, ends, down, traffic, stage>>

----------------------------------------------------------------------------
Reaches(e, from, to) == stage[e] = from /\ stage' = [stage EXCEPT ![e] = to]
Idle(e) == rd[e] = "idle" /\ wr[e] = "idle"

\* The server's close(): no more clients, and the tasks that wait for one wake.
CloseServer ==
  /\ Server \in Closers /\ Reaches(Server, "open", "draining")
  /\ listen' = IF listen = "starting" THEN listen ELSE "stopped"
  /\ Wakes
  /\ UNCHANGED <<scheme, accepting, held, handshake, ends, streams, wr, sent, got>>

\* Mutant of ServerCloses: a client that is being authenticated is not waited for.
ServerClosesEarly ==
  /\ Reaches(Server, "draining", "closed")
  /\ Idle(Server) /\ listen # "starting"
  /\ Shuts(Server) /\ held' = None
  /\ UNCHANGED <<scheme, listen, accepting, handshake, streams, traffic>>

\* The operations and the handlers have ended, by themselves or cancelled, and
\* the connection is closed.
ServerCloses ==
  /\ Reaches(Server, "draining", "closed")
  /\ Idle(Server) /\ listen # "starting"
  /\ \A c \in Clients : serve[c] \notin Handshaking
  /\ Shuts(Server) /\ held' = None
  /\ UNCHANGED <<scheme, listen, accepting, handshake, streams, traffic>>

CloseClient(c) ==
  /\ c \in Closers /\ Reaches(c, "open", "draining")
  /\ UNCHANGED <<listener, handshake, ends, streams, traffic>>

ClientCloses(c) ==
  /\ Reaches(c, "draining", "closed")
  /\ Idle(c) /\ client[c] \notin Authenticating
  /\ Shuts(c)
  /\ UNCHANGED <<listener, handshake, streams, traffic>>

----------------------------------------------------------------------------
Serving(c) == Handle(c) \/ Challenge(c) \/ Judge(c) \/ HandshakeFails(c) \/ Keep(c)
Connecting(c) == Opened(c) \/ Answer(c) \/ Accepted(c) \/ ConnectFails(c)
Receiving(e) == ReadHeader(e) \/ ReadPayload(e) \/ RecvFails(e)
Sending(e) == SendDone(e) \/ (wr[e] = "draining" /\ SendFails(e))
Next ==
  \/ Start \/ Started \/ AwaitClient \/ ClientCame \/ AwaitCancelled \/ Revoke
  \/ CloseServer \/ ServerCloses
  \/ \E c \in Clients :
       Connect(c) \/ Connecting(c) \/ Serving(c) \/ CutDown(c) \/ CutUp(c) \/ CloseClient(c) \/ ClientCloses(c)
  \/ \E e \in Ends : Recv(e) \/ Receiving(e) \/ Send(e) \/ Sending(e) \/ SendFails(e)

Spec == Init /\ [][Next]_vars

\* Every task runs, and every wait has a timeout except that for the client and,
\* without an idle deadline, that for a frame; once close() has begun it
\* cancels those.
FairSpec ==
  /\ Spec
  /\ WF_vars(Started) /\ WF_vars(ClientCame) /\ WF_vars(ServerCloses)
  /\ \A c \in Clients : WF_vars(Serving(c)) /\ WF_vars(Connecting(c)) /\ WF_vars(ClientCloses(c))
  /\ \A e \in Ends : WF_vars(Closing(e) /\ Receiving(e)) /\ WF_vars(Sending(e))

----------------------------------------------------------------------------
TypeOK ==
  /\ scheme \in Schemes
  /\ listen \in {"new", "starting", "listening", "stopped"}
  /\ accepting \in BOOLEAN /\ held \in Clients \cup {None}
  /\ serve \in [Clients -> {"none", "accepted", "kept", "gone"} \cup Handshaking]
  /\ client \in [Clients -> {"new", "connected", "failed"} \cup Authenticating]
  /\ serverOpen \subseteq Clients /\ clientOpen \subseteq Clients
  /\ rd \in [Ends -> {"idle", "waiting", "woken", "header", "payload"}]
  /\ wr \in [Ends -> {"idle", "draining"}]
  /\ sent \in [Ends -> 0..MaxFrames] /\ got \in [Ends -> Seq(0..MaxFrames)]
  /\ stage \in [Ends -> {"open", "draining", "closed"}]

\* The server's one place is reserved for one connection or held by it.
OnePlace ==
  /\ accepting <=> \E c \in Clients : serve[c] \in Handshaking
  /\ \A c, d \in Clients :
       serve[c] \in Handshaking \cup {"kept"} /\ serve[d] \in Handshaking \cup {"kept"} => c = d
  /\ held # None => serve[held] = "kept"

\* A stream of the server is open only while its connection is served or kept,
\* and after close() only if the handler has not run yet.
StreamsOwned ==
  \A c \in serverOpen :
    /\ serve[c] \in Handshaking \cup {"accepted", "kept"}
    /\ stage[Server] = "closed" => serve[c] = "accepted"

\* A client whose connect() returned was accepted by the server, and the server
\* keeps only who has the credentials.
Agreement ==
  \A c \in Clients : client[c] = "connected" \/ serve[c] = "kept" =>
    c \in Keyed /\ serve[c] \notin {"none", "accepted", "hello", "proof"}

\* After close() no task of an end is in an operation, and it has no connection.
NothingOutlivesClose ==
  \A e \in Ends : stage[e] = "closed" =>
    Idle(e) /\ IF e = Server THEN held = None /\ listen = "stopped" ELSE e \notin clientOpen

\* One client at a time is authenticated or kept, its place and its stream go
\* with it, both ends agree on who is connected, and close() leaves nothing;
\* and the state is typed.
PlaceAccounted ==
  TypeOK /\ OnePlace /\ StreamsOwned /\ Agreement /\ NothingOutlivesClose

\* Frames go to the server and to the client of each connection.
Directions == Clients \X {"up", "down"}
ByServer(c, f, default) == IF serve[c] = "kept" THEN f[Server] ELSE default
Link == INSTANCE FrameLink WITH
  sent <- [d \in Directions |-> IF d[2] = "up" THEN sent[d[1]] ELSE ByServer(d[1], sent, 0)],
  got <- [d \in Directions |-> IF d[2] = "down" THEN got[d[1]] ELSE ByServer(d[1], got, <<>>)]

\* Each end gets the frames of the other in order, once and whole: no failed
\* read leaves the next one in the middle of a frame, and nothing of the
\* handshake is taken for a frame.
LinkSpec == Link!Spec

\* close() ends at both ends, a client that falls silent in the handshake does
\* not hold the place for ever, and a client's connect() ends, whatever the
\* other end does.
WaitsEnd ==
  /\ \A e \in Ends : stage[e] = "draining" ~> stage[e] = "closed"
  /\ accepting ~> ~accepting
  /\ \A c \in Clients : client[c] \in Authenticating ~> client[c] \in {"connected", "failed"}
=============================================================================
