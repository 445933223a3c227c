------------------------------ MODULE TcpProofs ------------------------------
(***************************************************************************)
(* Proofs about the TCP transports for any number of clients.  Of          *)
(* TcpLink: the server's one place is reserved for, or held by, one        *)
(* client that has shown its credentials, close() leaves nothing behind,   *)
(* and frames arrive in each direction in order, once and whole.  Of       *)
(* TcpMulticast: slots, entries, streams and frames follow the connection  *)
(* they belong to, and the app gets the frames of a client in order.       *)
(***************************************************************************)
EXTENDS TcpLink, MCTcpMulticast, SubsequencesProofs, FiniteSetTheorems

\* The two ends of the links.
LEMMA EndsAre == Server \in Ends /\ Clients \subseteq Ends /\ Ends = Clients \cup {Server}
BY DEF Ends

----------------------------------------------------------------------------
\* Types, those of the streams included.
Kinds == {"hello", "proof", "challenge", "OK", "header", "payload"}
Messages == [is : Kinds, n : 0..MaxFrames]
Streams == [Clients -> Seq(Messages)]
ServerReads == rd[Server] \in {"header", "payload"} => held \in Clients
Typed == TypeOK /\ up \in Streams /\ down \in Streams /\ ServerReads

\* The handshake's messages and the frames are messages.
LEMMA MessageTyped ==
  ASSUME NEW kind \in Kinds, NEW n \in 0..MaxFrames
  PROVE  Message(kind, n) \in Messages
BY DEF Message, Messages

\* What either handshake sends is a message.
LEMMA HandshakeTyped ==
  \A c \in Clients : /\ Hello(c) \in Messages /\ Proof(c) \in Messages
                     /\ Message("challenge", 0) \in Messages /\ Message("OK", 0) \in Messages
BY FramesAssumption, MessageTyped DEF Hello, Proof, Kinds

\* What is sent on a stream, or taken from it, leaves streams.
LEMMA StreamUpdates ==
  ASSUME NEW s \in Streams, NEW c \in Clients
  PROVE  /\ s[c] \in Seq(Messages)
         /\ \A m \in Messages : [s EXCEPT ![c] = Append(@, m)] \in Streams
         /\ \A p \in Seq(Messages) : [s EXCEPT ![c] = @ \o p] \in Streams
         /\ s[c] # <<>> => Head(s[c]) \in Messages /\ [s EXCEPT ![c] = Tail(@)] \in Streams
         /\ [s EXCEPT ![c] = SubSeq(@, 1, Len(@) - 1)] \in Streams
<1>1. s[c] \in Seq(Messages) BY DEF Streams
<1>2. \A q \in Seq(Messages) : [s EXCEPT ![c] = q] \in Streams BY DEF Streams
<1>3. \A m \in Messages : Append(s[c], m) \in Seq(Messages) BY <1>1
<1>4. \A p \in Seq(Messages) : s[c] \o p \in Seq(Messages) BY <1>1
<1>5. s[c] # <<>> => Head(s[c]) \in Messages /\ Tail(s[c]) \in Seq(Messages) BY <1>1
<1>6. SubSeq(s[c], 1, Len(s[c]) - 1) \in Seq(Messages) BY <1>1
<1>. QED BY <1>1, <1>2, <1>3, <1>4, <1>5, <1>6

\* Types and streams at the start.
LEMMA TypedInit == Init => Typed
<1>. SUFFICES ASSUME Init PROVE Typed
  OBVIOUS
<1>. USE EndsAre, FramesAssumption, NamesAssumption
<1>1. up \in Streams /\ down \in Streams BY DEF Init, Streams
<1>2. got \in [Ends -> Seq(0..MaxFrames)] /\ sent \in [Ends -> 0..MaxFrames] BY DEF Init
<1>3. TypeOK BY <1>2 DEF Init, TypeOK
<1>4. ServerReads BY DEF Init, ServerReads
<1>. QED BY <1>1, <1>3, <1>4 DEF Typed

\* A step that leaves streams and traffic alone.
LEMMA ListenerTyped ==
  ASSUME Typed, Start \/ Started \/ AwaitClient \/ ClientCame \/ AwaitCancelled \/ Revoke \/ CloseServer \/ ServerCloses
  PROVE  Typed'
<1>. USE EndsAre, NamesAssumption DEF Typed, TypeOK
<1>1. CASE Start BY <1>1 DEF Start, handshake, ends, streams, traffic, Streams, ServerReads
<1>2. CASE Started BY <1>2 DEF Started, handshake, ends, streams, traffic, Streams, ServerReads
<1>3. CASE AwaitClient BY <1>3 DEF AwaitClient, Reads, listener, handshake, ends, streams, Streams, ServerReads
<1>4. CASE ClientCame BY <1>4 DEF ClientCame, Reads, IsOpen, listener, handshake, ends, streams, Streams, ServerReads
<1>5. CASE AwaitCancelled BY <1>5 DEF AwaitCancelled, Reads, listener, handshake, ends, streams, Streams, ServerReads
<1>6. CASE Revoke BY <1>6 DEF Revoke, listener, handshake, streams, traffic, Streams, ServerReads
<1>7. CASE CloseServer BY <1>7 DEF CloseServer, Reaches, Wakes, handshake, ends, streams, Streams, ServerReads
<1>8. CASE ServerCloses BY <1>8 DEF ServerCloses, Reaches, Idle, Shuts, handshake, streams, traffic, Streams, ServerReads
<1>. QED BY <1>1, <1>2, <1>3, <1>4, <1>5, <1>6, <1>7, <1>8

\* Types and streams: the server's steps for one client.
LEMMA ServingTyped ==
  ASSUME Typed, NEW c \in Clients, Serving(c) \/ CutDown(c) \/ CutUp(c)
  PROVE  Typed'
<1>. USE EndsAre, NamesAssumption, HandshakeTyped DEF Typed, TypeOK
<1>. up[c] \in Seq(Messages) /\ down[c] \in Seq(Messages) BY DEF Streams
<1>1. CASE Handle(c) BY <1>1 DEF Handle, Serves, streams, traffic, Handshaking, Streams, ServerReads
<1>2. CASE Challenge(c)
  <2>1. up' \in Streams /\ down' \in Streams BY <1>2 DEF Challenge, Streams
  <2>. QED BY <1>2, <2>1 DEF Challenge, Serves, listener, ends, traffic, Handshaking, ServerReads
<1>3. CASE Judge(c)
  <2>1. up' \in Streams BY <1>3, StreamUpdates DEF Judge
  <2>2. down' \in Streams
    <3>1. down' = down \/ down' = [down EXCEPT ![c] = Append(@, Message("OK", 0))] BY <1>3 DEF Judge
    <3>2. down \in Streams /\ Message("OK", 0) \in Messages OBVIOUS
    <3>. HIDE DEF Typed, TypeOK
    <3>3. [down EXCEPT ![c] = Append(@, Message("OK", 0))] \in Streams
      <4>. DEFINE m == Message("OK", 0)
      <4>1. m \in Messages BY <3>2
      <4>. HIDE DEF m
      <4>2. [down EXCEPT ![c] = Append(@, m)] \in Streams BY <3>2, <4>1, StreamUpdates
      <4>. QED BY <4>2 DEF m
    <3>. QED BY <3>1, <3>2, <3>3
  <2>. QED BY <1>3, <2>1, <2>2 DEF Judge, LetsGo, Serves, traffic, Handshaking, ServerReads
<1>4. CASE HandshakeFails(c) BY <1>4 DEF HandshakeFails, LetsGo, Serves, streams, traffic, Handshaking, Streams, ServerReads
<1>5. CASE Keep(c) BY <1>5 DEF Keep, LetsGo, Serves, Wakes, streams, Handshaking, Streams, ServerReads
<1>6. CASE CutDown(c)
  <2>1. SubSeq(down[c], 1, Len(down[c]) - 1) \in Seq(Messages) OBVIOUS
  <2>2. up' \in Streams /\ down' \in Streams BY <1>6, <2>1 DEF CutDown, Streams
  <2>. QED BY <1>6, <2>2 DEF CutDown, listener, handshake, ends, traffic, ServerReads
<1>7. CASE CutUp(c)
  <2>1. SubSeq(up[c], 1, Len(up[c]) - 1) \in Seq(Messages) OBVIOUS
  <2>2. up' \in Streams /\ down' \in Streams BY <1>7, <2>1 DEF CutUp, Streams
  <2>. QED BY <1>7, <2>2 DEF CutUp, listener, handshake, ends, traffic, ServerReads
<1>. QED BY <1>1, <1>2, <1>3, <1>4, <1>5, <1>6, <1>7 DEF Serving

\* Types and streams: the steps of a client's connect() and close().
LEMMA ConnectingTyped ==
  ASSUME Typed, NEW c \in Clients, Connect(c) \/ Connecting(c) \/ CloseClient(c) \/ ClientCloses(c)
  PROVE  Typed'
<1>. USE EndsAre, NamesAssumption, HandshakeTyped DEF Typed, TypeOK
<1>. up[c] \in Seq(Messages) /\ down[c] \in Seq(Messages) BY DEF Streams
<1>1. CASE Connect(c) BY <1>1 DEF Connect, Connects, listener, ends, streams, traffic, Authenticating, Streams, ServerReads
<1>2. CASE Opened(c)
  <2>1. up' \in Streams /\ down' \in Streams BY <1>2 DEF Opened, Streams
  <2>. QED BY <1>2, <2>1 DEF Opened, Connects, Serves, listener, traffic, Authenticating, ServerReads
<1>3. CASE Answer(c)
  <2>1. up' \in Streams /\ down' \in Streams BY <1>3 DEF Answer, Streams
  <2>. QED BY <1>3, <2>1 DEF Answer, Connects, listener, ends, traffic, Authenticating, ServerReads
<1>4. CASE Accepted(c)
  <2>1. up' \in Streams /\ down' \in Streams BY <1>4 DEF Accepted, Streams
  <2>. QED BY <1>4, <2>1 DEF Accepted, Connects, listener, traffic, Authenticating, ServerReads
<1>5. CASE ConnectFails(c) BY <1>5 DEF ConnectFails, Connects, listener, streams, traffic, Authenticating, Streams, ServerReads
<1>6. CASE CloseClient(c) BY <1>6 DEF CloseClient, Reaches, listener, handshake, ends, streams, traffic, Streams, ServerReads
<1>7. CASE ClientCloses(c) BY <1>7 DEF ClientCloses, Reaches, Shuts, listener, handshake, streams, traffic, Streams, ServerReads
<1>. QED BY <1>1, <1>2, <1>3, <1>4, <1>5, <1>6, <1>7 DEF Connecting

\* Types and streams: the steps of the receiving and sending tasks.
LEMMA FramesTyped ==
  ASSUME Typed, NEW e \in Ends, Recv(e) \/ Receiving(e) \/ Send(e) \/ Sending(e) \/ SendFails(e)
  PROVE  Typed'
<1>. USE EndsAre, NamesAssumption DEF Typed, TypeOK
<1>1. CASE Recv(e) BY <1>1 DEF Recv, Connection, Reads, listener, handshake, ends, streams, Streams, ServerReads
<1>2. ASSUME rd[e] \in {"header", "payload"}, Incoming(e) # <<>>, Takes(e)
      PROVE  up' \in Streams /\ down' \in Streams /\ Head(Incoming(e)) \in Messages
  <2>1. CASE e = Server
    <3>1. held \in Clients BY <1>2, <2>1 DEF ServerReads
    <3>2. up[held] \in Seq(Messages) /\ up[held] # <<>> BY <1>2, <2>1, <3>1 DEF Streams, Incoming
    <3>3. up' = [up EXCEPT ![held] = Tail(@)] /\ down' = down /\ Incoming(e) = up[held]
      BY <1>2, <2>1 DEF Incoming, Takes
    <3>. QED BY <3>1, <3>2, <3>3, StreamUpdates
  <2>2. CASE e # Server
    <3>1. down[e] \in Seq(Messages) /\ down[e] # <<>> BY <1>2, <2>2 DEF Streams, Incoming
    <3>2. down' = [down EXCEPT ![e] = Tail(@)] /\ up' = up /\ Incoming(e) = down[e]
      BY <1>2, <2>2 DEF Incoming, Takes
    <3>. QED BY <2>2, <3>1, <3>2, StreamUpdates
  <2>. QED BY <2>1, <2>2
<1>3. ASSUME NEW n \in 0..MaxFrames PROVE [got EXCEPT ![e] = Append(@, n)] \in [Ends -> Seq(0..MaxFrames)]
  BY <1>3
<1>4. CASE ReadHeader(e)
  <2>1. up' \in Streams /\ down' \in Streams BY <1>2, <1>4 DEF ReadHeader
  <2>2. got' \in [Ends -> Seq(0..MaxFrames)]
    <3>1. 0 \in 0..MaxFrames BY FramesAssumption
    <3>2. got' = got \/ got' = [got EXCEPT ![e] = Append(@, 0)] BY <1>4 DEF ReadHeader
    <3>3. got \in [Ends -> Seq(0..MaxFrames)] OBVIOUS
    <3>. HIDE DEF Typed, TypeOK
    <3>. QED BY <1>3, <3>1, <3>2, <3>3
  <2>. QED BY <1>4, <2>1, <2>2 DEF ReadHeader, Reads, listener, handshake, ends, ServerReads
<1>5. CASE ReadPayload(e)
  <2>1. up' \in Streams /\ down' \in Streams /\ Head(Incoming(e)).n \in 0..MaxFrames
    BY <1>2, <1>5 DEF ReadPayload, Messages
  <2>2. got' \in [Ends -> Seq(0..MaxFrames)] BY <1>3, <1>5, <2>1 DEF ReadPayload
  <2>. QED BY <1>5, <2>1, <2>2 DEF ReadPayload, Reads, listener, handshake, ends, ServerReads
<1>6. CASE RecvFails(e) BY <1>6 DEF RecvFails, Reads, Shuts, listener, handshake, streams, Streams, ServerReads
<1>7. CASE Send(e)
  <2>1. sent' \in [Ends -> 0..MaxFrames] /\ sent'[e] \in 0..MaxFrames BY <1>7, FramesAssumption DEF Send
  <2>2. <<Message("header", sent'[e]), Message("payload", sent'[e])>> \in Seq(Messages)
    BY <2>1, MessageTyped DEF Kinds
  <2>3. up' \in Streams /\ down' \in Streams
    <3>1. CASE e = Server
      <4>1. held \in Clients BY <1>7, <3>1 DEF Send, Connection
      <4>2. up' = up /\ down' = [down EXCEPT ![held] = @ \o <<Message("header", sent'[e]), Message("payload", sent'[e])>>]
        BY <1>7, <3>1 DEF Send, Writes
      <4>. HIDE DEF Typed, TypeOK
      <4>. QED BY <2>2, <4>1, <4>2, StreamUpdates DEF Typed
    <3>2. CASE e # Server
      <4>1. down' = down /\ up' = [up EXCEPT ![e] = @ \o <<Message("header", sent'[e]), Message("payload", sent'[e])>>]
        BY <1>7, <3>2 DEF Send, Writes
      <4>. HIDE DEF Typed, TypeOK
      <4>. QED BY <2>2, <3>2, <4>1, StreamUpdates DEF Typed
    <3>. QED BY <3>1, <3>2
  <2>. QED BY <1>7, <2>1, <2>3 DEF Send, Sends, listener, handshake, ends, ServerReads
<1>8. CASE SendDone(e) BY <1>8 DEF SendDone, Sends, listener, handshake, ends, streams, Streams, ServerReads
<1>9. CASE SendFails(e) BY <1>9 DEF SendFails, Sends, Shuts, listener, handshake, streams, Streams, ServerReads
<1>. QED BY <1>1, <1>4, <1>5, <1>6, <1>7, <1>8, <1>9 DEF Receiving, Sending

\* Types and streams are kept by every step.
LEMMA TypedStep == Typed /\ [Next]_vars => Typed'
<1>. SUFFICES ASSUME Typed, [Next]_vars PROVE Typed'
  OBVIOUS
<1>1. CASE UNCHANGED vars
  BY <1>1 DEF Typed, TypeOK, ServerReads, Streams, vars, listener, handshake, ends, streams, traffic
<1>. QED BY <1>1, ListenerTyped, ServingTyped, ConnectingTyped, FramesTyped DEF Next

----------------------------------------------------------------------------
\* What one connection and its client know of each other, while up to now the
\* credentials were not shown, and after.
Shows(c, s) == c \in Keyed \/ \A i \in 1..Len(s) : s[i].n # 1
Known == {"verified", "kept", "gone"}

Unmet(c) == client[c] \in {"new", "opening"} => serve[c] = "none"
Unserved(c) == serve[c] = "none" =>
  up[c] = <<>> /\ down[c] = <<>> /\ client[c] \in {"new", "opening", "failed"}
Challenged(c) == client[c] = "challenge" =>
  /\ scheme = "hmac" /\ Len(down[c]) <= 1 /\ serve[c] \in {"accepted", "hello", "proof", "gone"}
  /\ serve[c] = "proof" => up[c] = <<>>
Greeted(c) == serve[c] \in {"accepted", "hello"} =>
  /\ down[c] = <<>>
  /\ scheme = "hmac" => client[c] \in {"challenge", "failed"} /\ Len(up[c]) <= 1
Unproven(c) == serve[c] \in {"accepted", "hello", "proof"} => Shows(c, up[c])
Proven(c) ==
  /\ serve[c] \in {"verified", "kept"} => c \in Keyed
  /\ client[c] = "verdict" /\ down[c] # <<>> => c \in Keyed /\ serve[c] \in Known
  /\ client[c] = "connected" => c \in Keyed /\ serve[c] \in Known

Met(c) == Unmet(c) /\ Unserved(c) /\ Challenged(c) /\ Greeted(c) /\ Unproven(c) /\ Proven(c)
Handshakes == \A c \in Clients : Met(c)

\* The place and the streams of the server; whom it keeps it holds until close().
Place ==
  /\ OnePlace /\ StreamsOwned
  /\ \A c \in Clients : serve[c] = "kept" => held = c \/ stage[Server] = "closed"

\* What close() of an end waits for does not begin again.
Closes ==
  /\ NothingOutlivesClose
  /\ Closing(Server) => listen \in {"starting", "stopped"}
  /\ \A c \in Clients : stage[c] = "closed" => client[c] \notin Authenticating

Inv == Typed /\ Handshakes /\ Place /\ Closes

----------------------------------------------------------------------------
\* A stream without its first message shows no more than before.
LEMMA ShowsTail ==
  ASSUME NEW c, NEW s \in Seq(Messages), s # <<>>, Shows(c, s)
  PROVE  Shows(c, Tail(s)) /\ (Head(s).n = 1 => c \in Keyed)
<1>1. Len(s) \in Nat /\ Len(s) >= 1 /\ Head(s) = s[1] OBVIOUS
<1>2. Len(Tail(s)) = Len(s) - 1 /\ \A i \in 1..Len(Tail(s)) : Tail(s)[i] = s[i + 1] OBVIOUS
<1>3. \A i \in 1..Len(Tail(s)) : i + 1 \in 1..Len(s) BY <1>1, <1>2
<1>. QED BY <1>1, <1>2, <1>3 DEF Shows

\* A stream goes on showing what it shows when more is sent.
LEMMA ShowsAppend ==
  ASSUME NEW c, NEW s \in Seq(Messages), NEW m \in Messages, Shows(c, s), m.n = 1 => c \in Keyed
  PROVE  Shows(c, Append(s, m))
<1>1. Len(Append(s, m)) = Len(s) + 1 /\ Len(s) \in Nat OBVIOUS
<1>2. \A i \in 1..Len(Append(s, m)) : IF i = Len(s) + 1 THEN Append(s, m)[i] = m ELSE i \in 1..Len(s) /\ Append(s, m)[i] = s[i]
  BY <1>1
<1>. QED BY <1>1, <1>2 DEF Shows

\* Where a handshake stands depends on its own connection alone.
LEMMA MetFrame ==
  ASSUME NEW d \in Clients, Met(d), scheme' = scheme,
         client'[d] = client[d], serve'[d] = serve[d], up'[d] = up[d], down'[d] = down[d]
  PROVE  Met(d)'
BY DEF Met, Unmet, Unserved, Challenged, Greeted, Unproven, Proven, Shows

\* No handshake has begun.
LEMMA HandshakesInit == Init => Handshakes
BY DEF Init, Handshakes, Met, Unmet, Unserved, Challenged, Greeted, Unproven, Proven

\* A step of one connection and its client.
LEMMA HandshakesMove ==
  ASSUME Handshakes, NEW c \in Clients, scheme' = scheme,
         \A d \in Clients \ {c} : client'[d] = client[d] /\ serve'[d] = serve[d] /\ up'[d] = up[d] /\ down'[d] = down[d],
         Met(c)'
  PROVE  Handshakes'
BY MetFrame DEF Handshakes

\* Handshakes: the server's steps for one client.
LEMMA ServingMet ==
  ASSUME Typed, Handshakes, NEW c \in Clients, Serving(c)
  PROVE  Handshakes'
<1>0. up[c] \in Seq(Messages) /\ down[c] \in Seq(Messages) /\ Met(c) /\ up \in Streams /\ down \in Streams /\ serve[c] \in {"none", "accepted", "kept", "gone"} \cup Handshaking
      /\ DOMAIN serve = Clients
  BY StreamUpdates DEF Typed, Handshakes, TypeOK
<1>1. ASSUME NEW to \in Known, serve' = [serve EXCEPT ![c] = to], UNCHANGED <<scheme, client, up, down>>,
             serve[c] # "none",
             client[c] = "challenge" => to = "gone",
             to \in {"verified", "kept"} => c \in Keyed
      PROVE  Handshakes'
  <2>1. serve'[c] = to /\ \A d \in Clients \ {c} : serve'[d] = serve[d] BY <1>0, <1>1
  <2>2. Met(c)' BY <1>0, <1>1, <2>1 DEF Met, Unmet, Unserved, Challenged, Greeted, Unproven, Proven, Known
  <2>. QED BY <1>1, <2>1, <2>2, HandshakesMove
<1>2. CASE Handle(c)
  <2>1. CASE serve'[c] = "hello"
    <3>1. serve' = [serve EXCEPT ![c] = "hello"] /\ serve[c] = "accepted" /\ UNCHANGED <<scheme, client, up, down>>
      BY <1>0, <1>2, <2>1 DEF Handle, Serves, streams
    <3>2. \A d \in Clients \ {c} : serve'[d] = serve[d] BY <1>0, <3>1
    <3>3. Met(c)' BY <1>0, <2>1, <3>1 DEF Met, Unmet, Unserved, Challenged, Greeted, Unproven, Proven, Known, Shows
    <3>. QED BY <3>1, <3>2, <3>3, HandshakesMove
  <2>2. CASE serve'[c] # "hello"
    <3>1. serve' = [serve EXCEPT ![c] = "gone"] /\ serve[c] = "accepted" /\ UNCHANGED <<scheme, client, up, down>>
      BY <1>0, <1>2, <2>2 DEF Handle, Serves, streams
    <3>. QED BY <1>1, <3>1 DEF Known
  <2>. QED BY <2>1, <2>2
<1>3. CASE Challenge(c)
  <2>1. /\ serve[c] = "hello" /\ scheme = "hmac" /\ up[c] # <<>> /\ UNCHANGED <<scheme, client>>
        /\ serve' = [serve EXCEPT ![c] = "proof"]
        /\ up' = [up EXCEPT ![c] = Tail(@)]
        /\ down' = [down EXCEPT ![c] = Append(@, Message("challenge", 0))]
    BY <1>3 DEF Challenge, Serves, listener
  <2>2. /\ serve'[c] = "proof" /\ up'[c] = Tail(up[c]) /\ down'[c] = Append(down[c], Message("challenge", 0))
        /\ \A d \in Clients \ {c} : serve'[d] = serve[d] /\ up'[d] = up[d] /\ down'[d] = down[d]
    BY <1>0, <2>1 DEF Streams
  <2>3. down[c] = <<>> /\ client[c] \in {"challenge", "failed"} /\ Len(up[c]) <= 1 /\ Shows(c, up[c])
    BY <1>0, <2>1 DEF Met, Greeted, Unproven
  <2>4. Tail(up[c]) = <<>> /\ Len(down'[c]) = 1 BY <1>0, <2>1, <2>2, <2>3
  <2>5. up'[c] = <<>> /\ Len(up'[c]) = 0
    <3>1. Len(<<>>) = 0 OBVIOUS
    <3>. QED BY <2>2, <2>4, <3>1
  <2>6. Met(c)'
    <3>1. client'[c] \in {"challenge", "failed"} /\ scheme' = "hmac" BY <2>1, <2>3
    <3>2. Unproven(c)' BY <2>5 DEF Unproven, Shows
    <3>. QED BY <2>2, <2>4, <2>5, <3>1, <3>2 DEF Met, Unmet, Unserved, Challenged, Greeted, Proven
  <2>. QED BY <2>1, <2>2, <2>6, HandshakesMove
<1>4. CASE Judge(c)
  <2>1. /\ serve[c] \in {"hello", "proof"} /\ up[c] # <<>> /\ UNCHANGED <<scheme, client>>
        /\ scheme = "token" <=> serve[c] = "hello"
        /\ up' = [up EXCEPT ![c] = Tail(@)]
        /\ \/ /\ Head(up[c]).n = 1 /\ serve' = [serve EXCEPT ![c] = "verified"]
              /\ down' = [down EXCEPT ![c] = Append(@, Message("OK", 0))]
           \/ serve' = [serve EXCEPT ![c] = "gone"] /\ down' = down
    BY <1>4 DEF Judge, LetsGo, Serves
  <2>2. Shows(c, up[c]) /\ client[c] # "challenge" BY <1>0, <2>1 DEF Met, Unproven, Challenged, Greeted
  <2>3. Head(up[c]).n = 1 => c \in Keyed BY <1>0, <2>1, <2>2, ShowsTail
  <2>4. /\ up'[c] = Tail(up[c])
        /\ (serve'[c] = "verified" /\ c \in Keyed) \/ (serve'[c] = "gone" /\ down'[c] = down[c])
        /\ \A d \in Clients \ {c} : serve'[d] = serve[d] /\ up'[d] = up[d] /\ down'[d] = down[d]
    <3>1. up'[c] = Tail(up[c]) /\ \A d \in Clients \ {c} : up'[d] = up[d] BY <1>0, <2>1 DEF Streams
    <3>2. CASE serve' = [serve EXCEPT ![c] = "gone"] /\ down' = down BY <1>0, <3>1, <3>2
    <3>3. CASE /\ Head(up[c]).n = 1 /\ serve' = [serve EXCEPT ![c] = "verified"]
               /\ down' = [down EXCEPT ![c] = Append(@, Message("OK", 0))]
      BY <1>0, <2>3, <3>1, <3>3 DEF Streams
    <3>. QED BY <2>1, <3>2, <3>3
  <2>5. client[c] \notin {"new", "opening"} BY <1>0, <2>1 DEF Met, Unmet
  <2>6. client[c] = "verdict" /\ down[c] # <<>> => c \in Keyed /\ serve[c] \in Known BY <1>0 DEF Met, Proven
  <2>7. client[c] # "connected" BY <1>0, <2>1 DEF Met, Proven, Known
  <2>8. client' = client BY <2>1
  <2>9. ASSUME serve'[c] = "verified", c \in Keyed PROVE Met(c)'
    BY <2>2, <2>5, <2>7, <2>8, <2>9 DEF Met, Unmet, Unserved, Challenged, Greeted, Unproven, Proven, Known
  <2>10. ASSUME serve'[c] = "gone", down'[c] = down[c] PROVE Met(c)'
    BY <2>1, <2>2, <2>5, <2>6, <2>7, <2>8, <2>10 DEF Met, Unmet, Unserved, Challenged, Greeted, Unproven, Proven, Known
  <2>11. Met(c)' BY <2>4, <2>9, <2>10
  <2>. QED BY <2>1, <2>4, <2>11, HandshakesMove
<1>5. CASE HandshakeFails(c)
  <2>1. serve' = [serve EXCEPT ![c] = "gone"] /\ serve[c] # "none" /\ UNCHANGED <<scheme, client, up, down>>
    BY <1>5 DEF HandshakeFails, LetsGo, Serves, streams, Handshaking
  <2>. QED BY <1>1, <2>1 DEF Known
<1>6. CASE Keep(c)
  <2>1. /\ serve[c] = "verified" /\ UNCHANGED <<scheme, client, up, down>>
        /\ serve' = [serve EXCEPT ![c] = "gone"] \/ serve' = [serve EXCEPT ![c] = "kept"]
    BY <1>6 DEF Keep, LetsGo, Serves, streams
  <2>2. c \in Keyed /\ client[c] # "challenge" BY <1>0, <2>1 DEF Met, Proven, Challenged
  <2>. QED BY <1>1, <2>1, <2>2 DEF Known
<1>. QED BY <1>2, <1>3, <1>4, <1>5, <1>6 DEF Serving

\* Handshakes: the client's steps.
LEMMA ConnectingMet ==
  ASSUME Typed, Handshakes, NEW c \in Clients, Connect(c) \/ Connecting(c)
  PROVE  Handshakes'
<1>0. /\ up[c] \in Seq(Messages) /\ down[c] \in Seq(Messages) /\ Met(c) /\ up \in Streams /\ down \in Streams
      /\ DOMAIN serve = Clients /\ DOMAIN client = Clients /\ scheme \in {"token", "hmac"}
  BY StreamUpdates, SchemesAssumption DEF Typed, Handshakes, TypeOK
<1>1. CASE Connect(c)
  <2>1. client[c] = "new" /\ client' = [client EXCEPT ![c] = "opening"] /\ UNCHANGED <<scheme, serve, up, down>>
    BY <1>1 DEF Connect, Connects, listener, streams
  <2>2. client'[c] = "opening" /\ \A d \in Clients \ {c} : client'[d] = client[d] BY <1>0, <2>1
  <2>3. Met(c)' BY <1>0, <2>1, <2>2 DEF Met, Unmet, Unserved, Challenged, Greeted, Unproven, Proven, Known, Shows
  <2>. QED BY <2>1, <2>2, <2>3, HandshakesMove
<1>2. CASE Opened(c)
  <2>1. /\ client[c] = "opening" /\ client' = [client EXCEPT ![c] = IF scheme = "token" THEN "verdict" ELSE "challenge"]
        /\ serve' = [serve EXCEPT ![c] = "accepted"] /\ up' = [up EXCEPT ![c] = <<Hello(c)>>] /\ UNCHANGED <<scheme, down>>
    BY <1>2 DEF Opened, Connects, Serves, listener
  <2>2. /\ client'[c] = (IF scheme = "token" THEN "verdict" ELSE "challenge")
        /\ serve'[c] = "accepted" /\ up'[c] = <<Hello(c)>>
        /\ \A d \in Clients \ {c} : client'[d] = client[d] /\ serve'[d] = serve[d] /\ up'[d] = up[d]
    BY <1>0, <2>1 DEF Streams
  <2>3. down[c] = <<>> BY <1>0, <2>1 DEF Met, Unmet, Unserved
  <2>4. Len(up'[c]) = 1 /\ Shows(c, up'[c]) BY <2>2 DEF Shows, Hello, Message
  <2>5. Met(c)'
    BY <1>0, <2>1, <2>2, <2>3, <2>4 DEF Met, Unmet, Unserved, Challenged, Greeted, Unproven, Proven, Known, Shows
  <2>. QED BY <2>1, <2>2, <2>5, HandshakesMove
<1>3. CASE Answer(c)
  <2>1. /\ client[c] = "challenge" /\ down[c] # <<>> /\ client' = [client EXCEPT ![c] = "verdict"]
        /\ down' = [down EXCEPT ![c] = Tail(@)] /\ up' = [up EXCEPT ![c] = Append(@, Proof(c))]
        /\ UNCHANGED <<scheme, serve>>
    BY <1>3 DEF Answer, Connects, listener
  <2>2. /\ client'[c] = "verdict" /\ down'[c] = Tail(down[c]) /\ up'[c] = Append(up[c], Proof(c))
        /\ \A d \in Clients \ {c} : client'[d] = client[d] /\ down'[d] = down[d] /\ up'[d] = up[d]
    BY <1>0, <2>1 DEF Streams
  <2>3. Len(down[c]) <= 1 /\ serve[c] \in {"proof", "gone"} BY <1>0, <2>1 DEF Met, Challenged, Greeted
  <2>4. Tail(down[c]) = <<>> BY <1>0, <2>1, <2>3
  <2>5. Proof(c).n = 1 => c \in Keyed BY DEF Proof, Message
  <2>6. Shows(c, up[c]) => Shows(c, up'[c]) BY <1>0, <2>2, <2>5, ShowsAppend, HandshakeTyped
  <2>7. Met(c)'
    BY <1>0, <2>1, <2>2, <2>3, <2>4, <2>6 DEF Met, Unmet, Unserved, Challenged, Greeted, Unproven, Proven, Known
  <2>. QED BY <2>1, <2>2, <2>7, HandshakesMove
<1>4. CASE Accepted(c)
  <2>1. /\ client[c] = "verdict" /\ down[c] # <<>>
        /\ \E to \in {"failed", "connected"} : client' = [client EXCEPT ![c] = to]
        /\ down' = [down EXCEPT ![c] = Tail(@)] /\ UNCHANGED <<scheme, serve, up>>
    BY <1>4 DEF Accepted, Connects, listener
  <2>2. /\ client'[c] \in {"failed", "connected"}
        /\ \A d \in Clients \ {c} : client'[d] = client[d] /\ down'[d] = down[d]
    BY <1>0, <2>1 DEF Streams
  <2>3. c \in Keyed /\ serve[c] \in Known BY <1>0, <2>1 DEF Met, Proven
  <2>4. Met(c)'
    BY <1>0, <2>1, <2>2, <2>3 DEF Met, Unmet, Unserved, Challenged, Greeted, Unproven, Proven, Known, Shows
  <2>. QED BY <2>1, <2>2, <2>4, HandshakesMove
<1>5. CASE ConnectFails(c)
  <2>1. /\ client[c] \in Authenticating /\ client' = [client EXCEPT ![c] = "failed"] /\ UNCHANGED <<scheme, serve, up, down>>
    BY <1>5 DEF ConnectFails, Connects, listener, streams
  <2>2. client'[c] = "failed" /\ \A d \in Clients \ {c} : client'[d] = client[d] BY <1>0, <2>1
  <2>3. Met(c)'
    BY <1>0, <2>1, <2>2 DEF Met, Unmet, Unserved, Challenged, Greeted, Unproven, Proven, Known, Shows, Authenticating
  <2>. QED BY <2>1, <2>2, <2>3, HandshakesMove
<1>. QED BY <1>1, <1>2, <1>3, <1>4, <1>5 DEF Connecting

\* Frames travel only once the credentials were shown, and a cut takes away.
LEMMA StreamsMet ==
  ASSUME Typed, Handshakes, NEW c \in Clients, UNCHANGED <<scheme, client, serve>>,
         \A d \in Clients \ {c} : up'[d] = up[d] /\ down'[d] = down[d],
         \/ up'[c] = up[c]
         \/ client[c] = "connected" \/ serve[c] = "kept",
         \/ down'[c] = down[c]
         \/ client[c] = "connected"
         \/ serve[c] = "kept"
  PROVE  Handshakes'
<1>1. Met(c) BY DEF Handshakes
<1>2. Met(c)'
  <2>1. CASE up'[c] = up[c] /\ down'[c] = down[c] BY <2>1, <1>1, MetFrame
  <2>2. CASE client[c] = "connected" \/ serve[c] = "kept"
    <3>1. c \in Keyed /\ serve[c] \in Known /\ client[c] \notin {"new", "opening", "challenge"}
      BY <1>1, <2>2 DEF Met, Proven, Unmet, Challenged, Known
    <3>. QED BY <1>1, <3>1 DEF Met, Unmet, Unserved, Challenged, Greeted, Unproven, Proven, Known
  <2>. QED BY <2>1, <2>2
<1>. QED BY <1>2, HandshakesMove

\* Handshakes: the steps of the receiving and sending tasks.
LEMMA FramesMet ==
  ASSUME Typed, Handshakes, Place, NEW e \in Ends, Recv(e) \/ Receiving(e) \/ Send(e) \/ Sending(e) \/ SendFails(e)
  PROVE  Handshakes'
<1>. DOMAIN up = Clients /\ DOMAIN down = Clients BY DEF Typed, Streams
<1>1. CASE UNCHANGED <<scheme, client, serve, up, down>> BY <1>1, MetFrame DEF Handshakes
<1>2. UNCHANGED <<scheme, client, serve>>
  BY DEF Recv, Receiving, ReadHeader, ReadPayload, RecvFails, Send, Sending, SendDone, SendFails, listener, handshake
<1>3. ASSUME e = Server, held \in Clients, up' = up \/ up' = [up EXCEPT ![held] = up'[held]],
             down' = down \/ down' = [down EXCEPT ![held] = down'[held]]
      PROVE  Handshakes'
  <2>1. serve[held] = "kept" BY <1>3, NamesAssumption DEF Place, OnePlace
  <2>2. \A d \in Clients \ {held} : up'[d] = up[d] /\ down'[d] = down[d] BY <1>3
  <2>. QED BY <1>2, <1>3, <2>1, <2>2, StreamsMet
<1>4. ASSUME e \in Clients, client[e] = "connected", down' = down, up' = [up EXCEPT ![e] = up'[e]]
      PROVE  Handshakes'
  <2>2. \A d \in Clients \ {e} : up'[d] = up[d] /\ down'[d] = down[d] BY <1>4
  <2>. QED BY <1>2, <1>4, <2>2, StreamsMet
<1>5. ASSUME Takes(e), Incoming(e) # <<>>, rd[e] \in {"header", "payload"} PROVE Handshakes'
  <2>1. CASE e = Server
    <3>1. held \in Clients BY <1>5, <2>1 DEF Typed, ServerReads
    <3>2. up' = [up EXCEPT ![held] = Tail(@)] /\ down' = down BY <1>5, <2>1 DEF Takes
    <3>3. up' = [up EXCEPT ![held] = up'[held]] BY <3>1, <3>2
    <3>. QED BY <1>3, <2>1, <3>1, <3>2, <3>3
  <2>2. CASE e # Server
    <3>1. e \in Clients /\ down' = [down EXCEPT ![e] = Tail(@)] /\ up' = up /\ down[e] # <<>>
      BY <1>5, <2>2, EndsAre DEF Takes, Incoming
    <3>2. Met(e) /\ down[e] \in Seq(Messages) BY <3>1, StreamUpdates DEF Typed, Handshakes
    <3>3. down'[e] = Tail(down[e]) /\ \A d \in Clients \ {e} : down'[d] = down[d] BY <3>1
    <3>4. Len(Tail(down[e])) <= Len(down[e]) BY <3>1, <3>2
    <3>5. Met(e)'
      BY <1>2, <3>1, <3>2, <3>3, <3>4 DEF Met, Unmet, Unserved, Challenged, Greeted, Unproven, Proven, Known
    <3>. QED BY <1>2, <3>1, <3>3, <3>5, HandshakesMove
  <2>. QED BY <2>1, <2>2
<1>6. CASE Send(e)
  <2>1. CASE e = Server
    <3>1. held \in Clients BY <1>6, <2>1 DEF Send, Connection, Typed, TypeOK
    <3>2. \E p : down' = [down EXCEPT ![held] = p] BY <1>6, <2>1 DEF Send, Writes
    <3>3. down' = [down EXCEPT ![held] = down'[held]] /\ up' = up BY <1>6, <2>1, <3>1, <3>2 DEF Send, Writes
    <3>. QED BY <1>3, <2>1, <3>1, <3>3
  <2>2. CASE e # Server
    <3>1. e \in Clients /\ client[e] = "connected" BY <1>6, <2>2, EndsAre DEF Send, Connection
    <3>2. \E p : up' = [up EXCEPT ![e] = p] BY <1>6, <2>2 DEF Send, Writes
    <3>3. up' = [up EXCEPT ![e] = up'[e]] /\ down' = down BY <1>6, <2>2, <3>1, <3>2 DEF Send, Writes
    <3>. QED BY <1>4, <3>1, <3>3
  <2>. QED BY <2>1, <2>2
<1>7. CASE ReadHeader(e) \/ ReadPayload(e) BY <1>5, <1>7 DEF ReadHeader, ReadPayload
<1>8. CASE Recv(e) \/ RecvFails(e) \/ SendDone(e) \/ SendFails(e)
  BY <1>1, <1>8 DEF Recv, RecvFails, SendDone, SendFails, listener, handshake, streams
<1>. QED BY <1>6, <1>7, <1>8 DEF Receiving, Sending

\* Every step leaves every handshake at a point the code knows.
LEMMA HandshakesStep ==
  ASSUME Typed, Handshakes, Place, [Next]_vars
  PROVE  Handshakes'
<1>1. CASE UNCHANGED <<scheme, client, serve, up, down>> BY <1>1, MetFrame DEF Handshakes
<1>2. CASE Start \/ Started \/ AwaitClient \/ ClientCame \/ AwaitCancelled \/ Revoke \/ CloseServer \/ ServerCloses
  BY <1>1, <1>2 DEF Start, Started, AwaitClient, ClientCame, AwaitCancelled, Revoke, CloseServer, ServerCloses,
    listener, handshake, streams
<1>3. CASE \E c \in Clients : CloseClient(c) \/ ClientCloses(c)
  BY <1>1, <1>3 DEF CloseClient, ClientCloses, listener, handshake, streams
<1>4. ASSUME NEW c \in Clients, CutDown(c) \/ CutUp(c) PROVE Handshakes'
  <2>. DOMAIN up = Clients /\ DOMAIN down = Clients BY DEF Typed, Streams
  <2>1. CASE CutDown(c) BY <2>1, StreamsMet DEF CutDown, listener, handshake
  <2>2. CASE CutUp(c) BY <2>2, StreamsMet DEF CutUp, listener, handshake
  <2>. QED BY <1>4, <2>1, <2>2
<1>5. CASE UNCHANGED vars BY <1>1, <1>5 DEF vars, listener, handshake, streams
<1>. QED BY <1>2, <1>3, <1>4, <1>5, ServingMet, ConnectingMet, FramesMet DEF Next

----------------------------------------------------------------------------
\* The place is one.
Reserved == Handshaking \cup {"kept"}

\* The points of _handle_client at which the place is reserved or held.
LEMMA ReservedAre ==
  /\ Handshaking = {"hello", "proof", "verified"}
  /\ Reserved = {"hello", "proof", "verified", "kept"}
BY DEF Handshaking, Reserved

\* The place is free at the start.
LEMMA PlaceInit == Init => Place
BY NamesAssumption, ReservedAre DEF Init, Place, OnePlace, StreamsOwned

\* A step that is not about the place.
LEMMA PlaceFrame ==
  ASSUME Place, UNCHANGED <<accepting, serve, held>>, serverOpen' \subseteq serverOpen,
         stage'[Server] = "closed" <=> stage[Server] = "closed"
  PROVE  Place'
<1>1. OnePlace' BY DEF Place, OnePlace
<1>2. StreamsOwned' BY DEF Place, StreamsOwned
<1>. QED BY <1>1, <1>2 DEF Place

\* A connection is at another point of _handle_client.
LEMMA PlaceMove ==
  ASSUME Place, NEW c \in Clients, NEW to, DOMAIN serve = Clients, serverOpen \subseteq Clients, serve' = [serve EXCEPT ![c] = to], stage' = stage,
         \/ /\ serve[c] \in {"none", "accepted"} /\ to \in {"accepted", "gone"}
            /\ UNCHANGED <<accepting, held>>
            /\ serverOpen' \subseteq serverOpen \cup {c}
            /\ to = "gone" => c \notin serverOpen'
         \/ /\ serve[c] = "accepted" /\ to = "hello" /\ ~accepting /\ accepting' = TRUE
            /\ held = None /\ stage[Server] = "open" /\ UNCHANGED <<held, serverOpen>>
         \/ /\ serve[c] \in Handshaking /\ to \in Handshaking /\ UNCHANGED <<accepting, held, serverOpen>>
         \/ /\ serve[c] \in Handshaking /\ to = "gone" /\ accepting' = FALSE /\ held' = held
            /\ serverOpen' = serverOpen \ {c}
         \/ /\ serve[c] \in Handshaking /\ to = "kept" /\ accepting' = FALSE /\ held' = c
            /\ stage[Server] = "open" /\ UNCHANGED serverOpen
  PROVE  Place'
<1>. USE ReservedAre
<1>1. /\ serve'[c] = to /\ \A d \in Clients \ {c} : serve'[d] = serve[d]
  OBVIOUS
<1>2. /\ accepting <=> \E d \in Clients : serve[d] \in Handshaking
      /\ \A d, f \in Clients : serve[d] \in Reserved /\ serve[f] \in Reserved => d = f
      /\ held # None => serve[held] = "kept"
      /\ \A d \in Clients : serve[d] = "kept" => held = d \/ stage[Server] = "closed"
  BY DEF Place, OnePlace, Reserved
<1>3. ASSUME NEW d \in Clients \ {c}, to \in Reserved PROVE serve[d] \notin Reserved
  <2>1. CASE serve[c] \in Handshaking BY <1>2, <2>1, <1>3
  <2>2. CASE ~accepting /\ held = None /\ stage[Server] = "open" BY <1>2, <2>2, NamesAssumption
  <2>. QED BY <2>1, <2>2, <1>3
<1>4. \A d, f \in Clients : serve'[d] \in Reserved /\ serve'[f] \in Reserved => d = f
  <2>. SUFFICES ASSUME NEW d \in Clients, NEW f \in Clients, serve'[d] \in Reserved, serve'[f] \in Reserved, d # f
                PROVE  FALSE
    OBVIOUS
  <2>1. CASE d = c BY <1>1, <1>3, <2>1
  <2>2. CASE f = c BY <1>1, <1>3, <2>2
  <2>3. CASE d # c /\ f # c BY <1>1, <1>2, <2>3
  <2>. QED BY <2>1, <2>2, <2>3
<1>5. accepting' <=> \E d \in Clients : serve'[d] \in Handshaking
  <2>1. CASE to \in Handshaking /\ accepting' BY <1>1, <2>1
  <2>2. CASE ~(to \in Handshaking)
    <3>1. CASE serve[c] \in Handshaking /\ accepting' = FALSE
      <4>1. \A d \in Clients \ {c} : serve[d] \notin Handshaking BY <1>2, <3>1
      <4>. QED BY <1>1, <2>2, <3>1, <4>1
    <3>2. CASE serve[c] \in {"none", "accepted"} /\ accepting' = accepting BY <1>1, <1>2, <2>2, <3>2
    <3>. QED BY <3>1, <3>2, <2>2
  <2>3. to \in Handshaking => accepting' BY <1>2
  <2>. QED BY <2>1, <2>2, <2>3
<1>6. held' # None => serve'[held'] = "kept"
  <2>1. CASE held' = held
    <3>1. held = c => held = None BY <1>2, <2>1
    <3>. QED BY <1>2, <2>1, <3>1
  <2>2. CASE held' = c /\ to = "kept" BY <1>1, <2>2
  <2>. QED BY <2>1, <2>2
<1>7. \A d \in Clients : serve'[d] = "kept" => held' = d \/ stage'[Server] = "closed"
  <2>. SUFFICES ASSUME NEW d \in Clients, serve'[d] = "kept" PROVE held' = d \/ stage'[Server] = "closed"
    OBVIOUS
  <2>1. CASE d = c BY <1>1, <2>1
  <2>2. CASE d # c
    <3>1. serve[d] = "kept" BY <1>1, <2>2
    <3>2. to # "kept" BY <1>3, <2>2, <3>1
    <3>. QED BY <1>2, <3>1, <3>2
  <2>. QED BY <2>1, <2>2
<1>8. ASSUME NEW d \in serverOpen'
      PROVE  serve'[d] \in Handshaking \cup {"accepted", "kept"} /\ (stage'[Server] = "closed" => serve'[d] = "accepted")
  <2>1. CASE d = c
    <3>1. c \in serverOpen => (stage[Server] = "closed" => serve[c] = "accepted") BY DEF Place, StreamsOwned
    <3>. QED BY <1>1, <1>8, <2>1, <3>1
  <2>2. CASE d # c
    <3>1. d \in serverOpen BY <1>8, <2>2
    <3>2. serve'[d] = serve[d] BY <1>1, <2>2, <3>1
    <3>. QED BY <3>1, <3>2 DEF Place, StreamsOwned
  <2>. QED BY <2>1, <2>2
<1>9. StreamsOwned' BY <1>8 DEF StreamsOwned
<1>10. OnePlace' BY <1>4, <1>5, <1>6 DEF OnePlace, Reserved
<1>. QED BY <1>7, <1>9, <1>10 DEF Place

\* The place: the server's steps for one client.
LEMMA ServingPlace ==
  ASSUME Typed, Place, NEW c \in Clients, Serving(c)
  PROVE  Place'
<1>. USE ReservedAre DEF Serves
<1>0. /\ DOMAIN serve = Clients /\ accepting \in BOOLEAN /\ serverOpen \subseteq Clients
      /\ stage[Server] \in {"open", "draining", "closed"}
  BY EndsAre DEF Typed, TypeOK
<1>1. CASE Handle(c) BY <1>0, <1>1, PlaceMove DEF Handle, Closing
<1>2. CASE Challenge(c) BY <1>0, <1>2, PlaceMove DEF Challenge, listener, ends
<1>3. CASE Judge(c) BY <1>0, <1>3, PlaceMove DEF Judge, LetsGo
<1>4. CASE HandshakeFails(c) BY <1>0, <1>4, PlaceMove DEF HandshakeFails, LetsGo
<1>5. CASE Keep(c) BY <1>0, <1>5, PlaceMove DEF Keep, LetsGo, Closing
<1>. QED BY <1>1, <1>2, <1>3, <1>4, <1>5 DEF Serving

\* The place stays one.
LEMMA PlaceStep ==
  ASSUME Typed, Handshakes, Place, [Next]_vars
  PROVE  Place'
<1>0. /\ DOMAIN serve = Clients /\ DOMAIN stage = Ends /\ held \in Clients \cup {None} /\ serverOpen \subseteq Clients
  BY DEF Typed, TypeOK
<1>. USE EndsAre, NamesAssumption
<1>1. CASE Start \/ Started \/ AwaitClient \/ ClientCame \/ AwaitCancelled \/ Revoke
  BY <1>1, PlaceFrame DEF Start, Started, AwaitClient, ClientCame, AwaitCancelled, Revoke, listener, handshake, ends
<1>2. CASE CloseServer
  BY <1>0, <1>2, PlaceFrame DEF CloseServer, Reaches, handshake, ends
<1>3. CASE ServerCloses
  <2>1. /\ stage[Server] = "draining" /\ stage'[Server] = "closed" /\ held' = None
        /\ serverOpen' = serverOpen \ {held} /\ UNCHANGED <<accepting, serve>>
        /\ \A c \in Clients : serve[c] \notin Handshaking
    BY <1>0, <1>3 DEF ServerCloses, Reaches, Shuts, handshake
  <2>2. OnePlace' BY <2>1 DEF Place, OnePlace
  <2>3. ASSUME NEW c \in serverOpen' PROVE serve'[c] = "accepted"
    <3>1. c \in Clients /\ c \in serverOpen /\ held # c BY <1>0, <2>1
    <3>2. serve[c] \in Handshaking \cup {"accepted", "kept"} /\ serve[c] # "kept"
      BY <2>1, <3>1 DEF Place, StreamsOwned
    <3>. QED BY <2>1, <3>1, <3>2
  <2>4. StreamsOwned' BY <2>3 DEF StreamsOwned
  <2>. QED BY <2>1, <2>2, <2>4 DEF Place
<1>4. ASSUME NEW c \in Clients, Opened(c) PROVE Place'
  <2>1. serve[c] = "none" BY <1>4 DEF Opened, Handshakes, Met, Unmet
  <2>2. /\ serve' = [serve EXCEPT ![c] = "accepted"] /\ serverOpen' = serverOpen \cup {c}
        /\ UNCHANGED <<accepting, held, stage>>
    BY <1>4 DEF Opened, Serves, listener
  <2>. QED BY <1>0, <2>1, <2>2, PlaceMove
<1>5. ASSUME NEW c \in Clients, Connect(c) \/ Answer(c) \/ Accepted(c) \/ ConnectFails(c) \/ CutDown(c) \/ CutUp(c)
      PROVE  Place'
  BY <1>5, PlaceFrame DEF Connect, Answer, Accepted, ConnectFails, CutDown, CutUp, listener, handshake, ends
<1>6. ASSUME NEW c \in Clients, CloseClient(c) \/ ClientCloses(c) PROVE Place'
  BY <1>0, <1>6, PlaceFrame DEF CloseClient, ClientCloses, Reaches, Shuts, listener, handshake, ends
<1>7. ASSUME NEW e \in Ends, Recv(e) \/ Receiving(e) \/ Send(e) \/ Sending(e) \/ SendFails(e) PROVE Place'
  BY <1>7, PlaceFrame DEF Recv, Receiving, ReadHeader, ReadPayload, RecvFails, Send, Sending, SendDone, SendFails,
    Shuts, listener, handshake, ends
<1>8. CASE UNCHANGED vars BY <1>8, PlaceFrame DEF vars, listener, handshake, ends
<1>. QED BY <1>1, <1>2, <1>3, <1>4, <1>5, <1>6, <1>7, <1>8, ServingPlace DEF Next, Connecting

----------------------------------------------------------------------------
\* After close().
LEMMA ClosesInit == Init => Closes
BY EndsAre DEF Init, Closes, NothingOutlivesClose, Closing

\* Nothing is opened or begun after close().
LEMMA ClosesStep ==
  ASSUME Typed, Closes, [Next]_vars
  PROVE  Closes'
<1>0. /\ DOMAIN stage = Ends /\ DOMAIN rd = Ends /\ DOMAIN wr = Ends /\ DOMAIN client = Clients
      /\ held \in Clients \cup {None} /\ clientOpen \subseteq Clients
  BY DEF Typed, TypeOK
<1>. USE EndsAre, NamesAssumption
\* What a step must keep, of an end that is closed and of the listener.
<1>1. ASSUME \A e \in Ends : stage'[e] = "closed" /\ stage[e] # "closed" =>
               Idle(e)' /\ IF e = Server THEN held' = None /\ listen' = "stopped"
                                        ELSE e \notin clientOpen' /\ client'[e] \notin Authenticating,
             \A e \in Ends : stage[e] = "closed" => Idle(e)',
             stage[Server] = "closed" => held' = held /\ listen' = listen,
             \A c \in Clients : stage[c] = "closed" =>
               (c \in clientOpen' => c \in clientOpen) /\ (client'[c] \in Authenticating => client[c] \in Authenticating),
             Closing(Server)' => listen' \in {"starting", "stopped"}
      PROVE  Closes'
  <2>1. NothingOutlivesClose'
    <3>. SUFFICES ASSUME NEW e \in Ends, stage'[e] = "closed"
                  PROVE  Idle(e)' /\ IF e = Server THEN held' = None /\ listen' = "stopped" ELSE e \notin clientOpen'
      BY DEF NothingOutlivesClose
    <3>1. CASE stage[e] # "closed" BY <1>1, <3>1
    <3>2. CASE stage[e] = "closed" BY <1>1, <3>2 DEF Closes, NothingOutlivesClose
    <3>. QED BY <3>1, <3>2
  <2>2. \A c \in Clients : stage'[c] = "closed" => client'[c] \notin Authenticating
    <3>. SUFFICES ASSUME NEW c \in Clients, stage'[c] = "closed" PROVE client'[c] \notin Authenticating
      OBVIOUS
    <3>1. c \in Ends /\ c # Server OBVIOUS
    <3>. QED BY <1>1, <3>1 DEF Closes
  <2>. QED BY <1>1, <2>1, <2>2 DEF Closes
<1>2. /\ \A e \in Ends : stage[e] = "closed" => rd[e] = "idle" /\ wr[e] = "idle" /\ Closing(e)
      /\ stage[Server] = "closed" => held = None /\ listen = "stopped" 
      /\ Closing(Server) => listen \in {"starting", "stopped"}
      /\ \A c \in Clients : stage[c] = "closed" => client[c] \notin Authenticating
  BY DEF Closes, NothingOutlivesClose, Idle, Closing
<1>3. CASE Start \/ Started
  BY <1>1, <1>2, <1>3 DEF Start, Started, Idle, Closing, handshake, ends, traffic
<1>4. CASE AwaitClient \/ ClientCame \/ AwaitCancelled
  <2>1. UNCHANGED <<stage, held, listen, client, clientOpen, wr>> /\ \E s : rd' = [rd EXCEPT ![Server] = s]
    BY <1>4 DEF AwaitClient, ClientCame, AwaitCancelled, Reads, listener, handshake, ends
  <2>2. stage[Server] # "closed" BY <1>2, <1>4 DEF AwaitClient, ClientCame, AwaitCancelled
  <2>. QED BY <1>0, <1>1, <1>2, <2>1, <2>2 DEF Idle, Closing
<1>5. CASE Revoke BY <1>1, <1>2, <1>5 DEF Revoke, Idle, Closing, listener, handshake, traffic
<1>6. CASE CloseServer
  <2>1. /\ stage[Server] = "open" /\ stage'[Server] = "draining" /\ \A c \in Clients : stage'[c] = stage[c] /\ rd'[c] = rd[c]
        /\ listen' \in {"starting", "stopped"} /\ UNCHANGED <<held, client, clientOpen, wr>>
    BY <1>0, <1>6 DEF CloseServer, Reaches, Wakes, handshake, ends
  <2>. QED BY <1>1, <1>2, <2>1 DEF Idle, Closing
<1>7. CASE ServerCloses
  <2>1. /\ stage[Server] = "draining" /\ \A c \in Clients : stage'[c] = stage[c]
        /\ stage'[Server] = "closed" /\ held' = None /\ listen' = listen /\ listen # "starting"
        /\ rd[Server] = "idle" /\ wr[Server] = "idle"
        /\ UNCHANGED <<client, clientOpen, rd, wr>>
    BY <1>0, <1>7 DEF ServerCloses, Reaches, Idle, Shuts, handshake, traffic
  <2>2. listen = "stopped" BY <1>2, <2>1 DEF Closing
  <2>. QED BY <1>1, <1>2, <2>1, <2>2 DEF Idle, Closing
<1>8. ASSUME NEW c \in Clients, CloseClient(c) PROVE Closes'
  <2>1. /\ stage[c] = "open" /\ stage'[c] = "draining" /\ \A e \in Ends \ {c} : stage'[e] = stage[e]
        /\ UNCHANGED <<listen, held, client, clientOpen, rd, wr>>
    BY <1>0, <1>8 DEF CloseClient, Reaches, listener, handshake, ends, traffic
  <2>. QED BY <1>1, <1>2, <2>1 DEF Idle, Closing
<1>9. ASSUME NEW c \in Clients, ClientCloses(c) PROVE Closes'
  <2>1. /\ stage[c] = "draining" /\ \A e \in Ends \ {c} : stage'[e] = stage[e]
        /\ rd[c] = "idle" /\ wr[c] = "idle" /\ client[c] \notin Authenticating
        /\ clientOpen' = clientOpen \ {c} /\ UNCHANGED <<listen, held, client, rd, wr>>
    BY <1>0, <1>9 DEF ClientCloses, Reaches, Idle, Shuts, listener, handshake, traffic
  <2>. QED BY <1>1, <1>2, <2>1 DEF Idle, Closing
<1>10. ASSUME NEW c \in Clients, Serving(c) PROVE Closes'
  <2>1. UNCHANGED <<stage, listen, client, clientOpen, wr>> /\ \A d \in Clients : rd'[d] = rd[d]
    BY <1>0, <1>10 DEF Serving, Handle, Challenge, Judge, HandshakeFails, Keep, LetsGo, Wakes, listener, ends, traffic
  <2>2. stage[Server] = "closed" => UNCHANGED <<rd, held>>
    BY <1>2, <1>10 DEF Serving, Handle, Challenge, Judge, HandshakeFails, Keep, LetsGo, listener, traffic
  <2>. QED BY <1>1, <1>2, <2>1, <2>2 DEF Idle, Closing
<1>11. ASSUME NEW c \in Clients, Connect(c) \/ Connecting(c) PROVE Closes'
  <2>1. UNCHANGED <<stage, listen, held, rd, wr>>
    BY <1>11 DEF Connect, Connecting, Opened, Answer, Accepted, ConnectFails, listener, traffic
  <2>2. /\ \A d \in Clients \ {c} : client'[d] = client[d] /\ (d \in clientOpen' => d \in clientOpen)
        /\ stage[c] # "closed"
    BY <1>0, <1>2, <1>11 DEF Connect, Connecting, Opened, Answer, Accepted, ConnectFails, Connects, Closing, Authenticating, ends
  <2>. QED BY <1>1, <1>2, <2>1, <2>2 DEF Idle, Closing
<1>12. ASSUME NEW c \in Clients, CutDown(c) \/ CutUp(c) PROVE Closes'
  BY <1>1, <1>2, <1>12 DEF CutDown, CutUp, Idle, Closing, listener, handshake, ends, traffic
<1>13. ASSUME NEW e \in Ends, Recv(e) \/ Receiving(e) \/ Send(e) \/ Sending(e) \/ SendFails(e) PROVE Closes'
  <2>1. UNCHANGED <<stage, listen, held, client>> /\ clientOpen' \subseteq clientOpen
    BY <1>13 DEF Recv, Receiving, ReadHeader, ReadPayload, RecvFails, Send, Sending, SendDone, SendFails,
      Shuts, listener, handshake, ends
  <2>2. \A d \in Ends \ {e} : rd'[d] = rd[d] /\ wr'[d] = wr[d]
    BY <1>0, <1>13 DEF Recv, Receiving, ReadHeader, ReadPayload, RecvFails, Send, Sending, SendDone, SendFails, Reads, Sends
  <2>3. stage[e] # "closed" BY <1>2, <1>13
    DEF Recv, Receiving, ReadHeader, ReadPayload, RecvFails, Send, Sending, SendDone, SendFails
  <2>. QED BY <1>1, <1>2, <2>1, <2>2, <2>3 DEF Idle, Closing
<1>14. CASE UNCHANGED vars BY <1>1, <1>2, <1>14 DEF vars, Idle, Closing, listener, handshake, ends, traffic
<1>. QED BY <1>3, <1>4, <1>5, <1>6, <1>7, <1>8, <1>9, <1>10, <1>11, <1>12, <1>13, <1>14 DEF Next

----------------------------------------------------------------------------
\* The invariant is inductive.
LEMMA InvStep == Inv /\ [Next]_vars => Inv'
BY TypedStep, HandshakesStep, PlaceStep, ClosesStep DEF Inv

\* The invariant gives what the runs check.
LEMMA InvAccounts == Inv => PlaceAccounted
<1>. SUFFICES ASSUME Inv PROVE PlaceAccounted
  OBVIOUS
<1>1. Agreement
  <2>. SUFFICES ASSUME NEW c \in Clients, client[c] = "connected" \/ serve[c] = "kept"
                PROVE  c \in Keyed /\ serve[c] \notin {"none", "accepted", "hello", "proof"}
    BY DEF Agreement
  <2>1. Met(c) BY DEF Inv, Handshakes
  <2>. QED BY <2>1 DEF Met, Proven, Known
<1>. QED BY <1>1 DEF Inv, Typed, Place, Closes, PlaceAccounted

\* For any number of clients, frames and any handshake: the server's place is
\* reserved for one connection or held by it, streams go with it, who is
\* connected has shown its credentials to the server, and after close()
\* nothing is open and no task in an operation (tcp.py:295, 180).
THEOREM PlaceIsAccounted == Spec => []PlaceAccounted
<1>1. Init => Inv BY TypedInit, HandshakesInit, PlaceInit, ClosesInit DEF Inv
<1>. QED BY <1>1, InvStep, InvAccounts, PTL DEF Spec

----------------------------------------------------------------------------
(***************************************************************************)
(* The frames of TcpLink.  The parts that an end sends are numbered,       *)
(* after the server's acceptance on the way to a client.  What is under    *)
(* way is a run of them: it begins with the part that the receiver reads   *)
(* next and, as long as the sender has not closed the connection, ends     *)
(* with the last one sent.  That holds while the receiver may read; a      *)
(* read that fails or is cancelled in a frame closes the connection, so    *)
(* that no other is begun.                                                 *)
(***************************************************************************)
\* The parts of the frames in their order, and those that follow the server's acceptance.
UpLine == [x \in Nat |-> IF x % 2 = 1 THEN Message("header", (x + 1) \div 2) ELSE Message("payload", x \div 2)]
DownLine == [x \in Nat |-> IF x = 1 THEN Message("OK", 0)
                           ELSE IF x % 2 = 0 THEN Message("header", x \div 2) ELSE Message("payload", (x - 1) \div 2)]

\* How many parts the receiving task of an end has read.
PartsRead(e) == 2 * Len(got[e]) + (IF rd[e] = "payload" THEN 1 ELSE 0)
InFrame(e) == rd[e] \in {"header", "payload"}

\* While the server may read them, the frames that it has not read are under way
\* to it, all of them as long as the client has not closed the connection.
ServerMayRead(c) == serve[c] = "verified" \/ (held = c /\ (InFrame(Server) \/ c \in serverOpen))
UpFlows(c) ==
  ServerMayRead(c) =>
    \E k \in Nat : /\ k <= 2 * sent[c] /\ IsRun(up[c], UpLine, PartsRead(Server), k)
                   /\ c \in clientOpen => k = 2 * sent[c]

\* The same of the client, whose stream begins with the acceptance.
SentTo(c) == IF serve[c] = "kept" THEN sent[Server] ELSE 0
ClientMayRead(c) == client[c] = "verdict" \/ (client[c] = "connected" /\ (InFrame(c) \/ c \in clientOpen))
DownRead(c) == IF client[c] = "verdict" THEN 0 ELSE 1 + PartsRead(c)
DownMost(c) == IF serve[c] \in Known THEN 1 + 2 * SentTo(c) ELSE 0
DownFlows(c) ==
  ClientMayRead(c) =>
    \E k \in Nat : /\ k <= DownMost(c) /\ IsRun(down[c], DownLine, DownRead(c), k)
                   /\ serve[c] \in {"verified", "kept"} /\ c \in serverOpen => k = 1 + 2 * SentTo(c)

\* No frame is sent or received before there is a connection, and a client says
\* one thing at a time until the server has judged it.
Unused(c) == client[c] # "connected" => sent[c] = 0 /\ got[c] = <<>> /\ rd[c] = "idle"
OneMessage(c) == serve[c] \in {"accepted", "hello", "proof"} => Len(up[c]) <= 1
Unkept == (\A c \in Clients : serve[c] # "kept") => sent[Server] = 0 /\ got[Server] = <<>>

FlowsInv == Inv /\ Unkept /\ \A c \in Clients : Unused(c) /\ OneMessage(c) /\ UpFlows(c) /\ DownFlows(c)

\* The parts of frame m + 1.
LEMMA UpLineParts ==
  \A m \in Nat : UpLine[2 * m + 1] = Message("header", m + 1) /\ UpLine[2 * m + 2] = Message("payload", m + 1)
<1> SUFFICES ASSUME NEW m \in Nat
             PROVE  UpLine[2 * m + 1] = Message("header", m + 1) /\ UpLine[2 * m + 2] = Message("payload", m + 1)
  OBVIOUS
<1>1. 2 * m + 1 \in Nat /\ (2 * m + 1) % 2 = 1 /\ ((2 * m + 1) + 1) \div 2 = m + 1 OBVIOUS
<1>2. 2 * m + 2 \in Nat /\ (2 * m + 2) % 2 = 0 /\ (2 * m + 2) \div 2 = m + 1 OBVIOUS
<1> QED BY <1>1, <1>2 DEF UpLine

\* The parts to a client: the acceptance, and then those of frame m + 1.
LEMMA DownLineParts ==
  /\ DownLine[1] = Message("OK", 0)
  /\ \A m \in Nat : DownLine[1 + 2 * m + 1] = Message("header", m + 1) /\ DownLine[1 + 2 * m + 2] = Message("payload", m + 1)
<1>1. DownLine[1] = Message("OK", 0) BY DEF DownLine
<1> SUFFICES ASSUME NEW m \in Nat
             PROVE  DownLine[1 + 2 * m + 1] = Message("header", m + 1) /\ DownLine[1 + 2 * m + 2] = Message("payload", m + 1)
  BY <1>1
<1>2. 1 + 2 * m + 1 \in Nat /\ 1 + 2 * m + 1 # 1 /\ (1 + 2 * m + 1) % 2 = 0 /\ (1 + 2 * m + 1) \div 2 = m + 1 OBVIOUS
<1>3. 1 + 2 * m + 2 \in Nat /\ 1 + 2 * m + 2 # 1 /\ (1 + 2 * m + 2) % 2 = 1 /\ ((1 + 2 * m + 2) - 1) \div 2 = m + 1 OBVIOUS
<1> QED BY <1>1, <1>2, <1>3 DEF DownLine

\* A line of frames after o other parts.
FramesAfter(f, o) ==
  \A m \in Nat : f[o + 2 * m + 1] = Message("header", m + 1) /\ f[o + 2 * m + 2] = Message("payload", m + 1)

\* Both lines are of that form.
LEMMA LinesAre == FramesAfter(UpLine, 0) /\ FramesAfter(DownLine, 1)
<1>1. \A m \in Nat : 0 + 2 * m + 1 = 2 * m + 1 /\ 0 + 2 * m + 2 = 2 * m + 2 OBVIOUS
<1> QED BY <1>1, UpLineParts, DownLineParts DEF FramesAfter

\* The first message of a run is the next one of the line.
LEMMA MessagesHead ==
  ASSUME NEW s \in Seq(Messages), NEW f, NEW i \in Nat, NEW j \in Nat, IsRun(s, f, i, j), s # <<>>
  PROVE  i + 1 <= j /\ Head(s) = f[i + 1] /\ Tail(s) \in Seq(Messages) /\ IsRun(Tail(s), f, i + 1, j)
<1> DEFINE T == Messages
<1>1. s \in Seq(T) OBVIOUS
<1> HIDE DEF T
<1> QED BY <1>1, RunHead

\* What a receiving task reads off a run of such a line is the next part.
LEMMA TakesNext ==
  ASSUME Typed, NEW e \in Ends, ReadHeader(e) \/ ReadPayload(e), Incoming(e) \in Seq(Messages),
         NEW f, NEW o \in {0, 1}, FramesAfter(f, o), NEW k \in Nat, IsRun(Incoming(e), f, o + PartsRead(e), k)
  PROVE  /\ IsRun(Tail(Incoming(e)), f, o + PartsRead(e)', k) /\ PartsRead(e)' \in Nat
         /\ o + PartsRead(e) + 1 <= k
         /\ \/ got' = got
            \/ rd[e] = "payload" /\ got' = [got EXCEPT ![e] = Append(@, Len(@) + 1)]
         /\ rd' = [rd EXCEPT ![e] = rd'[e]] /\ rd'[e] \in {"payload", "idle"}
<1> DEFINE s == Incoming(e)
           n == Len(got[e])
           i == o + PartsRead(e)
<1>0. s # <<>> BY DEF ReadHeader, ReadPayload
<1>1. got \in [Ends -> Seq(0..MaxFrames)] /\ rd \in [Ends -> {"idle", "waiting", "woken", "header", "payload"}] /\ n \in Nat
  BY DEF Typed, TypeOK
<1>2. i \in Nat BY <1>1 DEF PartsRead
<1> HIDE DEF i, s
<1>3. i + 1 <= k /\ Head(s) = f[i + 1] /\ IsRun(Tail(s), f, i + 1, k)
  <2>1. s \in Seq(Messages) /\ s # <<>> /\ IsRun(s, f, i, k) /\ i \in Nat /\ k \in Nat BY <1>0, <1>2 DEF s, i
  <2> HIDE DEF n
  <2> QED BY <2>1, MessagesHead
<1>4. CASE ReadHeader(e)
  <2>1. rd[e] = "header" BY <1>4 DEF ReadHeader
  <2>2. i + 1 = o + 2 * n + 1 BY <1>1, <2>1 DEF i, PartsRead
  <2>3. Head(s).is = "header"
    <3>1. f[o + 2 * n + 1] = Message("header", n + 1) BY <1>1 DEF FramesAfter
    <3>2. Head(s) = Message("header", n + 1) BY <1>3, <2>2, <3>1
    <3> QED BY <3>2 DEF Message
  <2>4. rd' = [rd EXCEPT ![e] = "payload"] /\ got' = got BY <1>4, <2>3 DEF ReadHeader, Reads, s
  <2>5. rd'[e] = "payload" BY <1>1, <2>4
  <2>6. o + PartsRead(e)' = i + 1 /\ PartsRead(e)' \in Nat BY <1>1, <2>2, <2>4, <2>5 DEF PartsRead
  <2> QED BY <1>3, <2>4, <2>5, <2>6 DEF s, i
<1>5. CASE ReadPayload(e)
  <2>1. rd[e] = "payload" BY <1>5 DEF ReadPayload
  <2>2. i + 1 = o + 2 * n + 2 BY <1>1, <2>1 DEF i, PartsRead
  <2>3. Head(s).n = n + 1
    <3>1. f[o + 2 * n + 2] = Message("payload", n + 1) BY <1>1 DEF FramesAfter
    <3>2. Head(s) = Message("payload", n + 1) BY <1>3, <2>2, <3>1
    <3> QED BY <3>2 DEF Message
  <2>4. rd' = [rd EXCEPT ![e] = "idle"] /\ got' = [got EXCEPT ![e] = Append(@, n + 1)]
    BY <1>5, <2>3 DEF ReadPayload, Reads, s
  <2>5. rd'[e] = "idle" /\ got'[e] = Append(got[e], n + 1) BY <1>1, <2>4
  <2>6. Len(got'[e]) = n + 1 BY <1>1, <2>5
  <2>7. o + PartsRead(e)' = i + 1 /\ PartsRead(e)' \in Nat BY <1>1, <2>2, <2>5, <2>6 DEF PartsRead
  <2> QED BY <1>3, <2>1, <2>4, <2>5, <2>7 DEF s, i
<1> QED BY <1>4, <1>5

\* A frame more at the end of a run.
LEMMA SendsNext ==
  ASSUME NEW s \in Seq(Messages), NEW f, NEW o \in {0, 1}, FramesAfter(f, o), NEW i \in Nat, NEW n \in Nat, n < MaxFrames,
         IsRun(s, f, i, o + 2 * n)
  PROVE  IsRun(s \o <<Message("header", n + 1), Message("payload", n + 1)>>, f, i, o + 2 * (n + 1))
<1> DEFINE h == Message("header", n + 1)
           p == Message("payload", n + 1)
           k == o + 2 * n
<1>0. k \in Nat /\ k + 1 \in Nat /\ k + 1 = o + 2 * n + 1 /\ (k + 1) + 1 = o + 2 * n + 2 /\ o + 2 * (n + 1) = (k + 1) + 1 OBVIOUS
<1>1. n + 1 \in 0..MaxFrames BY FramesAssumption
<1>2. h \in Messages /\ p \in Messages BY <1>1, MessageTyped DEF Kinds
<1>3. f[k + 1] = h /\ f[(k + 1) + 1] = p BY <1>0 DEF FramesAfter
<1>4. s \o <<h, p>> = Append(Append(s, h), p) BY <1>2, AppendTwo
<1>4a. IsRun(s, f, i, k) OBVIOUS
<1> HIDE DEF h, p, k
<1>5. Append(s, h) \in Seq(Messages) /\ IsRun(Append(s, h), f, i, k + 1) BY <1>0, <1>2, <1>3, <1>4a, RunAppend
<1>6. IsRun(Append(Append(s, h), p), f, i, (k + 1) + 1) BY <1>0, <1>2, <1>3, <1>5, RunAppend
<1> QED BY <1>0, <1>4, <1>6 DEF h, p

\* At the start nothing is under way.
LEMMA FlowsInit == Init => FlowsInv
<1> SUFFICES ASSUME Init PROVE FlowsInv OBVIOUS
<1> USE EndsAre, NamesAssumption
<1>1. Inv BY TypedInit, HandshakesInit, PlaceInit, ClosesInit DEF Inv
<1>2. Unkept BY DEF Init, Unkept
<1>3. ASSUME NEW c \in Clients PROVE Unused(c) /\ OneMessage(c) /\ UpFlows(c) /\ DownFlows(c)
  <2>1. c \in Ends /\ client[c] = "new" /\ serve[c] = "none" /\ held = None /\ None \notin Clients BY DEF Init
  <2>2. Unused(c) /\ OneMessage(c) BY <2>1 DEF Init, Unused, OneMessage
  <2>3. UpFlows(c) BY <2>1 DEF UpFlows, ServerMayRead
  <2>4. DownFlows(c) BY <2>1 DEF DownFlows, ClientMayRead
  <2> QED BY <2>2, <2>3, <2>4
<1> QED BY <1>1, <1>2, <1>3 DEF FlowsInv

\* Types that the steps need.
LEMMA FlowTypes ==
  ASSUME Typed
  PROVE  /\ DOMAIN serve = Clients /\ DOMAIN client = Clients /\ DOMAIN up = Clients /\ DOMAIN down = Clients
         /\ DOMAIN rd = Ends /\ DOMAIN wr = Ends /\ DOMAIN sent = Ends /\ DOMAIN got = Ends /\ DOMAIN stage = Ends
         /\ held \in Clients \cup {None} /\ serverOpen \subseteq Clients /\ clientOpen \subseteq Clients
         /\ \A e \in Ends : sent[e] \in Nat /\ got[e] \in Seq(0..MaxFrames) /\ Len(got[e]) \in Nat /\ PartsRead(e) \in Nat
         /\ \A c \in Clients : up[c] \in Seq(Messages) /\ down[c] \in Seq(Messages)
<1>1. \A e \in Ends : sent[e] \in Nat /\ got[e] \in Seq(0..MaxFrames) /\ Len(got[e]) \in Nat
  BY FramesAssumption DEF Typed, TypeOK
<1>2. ASSUME NEW e \in Ends PROVE PartsRead(e) \in Nat
  <2> DEFINE n == Len(got[e])
  <2>1. n \in Nat BY <1>1
  <2> HIDE DEF n
  <2>2. 2 * n + (IF rd[e] = "payload" THEN 1 ELSE 0) \in Nat BY <2>1
  <2> QED BY <2>2 DEF PartsRead, n
<1> QED BY <1>1, <1>2 DEF Typed, TypeOK, Streams

\* Who has a place, or a client that is connected, was accepted.
LEMMA KeptIs ==
  ASSUME Inv
  PROVE  /\ held # None => held \in Clients /\ serve[held] = "kept"
         /\ \A c, d \in Clients : serve[c] \in Reserved /\ serve[d] \in Reserved => c = d
         /\ \A c \in Clients : client[c] = "connected" => serve[c] \in Known
BY DEF Inv, Place, OnePlace, Handshakes, Met, Proven, Typed, TypeOK, Reserved

\* A connection that is kept stays so, and none is kept but by Keep.
LEMMA KeptStays ==
  ASSUME Inv, [Next]_vars, NEW c \in Clients
  PROVE  /\ serve[c] = "kept" => serve'[c] = "kept"
         /\ client[c] = "connected" => client'[c] = "connected"
<1> USE ReservedAre
<1>0. DOMAIN serve = Clients /\ DOMAIN client = Clients BY FlowTypes DEF Inv
<1>1. CASE UNCHANGED handshake BY <1>1 DEF handshake
<1>2. ASSUME NEW d \in Clients, Serving(d)
      PROVE  (serve[c] = "kept" => serve'[c] = "kept") /\ UNCHANGED client
  BY <1>0, <1>2 DEF Serving, Handle, Challenge, Judge, HandshakeFails, Keep, LetsGo, Serves
<1>3. ASSUME NEW d \in Clients, Opened(d) PROVE serve[d] = "none" /\ serve' = [serve EXCEPT ![d] = "accepted"]
  BY <1>3 DEF Opened, Serves, Inv, Handshakes, Met, Unmet
<1>4. ASSUME NEW d \in Clients, Connect(d) \/ Connecting(d)
      PROVE  (serve[c] = "kept" => serve'[c] = "kept") /\ (client[c] = "connected" => client'[c] = "connected")
  BY <1>0, <1>3, <1>4 DEF Connect, Connecting, Opened, Answer, Accepted, ConnectFails, Connects, Authenticating
<1>5. ASSUME NEW d \in Clients, CutDown(d) \/ CutUp(d) \/ CloseClient(d) \/ ClientCloses(d) PROVE UNCHANGED handshake
  BY <1>5 DEF CutDown, CutUp, CloseClient, ClientCloses
<1>6. ASSUME NEW e \in Ends, Recv(e) \/ Receiving(e) \/ Send(e) \/ Sending(e) \/ SendFails(e) PROVE UNCHANGED handshake
  BY <1>6 DEF Recv, Receiving, ReadHeader, ReadPayload, RecvFails, Send, Sending, SendDone, SendFails
<1>7. CASE Start \/ Started \/ AwaitClient \/ ClientCame \/ AwaitCancelled \/ Revoke \/ CloseServer \/ ServerCloses
  BY <1>1, <1>7 DEF Start, Started, AwaitClient, ClientCame, AwaitCancelled, Revoke, CloseServer, ServerCloses
<1>8. CASE UNCHANGED vars BY <1>1, <1>8 DEF vars
<1> QED BY <1>1, <1>2, <1>4, <1>5, <1>6, <1>7, <1>8 DEF Next

\* Which steps move the traffic of an end.
LEMMA TrafficMoves ==
  ASSUME Inv, [Next]_vars, NEW e \in Ends
  PROVE  /\ sent'[e] # sent[e] => Send(e)
         /\ got'[e] # got[e] => ReadHeader(e) \/ ReadPayload(e)
         /\ e # Server /\ rd'[e] # rd[e] => Recv(e) \/ Receiving(e)
<1>0. DOMAIN sent = Ends /\ DOMAIN got = Ends /\ DOMAIN rd = Ends BY FlowTypes DEF Inv
<1>1. CASE UNCHANGED traffic BY <1>1 DEF traffic
<1>2. ASSUME NEW f \in Ends, Recv(f) \/ Receiving(f) \/ Send(f) \/ Sending(f) \/ SendFails(f)
      PROVE  /\ sent'[e] # sent[e] => Send(e)
             /\ got'[e] # got[e] => ReadHeader(e) \/ ReadPayload(e)
             /\ e # Server /\ rd'[e] # rd[e] => Recv(e) \/ Receiving(e)
  <2>1. CASE f = e
    BY <1>2, <2>1 DEF Recv, Receiving, ReadHeader, ReadPayload, RecvFails, Send, Sending, SendDone, SendFails
  <2>2. CASE f # e
    BY <1>0, <1>2, <2>2 DEF Recv, Receiving, ReadHeader, ReadPayload, RecvFails, Send, Sending, SendDone, SendFails, Reads
  <2> QED BY <2>1, <2>2
<1>3. CASE UNCHANGED <<sent, got>> /\ \E to : rd' = [rd EXCEPT ![Server] = to] BY <1>0, <1>3
<1>4. CASE AwaitClient \/ ClientCame \/ AwaitCancelled \/ CloseServer
  BY <1>3, <1>4 DEF AwaitClient, ClientCame, AwaitCancelled, CloseServer, Reads, Wakes
<1>5. ASSUME NEW c \in Clients, Serving(c) PROVE UNCHANGED traffic \/ (UNCHANGED <<sent, got>> /\ \E to : rd' = [rd EXCEPT ![Server] = to])
  BY <1>5 DEF Serving, Handle, Challenge, Judge, HandshakeFails, Keep, Wakes, traffic
<1>6. ASSUME NEW c \in Clients, Connect(c) \/ Connecting(c) \/ CutDown(c) \/ CutUp(c) \/ CloseClient(c) \/ ClientCloses(c)
      PROVE  UNCHANGED traffic
  BY <1>6 DEF Connect, Connecting, Opened, Answer, Accepted, ConnectFails, CutDown, CutUp, CloseClient, ClientCloses
<1>7. CASE Start \/ Started \/ Revoke \/ ServerCloses \/ UNCHANGED vars
  BY <1>1, <1>7 DEF Start, Started, Revoke, ServerCloses, vars
<1> QED BY <1>1, <1>2, <1>3, <1>4, <1>5, <1>6, <1>7 DEF Next

\* No frame travels before there is a connection.
LEMMA UnusedStep ==
  ASSUME FlowsInv, [Next]_vars
  PROVE  Unkept' /\ \A c \in Clients : Unused(c)'
<1> USE EndsAre, NamesAssumption
<1>0. Inv /\ Unkept /\ \A c \in Clients : Unused(c) BY DEF FlowsInv
<1>1. Unkept'
  <2> SUFFICES ASSUME \A c \in Clients : serve'[c] # "kept" PROVE sent'[Server] = 0 /\ got'[Server] = <<>> BY DEF Unkept
  <2>1. \A c \in Clients : serve[c] # "kept" BY <1>0, KeptStays
  <2>2. held = None BY <1>0, <2>1, KeptIs
  <2>3. ~Send(Server) BY <2>2 DEF Send, Connection
  <2>4. ~ReadHeader(Server) /\ ~ReadPayload(Server) BY <1>0, <2>2 DEF ReadHeader, ReadPayload, Inv, Typed, ServerReads
  <2> QED BY <1>0, <2>1, <2>3, <2>4, TrafficMoves DEF Unkept
<1>2. ASSUME NEW c \in Clients PROVE Unused(c)'
  <2> SUFFICES ASSUME client'[c] # "connected" PROVE sent'[c] = 0 /\ got'[c] = <<>> /\ rd'[c] = "idle" BY DEF Unused
  <2>1. client[c] # "connected" BY <1>0, KeptStays
  <2>2. sent[c] = 0 /\ got[c] = <<>> /\ rd[c] = "idle" BY <1>0, <2>1 DEF Unused
  <2>3. ~Send(c) /\ ~Recv(c) /\ ~Receiving(c) /\ ~ReadHeader(c) /\ ~ReadPayload(c)
    BY <2>1, <2>2 DEF Send, Recv, Receiving, ReadHeader, ReadPayload, RecvFails, Connection
  <2> QED BY <1>0, <2>2, <2>3, TrafficMoves
<1> QED BY <1>1, <1>2

\* A client says one thing at a time until the server has judged it.
LEMMA OneMessageStep ==
  ASSUME FlowsInv, [Next]_vars, NEW c \in Clients
  PROVE  OneMessage(c)'
<1> USE EndsAre, NamesAssumption
<1> SUFFICES ASSUME serve'[c] \in {"accepted", "hello", "proof"} PROVE Len(up'[c]) <= 1 BY DEF OneMessage
<1>0. Typed /\ Inv /\ OneMessage(c) /\ Met(c) BY DEF FlowsInv, Inv, Handshakes
<1>1. up[c] \in Seq(Messages) /\ DOMAIN up = Clients /\ DOMAIN serve = Clients BY <1>0, FlowTypes
<1>2. CASE UNCHANGED <<up, serve>> BY <1>0, <1>2 DEF OneMessage
<1>3. ASSUME NEW d \in Clients, d # c, UNCHANGED serve \/ \E to : serve' = [serve EXCEPT ![d] = to],
             \E s : up' = up \/ up' = [up EXCEPT ![d] = s]
      PROVE  Len(up'[c]) <= 1
  BY <1>0, <1>1, <1>3 DEF OneMessage
<1>4. ASSUME NEW d \in Clients, Serving(d) PROVE Len(up'[c]) <= 1
  <2>1. UNCHANGED serve \/ \E to : serve' = [serve EXCEPT ![d] = to]
    BY <1>4 DEF Serving, Handle, Challenge, Judge, HandshakeFails, Keep, LetsGo, Serves
  <2>2. up' = up \/ (up[d] # <<>> /\ up' = [up EXCEPT ![d] = Tail(@)])
    BY <1>4 DEF Serving, Handle, Challenge, Judge, HandshakeFails, Keep, streams
  <2>3. CASE d # c BY <1>3, <2>1, <2>2, <2>3
  <2>4. CASE d = c
    <3>1. serve[c] \in {"accepted", "hello", "proof"}
      BY <1>1, <1>4, <2>4 DEF Serving, Handle, Challenge, Judge, HandshakeFails, Keep, LetsGo, Serves, Handshaking
    <3>2. Len(up[c]) <= 1 BY <1>0, <3>1 DEF OneMessage
    <3>3. up[c] # <<>> => Len(Tail(up[c])) = Len(up[c]) - 1 /\ Len(up[c]) \in Nat BY <1>1
    <3> QED BY <1>1, <2>2, <2>4, <3>2, <3>3
  <2> QED BY <2>3, <2>4
<1>5. ASSUME NEW d \in Clients, Connect(d) \/ Connecting(d) PROVE Len(up'[c]) <= 1
  <2>1. CASE Connect(d) \/ Accepted(d) \/ ConnectFails(d)
    BY <1>2, <2>1 DEF Connect, Accepted, ConnectFails, streams
  <2>2. CASE Opened(d)
    <3>1. up' = [up EXCEPT ![d] = <<Hello(d)>>] /\ serve' = [serve EXCEPT ![d] = "accepted"] BY <2>2 DEF Opened, Serves
    <3>2. CASE d = c BY <1>1, <3>1, <3>2
    <3>3. CASE d # c BY <1>3, <3>1, <3>3
    <3> QED BY <3>2, <3>3
  <2>3. CASE Answer(d)
    <3>1. up' = [up EXCEPT ![d] = Append(@, Proof(d))] /\ serve' = serve /\ client[d] = "challenge" /\ down[d] # <<>>
      BY <2>3 DEF Answer
    <3>2. CASE d = c
      <4>1. serve[c] = "proof" BY <1>0, <3>1, <3>2 DEF Met, Greeted
      <4>2. up[c] = <<>> BY <1>0, <3>1, <3>2, <4>1 DEF Met, Challenged
      <4> QED BY <1>1, <3>1, <3>2, <4>2
    <3>3. CASE d # c BY <1>3, <3>1, <3>3
    <3> QED BY <3>2, <3>3
  <2> QED BY <1>5, <2>1, <2>2, <2>3 DEF Connecting
<1>6. ASSUME NEW d \in Clients, CutDown(d) \/ CutUp(d) \/ CloseClient(d) \/ ClientCloses(d) PROVE Len(up'[c]) <= 1
  <2>1. CASE CutUp(d)
    <3>1. client[d] = "connected" /\ serve' = serve /\ up' = [up EXCEPT ![d] = SubSeq(@, 1, Len(@) - 1)]
      BY <2>1 DEF CutUp, handshake
    <3>2. d # c BY <1>0, <3>1, KeptIs DEF Known
    <3> QED BY <1>3, <3>1, <3>2
  <2>2. CASE CutDown(d) \/ CloseClient(d) \/ ClientCloses(d)
    BY <1>2, <2>2 DEF CutDown, CloseClient, ClientCloses, handshake, streams
  <2> QED BY <1>6, <2>1, <2>2
<1>7. ASSUME NEW e \in Ends, Recv(e) \/ Receiving(e) \/ Send(e) \/ Sending(e) \/ SendFails(e) PROVE Len(up'[c]) <= 1
  <2>0. serve' = serve BY <1>7 DEF Recv, Receiving, ReadHeader, ReadPayload, RecvFails, Send, Sending, SendDone, SendFails, handshake
  <2>1. CASE up' = up BY <1>2, <2>0, <2>1
  <2>2. CASE ReadHeader(e) \/ ReadPayload(e)
    <3>1. CASE e = Server
      <4>1. held \in Clients /\ serve[held] = "kept" BY <1>0, <2>2, <3>1, KeptIs DEF Typed, ServerReads, ReadHeader, ReadPayload
      <4>2. up' = [up EXCEPT ![held] = Tail(@)] BY <2>2, <3>1 DEF ReadHeader, ReadPayload, Takes
      <4>3. held # c BY <2>0, <4>1
      <4> QED BY <1>3, <2>0, <4>1, <4>2, <4>3
    <3>2. CASE e # Server BY <2>1, <2>2, <3>2 DEF ReadHeader, ReadPayload, Takes
    <3> QED BY <3>1, <3>2
  <2>3. CASE Send(e)
    <3>1. CASE e = Server BY <2>1, <2>3, <3>1 DEF Send, Writes
    <3>2. CASE e # Server
      <4>1. e \in Clients /\ client[e] = "connected" BY <2>3, <3>2 DEF Send, Connection
      <4>2. e # c BY <1>0, <2>0, <4>1, KeptIs DEF Known
      <4>3. \E s : up' = [up EXCEPT ![e] = s] BY <2>3, <3>2 DEF Send, Writes
      <4> QED BY <1>3, <2>0, <4>1, <4>2, <4>3
    <3> QED BY <3>1, <3>2
  <2>4. CASE Recv(e) \/ RecvFails(e) \/ SendDone(e) \/ SendFails(e)
    BY <2>1, <2>4 DEF Recv, RecvFails, SendDone, SendFails, streams
  <2> QED BY <1>7, <2>2, <2>3, <2>4 DEF Receiving, Sending
<1>8. CASE Start \/ Started \/ AwaitClient \/ ClientCame \/ AwaitCancelled \/ Revoke \/ CloseServer \/ ServerCloses \/ UNCHANGED vars
  BY <1>2, <1>8 DEF Start, Started, AwaitClient, ClientCame, AwaitCancelled, Revoke, CloseServer, ServerCloses, vars, handshake, streams
<1> QED BY <1>4, <1>5, <1>6, <1>7, <1>8 DEF Next

\* What leaves the stream to the server and its place in a frame alone.
LEMMA UpSame ==
  ASSUME FlowsInv, NEW c \in Clients, up'[c] = up[c], sent'[c] = sent[c], got'[Server] = got[Server],
         rd'[Server] = "payload" <=> rd[Server] = "payload",
         ServerMayRead(c)' => ServerMayRead(c), c \in clientOpen' => c \in clientOpen
  PROVE  UpFlows(c)'
<1> SUFFICES ASSUME ServerMayRead(c)' PROVE UpFlows(c)' BY DEF UpFlows
<1>1. PartsRead(Server)' = PartsRead(Server) BY DEF PartsRead
<1>2. PICK k \in Nat : /\ k <= 2 * sent[c] /\ IsRun(up[c], UpLine, PartsRead(Server), k)
                       /\ c \in clientOpen => k = 2 * sent[c]
  BY DEF FlowsInv, UpFlows
<1>3. /\ k <= 2 * sent'[c] /\ IsRun(up'[c], UpLine, PartsRead(Server)', k)
      /\ c \in clientOpen' => k = 2 * sent'[c]
  BY <1>1, <1>2
<1> QED BY <1>3 DEF UpFlows

\* The server's task reads the next part.
LEMMA UpRead ==
  ASSUME FlowsInv, ReadHeader(Server) \/ ReadPayload(Server)
  PROVE  /\ held \in Clients /\ serve[held] = "kept" /\ \A c \in Clients : UpFlows(c)'
         /\ \/ got' = got
            \/ Len(got[Server]) < sent[held] /\ got' = [got EXCEPT ![Server] = Append(@, Len(@) + 1)]
<1> USE EndsAre, NamesAssumption
<1>0. Typed /\ Inv BY DEF FlowsInv, Inv
<1>1. held \in Clients /\ serve[held] = "kept" /\ InFrame(Server)
  BY <1>0, KeptIs DEF Typed, ServerReads, ReadHeader, ReadPayload, InFrame
<1>2. UpFlows(held) /\ ServerMayRead(held) BY <1>1 DEF FlowsInv, ServerMayRead
<1>3. PICK k \in Nat : /\ k <= 2 * sent[held] /\ IsRun(up[held], UpLine, PartsRead(Server), k)
                       /\ held \in clientOpen => k = 2 * sent[held]
  BY <1>2 DEF UpFlows
<1>4. Incoming(Server) = up[held] /\ up[held] \in Seq(Messages) /\ PartsRead(Server) \in Nat /\ 0 + PartsRead(Server) = PartsRead(Server)
      /\ Len(got[Server]) \in Nat /\ sent[held] \in Nat
  BY <1>0, <1>1, FlowTypes DEF Incoming
<1>5. /\ IsRun(Tail(Incoming(Server)), UpLine, 0 + PartsRead(Server)', k) /\ PartsRead(Server)' \in Nat
      /\ 0 + PartsRead(Server) + 1 <= k
      /\ \/ got' = got
         \/ rd[Server] = "payload" /\ got' = [got EXCEPT ![Server] = Append(@, Len(@) + 1)]
  <2>1. IsRun(Incoming(Server), UpLine, 0 + PartsRead(Server), k) BY <1>3, <1>4
  <2> QED BY <1>0, <1>4, <2>1, LinesAre, TakesNext
<1>6. ASSUME rd[Server] = "payload" PROVE Len(got[Server]) < sent[held]
  <2>1. PartsRead(Server) = 2 * Len(got[Server]) + 1 BY <1>6 DEF PartsRead
  <2> QED BY <1>3, <1>4, <1>5, <2>1
<1>7. UNCHANGED <<held, serve, sent, clientOpen, serverOpen>> /\ up' = [up EXCEPT ![held] = Tail(@)]
  BY DEF ReadHeader, ReadPayload, listener, handshake, ends, Takes
<1>8. ASSUME NEW c \in Clients PROVE UpFlows(c)'
  <2>1. CASE c = held
    <3>1. up'[c] = Tail(up[c]) BY <1>0, <1>7, <2>1, FlowTypes
    <3>2. PartsRead(Server)' \in Nat BY <1>5
    <3>3. 0 + PartsRead(Server)' = PartsRead(Server)' BY <3>2
    <3>4. k <= 2 * sent'[c] /\ IsRun(up'[c], UpLine, PartsRead(Server)', k)
          /\ (c \in clientOpen' => k = 2 * sent'[c])
      BY <1>3, <1>4, <1>5, <1>7, <2>1, <3>1, <3>3
    <3> QED BY <3>4 DEF UpFlows
  <2>2. CASE c # held
    <3>1. serve[c] \notin Reserved BY <1>0, <1>1, <2>2, KeptIs, ReservedAre
    <3>2. ~ServerMayRead(c)' BY <1>7, <2>2, <3>1, ReservedAre DEF ServerMayRead
    <3> QED BY <3>2 DEF UpFlows
  <2> QED BY <2>1, <2>2
<1> QED BY <1>1, <1>5, <1>6, <1>8

\* What is left of one item.
LEMMA TailOfOne ==
  ASSUME NEW T, NEW s \in Seq(T), s # <<>>, Len(s) <= 1
  PROVE  Tail(s) = <<>>
<1>1. Len(s) \in Nat /\ Len(s) # 0 OBVIOUS
<1>2. Tail(s) \in Seq(T) /\ Len(Tail(s)) = Len(s) - 1 OBVIOUS
<1> DEFINE t == Tail(s)
<1> HIDE DEF t
<1>3. t \in Seq(T) /\ Len(t) = 0 BY <1>1, <1>2 DEF t
<1> QED BY <1>3 DEF t

----------------------------------------------------------------------------
\* Where the server may not read a client's frames.
LEMMA UpUnread ==
  ASSUME Inv, NEW c \in Clients, serve[c] # "kept", serve'[c] # "verified", held' = held
  PROVE  UpFlows(c)'
<1> USE NamesAssumption
<1>1. held # c BY KeptIs
<1> QED BY <1>1 DEF UpFlows, ServerMayRead

\* The server's handshake with a client ends with no message of it under way.
LEMMA UpServing ==
  ASSUME FlowsInv, NEW c \in Clients, NEW d \in Clients, Serving(d)
  PROVE  UpFlows(c)'
<1> USE EndsAre, NamesAssumption
<1>0. Typed /\ Inv /\ Met(c) BY DEF FlowsInv, Inv, Handshakes
<1>1. DOMAIN serve = Clients /\ DOMAIN up = Clients /\ DOMAIN rd = Ends /\ c \in Ends BY <1>0, FlowTypes
<1>2. UNCHANGED <<sent, got, clientOpen>> /\ serverOpen' \subseteq serverOpen
  BY <1>0 DEF Serving, Handle, Challenge, Judge, HandshakeFails, Keep, LetsGo, ends, traffic
<1>3. (rd'[Server] = "payload" <=> rd[Server] = "payload") /\ (InFrame(Server)' <=> InFrame(Server))
  BY <1>1 DEF Serving, Handle, Challenge, Judge, HandshakeFails, Keep, traffic, Wakes, InFrame
<1>4. CASE d # c
  <2>1. serve'[c] = serve[c] /\ (held' = c => held = c)
    BY <1>1, <1>4 DEF Serving, Handle, Challenge, Judge, HandshakeFails, Keep, LetsGo, Serves, listener
  <2>2. up'[c] = up[c]
    BY <1>1, <1>4 DEF Serving, Handle, Challenge, Judge, HandshakeFails, Keep, LetsGo, Serves, streams
  <2>3. ServerMayRead(c)' => ServerMayRead(c) BY <1>2, <1>3, <2>1 DEF ServerMayRead
  <2> QED BY <1>2, <1>3, <2>2, <2>3, UpSame
<1>5. CASE Keep(c)
  <2>1. up' = up /\ ServerMayRead(c) BY <1>5 DEF Keep, streams, ServerMayRead
  <2> QED BY <1>2, <1>3, <2>1, UpSame
<1>6. CASE Judge(c) /\ serve'[c] = "verified"
  <2>1. serve[c] \in {"hello", "proof"} /\ up[c] # <<>> /\ up' = [up EXCEPT ![c] = Tail(@)] BY <1>6 DEF Judge
  <2>2. up'[c] = <<>>
    <3>1. Len(up[c]) <= 1 /\ up[c] \in Seq(Messages) BY <1>0, <2>1, FlowTypes DEF FlowsInv, OneMessage
    <3>2. Tail(up[c]) = <<>>
      <4> DEFINE s == up[c]
                 T == Messages
      <4>1. s \in Seq(T) /\ s # <<>> /\ Len(s) <= 1 BY <2>1, <3>1
      <4> HIDE DEF s, T
      <4>2. Tail(s) = <<>> BY <4>1, TailOfOne
      <4> QED BY <4>2 DEF s
    <3> QED BY <1>1, <2>1, <3>2
  <2>3. client[c] # "connected" BY <1>0, <2>1 DEF Met, Proven, Known
  <2>4. sent[c] = 0 BY <2>3 DEF FlowsInv, Unused
  <2>5. \A x \in Clients : serve[x] # "kept" BY <1>0, <2>1, KeptIs, ReservedAre
  <2>6. got[Server] = <<>> BY <2>5 DEF FlowsInv, Unkept
  <2>7. rd[Server] # "payload" BY <1>0, <2>5, KeptIs DEF Typed, ServerReads
  <2>8. PartsRead(Server)' = 0 /\ sent'[c] = 0 BY <1>2, <1>3, <2>4, <2>6, <2>7 DEF PartsRead
  <2>9. IsRun(up'[c], UpLine, PartsRead(Server)', 0) BY <2>2, <2>8 DEF IsRun
  <2>10. 0 \in Nat /\ 0 <= 2 * sent'[c] /\ 0 = 2 * sent'[c] BY <2>8
  <2> QED BY <2>9, <2>10 DEF UpFlows
<1>7. CASE Handle(c) \/ Challenge(c) \/ HandshakeFails(c) \/ (Judge(c) /\ serve'[c] # "verified")
  <2>1. serve[c] # "kept" /\ serve'[c] # "verified" /\ held' = held
    BY <1>1, <1>7 DEF Handle, Challenge, Judge, HandshakeFails, LetsGo, Serves, listener, Handshaking
  <2> QED BY <1>0, <2>1, UpUnread
<1> QED BY <1>4, <1>5, <1>6, <1>7 DEF Serving

\* A client that connects sends no frame.
LEMMA UpConnecting ==
  ASSUME FlowsInv, NEW c \in Clients, NEW d \in Clients, Connect(d) \/ Connecting(d)
  PROVE  UpFlows(c)'
<1> USE EndsAre, NamesAssumption
<1>0. Typed /\ Inv /\ Met(d) BY DEF FlowsInv, Inv, Handshakes
<1>1. DOMAIN serve = Clients /\ DOMAIN up = Clients BY <1>0, FlowTypes
<1>2. UNCHANGED <<held, traffic>> /\ serverOpen' \subseteq serverOpen \cup {d} /\ clientOpen' \subseteq clientOpen \cup {d}
  BY DEF Connect, Connecting, Opened, Answer, Accepted, ConnectFails, listener, ends
<1>3. CASE UNCHANGED <<up, serve, serverOpen>> /\ clientOpen' \subseteq clientOpen
  <2>1. ServerMayRead(c)' <=> ServerMayRead(c) BY <1>2, <1>3 DEF ServerMayRead, InFrame, traffic
  <2> QED BY <1>2, <1>3, <2>1, UpSame DEF traffic
<1>4. CASE Connect(d) \/ Accepted(d) \/ ConnectFails(d)
  BY <1>3, <1>4 DEF Connect, Accepted, ConnectFails, streams, handshake, ends
<1>5. CASE d # c /\ (Opened(d) \/ Answer(d))
  <2>1. up'[c] = up[c] /\ serve'[c] = serve[c] BY <1>1, <1>5 DEF Opened, Answer, Serves
  <2>2. ServerMayRead(c)' => ServerMayRead(c) BY <1>2, <1>5, <2>1 DEF ServerMayRead, InFrame, traffic
  <2> QED BY <1>2, <1>5, <2>1, <2>2, UpSame DEF traffic
<1>6. CASE Opened(c) /\ d = c
  <2>1. serve[c] = "none" /\ serve'[c] = "accepted" BY <1>0, <1>1, <1>6 DEF Opened, Serves, Met, Unmet
  <2> QED BY <1>0, <1>2, <2>1, UpUnread
<1>7. CASE Answer(c) /\ d = c
  <2>1. serve[c] \in {"accepted", "hello", "proof", "gone"} /\ serve' = serve BY <1>0, <1>7 DEF Answer, Met, Challenged
  <2> QED BY <1>0, <1>2, <2>1, UpUnread
<1> QED BY <1>4, <1>5, <1>6, <1>7 DEF Connecting

\* The cut takes the last part, of a connection that the client has closed.
LEMMA UpStreams ==
  ASSUME FlowsInv, NEW c \in Clients, NEW d \in Clients, CutDown(d) \/ CutUp(d) \/ CloseClient(d) \/ ClientCloses(d)
  PROVE  UpFlows(c)'
<1> USE EndsAre, NamesAssumption
<1>0. Typed /\ Inv BY DEF FlowsInv, Inv
<1>1. DOMAIN up = Clients /\ d # Server BY <1>0, FlowTypes
<1>2. UNCHANGED <<held, serve, serverOpen, traffic>> /\ clientOpen' \subseteq clientOpen
  BY <1>1 DEF CutDown, CutUp, CloseClient, ClientCloses, Shuts, listener, handshake, ends
<1>3. ServerMayRead(c)' <=> ServerMayRead(c) BY <1>2 DEF ServerMayRead, InFrame, traffic
<1>4. CASE up'[c] = up[c] BY <1>2, <1>3, <1>4, UpSame DEF traffic
<1>5. CASE CutUp(c) /\ d = c
  <2> SUFFICES ASSUME ServerMayRead(c)' PROVE UpFlows(c)' BY DEF UpFlows
  <2>1. c \notin clientOpen /\ up[c] # <<>> /\ up'[c] = SubSeq(up[c], 1, Len(up[c]) - 1) BY <1>1, <1>5 DEF CutUp
  <2>2. PICK k \in Nat : k <= 2 * sent[c] /\ IsRun(up[c], UpLine, PartsRead(Server), k)
    BY <1>3 DEF FlowsInv, UpFlows
  <2>3. up[c] \in Seq(Messages) /\ PartsRead(Server) \in Nat /\ sent[c] \in Nat BY <1>0, FlowTypes
  <2>4. PartsRead(Server) <= k - 1 /\ IsRun(up'[c], UpLine, PartsRead(Server), k - 1)
    <3> DEFINE s == up[c]
               T == Messages
               i == PartsRead(Server)
    <3>1. s \in Seq(T) /\ s # <<>> /\ i \in Nat /\ k \in Nat /\ IsRun(s, UpLine, i, k) BY <2>1, <2>2, <2>3
    <3> HIDE DEF s, T, i
    <3>2. i <= k - 1 /\ IsRun(SubSeq(s, 1, Len(s) - 1), UpLine, i, k - 1) BY <3>1, RunCut
    <3> QED BY <2>1, <3>2 DEF s, i
  <2>5. k - 1 \in Nat /\ k - 1 <= 2 * sent[c] BY <2>2, <2>3, <2>4
  <2>6. PartsRead(Server)' = PartsRead(Server) /\ sent'[c] = sent[c] /\ c \notin clientOpen'
    BY <1>2, <2>1 DEF PartsRead, traffic
  <2> QED BY <2>4, <2>5, <2>6 DEF UpFlows
<1> QED BY <1>1, <1>4, <1>5 DEF CutDown, CutUp, CloseClient, ClientCloses, streams

\* A frame of the client follows those under way.
LEMMA UpSend ==
  ASSUME FlowsInv, NEW c \in Clients, NEW e \in Ends, Send(e)
  PROVE  UpFlows(c)'
<1> USE EndsAre, NamesAssumption
<1>0. Typed /\ Inv BY DEF FlowsInv, Inv
<1>1. DOMAIN up = Clients /\ DOMAIN sent = Ends /\ c \in Ends BY <1>0, FlowTypes
<1>2. UNCHANGED <<held, serve, serverOpen, clientOpen, rd, got>> BY DEF Send, listener, handshake, ends
<1>3. ServerMayRead(c)' <=> ServerMayRead(c) BY <1>2 DEF ServerMayRead, InFrame
<1>4. CASE e # c
  <2>1. up'[c] = up[c] /\ sent'[c] = sent[c] BY <1>1, <1>4 DEF Send, Writes
  <2> QED BY <1>2, <1>3, <2>1, UpSame
<1>5. CASE e = c
  <2> SUFFICES ASSUME ServerMayRead(c)' PROVE UpFlows(c)' BY DEF UpFlows
  <2>1. c \in clientOpen /\ sent[c] < MaxFrames /\ sent'[c] = sent[c] + 1
        /\ up'[c] = up[c] \o <<Message("header", sent[c] + 1), Message("payload", sent[c] + 1)>>
    BY <1>1, <1>5 DEF Send, IsOpen, Writes
  <2>2. IsRun(up[c], UpLine, PartsRead(Server), 2 * sent[c]) BY <1>3, <2>1 DEF FlowsInv, UpFlows
  <2>3. up[c] \in Seq(Messages) /\ PartsRead(Server) \in Nat /\ sent[c] \in Nat BY <1>0, FlowTypes
  <2>4. IsRun(up'[c], UpLine, PartsRead(Server), 2 * sent'[c])
    <3> DEFINE s == up[c]
               i == PartsRead(Server)
               n == sent[c]
    <3>1. 0 + 2 * n = 2 * n /\ 0 + 2 * (n + 1) = 2 * (n + 1) BY <2>3
    <3>2. s \in Seq(Messages) /\ i \in Nat /\ n \in Nat /\ n < MaxFrames /\ IsRun(s, UpLine, i, 0 + 2 * n)
      BY <2>1, <2>2, <2>3, <3>1
    <3> HIDE DEF s, i, n
    <3>3. IsRun(s \o <<Message("header", n + 1), Message("payload", n + 1)>>, UpLine, i, 0 + 2 * (n + 1))
      BY <3>2, SendsNext, LinesAre
    <3> QED BY <2>1, <3>1, <3>3 DEF s, i, n
  <2>5. PartsRead(Server)' = PartsRead(Server) /\ 2 * sent'[c] \in Nat BY <1>2, <2>1, <2>3 DEF PartsRead
  <2> QED BY <2>4, <2>5 DEF UpFlows
<1> QED BY <1>4, <1>5

\* A task of an end begins or ends an operation.
LEMMA UpOperation ==
  ASSUME FlowsInv, NEW c \in Clients, NEW e \in Ends,
         Recv(e) \/ Receiving(e) \/ Send(e) \/ Sending(e) \/ SendFails(e)
  PROVE  UpFlows(c)'
<1> USE EndsAre, NamesAssumption
<1>0. Typed /\ Inv BY DEF FlowsInv, Inv
<1>1. DOMAIN rd = Ends /\ DOMAIN got = Ends BY <1>0, FlowTypes
<1>2. CASE Recv(e)
  <2>1. UNCHANGED <<held, serve, serverOpen, clientOpen, up, sent, got>> BY <1>2 DEF Recv, listener, handshake, ends, streams
  <2>2. rd'[Server] = rd[Server] \/ (rd[Server] = "idle" /\ rd'[Server] = "header" /\ held \in serverOpen)
    BY <1>1, <1>2 DEF Recv, Reads, IsOpen
  <2>3. ServerMayRead(c)' => ServerMayRead(c) BY <2>1, <2>2 DEF ServerMayRead, InFrame
  <2> QED BY <2>1, <2>2, <2>3, UpSame
<1>3. CASE ReadHeader(e) \/ ReadPayload(e)
  <2>1. CASE e = Server BY <1>3, <2>1, UpRead
  <2>2. CASE e # Server
    <3>1. UNCHANGED <<held, serve, serverOpen, clientOpen, up, sent>> BY <1>3, <2>2 DEF ReadHeader, ReadPayload, listener, handshake, ends, Takes
    <3>2. rd'[Server] = rd[Server] /\ got'[Server] = got[Server] BY <1>1, <1>3, <2>2 DEF ReadHeader, ReadPayload, Reads
    <3>3. ServerMayRead(c)' => ServerMayRead(c) BY <3>1, <3>2 DEF ServerMayRead, InFrame
    <3> QED BY <3>1, <3>2, <3>3, UpSame
  <2> QED BY <2>1, <2>2
<1>4. CASE RecvFails(e)
  <2>0. UNCHANGED <<held, serve, up, sent, got>> BY <1>4 DEF RecvFails, listener, handshake, streams
  <2>1. CASE e = Server
    <3>1. held \in Clients /\ serve[held] = "kept" BY <1>0, <1>4, <2>1, KeptIs DEF RecvFails, Typed, ServerReads
    <3>2. serve[c] # "verified" BY <1>0, <3>1, KeptIs, ReservedAre
    <3>3. held \notin serverOpen' /\ rd'[Server] = "idle" BY <1>1, <1>4, <2>1 DEF RecvFails, Shuts, Reads
    <3>4. ~ServerMayRead(c)' BY <2>0, <3>2, <3>3 DEF ServerMayRead, InFrame
    <3> QED BY <3>4 DEF UpFlows
  <2>2. CASE e # Server
    <3>1. rd'[Server] = rd[Server] /\ serverOpen' = serverOpen /\ clientOpen' \subseteq clientOpen
      BY <1>1, <1>4, <2>2 DEF RecvFails, Shuts, Reads
    <3>2. ServerMayRead(c)' => ServerMayRead(c) BY <2>0, <3>1 DEF ServerMayRead, InFrame
    <3> QED BY <2>0, <3>1, <3>2, UpSame
  <2> QED BY <2>1, <2>2
<1>5. CASE SendDone(e) \/ SendFails(e)
  <2>1. UNCHANGED <<held, serve, up, sent, got, rd>> /\ serverOpen' \subseteq serverOpen /\ clientOpen' \subseteq clientOpen
    BY <1>5 DEF SendDone, SendFails, Shuts, listener, handshake, streams, ends
  <2>2. ServerMayRead(c)' => ServerMayRead(c) BY <2>1 DEF ServerMayRead, InFrame
  <2> QED BY <2>1, <2>2, UpSame
<1> QED BY <1>2, <1>3, <1>4, <1>5, UpSend DEF Receiving, Sending

\* The frames to the server.
LEMMA UpStep ==
  ASSUME FlowsInv, [Next]_vars, NEW c \in Clients
  PROVE  UpFlows(c)'
<1> USE EndsAre, NamesAssumption
<1>0. Typed /\ Inv BY DEF FlowsInv, Inv
<1>1. DOMAIN rd = Ends BY <1>0, FlowTypes
<1>2. CASE AwaitClient \/ ClientCame \/ AwaitCancelled \/ CloseServer
  <2>1. UNCHANGED <<held, serve, serverOpen, clientOpen, up, sent, got>>
    BY <1>2 DEF AwaitClient, ClientCame, AwaitCancelled, CloseServer, listener, handshake, ends, streams
  <2>2. (rd'[Server] = "payload" <=> rd[Server] = "payload") /\ (InFrame(Server)' => InFrame(Server) \/ held \in serverOpen)
    BY <1>1, <1>2 DEF AwaitClient, ClientCame, AwaitCancelled, CloseServer, Reads, Wakes, InFrame, IsOpen
  <2>3. ServerMayRead(c)' => ServerMayRead(c) BY <2>1, <2>2 DEF ServerMayRead
  <2> QED BY <2>1, <2>2, <2>3, UpSame
<1>3. CASE Start \/ Started \/ Revoke \/ ServerCloses \/ UNCHANGED vars
  <2>1. UNCHANGED <<serve, clientOpen, up, sent, got, rd>> /\ serverOpen' \subseteq serverOpen /\ (held' = held \/ held' = None)
    BY <1>3 DEF Start, Started, Revoke, ServerCloses, Shuts, vars, listener, handshake, ends, streams, traffic
  <2>2. ServerMayRead(c)' => ServerMayRead(c) BY <2>1 DEF ServerMayRead, InFrame
  <2> QED BY <2>1, <2>2, UpSame
<1>4. CASE \E d \in Clients : Connect(d) \/ Connecting(d) \/ Serving(d) \/ CutDown(d) \/ CutUp(d) \/ CloseClient(d) \/ ClientCloses(d)
  BY <1>4, UpServing, UpConnecting, UpStreams
<1> QED BY <1>2, <1>3, <1>4, UpOperation DEF Next

----------------------------------------------------------------------------
\* What leaves the stream to a client and its place in a frame alone.
LEMMA DownSame ==
  ASSUME FlowsInv, NEW c \in Clients, down'[c] = down[c], client'[c] = client[c], got'[c] = got[c],
         rd'[c] = "payload" <=> rd[c] = "payload", ClientMayRead(c)' => ClientMayRead(c),
         DownMost(c) \in Nat, DownMost(c)' \in Nat, DownMost(c) <= DownMost(c)',
         serve'[c] \in {"verified", "kept"} /\ c \in serverOpen' =>
           serve[c] \in {"verified", "kept"} /\ c \in serverOpen /\ SentTo(c)' = SentTo(c)
  PROVE  DownFlows(c)'
<1> SUFFICES ASSUME ClientMayRead(c)' PROVE DownFlows(c)' BY DEF DownFlows
<1>1. DownRead(c)' = DownRead(c) BY DEF DownRead, PartsRead
<1>2. PICK k \in Nat : /\ k <= DownMost(c) /\ IsRun(down[c], DownLine, DownRead(c), k)
                       /\ serve[c] \in {"verified", "kept"} /\ c \in serverOpen => k = 1 + 2 * SentTo(c)
  BY DEF FlowsInv, DownFlows
<1>3. k <= DownMost(c)' BY <1>2
<1>4. IsRun(down'[c], DownLine, DownRead(c)', k) BY <1>1, <1>2
<1>5. serve'[c] \in {"verified", "kept"} /\ c \in serverOpen' => k = 1 + 2 * SentTo(c)' BY <1>2
<1> QED BY <1>3, <1>4, <1>5 DEF DownFlows

\* How far the parts to a client go.
LEMMA DownMostIs ==
  ASSUME Inv, NEW c \in Clients
  PROVE  /\ SentTo(c) \in Nat /\ DownMost(c) \in Nat /\ DownRead(c) \in Nat
         /\ serve'[c] = serve[c] /\ sent'[Server] = sent[Server] => SentTo(c)' = SentTo(c) /\ DownMost(c)' = DownMost(c)
<1>1. sent[Server] \in Nat /\ PartsRead(c) \in Nat BY EndsAre, FlowTypes DEF Inv
<1> QED BY <1>1 DEF SentTo, DownMost, DownRead

\* What leaves all of a connection alone that its client reads by.
LEMMA DownAlone ==
  ASSUME FlowsInv, NEW c \in Clients, down'[c] = down[c], client'[c] = client[c], got'[c] = got[c], sent'[Server] = sent[Server],
         rd'[c] = rd[c], serve'[c] = serve[c], c \in clientOpen' => c \in clientOpen, c \in serverOpen' => c \in serverOpen
  PROVE  DownFlows(c)'
<1>1. ClientMayRead(c)' => ClientMayRead(c) BY DEF ClientMayRead, InFrame
<1>2. DownMost(c) \in Nat /\ DownMost(c)' = DownMost(c) /\ SentTo(c)' = SentTo(c) BY DownMostIs DEF FlowsInv
<1> QED BY <1>1, <1>2, DownSame

\* The acceptance is the first part to a client, and the last until it is kept.
LEMMA DownServing ==
  ASSUME FlowsInv, NEW c \in Clients, NEW d \in Clients, Serving(d)
  PROVE  DownFlows(c)'
<1> USE EndsAre, NamesAssumption
<1>0. Typed /\ Inv /\ Met(c) BY DEF FlowsInv, Inv, Handshakes
<1>1. DOMAIN serve = Clients /\ DOMAIN down = Clients /\ DOMAIN rd = Ends /\ c \in Ends /\ c # Server BY <1>0, FlowTypes
<1>2. UNCHANGED <<sent, got, client, clientOpen>> /\ serverOpen' \subseteq serverOpen /\ rd'[c] = rd[c]
  BY <1>1 DEF Serving, Handle, Challenge, Judge, HandshakeFails, Keep, LetsGo, Wakes, ends, handshake, traffic
<1>3. ClientMayRead(c)' => ClientMayRead(c) BY <1>2 DEF ClientMayRead, InFrame
<1>4. SentTo(c) \in Nat /\ DownMost(c) \in Nat BY <1>0, DownMostIs
<1>5. CASE d # c
  <2>1. serve'[c] = serve[c] /\ down'[c] = down[c]
    BY <1>1, <1>5 DEF Serving, Handle, Challenge, Judge, HandshakeFails, Keep, LetsGo, Serves, streams
  <2> QED BY <1>2, <2>1, DownAlone
<1>6. CASE Handle(c) \/ HandshakeFails(c) \/ (Judge(c) /\ serve'[c] # "verified") \/ (Keep(c) /\ serve'[c] # "kept")
  <2>1. /\ down' = down /\ serve[c] \in {"accepted", "hello", "proof", "verified"}
        /\ serve'[c] \in {"hello", "gone"} /\ (serve[c] = "verified" => serve'[c] = "gone")
    BY <1>1, <1>6 DEF Handle, Judge, HandshakeFails, Keep, LetsGo, Serves, streams, Handshaking
  <2>2. DownMost(c)' \in Nat /\ DownMost(c) <= DownMost(c)' BY <2>1 DEF DownMost, SentTo, Known
  <2> QED BY <1>2, <1>3, <1>4, <2>1, <2>2, DownSame
<1>7. CASE Keep(c) /\ serve'[c] = "kept"
  <2>1. serve[c] = "verified" /\ down' = down BY <1>7 DEF Keep, streams
  <2>2. \A x \in Clients : serve[x] # "kept" BY <1>0, <2>1, KeptIs, ReservedAre
  <2>3. sent[Server] = 0 BY <2>2 DEF FlowsInv, Unkept
  <2>4. SentTo(c) = 0 /\ SentTo(c)' = 0 BY <1>2, <1>7, <2>1, <2>3 DEF SentTo
  <2>5. DownMost(c)' = 1 /\ DownMost(c) = 1 BY <1>7, <2>1, <2>4 DEF DownMost, Known
  <2> QED BY <1>2, <1>3, <2>1, <2>4, <2>5, DownSame
<1>8. CASE Challenge(c)
  <2>1. client[c] \in {"challenge", "failed"} BY <1>0, <1>8 DEF Challenge, Met, Greeted
  <2>2. ~ClientMayRead(c)' BY <1>2, <2>1 DEF ClientMayRead
  <2> QED BY <2>2 DEF DownFlows
<1>9. CASE Judge(c) /\ serve'[c] = "verified"
  <2> SUFFICES ASSUME ClientMayRead(c)' PROVE DownFlows(c)' BY DEF DownFlows
  <2>1. serve[c] \in {"hello", "proof"} BY <1>9 DEF Judge
  <2>2. down'[c] = Append(down[c], Message("OK", 0)) BY <1>1, <1>9 DEF Judge, LetsGo, Serves
  <2>3. client[c] = "verdict" BY <1>0, <1>3, <2>1 DEF Met, Proven, Known, ClientMayRead
  <2>4. PICK k \in Nat : k <= DownMost(c) /\ IsRun(down[c], DownLine, DownRead(c), k) BY <1>3 DEF FlowsInv, DownFlows
  <2>5. k = 0 /\ DownRead(c) = 0 /\ DownRead(c)' = 0 BY <1>2, <2>1, <2>3, <2>4 DEF DownMost, Known, DownRead
  <2>6. IsRun(down'[c], DownLine, 0, 1)
    <3> DEFINE s == down[c]
               T == Messages
               y == Message("OK", 0)
    <3>1. y \in T BY <1>1, HandshakeTyped
    <3>2. y = DownLine[0 + 1] BY DownLineParts
    <3>3. s \in Seq(T) /\ IsRun(s, DownLine, 0, 0) BY <1>0, <2>4, <2>5, FlowTypes
    <3> HIDE DEF s, T, y
    <3>4. IsRun(Append(s, y), DownLine, 0, 0 + 1) BY <3>1, <3>2, <3>3, RunAppend
    <3> QED BY <2>2, <3>4 DEF s, y
  <2>7. SentTo(c)' = 0 /\ DownMost(c)' = 1 BY <1>9 DEF SentTo, DownMost, Known
  <2>8. 1 \in Nat /\ 1 <= DownMost(c)' /\ 1 = 1 + 2 * SentTo(c)' /\ IsRun(down'[c], DownLine, DownRead(c)', 1) BY <2>5, <2>6, <2>7
  <2> QED BY <2>8 DEF DownFlows
<1> QED BY <1>5, <1>6, <1>7, <1>8, <1>9 DEF Serving

\* A client reads the acceptance, and after it the frames.
LEMMA DownConnecting ==
  ASSUME FlowsInv, NEW c \in Clients, NEW d \in Clients, Connect(d) \/ Connecting(d)
  PROVE  DownFlows(c)'
<1> USE EndsAre, NamesAssumption
<1>0. Typed /\ Inv /\ Met(c) BY DEF FlowsInv, Inv, Handshakes
<1>1. DOMAIN serve = Clients /\ DOMAIN client = Clients /\ DOMAIN down = Clients /\ c \in Ends BY <1>0, FlowTypes
<1>2. UNCHANGED traffic /\ serverOpen' \subseteq serverOpen \cup {d} /\ clientOpen' \subseteq clientOpen \cup {d}
  BY DEF Connect, Connecting, Opened, Answer, Accepted, ConnectFails, ends
<1>3. CASE d # c
  <2>1. serve'[c] = serve[c] /\ client'[c] = client[c] /\ down'[c] = down[c]
    BY <1>1, <1>3 DEF Connect, Connecting, Opened, Answer, Accepted, ConnectFails, Connects, Serves, streams
  <2> QED BY <1>2, <1>3, <2>1, DownAlone DEF traffic
<1>4. ASSUME down'[c] = <<>>, client'[c] # "connected", serve'[c] \notin {"verified", "kept"} PROVE DownFlows(c)'
  <2> SUFFICES ASSUME ClientMayRead(c)' PROVE DownFlows(c)' BY DEF DownFlows
  <2>1. DownRead(c)' = 0 BY <1>4 DEF ClientMayRead, DownRead
  <2>2. 0 <= DownMost(c)' BY <1>4 DEF DownMost, SentTo
  <2>3. IsRun(down'[c], DownLine, DownRead(c)', 0) BY <1>4, <2>1 DEF IsRun
  <2> QED BY <1>4, <2>2, <2>3 DEF DownFlows
<1>5. CASE Opened(c) /\ d = c
  <2>1. serve[c] = "none" /\ serve'[c] = "accepted" /\ down' = down /\ client'[c] \in {"verdict", "challenge"}
    BY <1>0, <1>1, <1>5 DEF Opened, Connects, Serves, Met, Unmet
  <2>2. down[c] = <<>> BY <1>0, <2>1 DEF Met, Unserved
  <2> QED BY <1>4, <2>1, <2>2
<1>6. CASE Answer(c) /\ d = c
  <2>1. serve'[c] = serve[c] /\ serve[c] \in {"accepted", "hello", "proof", "gone"} /\ client'[c] = "verdict"
        /\ down[c] # <<>> /\ Len(down[c]) <= 1 /\ down'[c] = Tail(down[c])
    BY <1>0, <1>1, <1>6 DEF Answer, Connects, Met, Challenged
  <2>2. down'[c] = <<>>
    <3> DEFINE s == down[c]
               T == Messages
    <3>1. s \in Seq(T) /\ s # <<>> /\ Len(s) <= 1 BY <1>0, <2>1, FlowTypes
    <3> HIDE DEF s, T
    <3>2. Tail(s) = <<>> BY <3>1, TailOfOne
    <3> QED BY <2>1, <3>2 DEF s
  <2> QED BY <1>4, <2>1, <2>2
<1>7. CASE Accepted(c) /\ d = c
  <2> SUFFICES ASSUME ClientMayRead(c)' PROVE DownFlows(c)' BY DEF DownFlows
  <2>1. client[c] = "verdict" /\ down[c] # <<>> /\ down'[c] = Tail(down[c]) /\ client'[c] \in {"failed", "connected"}
        /\ UNCHANGED <<serve, serverOpen>>
    BY <1>1, <1>7 DEF Accepted, Connects
  <2>2. ClientMayRead(c) /\ client'[c] = "connected" BY <2>1 DEF ClientMayRead
  <2>3. PICK k \in Nat : /\ k <= DownMost(c) /\ IsRun(down[c], DownLine, DownRead(c), k)
                         /\ serve[c] \in {"verified", "kept"} /\ c \in serverOpen => k = 1 + 2 * SentTo(c)
    BY <2>2 DEF FlowsInv, DownFlows
  <2>4. DownRead(c) = 0 BY <2>1 DEF DownRead
  <2>5. got[c] = <<>> /\ rd[c] = "idle" BY <2>1 DEF FlowsInv, Unused
  <2>6. PartsRead(c)' = 0 BY <1>2, <2>5 DEF PartsRead, traffic
  <2>7. DownRead(c)' = 1 BY <2>2, <2>6 DEF DownRead
  <2>8. IsRun(down'[c], DownLine, 1, k)
    <3> DEFINE s == down[c]
    <3>1. s \in Seq(Messages) /\ s # <<>> /\ IsRun(s, DownLine, 0, k) BY <1>0, <2>1, <2>3, <2>4, FlowTypes
    <3> HIDE DEF s
    <3>2. IsRun(Tail(s), DownLine, 0 + 1, k) BY <3>1, MessagesHead
    <3> QED BY <2>1, <3>2 DEF s
  <2>9. SentTo(c)' = SentTo(c) /\ DownMost(c)' = DownMost(c) BY <1>0, <1>2, <2>1, DownMostIs DEF traffic
  <2> QED BY <2>1, <2>3, <2>7, <2>8, <2>9 DEF DownFlows
<1>8. CASE (Connect(c) \/ ConnectFails(c)) /\ d = c
  <2>1. client'[c] \in {"opening", "failed"} BY <1>1, <1>8 DEF Connect, ConnectFails, Connects
  <2>2. ~ClientMayRead(c)' BY <2>1 DEF ClientMayRead
  <2> QED BY <2>2 DEF DownFlows
<1> QED BY <1>3, <1>5, <1>6, <1>7, <1>8 DEF Connecting

\* The cut takes the last part, of a connection that the server has closed.
LEMMA DownStreams ==
  ASSUME FlowsInv, NEW c \in Clients, NEW d \in Clients, CutDown(d) \/ CutUp(d) \/ CloseClient(d) \/ ClientCloses(d)
  PROVE  DownFlows(c)'
<1> USE EndsAre, NamesAssumption
<1>0. Typed /\ Inv BY DEF FlowsInv, Inv
<1>1. DOMAIN down = Clients /\ d # Server BY <1>0, FlowTypes
<1>2. UNCHANGED <<handshake, serverOpen, traffic>> /\ clientOpen' \subseteq clientOpen
  BY <1>1 DEF CutDown, CutUp, CloseClient, ClientCloses, Shuts, ends
<1>3. CASE down'[c] = down[c] BY <1>2, <1>3, DownAlone DEF handshake, traffic
<1>4. CASE CutDown(c) /\ d = c
  <2> SUFFICES ASSUME ClientMayRead(c)' PROVE DownFlows(c)' BY DEF DownFlows
  <2>0. ClientMayRead(c) BY <1>2 DEF ClientMayRead, InFrame, handshake, traffic
  <2>1. c \notin serverOpen /\ down[c] # <<>> /\ down'[c] = SubSeq(down[c], 1, Len(down[c]) - 1) BY <1>1, <1>4 DEF CutDown
  <2>2. PICK k \in Nat : k <= DownMost(c) /\ IsRun(down[c], DownLine, DownRead(c), k) BY <2>0 DEF FlowsInv, DownFlows
  <2>3. down[c] \in Seq(Messages) /\ DownRead(c) \in Nat /\ DownMost(c) \in Nat BY <1>0, FlowTypes, DownMostIs
  <2>4. DownRead(c) <= k - 1 /\ IsRun(down'[c], DownLine, DownRead(c), k - 1)
    <3> DEFINE s == down[c]
               T == Messages
               i == DownRead(c)
    <3>1. s \in Seq(T) /\ s # <<>> /\ i \in Nat /\ k \in Nat /\ IsRun(s, DownLine, i, k) BY <2>1, <2>2, <2>3
    <3> HIDE DEF s, T, i
    <3>2. i <= k - 1 /\ IsRun(SubSeq(s, 1, Len(s) - 1), DownLine, i, k - 1) BY <3>1, RunCut
    <3> QED BY <2>1, <3>2 DEF s, i
  <2>5. k - 1 \in Nat /\ k - 1 <= DownMost(c) BY <2>2, <2>3, <2>4
  <2>6. DownRead(c)' = DownRead(c) /\ c \notin serverOpen' BY <1>2, <2>1 DEF DownRead, PartsRead, handshake, traffic
  <2>7. DownMost(c)' = DownMost(c) BY <1>0, <1>2, DownMostIs DEF handshake, traffic
  <2> QED BY <2>4, <2>5, <2>6, <2>7 DEF DownFlows
<1> QED BY <1>1, <1>3, <1>4 DEF CutDown, CutUp, CloseClient, ClientCloses, streams

\* A frame of the server follows those under way to whom it has kept.
LEMMA DownSend ==
  ASSUME FlowsInv, NEW c \in Clients, NEW e \in Ends, Send(e)
  PROVE  DownFlows(c)'
<1> USE EndsAre, NamesAssumption
<1>0. Typed /\ Inv BY DEF FlowsInv, Inv
<1>1. DOMAIN down = Clients /\ DOMAIN sent = Ends /\ c \in Ends BY <1>0, FlowTypes
<1>2. UNCHANGED <<held, serve, client, serverOpen, clientOpen, rd, got>> BY DEF Send, listener, handshake, ends
<1>3. ClientMayRead(c)' <=> ClientMayRead(c) BY <1>2 DEF ClientMayRead, InFrame
<1>4. CASE e # Server
  <2>1. down' = down /\ sent'[Server] = sent[Server] BY <1>1, <1>4 DEF Send, Writes
  <2> QED BY <1>2, <2>1, DownAlone
<1>5. CASE e = Server
  <2>1. /\ held \in Clients /\ held \in serverOpen /\ serve[held] = "kept"
        /\ sent[Server] < MaxFrames /\ sent'[Server] = sent[Server] + 1
        /\ down' = [down EXCEPT ![held] = @ \o <<Message("header", sent[Server] + 1), Message("payload", sent[Server] + 1)>>]
    BY <1>0, <1>1, <1>5, KeptIs DEF Send, Connection, IsOpen, Writes
  <2>2. CASE c # held
    <3>1. serve[c] # "kept" BY <1>0, <2>1, <2>2, KeptIs, ReservedAre
    <3>2. SentTo(c) = 0 /\ SentTo(c)' = 0 BY <1>2, <3>1 DEF SentTo
    <3>3. DownMost(c) \in Nat /\ DownMost(c)' = DownMost(c) BY <1>2, <3>2 DEF DownMost
    <3>4. down'[c] = down[c] BY <2>1, <2>2
    <3> QED BY <1>2, <1>3, <3>2, <3>3, <3>4, DownSame
  <2>3. CASE c = held
    <3> SUFFICES ASSUME ClientMayRead(c)' PROVE DownFlows(c)' BY DEF DownFlows
    <3>1. SentTo(c) = sent[Server] /\ SentTo(c)' = sent[Server] + 1 /\ sent[Server] \in Nat BY <1>0, <1>2, <2>1, <2>3, FlowTypes DEF SentTo
    <3>2. IsRun(down[c], DownLine, DownRead(c), 1 + 2 * sent[Server]) BY <1>3, <2>1, <2>3, <3>1 DEF FlowsInv, DownFlows
    <3>3. IsRun(down'[c], DownLine, DownRead(c), 1 + 2 * (sent[Server] + 1))
      <4> DEFINE s == down[c]
                 i == DownRead(c)
                 n == sent[Server]
      <4>1. s \in Seq(Messages) /\ i \in Nat /\ n \in Nat /\ n < MaxFrames /\ IsRun(s, DownLine, i, 1 + 2 * n)
        BY <1>0, <2>1, <3>1, <3>2, FlowTypes, DownMostIs
      <4>2. down'[c] = s \o <<Message("header", n + 1), Message("payload", n + 1)>> BY <1>1, <2>1, <2>3
      <4> HIDE DEF s, i, n
      <4>3. IsRun(s \o <<Message("header", n + 1), Message("payload", n + 1)>>, DownLine, i, 1 + 2 * (n + 1))
        BY <4>1, SendsNext, LinesAre
      <4> QED BY <4>2, <4>3 DEF s, i, n
    <3>4. DownRead(c)' = DownRead(c) BY <1>2 DEF DownRead, PartsRead
    <3>5. DownMost(c)' = 1 + 2 * (sent[Server] + 1) BY <1>2, <2>1, <2>3, <3>1 DEF DownMost, Known
    <3>6. /\ 1 + 2 * (sent[Server] + 1) \in Nat /\ 1 + 2 * (sent[Server] + 1) <= DownMost(c)'
          /\ IsRun(down'[c], DownLine, DownRead(c)', 1 + 2 * (sent[Server] + 1))
          /\ 1 + 2 * (sent[Server] + 1) = 1 + 2 * SentTo(c)'
      BY <3>1, <3>3, <3>4, <3>5
    <3> QED BY <3>6 DEF DownFlows
  <2> QED BY <2>2, <2>3
<1> QED BY <1>4, <1>5

\* A client's task reads the next part.
LEMMA DownTakes ==
  ASSUME FlowsInv, NEW c \in Clients, ReadHeader(c) \/ ReadPayload(c)
  PROVE  /\ DownFlows(c)'
         /\ \/ got' = got
            \/ serve[c] = "kept" /\ Len(got[c]) < sent[Server] /\ got' = [got EXCEPT ![c] = Append(@, Len(@) + 1)]
<1> USE EndsAre, NamesAssumption
<1>0. Typed /\ Inv /\ c # Server BY DEF FlowsInv, Inv
<1>1. InFrame(c) /\ client[c] = "connected" BY DEF ReadHeader, ReadPayload, InFrame, FlowsInv, Unused
<1>2. PICK k \in Nat : /\ k <= DownMost(c) /\ IsRun(down[c], DownLine, DownRead(c), k)
                       /\ serve[c] \in {"verified", "kept"} /\ c \in serverOpen => k = 1 + 2 * SentTo(c)
  BY <1>1 DEF FlowsInv, DownFlows, ClientMayRead
<1>3. Incoming(c) = down[c] /\ down[c] \in Seq(Messages) /\ DownRead(c) = 1 + PartsRead(c) /\ PartsRead(c) \in Nat
      /\ Len(got[c]) \in Nat /\ sent[Server] \in Nat
  BY <1>0, <1>1, FlowTypes DEF Incoming, DownRead
<1>4. /\ IsRun(Tail(Incoming(c)), DownLine, 1 + PartsRead(c)', k) /\ PartsRead(c)' \in Nat
      /\ 1 + PartsRead(c) + 1 <= k
      /\ \/ got' = got
         \/ rd[c] = "payload" /\ got' = [got EXCEPT ![c] = Append(@, Len(@) + 1)]
  <2>1. IsRun(Incoming(c), DownLine, 1 + PartsRead(c), k) BY <1>2, <1>3
  <2> QED BY <1>0, <1>3, <2>1, LinesAre, TakesNext
<1>5. ASSUME rd[c] = "payload" PROVE serve[c] = "kept" /\ Len(got[c]) < sent[Server]
  <2>1. PartsRead(c) = 2 * Len(got[c]) + 1 BY <1>5 DEF PartsRead
  <2>2. 1 + (2 * Len(got[c]) + 1) + 1 <= DownMost(c) BY <1>2, <1>3, <1>4, <2>1, <1>0, DownMostIs
  <2>3. DownMost(c) # 0 /\ DownMost(c) # 1 BY <1>3, <2>2
  <2>4. serve[c] = "kept" BY <2>3 DEF DownMost, SentTo
  <2>5. DownMost(c) = 1 + 2 * sent[Server] BY <2>4 DEF DownMost, SentTo, Known
  <2> QED BY <1>3, <2>2, <2>4, <2>5
<1>6. UNCHANGED <<serve, client, sent, clientOpen, serverOpen>> /\ down' = [down EXCEPT ![c] = Tail(@)]
  BY <1>0 DEF ReadHeader, ReadPayload, handshake, ends, Takes
<1>7. DownRead(c)' = 1 + PartsRead(c)' BY <1>1, <1>6 DEF DownRead
<1>8. down'[c] = Tail(Incoming(c)) BY <1>0, <1>3, <1>6, FlowTypes
<1>9. SentTo(c)' = SentTo(c) /\ DownMost(c)' = DownMost(c) BY <1>0, <1>6, DownMostIs
<1>10. DownFlows(c)' BY <1>2, <1>4, <1>6, <1>7, <1>8, <1>9 DEF DownFlows
<1> QED BY <1>4, <1>5, <1>10

\* A task of an end begins or ends an operation.
LEMMA DownOperation ==
  ASSUME FlowsInv, NEW c \in Clients, NEW e \in Ends,
         Recv(e) \/ Receiving(e) \/ Send(e) \/ Sending(e) \/ SendFails(e)
  PROVE  DownFlows(c)'
<1> USE EndsAre, NamesAssumption
<1>0. Typed /\ Inv BY DEF FlowsInv, Inv
<1>1. DOMAIN rd = Ends /\ DOMAIN got = Ends /\ DOMAIN down = Clients /\ c \in Ends /\ c # Server BY <1>0, FlowTypes
<1>1a. DownMost(c) \in Nat BY <1>0, DownMostIs
<1>2. CASE Recv(e)
  <2>1. UNCHANGED <<serve, client, serverOpen, clientOpen, down, sent, got>> BY <1>2 DEF Recv, handshake, ends, streams
  <2>2. CASE e # c
    <3>1. rd'[c] = rd[c] BY <1>1, <1>2, <2>2 DEF Recv, Reads
    <3> QED BY <2>1, <3>1, DownAlone
  <2>3. CASE e = c
    <3>1. client[c] = "connected" /\ c \in clientOpen /\ rd[c] = "idle" /\ rd'[c] = "header"
      BY <1>1, <1>2, <2>3 DEF Recv, Reads, IsOpen, Connection
    <3>2. ClientMayRead(c) BY <3>1 DEF ClientMayRead
    <3>3. SentTo(c)' = SentTo(c) /\ DownMost(c)' = DownMost(c) BY <1>0, <2>1, DownMostIs
    <3> QED BY <1>1a, <2>1, <3>1, <3>2, <3>3, DownSame
  <2> QED BY <2>2, <2>3
<1>3. CASE ReadHeader(e) \/ ReadPayload(e)
  <2>1. CASE e = c BY <1>3, <2>1, DownTakes
  <2>2. CASE e # c
    <3>1. UNCHANGED <<serve, client, serverOpen, clientOpen, sent>> BY <1>3 DEF ReadHeader, ReadPayload, handshake, ends
    <3>2. rd'[c] = rd[c] /\ got'[c] = got[c] /\ down'[c] = down[c]
      BY <1>1, <1>3, <2>2 DEF ReadHeader, ReadPayload, Reads, Takes
    <3> QED BY <3>1, <3>2, DownAlone
  <2> QED BY <2>1, <2>2
<1>4. CASE RecvFails(e)
  <2>1. UNCHANGED <<serve, client, down, sent, got>> /\ serverOpen' \subseteq serverOpen /\ clientOpen' \subseteq clientOpen
    BY <1>4 DEF RecvFails, Shuts, handshake, streams
  <2>2. CASE e # c
    <3>1. rd'[c] = rd[c] BY <1>1, <1>4, <2>2 DEF RecvFails, Reads
    <3> QED BY <2>1, <3>1, DownAlone
  <2>3. CASE e = c
    <3>1. rd'[c] = "idle" /\ c \notin clientOpen' BY <1>1, <1>4, <2>3 DEF RecvFails, Reads, Shuts
    <3>2. client[c] = "connected" BY <1>4, <2>3 DEF RecvFails, FlowsInv, Unused
    <3>3. ~ClientMayRead(c)' BY <2>1, <3>1, <3>2 DEF ClientMayRead, InFrame
    <3> QED BY <3>3 DEF DownFlows
  <2> QED BY <2>2, <2>3
<1>5. CASE SendDone(e) \/ SendFails(e)
  <2>1. UNCHANGED <<serve, client, down, sent, got, rd>> /\ serverOpen' \subseteq serverOpen /\ clientOpen' \subseteq clientOpen
    BY <1>5 DEF SendDone, SendFails, Shuts, handshake, streams, ends
  <2> QED BY <2>1, DownAlone
<1> QED BY <1>2, <1>3, <1>4, <1>5, DownSend DEF Receiving, Sending

\* The frames to a client.
LEMMA DownStep ==
  ASSUME FlowsInv, [Next]_vars, NEW c \in Clients
  PROVE  DownFlows(c)'
<1> USE EndsAre, NamesAssumption
<1>0. Typed /\ Inv BY DEF FlowsInv, Inv
<1>1. DOMAIN rd = Ends /\ c \in Ends /\ c # Server BY <1>0, FlowTypes
<1>2. CASE AwaitClient \/ ClientCame \/ AwaitCancelled \/ CloseServer
  <2>1. UNCHANGED <<serve, client, serverOpen, clientOpen, down, sent, got>>
    BY <1>2 DEF AwaitClient, ClientCame, AwaitCancelled, CloseServer, handshake, ends, streams
  <2>2. rd'[c] = rd[c] BY <1>1, <1>2 DEF AwaitClient, ClientCame, AwaitCancelled, CloseServer, Reads, Wakes
  <2> QED BY <2>1, <2>2, DownAlone
<1>3. CASE Start \/ Started \/ Revoke \/ ServerCloses \/ UNCHANGED vars
  <2>1. UNCHANGED <<serve, client, clientOpen, down, sent, got, rd>> /\ serverOpen' \subseteq serverOpen
    BY <1>3 DEF Start, Started, Revoke, ServerCloses, Shuts, vars, handshake, ends, streams, traffic
  <2> QED BY <2>1, DownAlone
<1>4. CASE \E d \in Clients : Connect(d) \/ Connecting(d) \/ Serving(d) \/ CutDown(d) \/ CutUp(d) \/ CloseClient(d) \/ ClientCloses(d)
  BY <1>4, DownServing, DownConnecting, DownStreams
<1> QED BY <1>2, <1>3, <1>4, DownOperation DEF Next

\* What the frames' way rests on is an invariant.
LEMMA FlowsStep == FlowsInv /\ [Next]_vars => FlowsInv'
<1> SUFFICES ASSUME FlowsInv, [Next]_vars PROVE FlowsInv' OBVIOUS
<1>1. Inv' BY InvStep DEF FlowsInv
<1>2. Unkept' /\ \A c \in Clients : Unused(c)' BY UnusedStep
<1>3. ASSUME NEW c \in Clients PROVE OneMessage(c)' /\ UpFlows(c)' /\ DownFlows(c)'
  BY OneMessageStep, UpStep, DownStep
<1> QED BY <1>1, <1>2, <1>3 DEF FlowsInv

----------------------------------------------------------------------------
\* What FrameLink calls sent and got.
LinkSent == [d \in Directions |-> IF d[2] = "up" THEN sent[d[1]] ELSE ByServer(d[1], sent, 0)]
LinkGot == [d \in Directions |-> IF d[2] = "down" THEN got[d[1]] ELSE ByServer(d[1], got, <<>>)]

\* A direction of a connection, by name.
Up(c) == <<c, "up">>
Down(c) == <<c, "down">>
Seen ==
  /\ LinkSent = [d \in Directions |-> LinkSent[d]] /\ LinkGot = [d \in Directions |-> LinkGot[d]]
  /\ \A c \in Clients :
       /\ LinkSent[Up(c)] = sent[c] /\ LinkSent[Down(c)] = IF serve[c] = "kept" THEN sent[Server] ELSE 0
       /\ LinkGot[Down(c)] = got[c] /\ LinkGot[Up(c)] = IF serve[c] = "kept" THEN got[Server] ELSE <<>>

\* There are two directions for each client, all different.
LEMMA DirectionsAre ==
  /\ \A d \in Directions : \E c \in Clients : d = Up(c) \/ d = Down(c)
  /\ \A c \in Clients : Up(c) \in Directions /\ Down(c) \in Directions
  /\ \A b, c \in Clients : Up(b) # Down(c) /\ (Up(b) = Up(c) => b = c) /\ (Down(b) = Down(c) => b = c)
BY DEF Directions, Up, Down

\* What the refinement maps the variables to.
LEMMA WhatIsSeen == Seen
BY DirectionsAre DEF Seen, LinkSent, LinkGot, ByServer, Up, Down

\* A frame sent in one direction, and a frame received.
LEMMA LinkSends ==
  ASSUME Seen, Seen', LinkGot' = LinkGot, NEW x \in Directions, LinkSent'[x] = LinkSent[x] + 1,
         \A d \in Directions : d # x => LinkSent'[d] = LinkSent[d]
  PROVE  Link!Next
<1>1. LinkSent' = [LinkSent EXCEPT ![x] = @ + 1] BY DEF Seen
<1>2. Link!Send(x) BY <1>1 DEF Link!Send, LinkSent, LinkGot
<1> QED BY <1>2 DEF Link!Next

\* The receiver of one direction gets the next frame.
LEMMA LinkReceives ==
  ASSUME Seen, Seen', LinkSent' = LinkSent, NEW x \in Directions, Len(LinkGot[x]) < LinkSent[x],
         LinkGot'[x] = Append(LinkGot[x], Len(LinkGot[x]) + 1),
         \A d \in Directions : d # x => LinkGot'[d] = LinkGot[d]
  PROVE  Link!Next
<1>1. LinkGot' = [LinkGot EXCEPT ![x] = Append(@, Len(@) + 1)] BY DEF Seen
<1>2. Link!Receive(x) BY <1>1 DEF Link!Receive, LinkSent, LinkGot
<1> QED BY <1>2 DEF Link!Next

\* The same connection is kept, or no frame has gone by the server.
LEMMA LinkSame ==
  ASSUME Seen, Seen', UNCHANGED <<sent, got>>,
         (\A c \in Clients : serve'[c] = "kept" <=> serve[c] = "kept") \/ (sent[Server] = 0 /\ got[Server] = <<>>)
  PROVE  UNCHANGED <<LinkSent, LinkGot>>
<1>1. ASSUME NEW c \in Clients
      PROVE  LinkSent'[Up(c)] = LinkSent[Up(c)] /\ LinkSent'[Down(c)] = LinkSent[Down(c)]
             /\ LinkGot'[Up(c)] = LinkGot[Up(c)] /\ LinkGot'[Down(c)] = LinkGot[Down(c)]
  BY DEF Seen
<1>2. \A d \in Directions : LinkSent'[d] = LinkSent[d] /\ LinkGot'[d] = LinkGot[d] BY <1>1, DirectionsAre
<1> QED BY <1>2 DEF Seen

\* A step that sends no frame and receives none.
LEMMA QuietPromised ==
  ASSUME FlowsInv, Seen, Seen', [Next]_vars, UNCHANGED <<sent, got>>
  PROVE  UNCHANGED <<LinkSent, LinkGot>>
<1>0. Inv /\ DOMAIN serve = Clients BY FlowTypes DEF FlowsInv, Inv
<1>1. CASE \A c \in Clients : serve'[c] = "kept" <=> serve[c] = "kept" BY <1>1, LinkSame
<1>2. ASSUME NEW d \in Clients, Keep(d) PROVE UNCHANGED <<LinkSent, LinkGot>>
  <2>1. \A c \in Clients : serve[c] # "kept" BY <1>0, <1>2, KeptIs, ReservedAre DEF Keep
  <2> QED BY <2>1, LinkSame DEF FlowsInv, Unkept
<1>3. ASSUME \A d \in Clients : ~Keep(d), NEW c \in Clients, serve'[c] = "kept" PROVE serve[c] = "kept"
  <2>1. CASE UNCHANGED handshake BY <1>3, <2>1 DEF handshake
  <2>2. ASSUME NEW d \in Clients, Serving(d) PROVE serve[c] = "kept"
    BY <1>0, <1>3, <2>2 DEF Serving, Handle, Challenge, Judge, HandshakeFails, LetsGo, Serves
  <2>3. ASSUME NEW d \in Clients, Connect(d) \/ Connecting(d) PROVE serve[c] = "kept"
    BY <1>0, <1>3, <2>3 DEF Connect, Connecting, Opened, Answer, Accepted, ConnectFails, Serves
  <2>4. ASSUME NEW d \in Clients, CutDown(d) \/ CutUp(d) \/ CloseClient(d) \/ ClientCloses(d) PROVE UNCHANGED handshake
    BY <2>4 DEF CutDown, CutUp, CloseClient, ClientCloses
  <2>5. ASSUME NEW e \in Ends, Recv(e) \/ Receiving(e) \/ Send(e) \/ Sending(e) \/ SendFails(e) PROVE UNCHANGED handshake
    BY <2>5 DEF Recv, Receiving, ReadHeader, ReadPayload, RecvFails, Send, Sending, SendDone, SendFails
  <2>6. CASE Start \/ Started \/ AwaitClient \/ ClientCame \/ AwaitCancelled \/ Revoke \/ CloseServer \/ ServerCloses \/ UNCHANGED vars
    BY <2>1, <2>6 DEF Start, Started, AwaitClient, ClientCame, AwaitCancelled, Revoke, CloseServer, ServerCloses, vars
  <2> QED BY <2>1, <2>2, <2>3, <2>4, <2>5, <2>6 DEF Next
<1>4. CASE \A d \in Clients : ~Keep(d) BY <1>0, <1>1, <1>3, <1>4, KeptStays
<1> QED BY <1>2, <1>4

\* A step sends a frame, or receives the next one, or neither.
LEMMA FlowsPromised == FlowsInv /\ [Next]_vars => [Link!Next]_<<LinkSent, LinkGot>>
<1> SUFFICES ASSUME FlowsInv, [Next]_vars PROVE [Link!Next]_<<LinkSent, LinkGot>> OBVIOUS
<1> USE EndsAre, NamesAssumption
<1>0. Typed /\ Inv BY DEF FlowsInv, Inv
<1>1. DOMAIN sent = Ends /\ DOMAIN got = Ends BY <1>0, FlowTypes
<1>2. Seen /\ Seen' BY WhatIsSeen, PTL
<1>3. ASSUME NEW e \in Ends, Send(e) PROVE Link!Next
  <2>0. sent' = [sent EXCEPT ![e] = @ + 1] /\ got' = got /\ serve' = serve BY <1>3 DEF Send, handshake
  <2>1. LinkGot' = LinkGot BY <2>0 DEF LinkGot, ByServer
  <2>2. CASE e # Server
    <3>1. ASSUME NEW d \in Directions, d # Up(e) PROVE LinkSent'[d] = LinkSent[d]
      <4>1. PICK c \in Clients : d = Up(c) \/ d = Down(c) BY DirectionsAre
      <4>2. CASE d = Down(c) BY <1>1, <1>2, <2>0, <2>2, <4>2 DEF Seen
      <4>3. CASE d = Up(c)
        <5>1. c # e BY <3>1, <4>3
        <5>2. sent'[c] = sent[c] BY <1>1, <2>0, <5>1
        <5> QED BY <1>2, <4>3, <5>2 DEF Seen
      <4> QED BY <4>1, <4>2, <4>3
    <3>2. LinkSent'[Up(e)] = LinkSent[Up(e)] + 1 BY <1>1, <1>2, <2>0, <2>2 DEF Seen
    <3> QED BY <1>2, <2>1, <2>2, <3>1, <3>2, DirectionsAre, LinkSends
  <2>3. CASE e = Server
    <3>1. held \in Clients /\ serve[held] = "kept" BY <1>0, <1>3, <2>3, KeptIs DEF Send, Connection
    <3>2. \A c \in Clients : c # held => serve[c] # "kept" BY <1>0, <3>1, KeptIs, ReservedAre
    <3>3. ASSUME NEW d \in Directions, d # Down(held) PROVE LinkSent'[d] = LinkSent[d]
      <4>1. PICK c \in Clients : d = Up(c) \/ d = Down(c) BY DirectionsAre
      <4>2. CASE d = Up(c) BY <1>1, <1>2, <2>0, <2>3, <4>2 DEF Seen
      <4>3. CASE d = Down(c)
        <5>1. serve[c] # "kept" BY <3>2, <3>3, <4>3
        <5> QED BY <1>2, <2>0, <4>3, <5>1 DEF Seen
      <4> QED BY <4>1, <4>2, <4>3
    <3>4. LinkSent'[Down(held)] = LinkSent[Down(held)] + 1 BY <1>1, <1>2, <2>0, <2>3, <3>1 DEF Seen
    <3> QED BY <1>2, <2>1, <3>1, <3>3, <3>4, DirectionsAre, LinkSends
  <2> QED BY <2>2, <2>3
<1>4. ASSUME NEW e \in Ends, ReadHeader(e) \/ ReadPayload(e), got' # got PROVE Link!Next
  <2>0. sent' = sent /\ serve' = serve BY <1>4 DEF ReadHeader, ReadPayload, handshake
  <2>1. LinkSent' = LinkSent BY <2>0 DEF LinkSent, ByServer
  <2>2. CASE e # Server
    <3>1. serve[e] = "kept" /\ Len(got[e]) < sent[Server] /\ got' = [got EXCEPT ![e] = Append(@, Len(@) + 1)]
      BY <1>4, <2>2, DownTakes
    <3>2. ASSUME NEW d \in Directions, d # Down(e) PROVE LinkGot'[d] = LinkGot[d]
      <4>1. PICK c \in Clients : d = Up(c) \/ d = Down(c) BY DirectionsAre
      <4>2. CASE d = Up(c) BY <1>1, <1>2, <2>0, <2>2, <3>1, <4>2 DEF Seen
      <4>3. CASE d = Down(c)
        <5>1. c # e BY <3>2, <4>3
        <5>2. got'[c] = got[c] BY <1>1, <3>1, <5>1
        <5> QED BY <1>2, <4>3, <5>2 DEF Seen
      <4> QED BY <4>1, <4>2, <4>3
    <3>3. LinkGot'[Down(e)] = Append(LinkGot[Down(e)], Len(LinkGot[Down(e)]) + 1) /\ Len(LinkGot[Down(e)]) < LinkSent[Down(e)]
      BY <1>1, <1>2, <2>2, <3>1 DEF Seen
    <3> QED BY <1>2, <2>1, <2>2, <3>2, <3>3, DirectionsAre, LinkReceives
  <2>3. CASE e = Server
    <3>1. held \in Clients /\ serve[held] = "kept" /\ Len(got[Server]) < sent[held] /\ got' = [got EXCEPT ![Server] = Append(@, Len(@) + 1)]
      BY <1>4, <2>3, UpRead
    <3>2. \A c \in Clients : c # held => serve[c] # "kept" BY <1>0, <3>1, KeptIs, ReservedAre
    <3>3. ASSUME NEW d \in Directions, d # Up(held) PROVE LinkGot'[d] = LinkGot[d]
      <4>1. PICK c \in Clients : d = Up(c) \/ d = Down(c) BY DirectionsAre
      <4>2. CASE d = Down(c) BY <1>1, <1>2, <2>0, <3>1, <4>2 DEF Seen
      <4>3. CASE d = Up(c)
        <5>1. serve[c] # "kept" BY <3>2, <3>3, <4>3
        <5> QED BY <1>2, <2>0, <4>3, <5>1 DEF Seen
      <4> QED BY <4>1, <4>2, <4>3
    <3>4. LinkGot'[Up(held)] = Append(LinkGot[Up(held)], Len(LinkGot[Up(held)]) + 1) /\ Len(LinkGot[Up(held)]) < LinkSent[Up(held)]
      BY <1>1, <1>2, <2>0, <3>1 DEF Seen
    <3> QED BY <1>2, <2>1, <3>1, <3>3, <3>4, DirectionsAre, LinkReceives
  <2> QED BY <2>2, <2>3
<1>5. CASE UNCHANGED <<sent, got>> BY <1>2, <1>5, QuietPromised
<1>6. CASE sent' # sent
  <2>1. PICK e \in Ends : sent'[e] # sent[e]
    <3>1. sent \in [Ends -> 0..MaxFrames] /\ sent' \in [Ends -> 0..MaxFrames] BY <1>0, TypedStep DEF Typed, TypeOK
    <3> QED BY <1>6, <3>1
  <2>2. Send(e) BY <1>0, <2>1, TrafficMoves
  <2> QED BY <1>3, <2>2
<1>7. CASE got' # got
  <2>1. PICK e \in Ends : got'[e] # got[e]
    <3>1. got \in [Ends -> Seq(0..MaxFrames)] /\ got' \in [Ends -> Seq(0..MaxFrames)] BY <1>0, TypedStep DEF Typed, TypeOK
    <3> QED BY <1>7, <3>1
  <2>2. ReadHeader(e) \/ ReadPayload(e) BY <1>0, <2>1, TrafficMoves
  <2> QED BY <1>4, <1>7, <2>2
<1> QED BY <1>5, <1>6, <1>7

\* For any number of clients and frames, whatever fails or is cancelled: each
\* connection is a FrameLink in both directions.
THEOREM TcpIsFrameLink == Spec => LinkSpec
<1>1. Init => Link!Init
  <2> SUFFICES ASSUME Init PROVE Link!Init OBVIOUS
  <2>1. \A d \in Directions : d[1] \in Clients BY DEF Directions
  <2> QED BY <2>1, EndsAre DEF Init, Link!Init, ByServer
<1> QED BY <1>1, FlowsInit, FlowsStep, FlowsPromised, PTL DEF Spec, LinkSpec, Link!Spec, LinkSent, LinkGot

----------------------------------------------------------------------------
\* What TcpMulticast assumes of its limits.
LEMMA MulticastLimits ==
  /\ MaxConnections \in Nat \ {0} /\ QueueSize \in Nat \ {0}
  /\ IdleTimeout \in Nat /\ MostFrames \in Nat /\ Tcp!IsFiniteSet(Peers)
BY TcpAssumption DEF Tcp!LimitsAssumption, Tcp!BoundsAssumption, Tcp!ClientsAssumption

\* TcpMulticast has the operators of the libraries under names of its own.
LEMMA SameOperators ==
  /\ \A s, S : Tcp!Kept(s, S) = Kept(s, S)
  /\ \A S : Tcp!Cardinality(S) = Cardinality(S)
  /\ \A S : Tcp!IsFiniteSet(S) <=> IsFiniteSet(S)
<1>1. \A s, S : Tcp!Kept(s, S) = Kept(s, S)
  BY DEF Tcp!Kept, Tcp!KeptSoFar, Kept, KeptSoFar
<1>2. \A S : Tcp!Cardinality(S) = Cardinality(S) BY DEF Tcp!Cardinality, Cardinality
<1>3. \A S : Tcp!IsFiniteSet(S) <=> IsFiniteSet(S) BY DEF Tcp!IsFiniteSet, IsFiniteSet
<1> QED BY <1>1, <1>2, <1>3

\* The connections with a task, and the numbers of the frames in a sequence.
Served == {c \in Peers : Tcp!Serving(c)}
Numbers(s) == [i \in 1..Len(s) |-> s[i].n]
FirstFrames(k) == [i \in 1..k |-> i]

\* A stream is open before its client is registered, or it has an entry.
OpenKept == \A c \in open : conn[c] = "auth" \/ c \in clients

\* Only a reader has frames in the queue, and one that waits for room has read a frame.
Buffers(c) ==
  /\ Tcp!Closing \/ conn[c] \in {"reading", "put"} \/ Tcp!Of(c) = <<>>
  /\ conn[c] = "put" => frames[c] > 0
Buffered == \A c \in Peers : Buffers(c)

\* The invariant of the connections.
TcpInv ==
  /\ Tcp!TypeOK /\ Tcp!SlotsExact /\ Tcp!RegisteredIsServed /\ Tcp!NothingOutlivesClose
  /\ OpenKept /\ Buffered /\ FramesInOrder

----------------------------------------------------------------------------
\* Steps: what ends the task of a connection, or its reading.
Stops(c) ==
  /\ conn[c] \in {"auth", "reading", "put"}
  /\ Tcp!Finally(c)
  /\ UNCHANGED <<eof, quiet, left, frames, received, sends, failed, shutdown>>

\* Whatever ends a reader, it ends in the same way.
LEMMA TcpCases ==
  ASSUME Tcp!Next
  PROVE  \/ \E c \in Peers : \/ Tcp!Connect(c) \/ Tcp!Register(c) \/ Tcp!ReadFrame(c) \/ Tcp!Put(c)
                             \/ Tcp!CleanedUp(c) \/ Tcp!HangUp(c) \/ Tcp!Revoke(c) \/ Stops(c)
         \/ \E s \in Senders : \/ \E c \in Peers : Tcp!SendStart(s, c) \/ Tcp!SendIdle(s, c)
                               \/ Tcp!SendWrite(s) \/ Tcp!SendDone(s) \/ Tcp!SendFails(s) \/ Tcp!SendClosed(s)
         \/ Tcp!Recv \/ Tcp!Close \/ Tcp!CloseReaders \/ Tcp!CloseConnections \/ Tcp!Tick
<1>1. \A c \in Peers : Tcp!Unauthenticated(c) => Stops(c) BY Zenon DEF Tcp!Unauthenticated, Stops
<1>2. \A c \in Peers : Tcp!ReaderLoses(c) => Stops(c) BY Zenon DEF Tcp!ReaderLoses, Stops
<1>3. \A c \in Peers : Tcp!ReaderRejects(c) => Stops(c) BY Zenon DEF Tcp!ReaderRejects, Stops
<1>4. \A c \in Peers : Tcp!ReaderIdles(c) => Stops(c) BY Zenon DEF Tcp!ReaderIdles, Stops
<1>5. \A c \in Peers : Tcp!ReaderCancelled(c) => Stops(c) BY Zenon DEF Tcp!ReaderCancelled, Stops
<1> QED BY <1>1, <1>2, <1>3, <1>4, <1>5, Zenon DEF Tcp!Next, Tcp!Connection

\* Nothing happens before the first connection.
LEMMA TcpInvInit == Tcp!Init => TcpInv
<1> SUFFICES ASSUME Tcp!Init PROVE TcpInv
  OBVIOUS
<1> USE MulticastLimits
<1>1. Tcp!TypeOK
  <2>1. /\ conn \in [Peers -> {"none", "auth", "reading", "put", "cleanup", "gone"}] /\ active \in 0..MaxConnections
        /\ clients \subseteq Peers /\ open \subseteq Peers /\ eof \subseteq Peers /\ failed \subseteq Peers
        /\ frames \in [Peers -> 0..MostFrames]
    BY DEF Tcp!Init
  <2>2. queue \in Seq(Tcp!Frame) /\ received \in [Peers -> Seq(1..MostFrames)] BY DEF Tcp!Init
  <2>3. sends \in [Senders -> {Tcp!NotSending} \cup [at : {"lock", "drain", "closing"}, to : Peers]]
    BY DEF Tcp!Init
  <2>4. shutdown \in {"open", "draining", "readers", "closed"} BY DEF Tcp!Init
  <2>5. quiet \in [Peers -> 0..IdleTimeout] /\ left \in [Peers -> 0..IdleTimeout] BY DEF Tcp!Init
  <2> QED BY <2>1, <2>2, <2>3, <2>4, <2>5 DEF Tcp!TypeOK
<1>2. Tcp!SlotsExact
  <2>1. {c \in Peers : Tcp!Serving(c)} = {} BY DEF Tcp!Init, Tcp!Serving
  <2> QED BY <2>1, FS_EmptySet, SameOperators DEF Tcp!SlotsExact, Tcp!Init
<1>3. \A c \in Peers : Tcp!Of(c) = <<>> BY SameOperators, KeptEmpty DEF Tcp!Of, Tcp!Init
<1>4. FramesInOrder
  <2> SUFFICES ASSUME NEW c \in Peers
               PROVE  received[c] \o [i \in 1..Len(Tcp!Of(c)) |-> Tcp!Of(c)[i].n]
                        = [i \in 1..(frames[c] - IF conn[c] = "put" THEN 1 ELSE 0) |-> i]
    BY DEF FramesInOrder, Tcp!FramesInOrder
  <2>1. received[c] = <<>> /\ Tcp!Of(c) = <<>> /\ frames[c] - (IF conn[c] = "put" THEN 1 ELSE 0) = 0 BY <1>3 DEF Tcp!Init
  <2>2. [i \in 1..0 |-> i] = <<>> OBVIOUS
  <2>3. [i \in 1..Len(Tcp!Of(c)) |-> Tcp!Of(c)[i].n] = <<>> BY <2>1
  <2> QED BY <2>1, <2>2, <2>3
<1>5. Tcp!RegisteredIsServed /\ Tcp!NothingOutlivesClose /\ OpenKept
  BY DEF Tcp!Init, Tcp!RegisteredIsServed, Tcp!NothingOutlivesClose, OpenKept
<1>6. Buffered BY <1>3 DEF Tcp!Init, Buffered, Buffers
<1> QED BY <1>1, <1>2, <1>4, <1>5, <1>6 DEF TcpInv

----------------------------------------------------------------------------
\* The bound on the frames that are read.
LEMMA FramesBounded ==
  ASSUME Tcp!TypeOK, NEW c \in Peers, Tcp!Cardinality(Tcp!FramesRead) < MostFrames
  PROVE  frames[c] < MostFrames
<1> USE MulticastLimits
<1> DEFINE k == frames[c]
           Number == [i \in 1..k |-> [from |-> c, n |-> i]]
           Pairs == Peers \X (1..MostFrames)
           Framed == [p \in Pairs |-> [from |-> p[1], n |-> p[2]]]
<1>1. k \in 0..MostFrames BY DEF Tcp!TypeOK
<1>2. IsFiniteSet(Tcp!Frame)
  <2>1. IsFiniteSet(Peers) /\ IsFiniteSet(1..MostFrames) BY SameOperators, FS_Interval
  <2>2. IsFiniteSet(Pairs) BY <2>1, FS_Product
  <2>3. Framed \in Surjection(Pairs, Tcp!Frame)
    <3>1. Framed \in [Pairs -> Tcp!Frame] BY DEF Tcp!Frame
    <3>2. \A f \in Tcp!Frame : \E p \in Pairs : Framed[p] = f
      <4> SUFFICES ASSUME NEW f \in Tcp!Frame PROVE \E p \in Pairs : Framed[p] = f OBVIOUS
      <4>1. <<f.from, f.n>> \in Pairs /\ f = [from |-> f.from, n |-> f.n] BY DEF Tcp!Frame
      <4> QED BY <4>1
    <3> HIDE DEF Framed, Pairs
    <3> QED BY <3>1, <3>2 DEF Surjection
  <2> HIDE DEF Framed, Pairs
  <2> QED BY <2>2, <2>3, FS_Surjection
<1>3. IsFiniteSet(Tcp!FramesRead) BY <1>2, FS_Subset DEF Tcp!FramesRead
<1>4. Number \in Injection(1..k, Tcp!FramesRead)
  <2>1. \A i \in 1..k : [from |-> c, n |-> i] \in Tcp!FramesRead BY <1>1 DEF Tcp!FramesRead, Tcp!Frame
  <2>2. \A i, j \in 1..k : Number[i] = Number[j] => i = j
    <3> SUFFICES ASSUME NEW i \in 1..k, NEW j \in 1..k, Number[i] = Number[j] PROVE i = j OBVIOUS
    <3>1. Number[i].n = i /\ Number[j].n = j OBVIOUS
    <3> QED BY <3>1
  <2>3. Number \in [1..k -> Tcp!FramesRead] BY <2>1
  <2> HIDE DEF Number, k
  <2> QED BY <2>2, <2>3 DEF Injection, IsInjective
<1>5. Cardinality(1..k) <= Cardinality(Tcp!FramesRead)
  <2> HIDE DEF Number, k
  <2> QED BY <1>3, <1>4, FS_Injection
<1>6. Cardinality(1..k) = k
  <2>1. 1 \in Int /\ k \in Int BY <1>1
  <2> HIDE DEF k
  <2>2. Cardinality(1..k) = IF 1 > k THEN 0 ELSE k - 1 + 1 BY <2>1, FS_Interval
  <2> QED BY <1>1, <2>2
<1>7. Cardinality(Tcp!FramesRead) < MostFrames BY SameOperators
<1>8. Cardinality(Tcp!FramesRead) \in Nat BY <1>3, FS_CardinalityType
<1> HIDE DEF k
<1> QED BY <1>1, <1>5, <1>6, <1>7, <1>8 DEF k

\* What is left of the queue when the frames of a client are dropped.
LEMMA PeerDropped ==
  ASSUME queue \in Seq(Tcp!Frame), NEW c \in Peers, Tcp!DropPeer(c)
  PROVE  /\ queue' \in Seq(Tcp!Frame)
         /\ Tcp!Of(c)' = <<>>
         /\ \A d \in Peers \ {c} : Tcp!Of(d)' = Tcp!Of(d)
<1> DEFINE F == Tcp!Frame
           q == Kept(queue, F \ Tcp!From(c))
<1>1. queue' = q BY SameOperators DEF Tcp!DropPeer
<1>2. q \in Seq(F) BY KeptItems
<1>3. \A S : Kept(q, S) = Kept(queue, (F \ Tcp!From(c)) \cap S) BY KeptTwice
<1>4. (F \ Tcp!From(c)) \cap Tcp!From(c) = {} OBVIOUS
<1>5. \A d \in Peers \ {c} : (F \ Tcp!From(c)) \cap Tcp!From(d) = Tcp!From(d) BY DEF Tcp!From
<1>6. Kept(queue, {}) = <<>> BY KeptAllOrNone
<1>7. \A d \in Peers : Tcp!Of(d)' = Kept(q, Tcp!From(d)) BY <1>1, SameOperators DEF Tcp!Of, Tcp!From, Tcp!Frame
<1>8. \A d \in Peers : Tcp!Of(d) = Kept(queue, Tcp!From(d)) BY SameOperators DEF Tcp!Of
<1> HIDE DEF q, F
<1> QED BY <1>1, <1>2, <1>3, <1>4, <1>5, <1>6, <1>7, <1>8 DEF F

\* What a put does to the queue.
LEMMA PeerQueued ==
  ASSUME queue \in Seq(Tcp!Frame), NEW c \in Peers, NEW k \in 1..MostFrames, Tcp!Queued(c, k)
  PROVE  /\ queue' \in Seq(Tcp!Frame)
         /\ Tcp!Of(c)' = Append(Tcp!Of(c), [from |-> c, n |-> k])
         /\ \A d \in Peers \ {c} : Tcp!Of(d)' = Tcp!Of(d)
<1> DEFINE f == [from |-> c, n |-> k]
<1>1. f \in Tcp!Frame /\ f \in Tcp!From(c) /\ \A d \in Peers \ {c} : f \notin Tcp!From(d) BY DEF Tcp!Frame, Tcp!From
<1>2. queue' = Append(queue, f) BY DEF Tcp!Queued
<1>3. \A d \in Peers : Tcp!Of(d)' = Kept(Append(queue, f), Tcp!From(d))
  BY <1>2, SameOperators DEF Tcp!Of, Tcp!From, Tcp!Frame
<1>4. \A d \in Peers : Tcp!Of(d) = Kept(queue, Tcp!From(d)) BY SameOperators DEF Tcp!Of
<1> HIDE DEF f
<1>5. \A S : Kept(Append(queue, f), S) = IF f \in S THEN Append(Kept(queue, S), f) ELSE Kept(queue, S)
  BY <1>1, KeptAppend
<1> QED BY <1>1, <1>2, <1>3, <1>4, <1>5 DEF f

\* What recv() takes from the queue.
LEMMA PeerReceived ==
  ASSUME queue \in Seq(Tcp!Frame), queue # <<>>, queue' = Tail(queue)
  PROVE  /\ queue' \in Seq(Tcp!Frame) /\ Head(queue) \in Tcp!Frame
         /\ \A d \in Peers : Tcp!Of(d) = IF d = Head(queue).from THEN <<Head(queue)>> \o Tcp!Of(d)' ELSE Tcp!Of(d)'
         /\ \A d \in Peers : Tcp!Of(d)' \in Seq(Tcp!Frame)
<1> DEFINE h == Head(queue)
<1>1. h \in Tcp!Frame /\ Tail(queue) \in Seq(Tcp!Frame) BY HeadAndTail
<1>2. h.from \in Peers BY <1>1 DEF Tcp!Frame
<1>3. \A d \in Peers : h \in Tcp!From(d) <=> h.from = d BY <1>1 DEF Tcp!From
<1>4. \A d \in Peers : Tcp!Of(d) = Kept(queue, Tcp!From(d)) BY SameOperators DEF Tcp!Of
<1>5. \A d \in Peers : Tcp!Of(d)' = Kept(Tail(queue), Tcp!From(d))
  BY SameOperators DEF Tcp!Of, Tcp!From, Tcp!Frame
<1>6. \A S : Kept(queue, S) = (IF h \in S THEN <<h>> ELSE <<>>) \o Kept(Tail(queue), S) BY KeptHead
<1>7. \A S : Kept(Tail(queue), S) \in Seq(Tcp!Frame) BY <1>1, KeptItems
<1> HIDE DEF h
<1>8. \A d \in Peers : h \notin Tcp!From(d) => Tcp!Of(d) = Tcp!Of(d)'
  <2> SUFFICES ASSUME NEW d \in Peers, h \notin Tcp!From(d) PROVE Tcp!Of(d) = Tcp!Of(d)' OBVIOUS
  <2>1. Kept(queue, Tcp!From(d)) = <<>> \o Kept(Tail(queue), Tcp!From(d)) BY <1>6
  <2>2. \A u \in Seq(Tcp!Frame) : <<>> \o u = u OBVIOUS
  <2> QED BY <1>4, <1>5, <1>7, <2>1, <2>2
<1>9. \A d \in Peers : h \in Tcp!From(d) => Tcp!Of(d) = <<h>> \o Tcp!Of(d)'
  BY <1>4, <1>5, <1>6
<1> QED BY <1>1, <1>2, <1>3, <1>5, <1>7, <1>8, <1>9 DEF h
----------------------------------------------------------------------------
\* The types.
LEMMA TcpTyped ==
  ASSUME Tcp!TypeOK, Tcp!SlotsExact, Buffered, Tcp!Next
  PROVE  Tcp!TypeOK'
<1> USE MulticastLimits DEF Tcp!TypeOK
<1>0. IsFiniteSet(Served)
  <2>1. Served \subseteq Peers BY DEF Served
  <2> QED BY <2>1, SameOperators, FS_Subset
<1>a. ASSUME NEW c \in Served PROVE active - 1 \in 0..MaxConnections
  <2>1. active = Cardinality(Served) BY SameOperators DEF Tcp!SlotsExact, Served
  <2>2. Served # {} OBVIOUS
  <2>3. active # 0 BY <1>0, <2>1, <2>2, FS_EmptySet
  <2> QED BY <2>3
<1>c. 0 \in 0..IdleTimeout /\ IdleTimeout \in 0..IdleTimeout OBVIOUS
<1>1. ASSUME NEW c \in Peers, Tcp!Connect(c) PROVE Tcp!TypeOK'
  <2>1. active' \in 0..MaxConnections
    <3>1. active' = active \/ (~(active >= MaxConnections) /\ active' = active + 1) BY <1>1 DEF Tcp!Connect
    <3> QED BY <3>1
  <2>2. conn' \in [Peers -> {"none", "auth", "reading", "put", "cleanup", "gone"}]
    BY <1>1 DEF Tcp!Connect, Tcp!Moves
  <2>3. open' \subseteq Peers BY <1>1 DEF Tcp!Connect
  <2> QED BY <1>1, <2>1, <2>2, <2>3 DEF Tcp!Connect
<1>2. ASSUME NEW c \in Peers, Tcp!Register(c) PROVE Tcp!TypeOK'
  BY <1>2 DEF Tcp!Register, Tcp!Moves
<1>3. ASSUME NEW c \in Peers, Tcp!ReadFrame(c) PROVE Tcp!TypeOK'
  <2>1. frames[c] < MostFrames BY <1>3, FramesBounded DEF Tcp!ReadFrame
  <2>2. frames[c] + 1 \in 1..MostFrames BY <2>1
  <2>3. frames' = [frames EXCEPT ![c] = frames[c] + 1] /\ frames'[c] = frames[c] + 1 BY <1>3 DEF Tcp!ReadFrame
  <2>4. frames' \in [Peers -> 0..MostFrames] BY <2>2, <2>3
  <2>5. queue' \in Seq(Tcp!Frame)
    <3>1. CASE Tcp!Queued(c, frames'[c]) BY <2>2, <2>3, <3>1, PeerQueued
    <3> QED BY <1>3, <3>1 DEF Tcp!ReadFrame
  <2>6. conn' \in [Peers -> {"none", "auth", "reading", "put", "cleanup", "gone"}]
    BY <1>3 DEF Tcp!ReadFrame, Tcp!Moves
  <2>7. quiet' \in [Peers -> 0..IdleTimeout]
    <3>1. quiet' = [quiet EXCEPT ![c] = 0] BY <1>3 DEF Tcp!ReadFrame
    <3> QED BY <1>c, <3>1
  <2>8. left' \in [Peers -> 0..IdleTimeout]
    <3>1. left' = left \/ left' = [left EXCEPT ![c] = IdleTimeout] BY <1>3 DEF Tcp!ReadFrame
    <3> QED BY <1>c, <3>1
  <2> QED BY <1>3, <2>4, <2>5, <2>6, <2>7, <2>8 DEF Tcp!ReadFrame
<1>4. ASSUME NEW c \in Peers, Tcp!Put(c) PROVE Tcp!TypeOK'
  <2>1. frames[c] \in 1..MostFrames BY <1>4 DEF Tcp!Put, Buffered, Buffers
  <2>2. queue' \in Seq(Tcp!Frame) BY <1>4, <2>1, PeerQueued DEF Tcp!Put
  <2> QED BY <1>4, <2>2 DEF Tcp!Put, Tcp!Moves
<1>5. ASSUME NEW c \in Peers, Tcp!CleanedUp(c) PROVE Tcp!TypeOK'
  <2>1. c \in Served BY <1>5 DEF Tcp!CleanedUp, Served, Tcp!Serving
  <2> QED BY <1>5, <2>1, <1>a DEF Tcp!CleanedUp, Tcp!Ends, Tcp!Moves, Tcp!peer
<1>6. ASSUME NEW c \in Peers, Tcp!HangUp(c) PROVE Tcp!TypeOK'
  BY <1>6 DEF Tcp!HangUp
<1>7. ASSUME NEW c \in Peers, Tcp!Revoke(c) PROVE Tcp!TypeOK'
  BY <1>7 DEF Tcp!Revoke
<1>8. ASSUME NEW c \in Peers, Stops(c) PROVE Tcp!TypeOK'
  <2>1. c \in Served BY <1>8 DEF Stops, Served, Tcp!Serving
  <2>2. active - 1 \in 0..MaxConnections BY <2>1, <1>a
  <2>3. CASE Tcp!Closing /\ conn[c] # "auth"
    BY <1>8, <2>2, <2>3 DEF Stops, Tcp!Finally, Tcp!Ends, Tcp!Moves
  <2>4. CASE ~(Tcp!Closing /\ conn[c] # "auth") /\ conn[c] # "auth"
    <3>1. queue' \in Seq(Tcp!Frame) BY <1>8, <2>4, PeerDropped DEF Stops, Tcp!Finally
    <3> QED BY <1>8, <2>4, <3>1 DEF Stops, Tcp!Finally, Tcp!Moves
  <2>5. CASE conn[c] = "auth"
    BY <1>8, <2>5 DEF Stops, Tcp!Finally, Tcp!Moves
  <2> QED BY <2>3, <2>4, <2>5
<1> DEFINE SendStates == {Tcp!NotSending} \cup [at : {"lock", "drain", "closing"}, to : Peers]
<1>9. ASSUME NEW s \in Senders, NEW c \in Peers, Tcp!SendStart(s, c) PROVE Tcp!TypeOK'
  <2>1. sends' \in [Senders -> SendStates] BY <1>9 DEF Tcp!SendStart
  <2> QED BY <1>9, <2>1 DEF Tcp!SendStart, Tcp!peer
<1>10. ASSUME NEW s \in Senders, NEW c \in Peers, Tcp!SendIdle(s, c) PROVE Tcp!TypeOK'
  <2>1. sends' \in [Senders -> SendStates] BY <1>10 DEF Tcp!SendIdle
  <2> QED BY <1>10, <2>1 DEF Tcp!SendIdle
<1>b. ASSUME NEW s \in Senders, sends[s].at # "idle"
      PROVE  sends[s] \in [at : {"lock", "drain", "closing"}, to : Peers]
  BY <1>b DEF Tcp!NotSending
<1>11. ASSUME NEW s \in Senders, Tcp!SendWrite(s) PROVE Tcp!TypeOK'
  <2>1. sends[s] \in [at : {"lock", "drain", "closing"}, to : Peers] BY <1>11, <1>b DEF Tcp!SendWrite, Tcp!Sending
  <2>2. sends' = [sends EXCEPT ![s] = [sends[s] EXCEPT !.at = "drain"]] BY <1>11 DEF Tcp!SendWrite
  <2>3. [sends[s] EXCEPT !.at = "drain"] \in SendStates BY <2>1
  <2>4. sends' \in [Senders -> SendStates] BY <2>2, <2>3
  <2> QED BY <1>11, <2>4 DEF Tcp!SendWrite, Tcp!peer
<1>12. ASSUME NEW s \in Senders, Tcp!SendDone(s) PROVE Tcp!TypeOK'
  <2>1. sends' \in [Senders -> SendStates] BY <1>12 DEF Tcp!SendDone
  <2>2. quiet' \in [Peers -> 0..IdleTimeout]
    <3>1. quiet' = [quiet EXCEPT ![sends[s].to] = 0] BY <1>12 DEF Tcp!SendDone
    <3> QED BY <1>c, <3>1
  <2> QED BY <1>12, <2>1, <2>2 DEF Tcp!SendDone
<1>13. ASSUME NEW s \in Senders, Tcp!SendFails(s) PROVE Tcp!TypeOK'
  <2>1. sends[s] \in [at : {"lock", "drain", "closing"}, to : Peers] BY <1>13, <1>b DEF Tcp!SendFails, Tcp!Sending
  <2>2. sends' = [sends EXCEPT ![s] = [sends[s] EXCEPT !.at = "closing"]] BY <1>13 DEF Tcp!SendFails
  <2>3. [sends[s] EXCEPT !.at = "closing"] \in SendStates BY <2>1
  <2>4. sends' \in [Senders -> SendStates] BY <2>2, <2>3
  <2> DEFINE c == sends[s].to
  <2>5. c \in Peers BY <2>1
  <2>6. /\ open' = open \ {c} /\ failed' = failed \cup {c}
        /\ (clients' = clients \ {c} /\ Tcp!DropPeer(c)) \/ (clients' = clients /\ queue' = queue)
    BY <1>13 DEF Tcp!SendFails
  <2> HIDE DEF c
  <2>7. queue' \in Seq(Tcp!Frame) BY <2>5, <2>6, PeerDropped
  <2> QED BY <1>13, <2>4, <2>5, <2>6, <2>7 DEF Tcp!SendFails
<1>14. ASSUME NEW s \in Senders, Tcp!SendClosed(s) PROVE Tcp!TypeOK'
  <2>1. sends' \in [Senders -> SendStates] BY <1>14 DEF Tcp!SendClosed
  <2> QED BY <1>14, <2>1 DEF Tcp!SendClosed, Tcp!peer
<1>15. CASE Tcp!Recv
  <2> DEFINE h == Head(queue)
  <2>1. h \in Tcp!Frame /\ queue' \in Seq(Tcp!Frame) BY <1>15, PeerReceived DEF Tcp!Recv
  <2>2. h.from \in Peers /\ h.n \in 1..MostFrames BY <2>1 DEF Tcp!Frame
  <2>3. received' = [received EXCEPT ![h.from] = Append(received[h.from], h.n)] BY <1>15 DEF Tcp!Recv
  <2> HIDE DEF h
  <2>4. Append(received[h.from], h.n) \in Seq(1..MostFrames) BY <2>2
  <2>5. received' \in [Peers -> Seq(1..MostFrames)] BY <2>2, <2>3, <2>4
  <2> QED BY <1>15, <2>1, <2>5 DEF Tcp!Recv, Tcp!peer
<1>16. CASE Tcp!Close
  <2>1. queue' \in Seq(Tcp!Frame) BY <1>16 DEF Tcp!Close
  <2> QED BY <1>16, <2>1 DEF Tcp!Close, Tcp!Stage, Tcp!peer
<1>17. CASE Tcp!CloseReaders BY <1>17 DEF Tcp!CloseReaders, Tcp!Stage, Tcp!peer
<1>18. CASE Tcp!CloseConnections BY <1>18 DEF Tcp!CloseConnections, Tcp!Stage
<1>19. CASE Tcp!Tick
  <2>1. quiet' \in [Peers -> 0..IdleTimeout] BY <1>19 DEF Tcp!Tick
  <2>2. left' \in [Peers -> 0..IdleTimeout] BY <1>19 DEF Tcp!Tick
  <2> QED BY <1>19, <2>1, <2>2 DEF Tcp!Tick
<1> HIDE DEF Tcp!TypeOK
<1> QED BY TcpCases, <1>1, <1>2, <1>3, <1>4, <1>5, <1>6, <1>7, <1>8, <1>9, <1>10, <1>11, <1>12, <1>13, <1>14,
           <1>15, <1>16, <1>17, <1>18, <1>19, Zenon
----------------------------------------------------------------------------
\* Which steps move a connection, and how.
LEMMA TcpMoves ==
  ASSUME Tcp!TypeOK, Tcp!Next
  PROVE  \/ \E c \in Peers : \/ conn[c] = "none" /\ conn' = [conn EXCEPT ![c] = "gone"] /\ active' = active
                             \/ conn[c] = "none" /\ conn' = [conn EXCEPT ![c] = "auth"] /\ active' = active + 1
                             \/ /\ conn[c] \in {"auth", "reading", "put"} /\ active' = active
                                /\ \E to \in {"reading", "put", "cleanup"} : conn' = [conn EXCEPT ![c] = to]
                             \/ /\ conn[c] \notin {"none", "gone"} /\ active' = active - 1
                                /\ conn' = [conn EXCEPT ![c] = "gone"]
         \/ UNCHANGED <<conn, active>>
<1> DEFINE Moved == \E c \in Peers :
                             \/ conn[c] = "none" /\ conn' = [conn EXCEPT ![c] = "gone"] /\ active' = active
                             \/ conn[c] = "none" /\ conn' = [conn EXCEPT ![c] = "auth"] /\ active' = active + 1
                             \/ /\ conn[c] \in {"auth", "reading", "put"} /\ active' = active
                                /\ \E to \in {"reading", "put", "cleanup"} : conn' = [conn EXCEPT ![c] = to]
                             \/ /\ conn[c] \notin {"none", "gone"} /\ active' = active - 1
                                /\ conn' = [conn EXCEPT ![c] = "gone"]
<1>1. ASSUME NEW c \in Peers, Tcp!Connect(c) PROVE Moved BY <1>1 DEF Tcp!Connect, Tcp!Moves
<1>2. ASSUME NEW c \in Peers, Tcp!Register(c) PROVE Moved BY <1>2 DEF Tcp!Register, Tcp!Moves
<1>3. ASSUME NEW c \in Peers, Tcp!ReadFrame(c) PROVE Moved \/ UNCHANGED <<conn, active>>
  BY <1>3 DEF Tcp!ReadFrame, Tcp!Moves
<1>4. ASSUME NEW c \in Peers, Tcp!Put(c) PROVE Moved BY <1>4 DEF Tcp!Put, Tcp!Moves
<1>5. ASSUME NEW c \in Peers, Tcp!CleanedUp(c) PROVE Moved BY <1>5 DEF Tcp!CleanedUp, Tcp!Ends, Tcp!Moves
<1>6. ASSUME NEW c \in Peers, Stops(c) PROVE Moved BY <1>6 DEF Stops, Tcp!Finally, Tcp!Ends, Tcp!Moves
<1>7. ASSUME NEW c \in Peers, Tcp!HangUp(c) \/ Tcp!Revoke(c) PROVE UNCHANGED <<conn, active>>
  BY <1>7 DEF Tcp!HangUp, Tcp!Revoke
<1>8. ASSUME NEW s \in Senders,
             (\E c \in Peers : Tcp!SendStart(s, c) \/ Tcp!SendIdle(s, c)) \/ Tcp!SendWrite(s) \/ Tcp!SendDone(s)
               \/ Tcp!SendFails(s) \/ Tcp!SendClosed(s)
      PROVE  UNCHANGED <<conn, active>>
  BY <1>8 DEF Tcp!SendStart, Tcp!SendIdle, Tcp!SendWrite, Tcp!SendDone, Tcp!SendFails, Tcp!SendClosed
<1>9. ASSUME Tcp!Recv \/ Tcp!Close \/ Tcp!CloseReaders \/ Tcp!CloseConnections \/ Tcp!Tick
      PROVE  UNCHANGED <<conn, active>>
  BY <1>9 DEF Tcp!Recv, Tcp!Close, Tcp!CloseReaders, Tcp!CloseConnections, Tcp!Tick
<1> QED
  <2> HIDE DEF Moved
  <2>1. Moved \/ UNCHANGED <<conn, active>>
    BY TcpCases, <1>1, <1>2, <1>3, <1>4, <1>5, <1>6, <1>7, <1>8, <1>9, Zenon
  <2> QED BY <2>1 DEF Moved

\* A slot is taken and given back with the task of the connection.
LEMMA TcpSlots ==
  ASSUME Tcp!TypeOK, Tcp!SlotsExact, Tcp!Next
  PROVE  Tcp!SlotsExact'
<1>1. IsFiniteSet(Served)
  <2>1. Served \subseteq Peers BY DEF Served
  <2> QED BY <2>1, SameOperators, MulticastLimits, FS_Subset
<1>2. active = Cardinality(Served) BY SameOperators DEF Tcp!SlotsExact, Served
<1>3. SUFFICES active' = Cardinality(Served') BY SameOperators DEF Tcp!SlotsExact, Served
<1>4. conn \in [Peers -> {"none", "auth", "reading", "put", "cleanup", "gone"}] /\ active \in Nat
  BY MulticastLimits DEF Tcp!TypeOK
<1>5. CASE UNCHANGED <<conn, active>>
  <2>1. Served' = Served BY <1>5 DEF Served, Tcp!Serving
  <2> QED BY <1>2, <1>5, <2>1
<1>6. ASSUME NEW c \in Peers, conn[c] = "none", conn' = [conn EXCEPT ![c] = "gone"], active' = active
      PROVE  active' = Cardinality(Served')
  <2>1. Served' = Served BY <1>4, <1>6 DEF Served, Tcp!Serving
  <2> QED BY <1>2, <1>6, <2>1
<1>7. ASSUME NEW c \in Peers, conn[c] = "none", conn' = [conn EXCEPT ![c] = "auth"], active' = active + 1
      PROVE  active' = Cardinality(Served')
  <2>1. Served' = Served \cup {c} /\ c \notin Served BY <1>4, <1>7 DEF Served, Tcp!Serving
  <2>2. Cardinality(Served \cup {c}) = Cardinality(Served) + 1 BY <1>1, <2>1, FS_AddElement
  <2> QED BY <1>2, <1>7, <2>1, <2>2
<1>8. ASSUME NEW c \in Peers, conn[c] \in {"auth", "reading", "put"}, active' = active,
             NEW to \in {"reading", "put", "cleanup"}, conn' = [conn EXCEPT ![c] = to]
      PROVE  active' = Cardinality(Served')
  <2>1. Served' = Served BY <1>4, <1>8 DEF Served, Tcp!Serving
  <2> QED BY <1>2, <1>8, <2>1
<1>9. ASSUME NEW c \in Peers, conn[c] \notin {"none", "gone"}, active' = active - 1, conn' = [conn EXCEPT ![c] = "gone"]
      PROVE  active' = Cardinality(Served')
  <2>1. Served' = Served \ {c} /\ c \in Served BY <1>4, <1>9 DEF Served, Tcp!Serving
  <2>2. Cardinality(Served \ {c}) = Cardinality(Served) - 1 BY <1>1, <2>1, FS_RemoveElement
  <2> QED BY <1>2, <1>9, <2>1, <2>2
<1> QED BY TcpMoves, <1>5, <1>6, <1>7, <1>8, <1>9

\* Entries and streams belong to a connection that is served, or to close().
LEMMA TcpOwned ==
  ASSUME Tcp!TypeOK, Tcp!RegisteredIsServed, OpenKept, Tcp!NothingOutlivesClose, Tcp!Next
  PROVE  Tcp!RegisteredIsServed' /\ OpenKept' /\ Tcp!NothingOutlivesClose'
<1> DEFINE Goal == (Tcp!RegisteredIsServed /\ OpenKept /\ Tcp!NothingOutlivesClose)'
<1> USE DEF Tcp!TypeOK, Tcp!RegisteredIsServed, OpenKept, Tcp!NothingOutlivesClose, Tcp!Serving, Tcp!Closing
<1>1. ASSUME NEW c \in Peers, Tcp!Connect(c) PROVE Goal BY <1>1 DEF Tcp!Connect, Tcp!Moves
<1>2. ASSUME NEW c \in Peers, Tcp!Register(c) PROVE Goal BY <1>2 DEF Tcp!Register, Tcp!Moves
<1>3. ASSUME NEW c \in Peers, Tcp!ReadFrame(c) PROVE Goal BY <1>3 DEF Tcp!ReadFrame, Tcp!Moves
<1>4. ASSUME NEW c \in Peers, Tcp!Put(c) PROVE Goal BY <1>4 DEF Tcp!Put, Tcp!Moves
<1>5. ASSUME NEW c \in Peers, Tcp!CleanedUp(c) PROVE Goal BY <1>5 DEF Tcp!CleanedUp, Tcp!Ends, Tcp!Moves, Tcp!peer
<1>6. ASSUME NEW c \in Peers, Stops(c) PROVE Goal
  <2>1. CASE Tcp!Closing /\ conn[c] # "auth" BY <1>6, <2>1 DEF Stops, Tcp!Finally, Tcp!Ends, Tcp!Moves
  <2>2. CASE ~Tcp!Closing /\ conn[c] # "auth" BY <1>6, <2>2 DEF Stops, Tcp!Finally, Tcp!Moves
  <2>3. CASE conn[c] = "auth" BY <1>6, <2>3 DEF Stops, Tcp!Finally, Tcp!Moves
  <2> QED BY <2>1, <2>2, <2>3
<1>7. ASSUME NEW c \in Peers, Tcp!HangUp(c) \/ Tcp!Revoke(c) PROVE Goal BY <1>7 DEF Tcp!HangUp, Tcp!Revoke
<1>8. ASSUME NEW s \in Senders, NEW c \in Peers, Tcp!SendStart(s, c) \/ Tcp!SendIdle(s, c) PROVE Goal
  BY <1>8 DEF Tcp!SendStart, Tcp!SendIdle, Tcp!peer
<1>9. ASSUME NEW s \in Senders, Tcp!SendWrite(s) \/ Tcp!SendDone(s) \/ Tcp!SendClosed(s) PROVE Goal
  BY <1>9 DEF Tcp!SendWrite, Tcp!SendDone, Tcp!SendClosed, Tcp!peer
<1>10. ASSUME NEW s \in Senders, Tcp!SendFails(s) PROVE Goal
  <2>1. /\ open' = open \ {sends[s].to} /\ UNCHANGED <<conn, shutdown>>
        /\ clients' = clients \ {sends[s].to}
    BY <1>10 DEF Tcp!SendFails
  <2> QED BY <2>1
<1>11. ASSUME Tcp!Recv \/ Tcp!Close \/ Tcp!CloseReaders \/ Tcp!Tick PROVE Goal
  BY <1>11 DEF Tcp!Recv, Tcp!Close, Tcp!CloseReaders, Tcp!Tick, Tcp!Stage, Tcp!peer
<1>12. ASSUME Tcp!CloseConnections PROVE Goal
  BY <1>12 DEF Tcp!CloseConnections, Tcp!Stage
<1> QED
  <2> HIDE DEF Goal, Tcp!TypeOK, Tcp!RegisteredIsServed, OpenKept, Tcp!NothingOutlivesClose, Tcp!Serving, Tcp!Closing
  <2>1. Goal BY TcpCases, <1>1, <1>2, <1>3, <1>4, <1>5, <1>6, <1>7, <1>8, <1>9, <1>10, <1>11, <1>12, Zenon
  <2> QED BY <2>1 DEF Goal

----------------------------------------------------------------------------
\* A function on 1..n is a sequence.
LEMMA FunctionIsSequence ==
  ASSUME NEW T, NEW n \in Nat, NEW g, g = [i \in 1..n |-> g[i]], \A i \in 1..n : g[i] \in T
  PROVE  g \in Seq(T) /\ Len(g) = n
<1>1. g \in [1..n -> T] OBVIOUS
<1> QED BY <1>1

\* The items of two sequences put together.
LEMMA ConcatShape ==
  ASSUME NEW T, NEW s \in Seq(T), NEW t \in Seq(T)
  PROVE  /\ s \o t \in Seq(T) /\ Len(s \o t) = Len(s) + Len(t)
         /\ \A i \in 1..Len(s) : (s \o t)[i] = s[i]
         /\ \A i \in 1..Len(t) : (s \o t)[Len(s) + i] = t[i]
OBVIOUS

\* The numbers of frames.
LEMMA NumbersAppend ==
  ASSUME NEW s \in Seq(Tcp!Frame), NEW f \in Tcp!Frame
  PROVE  /\ Numbers(s) \in Seq(1..MostFrames)
         /\ Numbers(Append(s, f)) = Append(Numbers(s), f.n)
         /\ Numbers(<<f>> \o s) = <<f.n>> \o Numbers(s)
<1>1. f.n \in 1..MostFrames /\ \A i \in 1..Len(s) : s[i].n \in 1..MostFrames
  <2>1. \A i \in 1..Len(s) : s[i] \in Tcp!Frame OBVIOUS
  <2> QED BY <2>1 DEF Tcp!Frame
<1>2. Len(s) \in Nat OBVIOUS
<1>3. Numbers(s) \in Seq(1..MostFrames) /\ Len(Numbers(s)) = Len(s) /\ \A i \in 1..Len(s) : Numbers(s)[i] = s[i].n
  BY <1>1, <1>2 DEF Numbers
<1> DEFINE a == Numbers(Append(s, f))
           b == Append(Numbers(s), f.n)
<1>4. a = b
  <2>1. Len(a) = Len(s) + 1 /\ a \in Seq(1..MostFrames) /\ \A i \in 1..(Len(s) + 1) : a[i] = Append(s, f)[i].n
    <3>1. Len(Append(s, f)) = Len(s) + 1 OBVIOUS
    <3>2. \A i \in 1..(Len(s) + 1) : Append(s, f)[i].n \in 1..MostFrames
      <4>1. \A i \in 1..Len(s) : Append(s, f)[i] = s[i] OBVIOUS
      <4>2. Append(s, f)[Len(s) + 1] = f OBVIOUS
      <4> QED BY <1>1, <1>2, <4>1, <4>2
    <3> DEFINE t == Append(s, f)
    <3>3. a = [i \in 1..(Len(s) + 1) |-> t[i].n] BY <3>1 DEF Numbers
    <3> HIDE DEF a, t
    <3>4. \A i \in 1..(Len(s) + 1) : a[i] = t[i].n BY <3>3
    <3>5. Len(s) + 1 \in Nat BY <1>2
    <3>6. a = [i \in 1..(Len(s) + 1) |-> a[i]] BY <3>3
    <3>7. \A i \in 1..(Len(s) + 1) : a[i] \in 1..MostFrames BY <3>2, <3>4 DEF t
    <3>8. a \in Seq(1..MostFrames) /\ Len(a) = Len(s) + 1 BY <3>5, <3>6, <3>7, FunctionIsSequence
    <3> QED BY <3>4, <3>8 DEF t
  <2>2. Len(b) = Len(s) + 1 /\ b \in Seq(1..MostFrames) BY <1>1, <1>3
  <2>3. \A i \in 1..(Len(s) + 1) : a[i] = b[i]
    <3> SUFFICES ASSUME NEW i \in 1..(Len(s) + 1) PROVE a[i] = b[i] OBVIOUS
    <3>1. CASE i = Len(s) + 1
      <4>1. Append(s, f)[i] = f BY <3>1
      <4>2. b[i] = f.n BY <1>3, <3>1
      <4> QED BY <2>1, <4>1, <4>2
    <3>2. CASE i \in 1..Len(s)
      <4>1. Append(s, f)[i] = s[i] BY <3>2
      <4>2. b[i] = Numbers(s)[i] BY <1>3, <3>2
      <4> QED BY <1>3, <2>1, <3>2, <4>1, <4>2
    <3> HIDE DEF a, b
    <3> QED BY <1>2, <3>1, <3>2
  <2> HIDE DEF a, b
  <2> QED BY <1>2, <2>1, <2>2, <2>3
<1> DEFINE d == Numbers(<<f>> \o s)
           e == <<f.n>> \o Numbers(s)
           fs == <<f>> \o s
<1>5. d = e
  <2>1. fs \in Seq(Tcp!Frame) /\ Len(fs) = Len(s) + 1 /\ fs[1] = f /\ \A i \in 1..Len(s) : fs[i + 1] = s[i]
    OBVIOUS
  <2>2. e \in Seq(1..MostFrames) /\ Len(e) = Len(s) + 1 /\ e[1] = f.n /\ \A i \in 1..Len(s) : e[i + 1] = Numbers(s)[i]
    <3> DEFINE u == Numbers(s)
    <3>1. u \in Seq(1..MostFrames) /\ Len(u) = Len(s) BY <1>3
    <3> DEFINE v == <<f.n>>
    <3>2. v \in Seq(1..MostFrames) /\ Len(v) = 1 /\ v[1] = f.n BY <1>1
    <3>3. e = v \o u OBVIOUS
    <3> HIDE DEF u, v, e
    <3> DEFINE N == 1..MostFrames
    <3> HIDE DEF N
    <3>8. v \in Seq(N) /\ u \in Seq(N) BY <3>1, <3>2 DEF N
    <3>9. /\ v \o u \in Seq(N) /\ Len(v \o u) = Len(v) + Len(u)
          /\ \A i \in 1..Len(v) : (v \o u)[i] = v[i]
          /\ \A i \in 1..Len(u) : (v \o u)[Len(v) + i] = u[i]
      BY <3>8, ConcatShape
    <3>7. /\ v \o u \in Seq(1..MostFrames) /\ Len(v \o u) = Len(v) + Len(u)
          /\ \A i \in 1..Len(v) : (v \o u)[i] = v[i]
          /\ \A i \in 1..Len(u) : (v \o u)[Len(v) + i] = u[i]
      BY <3>9 DEF N
    <3> DEFINE x == v \o u
    <3> HIDE DEF x
    <3>4. x \in Seq(1..MostFrames) /\ Len(x) = Len(u) + 1 BY <1>2, <3>1, <3>2, <3>7 DEF x
    <3>5. x[1] = f.n BY <3>2, <3>7 DEF x
    <3>6. \A i \in 1..Len(s) : x[i + 1] = u[i] BY <1>2, <3>1, <3>2, <3>7 DEF x
    <3> QED BY <1>2, <3>1, <3>3, <3>4, <3>5, <3>6 DEF u, x
  <2>3. \A i \in 1..(Len(s) + 1) : fs[i].n \in 1..MostFrames
    <3>1. \A i \in 1..(Len(s) + 1) : fs[i] \in Tcp!Frame BY <2>1
    <3> QED BY <3>1 DEF Tcp!Frame
  <2>4. d \in Seq(1..MostFrames) /\ Len(d) = Len(s) + 1 /\ \A i \in 1..(Len(s) + 1) : d[i] = fs[i].n
    <3>1. d = [i \in 1..(Len(s) + 1) |-> fs[i].n] BY <2>1 DEF Numbers
    <3> HIDE DEF d, fs
    <3>2. \A i \in 1..(Len(s) + 1) : d[i] = fs[i].n BY <3>1
    <3>3. Len(s) + 1 \in Nat BY <1>2
    <3>4. d = [i \in 1..(Len(s) + 1) |-> d[i]] BY <3>1
    <3>5. \A i \in 1..(Len(s) + 1) : d[i] \in 1..MostFrames BY <2>3, <3>2
    <3>6. d \in Seq(1..MostFrames) /\ Len(d) = Len(s) + 1 BY <3>3, <3>4, <3>5, FunctionIsSequence
    <3> QED BY <3>2, <3>6
  <2>5. \A i \in 1..(Len(s) + 1) : d[i] = e[i]
    <3> SUFFICES ASSUME NEW i \in 1..(Len(s) + 1) PROVE d[i] = e[i] OBVIOUS
    <3> HIDE DEF d, e, fs
    <3>1. CASE i = 1 BY <2>1, <2>2, <2>4, <3>1
    <3>2. CASE i # 1
      <4> DEFINE j == i - 1
      <4>1. j \in 1..Len(s) /\ i = j + 1 BY <1>2, <3>2
      <4> HIDE DEF j
      <4>2. d[i] = s[j].n BY <2>1, <2>4, <4>1
      <4>3. e[i] = s[j].n BY <1>3, <2>2, <4>1
      <4> QED BY <4>2, <4>3
    <3> QED BY <3>1, <3>2
  <2> HIDE DEF d, e, fs
  <2> QED BY <1>2, <2>2, <2>4, <2>5
<1> QED BY <1>3, <1>4, <1>5

\* The first frames, and the next one.
LEMMA FirstFramesNext ==
  ASSUME NEW k \in Nat
  PROVE  Append(FirstFrames(k), k + 1) = FirstFrames(k + 1)
<1> DEFINE a == Append(FirstFrames(k), k + 1)
           b == FirstFrames(k + 1)
<1>1. FirstFrames(k) \in Seq(Nat) /\ Len(FirstFrames(k)) = k /\ \A i \in 1..k : FirstFrames(k)[i] = i BY DEF FirstFrames
<1>2. b \in Seq(Nat) /\ Len(b) = k + 1 /\ \A i \in 1..(k + 1) : b[i] = i BY DEF FirstFrames
<1>3. a \in Seq(Nat) /\ Len(a) = k + 1 /\ \A i \in 1..(k + 1) : a[i] = i BY <1>1
<1> HIDE DEF a, b
<1> QED BY <1>2, <1>3 DEF a, b

\* The frames of a client that the app has or will get, and those its reader has handed over.
Coming(c) == received[c] \o Numbers(Tcp!Of(c))
HandedOver(c) == frames[c] - IF conn[c] = "put" THEN 1 ELSE 0
InOrder(c) ==
  c \in failed \/ Tcp!Closing \/ Coming(c) = FirstFrames(HandedOver(c)) \/ conn[c] \in {"cleanup", "gone"}

\* That the frames of a client come in order, said of each client.
AllInOrder == \A c \in Peers : InOrder(c)

\* The property the run checks is what is said of each client.
LEMMA OrderedEach == FramesInOrder <=> AllInOrder
BY DEF AllInOrder, FramesInOrder, Tcp!FramesInOrder, InOrder, Coming, Numbers, HandedOver, FirstFrames

\* A step that leaves the frames of a client alone.
LEMMA OrderKept ==
  ASSUME NEW c \in Peers, InOrder(c), failed \subseteq failed', Tcp!Closing => Tcp!Closing',
         \/ c \in failed' \/ Tcp!Closing' \/ conn'[c] \in {"cleanup", "gone"}
         \/ /\ Tcp!Of(c)' = Tcp!Of(c) /\ received'[c] = received[c] /\ HandedOver(c)' = HandedOver(c)
            /\ conn'[c] = conn[c] \/ conn[c] \notin {"cleanup", "gone"}
  PROVE  InOrder(c)'
<1>1. CASE c \in failed' \/ Tcp!Closing' \/ conn'[c] \in {"cleanup", "gone"} BY <1>1 DEF InOrder
<1>2. CASE /\ Tcp!Of(c)' = Tcp!Of(c) /\ received'[c] = received[c] /\ HandedOver(c)' = HandedOver(c)
           /\ conn'[c] = conn[c] \/ conn[c] \notin {"cleanup", "gone"}
  <2>1. Coming(c)' = Coming(c) BY <1>2 DEF Coming, Numbers
  <2>2. FirstFrames(HandedOver(c))' = FirstFrames(HandedOver(c)) BY <1>2 DEF FirstFrames
  <2>3. conn[c] \in {"cleanup", "gone"} => conn'[c] \in {"cleanup", "gone"} BY <1>2
  <2> QED BY <2>1, <2>2, <2>3 DEF InOrder
<1> QED BY <1>1, <1>2

\* A step that hands over the next frame of a client.
LEMMA OrderExtended ==
  ASSUME Tcp!TypeOK, NEW c \in Peers, InOrder(c), failed' = failed, shutdown' = shutdown,
         conn[c] \in {"reading", "put"}, HandedOver(c) \in Nat, HandedOver(c) + 1 \in 1..MostFrames,
         Tcp!Of(c)' = Append(Tcp!Of(c), [from |-> c, n |-> HandedOver(c) + 1]),
         received'[c] = received[c], HandedOver(c)' = HandedOver(c) + 1
  PROVE  InOrder(c)'
<1> DEFINE k == HandedOver(c)
           f == [from |-> c, n |-> k + 1]
<1>1. f \in Tcp!Frame /\ f.n = k + 1 BY DEF Tcp!Frame
<1>2. Tcp!Of(c) \in Seq(Tcp!Frame) BY SameOperators, KeptItems DEF Tcp!Of, Tcp!TypeOK
<1>3. received[c] \in Seq(1..MostFrames) BY DEF Tcp!TypeOK
<1> HIDE DEF f
<1>4. Numbers(Append(Tcp!Of(c), f)) = Append(Numbers(Tcp!Of(c)), k + 1) /\ Numbers(Tcp!Of(c)) \in Seq(1..MostFrames)
  BY <1>1, <1>2, NumbersAppend
<1>5. Coming(c)' = received[c] \o Numbers(Append(Tcp!Of(c), f)) BY DEF Coming, f, Numbers
<1>6. received[c] \o Append(Numbers(Tcp!Of(c)), k + 1) = Append(received[c] \o Numbers(Tcp!Of(c)), k + 1)
  <2> DEFINE u == Numbers(Tcp!Of(c))
             v == received[c]
  <2>1. u \in Seq(1..MostFrames) /\ v \in Seq(1..MostFrames) BY <1>3, <1>4
  <2> HIDE DEF u, v, k
  <2>2. k + 1 \in 1..MostFrames BY DEF k
  <2>3. v \o Append(u, k + 1) = Append(v \o u, k + 1) BY <2>1, <2>2, ConcatAppend
  <2> QED BY <2>3 DEF u, v
<1>7. Coming(c)' = Append(Coming(c), k + 1) BY <1>4, <1>5, <1>6 DEF Coming
<1>8. Append(FirstFrames(k), k + 1) = FirstFrames(k + 1) BY FirstFramesNext
<1>9. FirstFrames(HandedOver(c))' = FirstFrames(k + 1) BY DEF FirstFrames
<1>10. Tcp!Closing' = Tcp!Closing BY DEF Tcp!Closing
<1> HIDE DEF k
<1>11. c \in failed \/ Tcp!Closing \/ Coming(c) = FirstFrames(k) BY DEF InOrder, k
<1> QED BY <1>7, <1>8, <1>9, <1>10, <1>11 DEF InOrder

\* A step that gives the next frame of a client to the app.
LEMMA OrderDelivered ==
  ASSUME Tcp!TypeOK, NEW c \in Peers, InOrder(c), NEW f \in Tcp!Frame,
         UNCHANGED <<failed, shutdown, conn, frames>>, Tcp!Of(c)' \in Seq(Tcp!Frame),
         Tcp!Of(c) = <<f>> \o Tcp!Of(c)', received'[c] = Append(received[c], f.n)
  PROVE  InOrder(c)'
<1> DEFINE u == Numbers(Tcp!Of(c)')
           v == received[c]
<1>1. Numbers(Tcp!Of(c)) = <<f.n>> \o u /\ u \in Seq(1..MostFrames)
  <2> DEFINE w == Tcp!Of(c)'
  <2>1. w \in Seq(Tcp!Frame) OBVIOUS
  <2> HIDE DEF w
  <2>2. Numbers(<<f>> \o w) = <<f.n>> \o Numbers(w) /\ Numbers(w) \in Seq(1..MostFrames) BY <2>1, NumbersAppend
  <2> QED BY <2>2 DEF w
<1>2. v \in Seq(1..MostFrames) /\ f.n \in 1..MostFrames BY DEF Tcp!TypeOK, Tcp!Frame
<1>3. Coming(c)' = Append(v, f.n) \o u BY DEF Coming, Numbers
<1>4. Coming(c) = v \o (<<f.n>> \o u) BY <1>1 DEF Coming
<1> HIDE DEF u, v
<1>5. Append(v, f.n) = v \o <<f.n>> BY <1>2, AppendIsConcat
<1>6. <<f.n>> \in Seq(1..MostFrames) BY <1>2
<1>7. (v \o <<f.n>>) \o u = v \o (<<f.n>> \o u)
  <2> DEFINE a == <<f.n>>
  <2>1. a \in Seq(1..MostFrames) BY <1>6
  <2> HIDE DEF a
  <2>2. u \in Seq(1..MostFrames) /\ v \in Seq(1..MostFrames) BY <1>1, <1>2
  <2>3. (v \o a) \o u = v \o (a \o u) BY <2>1, <2>2, ConcatAssociative
  <2> QED BY <2>3 DEF a
<1>8. Coming(c)' = Coming(c) BY <1>3, <1>4, <1>5, <1>7
<1>9. FirstFrames(HandedOver(c))' = FirstFrames(HandedOver(c)) /\ Tcp!Closing' = Tcp!Closing
  BY DEF FirstFrames, HandedOver, Tcp!Closing
<1> QED BY <1>8, <1>9 DEF InOrder

\* What holds of the frames of one client.
Frames(c) == InOrder(c) /\ Buffers(c)

\* A step that is not about a client.
LEMMA FramesKept ==
  ASSUME NEW c \in Peers, Frames(c), failed \subseteq failed', Tcp!Closing => Tcp!Closing',
         Tcp!Of(c)' = Tcp!Of(c), received'[c] = received[c], frames'[c] = frames[c], conn'[c] = conn[c]
  PROVE  Frames(c)'
<1>1. HandedOver(c)' = HandedOver(c) BY DEF HandedOver
<1>2. InOrder(c)' BY <1>1, OrderKept DEF Frames
<1>3. Buffers(c)' BY DEF Frames, Buffers
<1> QED BY <1>2, <1>3 DEF Frames

\* The frames of a client are those in the queue.
LEMMA SameQueue == queue' = queue => \A c \in Peers : Tcp!Of(c)' = Tcp!Of(c)
BY DEF Tcp!Of, Tcp!From, Tcp!Frame

\* The steps of a connection and its own frames.
LEMMA FramesOfConnection ==
  ASSUME Tcp!TypeOK, NEW c \in Peers, Frames(c), NEW d \in Peers, Frames(d),
         \/ Tcp!Connect(c) \/ Tcp!Register(c) \/ Tcp!ReadFrame(c) \/ Tcp!Put(c)
         \/ Tcp!CleanedUp(c) \/ Tcp!HangUp(c) \/ Tcp!Revoke(c) \/ Stops(c)
  PROVE  Frames(d)'
<1> DEFINE K == {"none", "auth", "reading", "put", "cleanup", "gone"}
<1>0. /\ conn \in [Peers -> K] /\ frames \in [Peers -> 0..MostFrames] /\ queue \in Seq(Tcp!Frame) /\ MostFrames \in Nat
      /\ frames[c] \in 0..MostFrames
  BY MulticastLimits DEF Tcp!TypeOK
<1> HIDE DEF K
<1>1. CASE Tcp!Connect(c)
  <2>1. Tcp!Of(d)' = Tcp!Of(d) BY <1>1, SameQueue DEF Tcp!Connect
  <2>2. /\ UNCHANGED <<failed, shutdown, received, frames>>
        /\ d # c => conn'[d] = conn[d]
        /\ conn[c] = "none" /\ conn'[c] \in {"gone", "auth"}
    BY <1>0, <1>1 DEF Tcp!Connect, Tcp!Moves
  <2>3. CASE d # c BY <2>1, <2>2, <2>3, FramesKept DEF Tcp!Closing
  <2>4. CASE d = c
    <3>1. HandedOver(d)' = HandedOver(d) BY <2>2, <2>4 DEF HandedOver
    <3>2. InOrder(d)' BY <2>1, <2>2, <2>4, <3>1, OrderKept DEF Frames, Tcp!Closing
    <3>3. Buffers(d)' BY <2>1, <2>2, <2>4 DEF Frames, Buffers, Tcp!Closing
    <3> QED BY <3>2, <3>3 DEF Frames
  <2> QED BY <2>3, <2>4
<1>2. CASE Tcp!Register(c)
  <2>1. Tcp!Of(d)' = Tcp!Of(d) BY <1>2, SameQueue DEF Tcp!Register
  <2>2. /\ UNCHANGED <<failed, shutdown, received, frames>>
        /\ d # c => conn'[d] = conn[d]
        /\ conn[c] = "auth" /\ conn'[c] = "reading"
    BY <1>0, <1>2 DEF Tcp!Register, Tcp!Moves
  <2>3. CASE d # c BY <2>1, <2>2, <2>3, FramesKept DEF Tcp!Closing
  <2>4. CASE d = c
    <3>1. HandedOver(d)' = HandedOver(d) BY <2>2, <2>4 DEF HandedOver
    <3>2. InOrder(d)' BY <2>1, <2>2, <2>4, <3>1, OrderKept DEF Frames, Tcp!Closing
    <3>3. Buffers(d)' BY <2>2, <2>4 DEF Buffers
    <3> QED BY <3>2, <3>3 DEF Frames
  <2> QED BY <2>3, <2>4
<1>3. CASE Tcp!ReadFrame(c)
  <2>1. frames[c] < MostFrames BY <1>3, FramesBounded DEF Tcp!ReadFrame
  <2>2. /\ UNCHANGED <<failed, shutdown, received>> /\ conn[c] = "reading"
        /\ d # c => frames'[d] = frames[d]
        /\ frames'[c] = frames[c] + 1
    BY <1>0, <1>3 DEF Tcp!ReadFrame
  <2>3. CASE Tcp!Queued(c, frames'[c]) /\ conn' = conn
    <3>1. frames'[c] \in 1..MostFrames BY <1>0, <2>1, <2>2
    <3>2. /\ Tcp!Of(c)' = Append(Tcp!Of(c), [from |-> c, n |-> frames[c] + 1])
          /\ \A e \in Peers \ {c} : Tcp!Of(e)' = Tcp!Of(e)
      BY <1>0, <2>2, <2>3, <3>1, PeerQueued
    <3>3. CASE d # c BY <2>2, <2>3, <3>2, <3>3, FramesKept DEF Tcp!Closing
    <3>4. CASE d = c
      <4>1. HandedOver(d) = frames[c] /\ HandedOver(d)' = frames[c] + 1 BY <1>0, <2>2, <2>3, <3>4 DEF HandedOver
      <4>2. HandedOver(d) \in Nat /\ HandedOver(d) + 1 \in 1..MostFrames BY <1>0, <2>2, <3>1, <4>1
      <4>3. Tcp!Of(d)' = Append(Tcp!Of(d), [from |-> d, n |-> HandedOver(d) + 1]) BY <3>2, <3>4, <4>1
      <4>4. InOrder(d) /\ conn[d] = "reading" /\ received'[d] = received[d] /\ HandedOver(d)' = HandedOver(d) + 1
        BY <2>2, <3>4, <4>1 DEF Frames
      <4>5. InOrder(d)' BY <2>2, <4>2, <4>3, <4>4, OrderExtended
      <4>6. Buffers(d)' BY <2>2, <2>3, <3>4 DEF Buffers
      <4> QED BY <4>5, <4>6 DEF Frames
    <3> QED BY <3>3, <3>4
  <2>4. CASE conn' = [conn EXCEPT ![c] = "put"] /\ queue' = queue
    <3>1. Tcp!Of(d)' = Tcp!Of(d) BY <2>4, SameQueue
    <3>2. CASE d # c BY <1>0, <2>2, <2>4, <3>1, <3>2, FramesKept DEF Tcp!Closing
    <3>3. CASE d = c
      <4>1. conn'[c] = "put" BY <1>0, <2>4
      <4>2. HandedOver(d)' = HandedOver(d) BY <1>0, <2>2, <3>3, <4>1 DEF HandedOver
      <4>3. InOrder(d)' BY <2>2, <3>1, <3>3, <4>2, OrderKept DEF Frames, Tcp!Closing
      <4>4. Buffers(d)' BY <1>0, <2>2, <3>3, <4>1 DEF Buffers
      <4> QED BY <4>3, <4>4 DEF Frames
    <3> QED BY <3>2, <3>3
  <2> QED BY <1>3, <2>3, <2>4 DEF Tcp!ReadFrame, Tcp!Moves
<1>4. CASE Tcp!Put(c)
  <2>1. /\ UNCHANGED <<failed, shutdown, received, frames>> /\ conn[c] = "put" /\ conn'[c] = "reading"
        /\ d # c => conn'[d] = conn[d]
        /\ Tcp!Queued(c, frames[c])
    BY <1>0, <1>4 DEF Tcp!Put, Tcp!Moves
  <2>2. CASE d # c
    <3>1. frames[c] \in 1..MostFrames BY <1>0, <2>1 DEF Frames, Buffers
    <3>2. Tcp!Of(d)' = Tcp!Of(d) BY <1>0, <2>1, <2>2, <3>1, PeerQueued
    <3> QED BY <2>1, <2>2, <3>2, FramesKept DEF Tcp!Closing
  <2>3. CASE d = c
    <3>1. frames[c] \in 1..MostFrames BY <1>0, <2>1, <2>3 DEF Frames, Buffers
    <3>2. Tcp!Of(c)' = Append(Tcp!Of(c), [from |-> c, n |-> frames[c]]) BY <1>0, <2>1, <3>1, PeerQueued
    <3>3. HandedOver(d) = frames[c] - 1 /\ HandedOver(d)' = frames[c] BY <1>0, <2>1, <2>3 DEF HandedOver
    <3>4. HandedOver(d) \in Nat /\ HandedOver(d) + 1 = frames[c] BY <3>1, <3>3
    <3>5. InOrder(d)' BY <2>1, <2>3, <3>1, <3>2, <3>3, <3>4, OrderExtended DEF Frames
    <3>6. Buffers(d)' BY <2>1, <2>3 DEF Buffers
    <3> QED BY <3>5, <3>6 DEF Frames
  <2> QED BY <2>2, <2>3
<1>5. CASE Tcp!CleanedUp(c)
  <2>1. Tcp!Of(d)' = Tcp!Of(d) BY <1>5, SameQueue DEF Tcp!CleanedUp
  <2>2. /\ UNCHANGED <<failed, shutdown, received, frames>>
        /\ d # c => conn'[d] = conn[d]
        /\ conn[c] = "cleanup" /\ conn'[c] = "gone"
    BY <1>0, <1>5 DEF Tcp!CleanedUp, Tcp!Ends, Tcp!Moves
  <2>3. CASE d # c BY <2>1, <2>2, <2>3, FramesKept DEF Tcp!Closing
  <2>4. CASE d = c
    <3>1. InOrder(d)' BY <2>2, <2>4 DEF InOrder
    <3>2. Buffers(d)' BY <2>1, <2>2, <2>4 DEF Frames, Buffers, Tcp!Closing
    <3> QED BY <3>1, <3>2 DEF Frames
  <2> QED BY <2>3, <2>4
<1>6. CASE Tcp!HangUp(c) \/ Tcp!Revoke(c)
  <2>1. UNCHANGED <<failed, shutdown, received, frames, conn, queue>> BY <1>6 DEF Tcp!HangUp, Tcp!Revoke
  <2>2. Tcp!Of(d)' = Tcp!Of(d) BY <2>1, SameQueue
  <2> QED BY <2>1, <2>2, FramesKept DEF Tcp!Closing
<1>7. CASE Stops(c)
  <2>1. /\ UNCHANGED <<failed, shutdown, received, frames>>
        /\ d # c => conn'[d] = conn[d]
        /\ conn'[c] \in {"cleanup", "gone"}
    BY <1>0, <1>7 DEF Stops, Tcp!Finally, Tcp!Ends, Tcp!Moves
  <2>2. CASE d # c
    <3>1. queue' = queue \/ Tcp!DropPeer(c) BY <1>7 DEF Stops, Tcp!Finally
    <3>2. Tcp!Of(d)' = Tcp!Of(d) BY <1>0, <2>2, <3>1, SameQueue, PeerDropped
    <3> QED BY <2>1, <2>2, <3>2, FramesKept DEF Tcp!Closing
  <2>3. CASE d = c
    <3>1. InOrder(d)' BY <2>1, <2>3 DEF InOrder
    <3>2. Tcp!Closing \/ (conn[c] = "auth" /\ queue' = queue) \/ Tcp!DropPeer(c) BY <1>7 DEF Stops, Tcp!Finally
    <3>3. Tcp!Closing' \/ Tcp!Of(d)' = <<>>
      <4>1. CASE Tcp!Closing BY <2>1, <4>1 DEF Tcp!Closing
      <4>2. CASE conn[c] = "auth" /\ queue' = queue /\ ~Tcp!Closing
        <5>1. Tcp!Of(d) = <<>> BY <2>3, <4>2 DEF Frames, Buffers
        <5> QED BY <4>2, <5>1, SameQueue
      <4>3. CASE Tcp!DropPeer(c) BY <1>0, <2>3, <4>3, PeerDropped
      <4> QED BY <3>2, <4>1, <4>2, <4>3
    <3>4. Buffers(d)' BY <2>1, <2>3, <3>3 DEF Buffers
    <3> QED BY <3>1, <3>4 DEF Frames
  <2> QED BY <2>2, <2>3
<1> QED BY <1>1, <1>2, <1>3, <1>4, <1>5, <1>6, <1>7, Zenon

\* The steps of senders.
LEMMA FramesOfSender ==
  ASSUME Tcp!TypeOK, NEW s \in Senders, NEW d \in Peers, Frames(d),
         \/ \E c \in Peers : Tcp!SendStart(s, c) \/ Tcp!SendIdle(s, c)
         \/ Tcp!SendWrite(s) \/ Tcp!SendDone(s) \/ Tcp!SendFails(s) \/ Tcp!SendClosed(s)
  PROVE  Frames(d)'
<1>1. CASE \/ \E c \in Peers : Tcp!SendStart(s, c) \/ Tcp!SendIdle(s, c)
           \/ Tcp!SendWrite(s) \/ Tcp!SendDone(s) \/ Tcp!SendClosed(s)
  <2>1. UNCHANGED <<shutdown, received, frames, conn, queue>> /\ failed \subseteq failed'
    BY <1>1 DEF Tcp!SendStart, Tcp!SendIdle, Tcp!SendWrite, Tcp!SendDone, Tcp!SendClosed
  <2>2. Tcp!Of(d)' = Tcp!Of(d) BY <2>1, SameQueue
  <2> QED BY <2>1, <2>2, FramesKept DEF Tcp!Closing
<1>2. CASE Tcp!SendFails(s)
  <2> DEFINE c == sends[s].to
  <2>1. UNCHANGED <<shutdown, received, frames, conn>> /\ failed' = failed \cup {c} /\ (queue' = queue \/ Tcp!DropPeer(c))
    BY <1>2 DEF Tcp!SendFails
  <2>2. c \in Peers BY <1>2 DEF Tcp!SendFails, Tcp!Sending, Tcp!TypeOK, Tcp!NotSending
  <2>3. queue \in Seq(Tcp!Frame) BY DEF Tcp!TypeOK
  <2> HIDE DEF c
  <2>4. CASE d # c \/ queue' = queue
    <3>1. Tcp!Of(d)' = Tcp!Of(d) BY <2>1, <2>2, <2>3, <2>4, SameQueue, PeerDropped
    <3> QED BY <2>1, <3>1, FramesKept DEF Tcp!Closing
  <2>5. CASE d = c /\ Tcp!DropPeer(c)
    <3>1. Tcp!Of(d)' = <<>> BY <2>2, <2>3, <2>5, PeerDropped
    <3>2. InOrder(d)' BY <2>1, <2>5 DEF InOrder
    <3>3. Buffers(d)' BY <2>1, <3>1 DEF Frames, Buffers
    <3> QED BY <3>2, <3>3 DEF Frames
  <2> QED BY <2>1, <2>4, <2>5
<1> QED BY <1>1, <1>2, Zenon

\* recv(), close() and the passing of time.
LEMMA FramesOfServer ==
  ASSUME Tcp!TypeOK, NEW d \in Peers, Frames(d),
         Tcp!Recv \/ Tcp!Close \/ Tcp!CloseReaders \/ Tcp!CloseConnections \/ Tcp!Tick
  PROVE  Frames(d)'
<1>1. CASE Tcp!Recv
  <2> DEFINE f == Head(queue)
  <2>1. /\ UNCHANGED <<failed, shutdown, conn, frames>> /\ queue # <<>> /\ queue' = Tail(queue)
        /\ received' = [received EXCEPT ![f.from] = Append(received[f.from], f.n)]
    BY <1>1 DEF Tcp!Recv
  <2>2. queue \in Seq(Tcp!Frame) /\ received \in [Peers -> Seq(1..MostFrames)] BY DEF Tcp!TypeOK
  <2>3. /\ f \in Tcp!Frame /\ Tcp!Of(d)' \in Seq(Tcp!Frame)
        /\ Tcp!Of(d) = IF d = f.from THEN <<f>> \o Tcp!Of(d)' ELSE Tcp!Of(d)'
    BY <2>1, <2>2, PeerReceived
  <2> HIDE DEF f
  <2>4. CASE d # f.from
    <3>1. received'[d] = received[d] BY <2>1, <2>2, <2>4
    <3> QED BY <2>1, <2>3, <2>4, <3>1, FramesKept DEF Tcp!Closing
  <2>5. CASE d = f.from
    <3>1. received'[d] = Append(received[d], f.n) BY <2>1, <2>2, <2>5
    <3>2. InOrder(d)' BY <2>1, <2>3, <2>5, <3>1, OrderDelivered DEF Frames
    <3>3. Tcp!Of(d) = <<>> => Tcp!Of(d)' = <<>>
      <4> DEFINE u == Tcp!Of(d)'
      <4>1. u \in Seq(Tcp!Frame) BY <2>3
      <4>2. <<f>> \in Seq(Tcp!Frame) /\ Len(<<f>>) = 1 BY <2>3
      <4> HIDE DEF u
      <4>3. Len(<<f>> \o u) = Len(<<f>>) + Len(u) BY <4>1, <4>2, ConcatShape
      <4>4. <<f>> \o u # <<>>
        <5>1. Len(u) \in Nat /\ Len(<<>>) = 0 BY <4>1
        <5> QED BY <4>2, <4>3, <5>1
      <4> QED BY <2>3, <2>5, <4>4 DEF u
    <3>4. Buffers(d)' BY <2>1, <3>3 DEF Frames, Buffers, Tcp!Closing
    <3> QED BY <3>2, <3>4 DEF Frames
  <2> QED BY <2>4, <2>5
<1>2. CASE Tcp!Close
  <2>1. Tcp!Closing' /\ UNCHANGED <<conn, frames>> BY <1>2 DEF Tcp!Close, Tcp!Stage, Tcp!Closing
  <2> QED BY <2>1 DEF Frames, InOrder, Buffers
<1>3. CASE Tcp!CloseReaders \/ Tcp!CloseConnections \/ Tcp!Tick
  <2>1. /\ UNCHANGED <<failed, received, frames, conn, queue>> /\ (Tcp!Closing => Tcp!Closing')
    BY <1>3 DEF Tcp!CloseReaders, Tcp!CloseConnections, Tcp!Tick, Tcp!Closing, Tcp!Stage
  <2>2. Tcp!Of(d)' = Tcp!Of(d) BY <2>1, SameQueue
  <2> QED BY <2>1, <2>2, FramesKept
<1> QED BY <1>1, <1>2, <1>3

\* Every step keeps the frames of all clients in order.
LEMMA TcpFrames ==
  ASSUME TcpInv, Tcp!Next
  PROVE  FramesInOrder' /\ Buffered'
<1>1. Tcp!TypeOK /\ \A d \in Peers : Frames(d) BY OrderedEach DEF TcpInv, AllInOrder, Buffered, Frames
<1>2. ASSUME NEW d \in Peers PROVE Frames(d)'
  BY TcpCases, <1>1, FramesOfConnection, FramesOfSender, FramesOfServer
<1>3. AllInOrder' /\ Buffered' BY <1>2 DEF AllInOrder, Buffered, Frames
<1>4. AllInOrder' => FramesInOrder' BY OrderedEach, PTL
<1> QED BY <1>3, <1>4

\* Nothing is left of a connection that has ended.
LEMMA TcpAccounts == TcpInv => ConnectionsAccounted
<1> SUFFICES ASSUME TcpInv PROVE ConnectionsAccounted
  OBVIOUS
<1>1. Tcp!GoneLeavesNothing
  BY DEF TcpInv, Tcp!GoneLeavesNothing, OpenKept, Tcp!RegisteredIsServed, Buffered, Buffers, Tcp!Closing
<1> QED BY <1>1 DEF TcpInv, ConnectionsAccounted, Tcp!ConnectionsAccounted

\* The invariant is inductive.
LEMMA TcpInvariant == TcpSpec => []TcpInv
<1>1. TcpInv /\ [Tcp!Next]_(Tcp!vars) => TcpInv'
  <2> SUFFICES ASSUME TcpInv, [Tcp!Next]_(Tcp!vars) PROVE TcpInv' OBVIOUS
  <2>1. CASE Tcp!Next
    <3>1. Tcp!TypeOK' /\ Tcp!SlotsExact' BY <2>1, TcpTyped, TcpSlots DEF TcpInv
    <3>2. Tcp!RegisteredIsServed' /\ OpenKept' /\ Tcp!NothingOutlivesClose' BY <2>1, TcpOwned DEF TcpInv
    <3>3. FramesInOrder' /\ Buffered' BY <2>1, TcpFrames
    <3> QED BY <3>1, <3>2, <3>3 DEF TcpInv
  <2>2. CASE UNCHANGED Tcp!vars
    <3>1. UNCHANGED <<conn, active, clients, open, eof, frames, queue, received, sends, failed, shutdown, quiet, left>>
      BY <2>2 DEF Tcp!vars, Tcp!peer
    <3>2. \A c \in Peers : Tcp!Of(c)' = Tcp!Of(c) BY <3>1, SameQueue
    <3>3. Tcp!TypeOK' BY <3>1 DEF TcpInv, Tcp!TypeOK, Tcp!Frame
    <3>4. Tcp!SlotsExact' BY <3>1 DEF TcpInv, Tcp!SlotsExact, Tcp!Serving
    <3>5. Tcp!RegisteredIsServed' /\ OpenKept' /\ Tcp!NothingOutlivesClose'
      BY <3>1 DEF TcpInv, Tcp!RegisteredIsServed, OpenKept, Tcp!NothingOutlivesClose, Tcp!Closing, Tcp!Serving
    <3>6. Buffered' BY <3>1, <3>2 DEF TcpInv, Buffered, Buffers, Tcp!Closing
    <3>7. AllInOrder' BY <3>1, <3>2, OrderedEach DEF TcpInv, AllInOrder, InOrder, Coming, HandedOver, FirstFrames, Numbers, Tcp!Closing
    <3>8. AllInOrder' => FramesInOrder' BY OrderedEach, PTL
    <3> QED BY <3>3, <3>4, <3>5, <3>6, <3>7, <3>8 DEF TcpInv
  <2> QED BY <2>1, <2>2
<1> QED BY TcpInvInit, <1>1, PTL DEF TcpSpec

\* Slots, entries, streams and frames follow the connection they belong to, whichever
\* of its reader, a send and close() ends it (tcp.py:840-955).
THEOREM MulticastAccounts == TcpSpec => []ConnectionsAccounted
BY TcpInvariant, TcpAccounts, PTL

\* The app gets the frames of a client no send has failed for in order and without a
\* gap, although its reader waits for room and other clients are dropped (tcp.py:887-904).
THEOREM FramesStayInOrder == TcpSpec => []FramesInOrder
<1>1. TcpInv => FramesInOrder BY DEF TcpInv
<1> QED BY TcpInvariant, <1>1, PTL
=============================================================================
