------------------------------ MODULE HttpLink ------------------------------
(***************************************************************************)
(* An HttpClientTransport (transports/http.py) and the server it posts to   *)
(* (HttpServer).  send() posts a request and holds the response, recv()     *)
(* reads it; either may fail, be late or be cancelled, and close() may come *)
(* at any time.  Other clients post to the same server.                     *)
(***************************************************************************)
EXTENDS HttpServer

CONSTANT Own  (* the requests of this client, in the order it sends them *)

ASSUME OwnAssumption == Own \in Seq(Requests)

VARIABLES
  session,  (* `_session` is open                                           *)
  posting,  (* the request of the send() that is under way, `_sending`      *)
  held,     (* the request whose response is `_pending`                     *)
  reading,  (* the request whose response recv() reads                      *)
  sent,     (* how many were put on the wire                                *)
  asked     (* the last request whose send() returned a response to receive *)

clientVars == <<session, posting, held, reading, sent, asked>>
linkVars == <<vars, clientVars>>

Owned == Items(Own)
Unsent == Items(SubSeq(Own, sent + 1, Len(Own)))

LinkInit ==
  /\ Init
  /\ session = FALSE /\ posting = None /\ held = None /\ reading = None
  /\ sent = 0 /\ asked = None

----------------------------------------------------------------------------
\* The server, which sees a request of this client once it was sent.
Serve ==
  /\ Next
  /\ \A r \in Unsent : handler'[r] = "none"
  /\ UNCHANGED clientVars

\* connect().
ClientConnect ==
  /\ ~session /\ session' = TRUE
  /\ UNCHANGED <<vars, posting, held, reading, sent, asked>>

\* send(): refused while a response is held or another send() is under way.
ClientSend ==
  /\ session /\ held = None /\ posting = None /\ sent < Len(Own)
  /\ sent' = sent + 1 /\ posting' = Own[sent']
  /\ UNCHANGED <<vars, session, held, reading, asked>>

\* Mutant of ClientAnswered: the status of the response is not looked at.
ClientAnsweredAny ==
  /\ posting # None /\ status[posting] # "none" /\ reading = None
  /\ posting' = None
  /\ held' = posting /\ asked' = posting
  /\ UNCHANGED <<vars, session, reading, sent>>

\* The response has come: a notification has none to receive, and another status
\* is an error.  (A reader that close() has woken goes first.)
ClientAnswered ==
  /\ posting # None /\ status[posting] # "none" /\ reading = None
  /\ posting' = None
  /\ IF status[posting] = "200" THEN held' = posting /\ asked' = posting
                                ELSE UNCHANGED <<held, asked>>
  /\ UNCHANGED <<vars, session, reading, sent>>

\* request_timeout is over, send() is cancelled, or the connection fails or was
\* closed.
ClientSendFails ==
  /\ posting # None /\ posting' = None
  /\ UNCHANGED <<vars, session, held, reading, sent, asked>>

\* recv() of the one receiver there is under the lock of Client.
ClientRecv ==
  /\ held # None /\ reading = None
  /\ reading' = held
  /\ UNCHANGED <<vars, session, posting, held, sent, asked>>

\* It has read the body, which is too long, or does not get it: the response is
\* released.
ClientReceived ==
  /\ reading # None
  /\ reading' = None /\ held' = None
  /\ UNCHANGED <<vars, session, posting, sent, asked>>

\* close(): a send() whose response has come goes on after it, and holds the
\* response for a recv() or another close().
ClientClose ==
  /\ session \/ held # None
  /\ session' = FALSE /\ held' = None
  /\ UNCHANGED <<vars, posting, reading, sent, asked>>

----------------------------------------------------------------------------
ClientStep ==
  \/ ClientConnect \/ ClientSend \/ ClientAnswered \/ ClientSendFails
  \/ ClientRecv \/ ClientReceived \/ ClientClose

LinkNext == Serve \/ ClientStep

LinkSpec == LinkInit /\ [][LinkNext]_linkVars

LinkFairness ==
  \A r \in Requests : /\ WF_linkVars((Respond(r) \/ Unwind(r)) /\ UNCHANGED clientVars)
                       /\ WF_linkVars(Cancel(r) /\ UNCHANGED clientVars)

LinkFairSpec == LinkSpec /\ LinkFairness

----------------------------------------------------------------------------
LinkTypeOK ==
  /\ session \in BOOLEAN
  /\ {posting, held, reading, asked} \subseteq Owned \cup {None}
  /\ sent \in 0..Len(Own)

\* What recv() returns is what App answered when it worked on the request that
\* this client sent last, whatever was late, cancelled or closed at either end
\* and whatever other clients asked.
RepliesMatch ==
  /\ LinkTypeOK
  /\ \A r \in {held, reading} \ {None} : r = asked /\ future[r] = "reply" /\ status[r] = "200"
  /\ posting # None => held = None
=============================================================================
