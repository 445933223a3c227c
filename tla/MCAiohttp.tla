------------------------------ MODULE MCAiohttp ------------------------------
(***************************************************************************)
(* Instances for TLC of the two servers that aiohttp runs: a behaviour is   *)
(* one of HttpLink (and of HttpServer in it) or one of WsServer, whose      *)
(* variables then stay as they are.  Over HTTP the client sends two         *)
(* requests, and another client one that fills the queue.                   *)
(***************************************************************************)
EXTENDS HttpLink, MCWsServer

CONSTANTS r1, r2, r3

VARIABLE server  (* the one that runs *)

wsVars == <<upgrade, taken, shutting, multicast, used, clients, principals, open, queued, sessions, sends, queueClosed, closed>>
aiohttpVars == <<linkVars, wsVars, server>>

OwnRequests == <<r1, r2>>
BodySize == [r \in Requests |-> IF r = r3 THEN 2 ELSE 1]

AiohttpInit ==
  /\ LinkInit /\ Ws!Init
  /\ server \in {"http", "ws"}
  /\ server = "http" => ~multicast

AiohttpNext ==
  /\ UNCHANGED server
  /\ \/ server = "http" /\ LinkNext /\ UNCHANGED wsVars
     \/ server = "ws" /\ Ws!Next /\ UNCHANGED linkVars

\* Nothing that either fairness is about is enabled in its initial state, so that
\* the one of the server that does not run asks for nothing.
AiohttpFairSpec == AiohttpInit /\ [][AiohttpNext]_aiohttpVars /\ LinkFairness /\ Ws!Fairness
===========================================================================
