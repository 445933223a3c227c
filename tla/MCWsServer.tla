----------------------------- MODULE MCWsServer -----------------------------
(***************************************************************************)
(* WsServer with names of its own for its state, apart from those of        *)
(* HttpServer: both of its servers, chosen at the start.                    *)
(***************************************************************************)
CONSTANTS
  Upgrades,                                  (* its Requests               *)
  Senders, Modes, MaxConnections, QueueSize  (* those of WsServer          *)

VARIABLES
  upgrade,   (* its handler                                                *)
  taken,     (* its active                                                 *)
  shutting,  (* its closing                                                *)
  multicast, used, clients, principals, open, queued, sessions, sends, queueClosed, closed

Ws == INSTANCE WsServer WITH
  Requests <- Upgrades, handler <- upgrade, active <- taken, closing <- shutting

ASSUME WsAssumption == Ws!LimitsAssumption /\ Ws!ModesAssumption /\ Ws!RequestsAssumption

WsSpec == Ws!Init /\ [][Ws!Next]_(Ws!vars)

\* Slots, entries, sockets and messages follow the handler they belong to, and the
\* single-client server serves one session.
ConnectionsAccounted == Ws!ConnectionsAccounted

\* close() ends and so does every handler, without the app or the clients.
CloseEnds == Ws!CloseEnds
=============================================================================
