------------------------------ MODULE MCClient ------------------------------
(***************************************************************************)
(* Instances of Client for TLC.                                             *)
(***************************************************************************)
CONSTANTS
  Calls, Kinds, MaxPushes, MaxConcurrency   (* those of Client                *)

VARIABLES
  ended,  (* its outcome                                                    *)
  closed, lock, waiters, op, state, parent, link, toServer, toClient, pushes,
  executing, refusing, finished

Shared == INSTANCE Client WITH outcome <- ended

ASSUME ClientAssumption ==
  Shared!KindsAssumption /\ Shared!CallsAssumption /\ Shared!PushesAssumption

ClientSpec == Shared!Init /\ [][Shared!Next]_(Shared!vars)
ClientFairSpec == ClientSpec /\ Shared!Fairness

\* No exchange meets what another has left, in the channel or at the lock.
ExchangesAccounted == Shared!ExchangesAccounted

\* A reply that is not its own never closes the client.
NeverMismatched == Shared!NeverMismatched

\* Giving up to wait, or finding the client closed, disturbs no exchange.
HarmlessWaiters == Shared!HarmlessWaiters

\* Every operation with a deadline ends.
EveryCallEnds == Shared!EveryCallEnds
=============================================================================
