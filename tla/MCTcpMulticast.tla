--------------------------- MODULE MCTcpMulticast ---------------------------
(***************************************************************************)
(* Instances of TcpMulticast for TLC.  The state has names of its own,      *)
(* apart from those of TcpLink.  A behaviour is one of two: clients share   *)
(* one slot and meet sends and idleness; or each has a slot and all they    *)
(* do is send frames into a full queue, where one overtakes another.        *)
(***************************************************************************)
EXTENDS Integers

CONSTANTS
  Peers, MostFrames,                               (* its Clients and MaxFrames *)
  Senders, MaxConnections, QueueSize, IdleTimeout  (* those of TcpMulticast     *)

VARIABLES
  shutdown,  (* its stage                                                  *)
  conn, active, clients, open, eof, frames, queue, received, sends, failed, quiet, left,
  crowded    (* whether each client has a slot                             *)

Tcp == INSTANCE TcpMulticast WITH Clients <- Peers, MaxFrames <- MostFrames, stage <- shutdown

\* The same with one slot, and one frame less.
OneSlot == INSTANCE TcpMulticast WITH
  Clients <- Peers, MaxFrames <- MostFrames - 1, stage <- shutdown, MaxConnections <- 1

ASSUME TcpAssumption == Tcp!LimitsAssumption /\ Tcp!BoundsAssumption /\ Tcp!ClientsAssumption

TcpSpec == Tcp!Init /\ [][Tcp!Next]_(Tcp!vars)

ScenesNext ==
  /\ UNCHANGED crowded
  /\ \/ crowded /\ Tcp!Next /\ UNCHANGED <<sends, quiet, left>>
     \/ ~crowded /\ OneSlot!Next

\* Fairness does not depend on the number of slots.
ScenesFairSpec ==
  Tcp!Init /\ crowded \in BOOLEAN /\ [][ScenesNext]_<<Tcp!vars, crowded>> /\ Tcp!Fairness

\* Slots, entries, streams and frames follow the connection they belong to.
ConnectionsAccounted == Tcp!ConnectionsAccounted

\* The app gets the frames of a client in order and without a gap.
FramesInOrder == Tcp!FramesInOrder

\* close() ends, and the slot of a client that has hung up is given back if its
\* reader gets the room it waits for.
SlotsReturn == Tcp!WaitsEnd
=============================================================================
