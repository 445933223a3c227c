--------------------------- MODULE MCMulticastApp ---------------------------
(***************************************************************************)
(* Instances for TLC of the listen loop of MulticastApp and of the queue    *)
(* its transports receive from: a behaviour is one of MulticastApp or one   *)
(* of PayloadQueue, whose variables then stay as they are.  In the queue    *)
(* every limit is reached before the others in some state, and one frame is *)
(* too long for the whole of it.                                            *)
(***************************************************************************)
EXTENDS MulticastApp

CONSTANTS
  Readers, Sizes, MaxSize, MaxBytes, PerPeer  (* those of PayloadQueue *)

VARIABLES
  part,  (* "loop" or "queue" *)
  items, bytes, counts, closed, frame, running, ready, waiters, ended, gone

Queue == INSTANCE PayloadQueue WITH Peers <- Readers

ASSUME QueueAssumption == Queue!LimitsAssumption /\ Queue!SizesAssumption /\ Queue!PeersAssumption

queueVars == <<items, bytes, counts, closed, frame, running, ready, waiters, ended, gone>>
allVars == <<vars, queueVars, part>>

EitherInit == part \in {"loop", "queue"} /\ Init /\ Queue!Init

EitherNext ==
  /\ UNCHANGED part
  /\ \/ part = "loop" /\ Next /\ UNCHANGED queueVars
     \/ part = "queue" /\ Queue!Next /\ UNCHANGED vars

EitherSpec == EitherInit /\ [][EitherNext]_allVars

\* Each part has its own fairness, and the other one asks for nothing: the loop
\* would start by itself, and so is asked only where it is the part that runs;
\* the queue's tasks do not, but the app that receives does.
EitherFairSpec ==
  /\ EitherSpec
  /\ part = "loop" => LoopFairness
  /\ part = "queue" => Queue!Fairness

\* The accounts of the queue are exact and nobody waits in vain.
QueueConsistent == Queue!QueueConsistent

\* A peer at its quota gets room again while the app goes on receiving.
QuotaIsReturned == Queue!QuotaIsReturned
=============================================================================
