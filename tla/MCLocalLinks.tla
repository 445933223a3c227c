---------------------------- MODULE MCLocalLinks ----------------------------
(***************************************************************************)
(* Instances for TLC of the two transports that stay within a machine: a    *)
(* behaviour is one of StdioLink or one of ThreadChannel, whose variables   *)
(* then stay as they are.                                                   *)
(***************************************************************************)
EXTENDS StdioLink

CONSTANTS
  FromA, FromB,  (* bounds: the messages each end of the thread channel sends *)
  MaxQueued      (* its max_queue_size                                       *)

VARIABLES
  transport,    (* the one that is used                                     *)
  owner, hasInbox, threadLoop, ready, closed, callbacks, inbox, sender, receiver, sent, received

Thread == INSTANCE ThreadChannel WITH
  loop <- threadLoop,
  MaxMessages <- [e \in {"a", "b"} |-> IF e = "a" THEN FromA ELSE FromB]

ASSUME ChannelAssumption == Thread!BoundsAssumption

threadVars == <<owner, hasInbox, threadLoop, ready, closed, callbacks, inbox, sender, receiver, sent, received>>
LocalVars == <<linkVars, threadVars, transport>>

LocalInit ==
  /\ LinkInit /\ Thread!Init
  /\ transport \in {"stdio", "thread"}
  /\ transport = "thread" => ~patient

LocalNext ==
  /\ UNCHANGED transport
  /\ \/ transport = "stdio" /\ LinkNext /\ UNCHANGED threadVars
     \/ transport = "thread" /\ Thread!Next /\ UNCHANGED linkVars

\* Nothing that either fairness is about is enabled in its initial state, so that
\* the one of the transport that is not used asks for nothing.
LocalFairSpec == LocalInit /\ [][LocalNext]_LocalVars /\ LinkFairness /\ Thread!Fairness

\* Of the thread channel: messages and the end arrive as they were sent.
Delivery == Thread!Delivery

\* A closed end hands nothing over any more.
NothingSentAfterClose == Thread!NothingSentAfterClose

\* What waits for the other end learns that it came or went.
WaitsEnd == Thread!WaitsEnd
=============================================================================
