------------------------------ MODULE FrameLink ------------------------------
(***************************************************************************)
(* What a point-to-point transport promises of the frames it carries: in    *)
(* each direction the receiver gets the frames that were sent, each once,   *)
(* in order and without a gap.  A link may stop delivering at any time.     *)
(***************************************************************************)
EXTENDS Integers, Sequences

CONSTANT Directions  (* the one-way streams of frames *)

VARIABLES
  sent,  (* how many frames were sent in each direction                *)
  got    (* the numbers of the frames that recv() returned             *)

Init ==
  /\ sent = [d \in Directions |-> 0]
  /\ got = [d \in Directions |-> <<>>]

Send(d) ==
  /\ sent' = [sent EXCEPT ![d] = @ + 1]
  /\ UNCHANGED got

Receive(d) ==
  /\ Len(got[d]) < sent[d]
  /\ got' = [got EXCEPT ![d] = Append(@, Len(@) + 1)]
  /\ UNCHANGED sent

Next == \E d \in Directions : Send(d) \/ Receive(d)

Spec == Init /\ [][Next]_<<sent, got>>
=============================================================================
