---------------------------- MODULE PeerService ----------------------------
(***************************************************************************)
(* What MulticastApp promises to the peers of a transport, whatever the     *)
(* interleaving of its tasks: a peer has one request executing at a time, a *)
(* request is refused only while another one of its peer is unfinished, and *)
(* the app works on a bounded number of requests at once                    *)
(* (multicast_app.py:37-39, :55).                                           *)
(***************************************************************************)
EXTENDS Integers, FiniteSets

CONSTANTS Requests, MaxConcurrency

VARIABLES
  owner,      (* the peer that sent each request                            *)
  executing,  (* the requests whose handlers may run                        *)
  refusing,   (* the requests being answered -32002                         *)
  finished    (* the requests the app is done with                          *)

vars == <<owner, executing, refusing, finished>>

Active == executing \cup refusing
ActiveOf(p) == {r \in Active : owner[r] = p}

Init ==
  /\ executing = {}
  /\ refusing = {}
  /\ finished = {}

\* The peer sends r.
Send(r) ==
  /\ r \notin Active \cup finished
  /\ \A s \in Requests \ {r} : owner'[s] = owner[s]
  /\ UNCHANGED <<executing, refusing, finished>>

Admissible(r) ==
  /\ r \notin Active \cup finished
  /\ Cardinality(Active) < MaxConcurrency

Execute(r) ==
  /\ Admissible(r)
  /\ ActiveOf(owner[r]) = {}
  /\ executing' = executing \cup {r}
  /\ UNCHANGED <<owner, refusing, finished>>

Refuse(r) ==
  /\ Admissible(r)
  /\ ActiveOf(owner[r]) # {}
  /\ refusing' = refusing \cup {r}
  /\ UNCHANGED <<owner, executing, finished>>

Finish(r) ==
  /\ r \in Active
  /\ executing' = executing \ {r}
  /\ refusing' = refusing \ {r}
  /\ finished' = finished \cup {r}
  /\ UNCHANGED owner

Next == \E r \in Requests : Send(r) \/ Execute(r) \/ Refuse(r) \/ Finish(r)

Spec == Init /\ [][Next]_vars
=============================================================================
