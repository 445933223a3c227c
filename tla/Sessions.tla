------------------------------ MODULE Sessions ------------------------------
(***************************************************************************)
(* What every session store promises (auth/sessions/protocol.py): each      *)
(* operation happens at once, a session ends when it is destroyed, rotated  *)
(* away, revoked or ttl after its creation, and at most max_sessions live.  *)
(***************************************************************************)
EXTENDS Integers, FiniteSets

CONSTANTS
  Keys,         (* the digests of session ids                               *)
  Principals,   (* the users                                                *)
  MaxSessions,  (* max_sessions                                             *)
  TTL,          (* ttl, in ticks                                            *)
  MaxTime,      (* bound: the ticks that are counted                        *)
  None

VARIABLES
  now,    (* the time                                                       *)
  live,   (* the session of each key, None if it has none                   *)
  reply   (* what the last operation answered                               *)

Session == [principal : Principals, expires : 1..(MaxTime + TTL)]

Count(sessions) == Cardinality({k \in Keys : sessions[k] # None})
Of(p, sessions) == {k \in Keys : sessions[k] # None /\ sessions[k].principal = p}
\* `sessions` at time t, without those that have expired.
At(t, sessions) ==
  [k \in Keys |-> IF sessions[k] # None /\ sessions[k].expires <= t THEN None ELSE sessions[k]]

Init ==
  /\ now = 0
  /\ live = [k \in Keys |-> None]
  /\ reply = <<"none">>

Tick ==
  /\ now < MaxTime
  /\ now' = now + 1
  /\ live' = At(now + 1, live)
  /\ UNCHANGED reply

Create(k, p) ==
  /\ live[k] = None
  /\ IF Count(live) < MaxSessions
       THEN /\ live' = [live EXCEPT ![k] = [principal |-> p, expires |-> now + TTL]]
            /\ reply' = <<"created">>
       ELSE reply' = <<"full">> /\ UNCHANGED live
  /\ UNCHANGED now

Get(k) ==
  /\ reply' = <<"get", k, IF live[k] = None THEN None ELSE live[k].principal>>
  /\ UNCHANGED <<now, live>>

Destroy(k) ==
  /\ live' = [live EXCEPT ![k] = None]
  /\ reply' = <<"destroyed">>
  /\ UNCHANGED now

\* The session goes on under its new key, until the same time.
Rotate(k, n) ==
  /\ n # k /\ live[n] = None
  /\ reply' = <<"rotate", k, live[k] # None>>
  /\ live' = [live EXCEPT ![k] = None, ![n] = live[k]]
  /\ UNCHANGED now

Revoke(p) ==
  /\ live' = [k \in Keys |-> IF k \in Of(p, live) THEN None ELSE live[k]]
  /\ reply' = <<"revoke", p, Cardinality(Of(p, live))>>
  /\ UNCHANGED now

\* The store cannot answer, and has done nothing.
Unavailable == reply' = <<"unavailable">> /\ UNCHANGED <<now, live>>

Next ==
  \/ Tick \/ Unavailable
  \/ \E k \in Keys :
       \/ \E p \in Principals : Create(k, p)
       \/ Get(k) \/ Destroy(k) \/ (\E n \in Keys : Rotate(k, n))
  \/ \E p \in Principals : Revoke(p)

vars == <<now, live, reply>>
Spec == Init /\ [][Next]_vars
=============================================================================
