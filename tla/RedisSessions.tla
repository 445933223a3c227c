--------------------------- MODULE RedisSessions ---------------------------
(***************************************************************************)
(* RedisSessionStore (auth/sessions/redis.py): a hash of sessions and a     *)
(* sorted set of expiry times, which one Lua script changes together.       *)
(* Redis runs a script at once, so each operation is one step.              *)
(***************************************************************************)
EXTENDS Integers, FiniteSets

CONSTANTS Keys, Principals, MaxSessions, TTL, MaxTime, None

VARIABLES
  now,     (* redis TIME                                                    *)
  hash,    (* KEYS[1]: the principal of each key or None                    *)
  scores,  (* KEYS[2]: the expiry of each key, 0 if it has none             *)
  issued,  (* the keys that were drawn                                      *)
  reply    (* what the last script returned                                 *)

vars == <<now, hash, scores, issued, reply>>

Live ==
  [k \in Keys |-> IF hash[k] = None \/ scores[k] <= now THEN None
                  ELSE [principal |-> hash[k], expires |-> scores[k]]]

Init ==
  /\ now = 0
  /\ hash = [k \in Keys |-> None]
  /\ scores = [k \in Keys |-> 0]
  /\ issued = {}
  /\ reply = <<"none">>

----------------------------------------------------------------------------
\* ZRANGEBYSCORE up to now: what the script removes before it looks at anything.
Expired == {k \in Keys : scores[k] # 0 /\ scores[k] <= now}
Del(f, ks, nothing) == [k \in Keys |-> IF k \in ks THEN nothing ELSE f[k]]
Hash == Del(hash, Expired, None)
Scores == Del(scores, Expired, 0)
HLen == Cardinality({k \in Keys : Hash[k] # None})

Changes(h, z) == hash' = h /\ scores' = z

Tick ==
  /\ now < MaxTime
  /\ now' = now + 1
  /\ UNCHANGED <<hash, scores, issued, reply>>

Create(k, p) ==
  /\ k \notin issued
  /\ IF HLen >= MaxSessions
       THEN Changes(Hash, Scores) /\ reply' = <<"full">>
       ELSE /\ Changes([Hash EXCEPT ![k] = p], [Scores EXCEPT ![k] = now + TTL])
            /\ reply' = <<"created">>
  /\ issued' = issued \cup {k}
  /\ UNCHANGED now

\* A session without an expiry is no session.
Get(k) ==
  /\ Changes(Hash, Scores)
  /\ reply' = <<"get", k, IF Scores[k] = 0 THEN None ELSE Hash[k]>>
  /\ UNCHANGED <<now, issued>>

Destroy(k) ==
  /\ Changes([Hash EXCEPT ![k] = None], [Scores EXCEPT ![k] = 0])
  /\ reply' = <<"destroyed">>
  /\ UNCHANGED <<now, issued>>

Rotate(k, n) ==
  /\ n # k /\ n \notin issued
  /\ IF Hash[k] = None
       THEN Changes(Hash, Scores) /\ reply' = <<"rotate", k, FALSE>>
       ELSE IF Scores[k] = 0
         THEN Changes(Hash, Scores) /\ reply' = <<"unavailable">>
         ELSE /\ Changes([Hash EXCEPT ![n] = Hash[k], ![k] = None], [Scores EXCEPT ![n] = Scores[k], ![k] = 0])
              /\ reply' = <<"rotate", k, TRUE>>
  /\ issued' = issued \cup {n}
  /\ UNCHANGED now

Revoke(p) ==
  /\ LET revoked == {k \in Keys : Hash[k] = p} IN
       /\ Changes(Del(Hash, revoked, None), Del(Scores, revoked, 0))
       /\ reply' = <<"revoke", p, Cardinality(revoked)>>
  /\ UNCHANGED <<now, issued>>

\* The script was not run.
Unavailable ==
  /\ reply' = <<"unavailable">>
  /\ UNCHANGED <<now, hash, scores, issued>>

Next ==
  \/ Tick \/ Unavailable
  \/ \E k \in Keys :
       \/ \E p \in Principals : Create(k, p)
       \/ Get(k) \/ Destroy(k) \/ (\E n \in Keys : Rotate(k, n))
  \/ \E p \in Principals : Revoke(p)

Spec == Init /\ [][Next]_vars

----------------------------------------------------------------------------
TypeOK ==
  /\ now \in 0..MaxTime
  /\ hash \in [Keys -> Principals \cup {None}]
  /\ scores \in [Keys -> 0..(MaxTime + TTL)]
  /\ issued \subseteq Keys

\* The two structures agree: no session lives for ever because its expiry was
\* lost and none is refused because of an expiry that was left over.
IndexAgrees == \A k \in Keys : hash[k] # None <=> scores[k] # 0
=============================================================================
