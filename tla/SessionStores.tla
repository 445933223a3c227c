--------------------------- MODULE SessionStores ---------------------------
(***************************************************************************)
(* The three session stores side by side.  Callers use a SQLite store; when *)
(* one of its transactions ends, the in-memory store and the Redis store    *)
(* are asked the same.  `SessionStore` (auth/sessions/protocol.py) lets any *)
(* one take another's place, so what they hold and answer must not differ.  *)
(***************************************************************************)
EXTENDS MemorySessions

CONSTANTS Calls, MaxConcurrency   (* see SqliteSessions                     *)

ASSUME StoresAssumption ==
  /\ None \notin Keys \cup Principals
  /\ IsFiniteSet(Calls) /\ MaxConcurrency \in Nat \ {0}

VARIABLES
  hash, scores, redisReply,                          (* see RedisSessions   *)
  table, ready, active, caller, thread, sqliteReply  (* see SqliteSessions  *)

Redis == INSTANCE RedisSessions WITH reply <- redisReply
Sqlite == INSTANCE SqliteSessions WITH reply <- sqliteReply

memoryVars == <<sessions, expiry, reply>>
redisVars == <<hash, scores, redisReply>>
stores == <<vars, redisVars, Sqlite!vars>>

StoresInit == Init /\ Redis!Init /\ Sqlite!Init

\* A transaction of caller c, and the same operation on the other stores.
Asked(c) ==
  \/ \E k \in Keys :
       \/ \E p \in Principals : Sqlite!Create(c, k, p) /\ Create(k, p) /\ Redis!Create(k, p)
       \/ Sqlite!Get(c, k) /\ Get(k) /\ Redis!Get(k)
       \/ Sqlite!Destroy(c, k) /\ Destroy(k) /\ Redis!Destroy(k)
       \/ \E n \in Keys : Sqlite!Rotate(c, k, n) /\ Rotate(k, n) /\ Redis!Rotate(k, n)
  \/ \E p \in Principals : Sqlite!Revoke(c, p) /\ Revoke(p) /\ Redis!Revoke(p)

StoresNext ==
  \/ Sqlite!Tick /\ Tick /\ Redis!Tick
  \/ (Sqlite!Startup \/ Sqlite!Shutdown \/ Sqlite!Crash) /\ UNCHANGED <<memoryVars, redisVars>>
  \/ \E c \in Calls :
       \/ Asked(c)
       \/ (Sqlite!Call(c) \/ Sqlite!Return(c) \/ Sqlite!Cancel(c) \/ Sqlite!Finished(c)) /\ UNCHANGED <<memoryVars, redisVars>>
       \/ Sqlite!Rollback(c) /\ Redis!Unavailable /\ UNCHANGED memoryVars

StoresSpec == StoresInit /\ [][StoresNext]_stores

----------------------------------------------------------------------------
StoresTypeOK == TypeOK /\ Redis!TypeOK /\ Sqlite!TypeOK

\* See IndexAgrees of RedisSessions and SlotsExact of SqliteSessions.
RedisIndexed == Redis!IndexAgrees
SqliteSlotsExact == Sqlite!SlotsExact

\* A store can take another's place: asked the same they hold the same live
\* sessions and answer the same.  A heap that forgets lazily, a script over two
\* structures and transactions whose callers were cancelled, that were rolled
\* back or died with the process make no difference.
StoresAgree ==
  /\ Live = Redis!Live /\ Live = Sqlite!Live
  /\ sqliteReply # <<"unavailable">> => sqliteReply = reply /\ redisReply = reply

\* Each store keeps its second structure in step with its sessions: the heap, the
\* expiry index and the slots of the threads, and the stores agree; and all three are typed.
StoresAccounted ==
  StoresTypeOK /\ HeapExact /\ RedisIndexed /\ SqliteSlotsExact /\ StoresAgree
=============================================================================
