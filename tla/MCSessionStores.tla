-------------------------- MODULE MCSessionStores --------------------------
(***************************************************************************)
(* Instances of the session stores for TLC: five ids, so that with room for *)
(* two sessions the heap of the in-memory store is rebuilt.  A behaviour is *)
(* one of SessionStores or one of PostgresSessions, whose variables then    *)
(* stay as they are.                                                        *)
(***************************************************************************)
EXTENDS SessionStores, TLC

CONSTANT MaxIssued

VARIABLES
  database,  (* the stores that are used                                    *)
  dbNow, rows, dbIssued, lock, at, clock, counted, changes

Postgres == INSTANCE PostgresSessions WITH now <- dbNow, table <- rows, issued <- dbIssued

ASSUME PostgresAssumption == Postgres!Assumption

storeVars == <<now, sessions, expiry, issued, reply, hash, scores, redisReply,
               table, ready, active, caller, thread, sqliteReply>>
postgresVars == <<dbNow, rows, dbIssued, lock, at, clock, counted, changes>>
all == <<storeVars, postgresVars, database>>

AllInit == StoresInit /\ Postgres!Init /\ database \in {"stores", "postgres"}

AllNext ==
  /\ UNCHANGED database
  /\ \/ database = "stores" /\ StoresNext /\ UNCHANGED postgresVars
     \/ database = "postgres" /\ Postgres!Next /\ UNCHANGED storeVars

AllSpec == AllInit /\ [][AllNext]_all

\* Of the PostgreSQL store: operations of all processes are serial.
PostgresSerial == Postgres!TypeOK /\ Postgres!Serial

\* All four stores are as they should be, the three that are asked the same and
\* the one whose transactions interleave.
AllAccounted == StoresAccounted /\ PostgresSerial

Symmetry == Permutations(Calls) \cup Permutations(Keys) \cup Permutations(Principals)
=============================================================================
