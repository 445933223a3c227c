--------------------------- MODULE SqliteSessions ---------------------------
(***************************************************************************)
(* SQLiteSessionStore (auth/sessions/sqlite.py): each operation is a        *)
(* transaction in a worker thread, at most max_concurrency at once.  A      *)
(* caller that is cancelled leaves its thread behind, which keeps its slot. *)
(*                                                                         *)
(* BEGIN IMMEDIATE lets one transaction run at a time, of all threads and   *)
(* processes, so a transaction is one step: its commit.  What an operation  *)
(* is asked for matters only then, so it is chosen then.  Session ids are   *)
(* random and never repeat.  PostgresSessions has the store whose           *)
(* transactions do mix.                                                     *)
(***************************************************************************)
EXTENDS Integers, FiniteSets

CONSTANTS Keys, Principals, MaxSessions, TTL, MaxTime, None,
  Calls,           (* the callers                                           *)
  MaxConcurrency   (* max_concurrency                                       *)

VARIABLES
  now,     (* time.time()                                                   *)
  table,   (* wire_sessions: the session of each key or None                *)
  issued,  (* the keys that were drawn                                      *)
  ready,   (* `_ready`                                                      *)
  active,  (* `_active`                                                     *)
  caller,  (* where each caller is                                          *)
  thread,  (* where the thread of each caller is                            *)
  reply    (* what the last transaction answered its thread                 *)

control == <<ready, active, caller>>
vars == <<now, table, issued, control, thread, reply>>

Live == [k \in Keys |-> IF table[k] # None /\ table[k].expires <= now THEN None ELSE table[k]]
Abstract == INSTANCE Sessions WITH live <- Live

Init ==
  /\ now = 0
  /\ table = [k \in Keys |-> None]
  /\ issued = {}
  /\ ready = FALSE
  /\ active = 0
  /\ caller = [c \in Calls |-> "idle"]
  /\ thread = [c \in Calls |-> "none"]
  /\ reply = <<"none">>

Startup == ready' = TRUE /\ ~ready /\ UNCHANGED <<now, table, issued, active, caller, thread, reply>>
Shutdown == ready' = FALSE /\ ready /\ UNCHANGED <<now, table, issued, active, caller, thread, reply>>

\* The process dies: what was not committed is rolled back.
Crash ==
  /\ \E c \in Calls : thread[c] = "running"
  /\ ready' = FALSE /\ active' = 0
  /\ caller' = [c \in Calls |-> "idle"] /\ thread' = [c \in Calls |-> "none"]
  /\ UNCHANGED <<now, table, issued, reply>>

Tick ==
  /\ now < MaxTime
  /\ now' = now + 1
  /\ UNCHANGED <<table, issued, control, thread, reply>>

----------------------------------------------------------------------------
\* _execute: a slot is taken and the thread begins.  A call that finds the
\* store not started or all slots taken fails without a trace.
Call(c) ==
  /\ ready /\ active < MaxConcurrency
  /\ caller[c] = "idle"
  /\ active' = active + 1
  /\ caller' = [caller EXCEPT ![c] = "waiting"]
  /\ thread' = [thread EXCEPT ![c] = "running"]
  /\ UNCHANGED <<now, table, issued, ready, reply>>

\* The caller is idle again and its slot free.
Released(c) ==
  /\ caller' = [caller EXCEPT ![c] = "idle"]
  /\ thread' = [thread EXCEPT ![c] = "none"]
  /\ active' = active - 1
  /\ UNCHANGED <<now, table, issued, ready, reply>>

\* The outcome reaches the caller.
Return(c) == caller[c] = "waiting" /\ thread[c] = "over" /\ Released(c)

\* Mutant of Cancel: the slot is released although the thread goes on.
CancelReleasing(c) ==
  /\ caller[c] = "waiting" /\ thread[c] = "running"
  /\ caller' = [caller EXCEPT ![c] = "cancelled"]
  /\ active' = active - 1
  /\ UNCHANGED <<now, table, issued, ready, thread, reply>>

\* The caller is cancelled while its thread runs: the slot stays taken.
Cancel(c) ==
  /\ caller[c] = "waiting" /\ thread[c] = "running"
  /\ caller' = [caller EXCEPT ![c] = "cancelled"]
  /\ UNCHANGED <<now, table, issued, ready, active, thread, reply>>

\* `finished`, the callback of a task whose caller has gone.
Finished(c) == caller[c] = "cancelled" /\ thread[c] = "over" /\ Released(c)

----------------------------------------------------------------------------
\* Mutant of Rows: the rows that have expired are counted and returned.
AllRows == table

\* The rows that are left when those that have expired are deleted.
Rows == Live

\* A thread commits: the table, and the answer of its transaction.
Commits(c, rows, answer) ==
  /\ thread[c] = "running"
  /\ table' = rows /\ reply' = answer
  /\ thread' = [thread EXCEPT ![c] = "over"]
  /\ UNCHANGED <<now, control>>

\* At capacity the transaction is rolled back.
Create(c, k, p) ==
  /\ k \notin issued
  /\ IF Abstract!Count(Rows) >= MaxSessions
       THEN Commits(c, table, <<"full">>)
       ELSE Commits(c, [Rows EXCEPT ![k] = [principal |-> p, expires |-> now + TTL]], <<"created">>)
  /\ issued' = issued \cup {k}

Get(c, k) ==
  /\ Commits(c, Rows, <<"get", k, IF Rows[k] = None THEN None ELSE Rows[k].principal>>)
  /\ UNCHANGED issued

Destroy(c, k) ==
  /\ Commits(c, [Rows EXCEPT ![k] = None], <<"destroyed">>)
  /\ UNCHANGED issued

\* UPDATE of the digest, which keeps principal and expiry.
Rotate(c, k, n) ==
  /\ n # k /\ n \notin issued
  /\ Commits(c, [Rows EXCEPT ![k] = None, ![n] = Rows[k]], <<"rotate", k, Rows[k] # None>>)
  /\ issued' = issued \cup {n}

Revoke(c, p) ==
  /\ LET revoked == Abstract!Of(p, Rows) IN
       Commits(c, [k \in Keys |-> IF k \in revoked THEN None ELSE Rows[k]], <<"revoke", p, Cardinality(revoked)>>)
  /\ UNCHANGED issued

\* The lock is not free in time, or the database fails: rolled back.
Rollback(c) == Commits(c, table, <<"unavailable">>) /\ UNCHANGED issued

----------------------------------------------------------------------------
Next ==
  \/ Startup \/ Shutdown \/ Crash \/ Tick
  \/ \E c \in Calls :
       \/ Call(c) \/ Return(c) \/ Cancel(c) \/ Finished(c) \/ Rollback(c)
       \/ \E k \in Keys :
            \/ \E p \in Principals : Create(c, k, p)
            \/ Get(c, k) \/ Destroy(c, k) \/ \E n \in Keys : Rotate(c, k, n)
       \/ \E p \in Principals : Revoke(c, p)

Spec == Init /\ [][Next]_vars

----------------------------------------------------------------------------
TypeOK ==
  /\ now \in 0..MaxTime
  /\ table \in [Keys -> Abstract!Session \cup {None}]
  /\ issued \subseteq Keys
  /\ ready \in BOOLEAN
  /\ active \in 0..MaxConcurrency
  /\ caller \in [Calls -> {"idle", "waiting", "cancelled"}]
  /\ thread \in [Calls -> {"none", "running", "over"}]

\* The slots that are taken are those of the threads that were begun and not
\* yet accounted for, also when their callers have long been cancelled
\* (sqlite.py:58): at most max_concurrency transactions run, and cancelled
\* callers do not wear the store out until it refuses everybody.
SlotsExact ==
  /\ active = Cardinality({c \in Calls : thread[c] # "none"})
  /\ \A c \in Calls : caller[c] = "idle" <=> thread[c] = "none"
=============================================================================
