-------------------------- MODULE PostgresSessions --------------------------
(***************************************************************************)
(* PostgresSessionStore (auth/sessions/postgres.py): each operation is a    *)
(* transaction of several statements, sent one by one from any process that *)
(* shares the database.  At READ COMMITTED each statement sees what is      *)
(* committed when it runs and what its own transaction has changed; only    *)
(* the advisory lock keeps the statements of two operations apart.          *)
(*                                                                         *)
(* A connection or its caller may end at any statement.  The rows are those *)
(* of one namespace.  What get, rotate and revoke answer is left out: they  *)
(* are read off the rows that the invariant below is about.                 *)
(***************************************************************************)
EXTENDS Integers, FiniteSets

CONSTANTS Keys, Principals, MaxSessions, TTL, MaxTime, None,
  Calls,      (* the calls that share the database                          *)
  MaxIssued   (* bound: the ids that are drawn                              *)

Session == [principal : Principals, expires : 1..(MaxTime + TTL)]

Assumption ==
  /\ IsFiniteSet(Keys) /\ None \notin Calls \cup Session
  /\ {MaxSessions, TTL} \subseteq Nat \ {0} /\ {MaxTime, MaxIssued} \subseteq Nat

VARIABLES
  now,      (* the clock of the database                                    *)
  table,    (* the committed rows, None where there is none                 *)
  issued,   (* the keys that were drawn                                     *)
  lock,     (* the call that holds the advisory lock                        *)
  at,       (* the statement each call has got to                           *)
  clock,    (* the time its transaction has read                            *)
  counted,  (* the sessions it has counted                                  *)
  changes   (* the rows its transaction has changed, a function of their keys *)

transaction == <<lock, at, clock, counted, changes>>
vars == <<now, table, issued, transaction>>

Nothing == [k \in {} |-> None]

\* The rows that the statements of c see.
Visible(c) == [k \in Keys |-> IF k \in DOMAIN changes[c] THEN changes[c][k] ELSE table[k]]
Rows(c) == {k \in Keys : Visible(c)[k] # None}

Init ==
  /\ now = 0 /\ table = [k \in Keys |-> None] /\ issued = {}
  /\ lock = None
  /\ at = [c \in Calls |-> "idle"] /\ clock = [c \in Calls |-> 0] /\ counted = [c \in Calls |-> 0]
  /\ changes = [c \in Calls |-> Nothing]

Tick == now < MaxTime /\ now' = now + 1 /\ UNCHANGED <<table, issued, transaction>>

Moves(c, from, to) == at[c] = from /\ at' = [at EXCEPT ![c] = to]

----------------------------------------------------------------------------
\* A connection is acquired and its transaction asks for the lock.
Begin(c) ==
  /\ Moves(c, "idle", "lock")
  /\ UNCHANGED <<now, table, issued, lock, clock, counted, changes>>

\* Mutant of Lock: the lock is not waited for.
LockTried(c) ==
  /\ Moves(c, "lock", "clock")
  /\ lock' = IF lock = None THEN c ELSE lock
  /\ UNCHANGED <<now, table, issued, clock, counted, changes>>

Lock(c) ==
  /\ lock = None /\ Moves(c, "lock", "clock")
  /\ lock' = c
  /\ UNCHANGED <<now, table, issued, clock, counted, changes>>

ReadClock(c) ==
  /\ Moves(c, "clock", "purge")
  /\ clock' = [clock EXCEPT ![c] = now]
  /\ UNCHANGED <<now, table, issued, lock, counted, changes>>

\* A statement writes the row of every key of `keys`, or deletes it.
Writes(c, keys, row) ==
  changes' = [changes EXCEPT ![c] = [k \in DOMAIN @ \cup keys |-> IF k \in keys THEN row[k] ELSE @[k]]]
Deletes(c, keys) == Writes(c, keys \cap Rows(c), [k \in Keys |-> None])

Purge(c) ==
  /\ Moves(c, "purge", "operation")
  /\ Deletes(c, {k \in Rows(c) : Visible(c)[k].expires <= clock[c]})
  /\ UNCHANGED <<now, table, issued, lock, clock, counted>>

\* create: the sessions are counted, then one is inserted if there is room.
CountSessions(c) ==
  /\ Moves(c, "operation", "counted")
  /\ counted' = [counted EXCEPT ![c] = Cardinality(Rows(c))]
  /\ UNCHANGED <<now, table, issued, lock, clock, changes>>

Insert(c, k, p) ==
  /\ k \notin issued /\ Cardinality(issued) < MaxIssued
  /\ counted[c] < MaxSessions /\ Moves(c, "counted", "commit")
  /\ issued' = issued \cup {k}
  /\ Writes(c, {k}, [x \in {k} |-> [principal |-> p, expires |-> clock[c] + TTL]])
  /\ UNCHANGED <<now, table, lock, clock, counted>>

Get(c) ==
  /\ Moves(c, "operation", "commit")
  /\ UNCHANGED <<now, table, issued, lock, clock, counted, changes>>

Destroy(c, k) ==
  /\ Moves(c, "operation", "commit") /\ Deletes(c, {k})
  /\ UNCHANGED <<now, table, issued, lock, clock, counted>>

\* UPDATE of the digest, which keeps principal and expiry.
Rotate(c, k, n) ==
  /\ k \in Rows(c) /\ n \notin issued /\ Cardinality(issued) < MaxIssued
  /\ Moves(c, "operation", "commit")
  /\ issued' = issued \cup {n}
  /\ Writes(c, {k, n}, [x \in {k, n} |-> IF x = n THEN Visible(c)[k] ELSE None])
  /\ UNCHANGED <<now, table, lock, clock, counted>>

Revoke(c, p) ==
  /\ Moves(c, "operation", "commit") /\ Deletes(c, {k \in Rows(c) : Visible(c)[k].principal = p})
  /\ UNCHANGED <<now, table, issued, lock, clock, counted>>

\* The transaction ends, its lock with it.
Ends(c, rows) ==
  /\ table' = rows
  /\ at' = [at EXCEPT ![c] = "idle"]
  /\ lock' = IF lock = c THEN None ELSE lock
  /\ clock' = [clock EXCEPT ![c] = 0] /\ counted' = [counted EXCEPT ![c] = 0]
  /\ changes' = [changes EXCEPT ![c] = Nothing]
  /\ UNCHANGED <<now, issued>>

Commit(c) == at[c] = "commit" /\ Ends(c, Visible(c))

\* There is no room, or the call is cancelled or its connection lost: rolled back.
RollBack(c) == at[c] # "idle" /\ Ends(c, table)

----------------------------------------------------------------------------
Next ==
  \/ Tick
  \/ \E c \in Calls :
       \/ Begin(c) \/ Lock(c) \/ ReadClock(c) \/ Purge(c) \/ CountSessions(c) \/ Get(c) \/ Commit(c) \/ RollBack(c)
       \/ \E k \in Keys :
            \/ \E p \in Principals : Insert(c, k, p)
            \/ Destroy(c, k) \/ \E n \in Keys : Rotate(c, k, n)
       \/ \E p \in Principals : Revoke(c, p)

Spec == Init /\ [][Next]_vars

----------------------------------------------------------------------------
TypeOK ==
  /\ now \in 0..MaxTime /\ issued \subseteq Keys
  /\ table \in [Keys -> Session \cup {None}]
  /\ lock \in Calls \cup {None}
  /\ at \in [Calls -> {"idle", "lock", "clock", "purge", "operation", "counted", "commit"}]
  /\ clock \in [Calls -> 0..MaxTime] /\ counted \in [Calls -> Nat]
  /\ DOMAIN changes = Calls
  /\ \A c \in Calls : changes[c] \in [DOMAIN changes[c] \cap Keys -> Session \cup {None}]

\* Operations of all processes happen one after the other: what a transaction has
\* read still holds when it acts on it, so that none lets a session live past
\* its time, and no two creations take the last place.
Serial ==
  /\ Cardinality({k \in Keys : table[k] # None}) <= MaxSessions
  /\ \A c \in Calls :
       /\ at[c] \in {"operation", "counted", "commit"} => \A k \in Rows(c) : Visible(c)[k].expires > clock[c]
       /\ at[c] = "counted" => counted[c] = Cardinality(Rows(c))
       /\ at[c] = "commit" => Cardinality(Rows(c)) <= MaxSessions
=============================================================================
