--------------------------- MODULE MemorySessions ---------------------------
(***************************************************************************)
(* InMemorySessionStore (auth/sessions/memory.py): a dictionary of sessions *)
(* and a heap of expiry times that forgets lazily.  An ended session stays  *)
(* in the heap until its time or until the heap is rebuilt.                 *)
(*                                                                         *)
(* An operation does not suspend, so each is one step.  Session ids are     *)
(* random and never repeat, so the branches for a collision are left out.   *)
(***************************************************************************)
EXTENDS Integers, FiniteSets

CONSTANTS Keys, Principals, MaxSessions, TTL, MaxTime, None

VARIABLES
  now,       (* time.monotonic()                                            *)
  sessions,  (* `_sessions`: the session of each key or None                *)
  expiry,    (* `_expiry`: the entries <<expires, key>> of the heap         *)
  issued,    (* the keys that were drawn                                    *)
  reply      (* what the last operation answered                            *)

vars == <<now, sessions, expiry, issued, reply>>

\* The store as Sessions sees it: what has expired but was not pruned is gone.
Live == [k \in Keys |-> IF sessions[k] # None /\ sessions[k].expires <= now THEN None ELSE sessions[k]]
Abstract == INSTANCE Sessions WITH live <- Live

ASSUME MemoryAssumption ==
  /\ IsFiniteSet(Keys) /\ None \notin Abstract!Session
  /\ MaxSessions \in Nat \ {0} /\ TTL \in Nat \ {0} /\ MaxTime \in Nat

Held(ss) == {k \in Keys : ss[k] # None}
Entries(ss) == {<<ss[k].expires, k>> : k \in Held(ss)}
Entry == (1..(MaxTime + TTL)) \X Keys

Init ==
  /\ now = 0
  /\ sessions = [k \in Keys |-> None]
  /\ expiry = {}
  /\ issued = {}
  /\ reply = <<"none">>

----------------------------------------------------------------------------
\* _prune(): the entries whose time has come are popped, each with the session
\* that has that very expiry.
Unexpired(ss, heap) ==
  [k \in Keys |-> IF \E x \in heap : x[1] <= now /\ x[2] = k /\ ss[k] # None /\ ss[k].expires = x[1]
                    THEN None ELSE ss[k]]

\* The heap is rebuilt when it is more than twice as large as it need be.
Rebuilt(ss, heap) == IF Cardinality(heap) > 2 * MaxSessions THEN Entries(ss) ELSE heap

PrunedHeap(ss, heap) == Rebuilt(Unexpired(ss, heap), {x \in heap : x[1] > now})

\* Every operation begins with _prune().
Pruned == Unexpired(sessions, expiry)
PrunedExpiry == PrunedHeap(sessions, expiry)

\* And those that end sessions end with it.
Store(ss, heap) == sessions' = Unexpired(ss, heap) /\ expiry' = PrunedHeap(ss, heap)

Tick ==
  /\ now < MaxTime
  /\ now' = now + 1
  /\ UNCHANGED <<sessions, expiry, issued, reply>>

\* Mutant of Create: one more than max_sessions.
CreateOneMore(k, p) ==
  /\ k \notin issued
  /\ IF Cardinality(Held(Pruned)) > MaxSessions
       THEN /\ sessions' = Pruned /\ expiry' = PrunedExpiry
            /\ reply' = <<"full">>
       ELSE /\ sessions' = [Pruned EXCEPT ![k] = [principal |-> p, expires |-> now + TTL]]
            /\ expiry' = PrunedExpiry \cup {<<now + TTL, k>>}
            /\ reply' = <<"created">>
  /\ issued' = issued \cup {k}
  /\ UNCHANGED now

Create(k, p) ==
  /\ k \notin issued
  /\ IF Cardinality(Held(Pruned)) >= MaxSessions
       THEN /\ sessions' = Pruned /\ expiry' = PrunedExpiry
            /\ reply' = <<"full">>
       ELSE /\ sessions' = [Pruned EXCEPT ![k] = [principal |-> p, expires |-> now + TTL]]
            /\ expiry' = PrunedExpiry \cup {<<now + TTL, k>>}
            /\ reply' = <<"created">>
  /\ issued' = issued \cup {k}
  /\ UNCHANGED now

Get(k) ==
  /\ sessions' = Pruned /\ expiry' = PrunedExpiry
  /\ reply' = <<"get", k, IF Pruned[k] = None THEN None ELSE Pruned[k].principal>>
  /\ UNCHANGED <<now, issued>>

Destroy(k) ==
  /\ Store([Pruned EXCEPT ![k] = None], PrunedExpiry)
  /\ reply' = <<"destroyed">>
  /\ UNCHANGED <<now, issued>>

Rotate(k, n) ==
  /\ n # k /\ n \notin issued
  /\ IF Pruned[k] # None
       THEN /\ Store([Pruned EXCEPT ![k] = None, ![n] = Pruned[k]], PrunedExpiry \cup {<<Pruned[k].expires, n>>})
            /\ reply' = <<"rotate", k, TRUE>>
       ELSE /\ sessions' = Pruned /\ expiry' = PrunedExpiry
            /\ reply' = <<"rotate", k, FALSE>>
  /\ issued' = issued \cup {n}
  /\ UNCHANGED now

Revoke(p) ==
  /\ LET revoked == Abstract!Of(p, Pruned) IN
       /\ Store([k \in Keys |-> IF k \in revoked THEN None ELSE Pruned[k]], PrunedExpiry)
       /\ reply' = <<"revoke", p, Cardinality(revoked)>>
  /\ UNCHANGED <<now, issued>>

Next ==
  \/ Tick
  \/ \E k \in Keys :
       \/ \E p \in Principals : Create(k, p)
       \/ Get(k) \/ Destroy(k) \/ (\E n \in Keys : Rotate(k, n))
  \/ \E p \in Principals : Revoke(p)

Spec == Init /\ [][Next]_vars

----------------------------------------------------------------------------
TypeOK ==
  /\ now \in 0..MaxTime
  /\ sessions \in [Keys -> Abstract!Session \cup {None}]
  /\ expiry \subseteq Entry
  /\ issued \subseteq Keys
  /\ \A k \in Keys \ issued : sessions[k] = None

\* Every session is in the heap with its own expiry, through rotations and
\* rebuilding: _prune() finds it when its time has come.
Indexed == Entries(sessions) \subseteq expiry

\* Logging in and out does not let the heap grow: it holds at most twice the
\* sessions there may be, and until the next operation the one just created.
HeapBounded ==
  Cardinality(expiry) <= IF reply = <<"created">> THEN 2 * MaxSessions + 1 ELSE 2 * MaxSessions

\* The heap has what it needs, and not much more.
HeapExact == Indexed /\ HeapBounded

\* The store answers as the promise says at every moment, although it forgets
\* expired sessions only when it is used: max_sessions counts live sessions,
\* and rotation neither prolongs a session nor leaves the old id valid.
MemoryImplementsSessions == Abstract!Spec
=============================================================================
