------------------------ MODULE SessionStoresProofs ------------------------
(***************************************************************************)
(* Proofs about the session stores, for any keys, users, capacity, ttl,     *)
(* callers and processes.  The in-memory store keeps its heap in step with  *)
(* its sessions and implements Sessions; the Redis and the SQLite store,    *)
(* asked the same, hold and answer the same; and the advisory lock makes    *)
(* the transactions of the PostgreSQL store serial.                         *)
(***************************************************************************)
EXTENDS MCSessionStores, FiniteSetTheorems, TLAPS

Contents == [Keys -> Abstract!Session \cup {None}]

\* A store and its heap between two operations.
Consistent(ss, heap) ==
  /\ ss \in Contents
  /\ heap \subseteq Entry
  /\ IsFiniteSet(heap)
  /\ Entries(ss) \subseteq heap
  /\ Cardinality(Held(ss)) <= MaxSessions

IInv ==
  /\ TypeOK /\ IsFiniteSet(expiry)
  /\ Consistent(sessions, expiry)
  /\ HeapBounded

\* `ss` without what has expired.
Alive(ss) == [k \in Keys |-> IF ss[k] # None /\ ss[k].expires <= now THEN None ELSE ss[k]]

----------------------------------------------------------------------------
\* The sets and numbers involved.
LEMMA HeldFinite ==
  ASSUME NEW ss
  PROVE  IsFiniteSet(Held(ss)) /\ Cardinality(Held(ss)) \in Nat
<1>1. Held(ss) \in SUBSET Keys BY DEF Held
<1>2. IsFiniteSet(Held(ss)) BY <1>1, FS_Subset, MemoryAssumption
<1> QED BY <1>2, FS_CardinalityType

\* There is one entry for each session at most.
LEMMA EntriesFinite ==
  ASSUME NEW ss \in Contents
  PROVE  /\ IsFiniteSet(Entries(ss))
         /\ Cardinality(Entries(ss)) \in Nat
         /\ Cardinality(Entries(ss)) <= Cardinality(Held(ss))
         /\ Entries(ss) \subseteq Entry
<1> DEFINE f == [k \in Held(ss) |-> <<ss[k].expires, k>>]
<1>1. f \in Surjection(Held(ss), Entries(ss))
  BY DEF Surjection, Entries
<1>2. IsFiniteSet(Entries(ss)) /\ Cardinality(Entries(ss)) <= Cardinality(Held(ss))
  BY <1>1, HeldFinite, FS_Surjection
<1>3. Cardinality(Entries(ss)) \in Nat
  BY <1>2, FS_CardinalityType
<1>4. Entries(ss) \subseteq Entry
  <2>1. \A k \in Held(ss) : k \in Keys /\ ss[k] \in Abstract!Session
    BY DEF Held, Contents
  <2> QED BY <2>1 DEF Entries, Entry, Abstract!Session
<1> QED BY <1>2, <1>3, <1>4

\* In an indexed store _prune() ends the sessions that have expired, all of them.
LEMMA PruneEnds ==
  ASSUME NEW ss \in Contents, NEW heap, Entries(ss) \subseteq heap
  PROVE  Unexpired(ss, heap) = Alive(ss)
<1> SUFFICES ASSUME NEW k \in Keys
             PROVE  (\E x \in heap : x[1] <= now /\ x[2] = k /\ ss[k] # None /\ ss[k].expires = x[1])
                      <=> (ss[k] # None /\ ss[k].expires <= now)
  BY DEF Unexpired, Alive
<1>1. ASSUME ss[k] # None, ss[k].expires <= now
      PROVE  \E x \in heap : x[1] <= now /\ x[2] = k /\ ss[k] # None /\ ss[k].expires = x[1]
  <2> DEFINE x == <<ss[k].expires, k>>
  <2>1. x \in heap BY <1>1 DEF Entries, Held
  <2>2. x[1] = ss[k].expires /\ x[2] = k OBVIOUS
  <2> QED BY <1>1, <2>1, <2>2
<1> QED BY <1>1

\* The live sessions of a store are among its contents.
LEMMA AliveType ==
  ASSUME NEW ss \in Contents
  PROVE  /\ Alive(ss) \in Contents
         /\ Held(Alive(ss)) \subseteq Held(ss)
         /\ Cardinality(Held(Alive(ss))) <= Cardinality(Held(ss))
<1>1. Alive(ss) \in Contents BY DEF Alive, Contents
<1>2. Held(Alive(ss)) \subseteq Held(ss) BY DEF Alive, Held
<1> QED BY <1>1, <1>2, HeldFinite, FS_Subset

\* What _prune() keeps of the heap is still enough, and not too much.
LEMMA PruneKeeps ==
  ASSUME now \in Nat, NEW ss, NEW heap, Consistent(ss, heap)
  PROVE  /\ Consistent(Alive(ss), PrunedHeap(ss, heap))
         /\ Cardinality(PrunedHeap(ss, heap)) <= 2 * MaxSessions
<1> DEFINE left == {x \in heap : x[1] > now}
<1> DEFINE kept == Alive(ss)
<1>1. ss \in Contents /\ kept \in Contents /\ Cardinality(Held(kept)) <= MaxSessions
  <2>1. ss \in Contents /\ Cardinality(Held(ss)) <= MaxSessions BY DEF Consistent
  <2> QED BY <2>1, AliveType, HeldFinite, MemoryAssumption
<1>2. PrunedHeap(ss, heap) = IF Cardinality(left) > 2 * MaxSessions THEN Entries(kept) ELSE left
  BY <1>1, PruneEnds DEF PrunedHeap, Rebuilt, Consistent
<1>3. Entries(kept) \subseteq left
  <2> SUFFICES ASSUME NEW k \in Held(kept)
               PROVE  <<kept[k].expires, k>> \in left
    BY DEF Entries
  <2>1. k \in Keys /\ kept[k] # None /\ kept[k] = ss[k] /\ ~(ss[k].expires <= now)
    BY <1>1 DEF Held, Alive
  <2>2. ss[k].expires \in Nat
    BY <1>1, <2>1 DEF Contents, Abstract!Session
  <2>3. <<ss[k].expires, k>> \in heap
    BY <2>1 DEF Consistent, Entries, Held
  <2> QED BY <2>1, <2>2, <2>3
<1>4. left \subseteq heap /\ IsFiniteSet(left) /\ Cardinality(left) \in Nat
  BY FS_Subset, FS_CardinalityType DEF Consistent
<1>5. /\ IsFiniteSet(Entries(kept)) /\ Entries(kept) \subseteq Entry
      /\ Cardinality(Entries(kept)) <= MaxSessions /\ Cardinality(Entries(kept)) \in Nat
  BY <1>1, EntriesFinite, HeldFinite, MemoryAssumption
<1> HIDE DEF left, kept
<1>6. CASE Cardinality(left) > 2 * MaxSessions
  <2>1. PrunedHeap(ss, heap) = Entries(kept) BY <1>2, <1>6
  <2>2. Cardinality(Entries(kept)) <= 2 * MaxSessions BY <1>5, MemoryAssumption
  <2> QED BY <1>1, <1>5, <2>1, <2>2 DEF Consistent, kept
<1>7. CASE ~(Cardinality(left) > 2 * MaxSessions)
  <2>1. PrunedHeap(ss, heap) = left BY <1>2, <1>7
  <2>2. Cardinality(left) <= 2 * MaxSessions BY <1>4, <1>7, MemoryAssumption
  <2> QED BY <1>1, <1>3, <1>4, <2>1, <2>2 DEF Consistent, kept
<1> QED BY <1>6, <1>7

\* Nothing is left to end in a store that was pruned.
LEMMA AliveTwice ==
  ASSUME NEW ss \in Contents, \A k \in Keys : ss[k] = None \/ ~(ss[k].expires <= now)
  PROVE  Alive(ss) = ss
BY DEF Alive, Contents

----------------------------------------------------------------------------
\* What an operation finds after its first _prune(): the live sessions.
Fresh(ss) == \A k \in Keys : ss[k] = None \/ ~(ss[k].expires <= now)

\* Pruning leaves the sessions that are alive and a heap within its bound.
LEMMA PrunedFacts ==
  ASSUME IInv
  PROVE  /\ Live = Pruned
         /\ Consistent(Pruned, PrunedExpiry)
         /\ Cardinality(PrunedExpiry) <= 2 * MaxSessions
         /\ Fresh(Pruned)
         /\ \A k \in Keys \ issued : Pruned[k] = None
<1>1. now \in Nat BY MemoryAssumption DEF IInv, TypeOK
<1>2. Pruned = Alive(sessions)
  BY PruneEnds DEF IInv, Consistent, Pruned
<1>3. Live = Alive(sessions)
  BY DEF Live, Alive
<1>4. Consistent(Pruned, PrunedExpiry) /\ Cardinality(PrunedExpiry) <= 2 * MaxSessions
  BY <1>1, <1>2, PruneKeeps DEF IInv, PrunedExpiry
<1>5. Fresh(Alive(sessions))
  BY DEF Fresh, Alive
<1>6. \A k \in Keys \ issued : Alive(sessions)[k] = None
  BY DEF Alive, IInv, TypeOK
<1> QED BY <1>2, <1>3, <1>4, <1>5, <1>6

\* The last _prune() ends nothing.
LEMMA StoreKeeps ==
  ASSUME now \in Nat, NEW ss, NEW heap, Consistent(ss, heap), Fresh(ss), Store(ss, heap)
  PROVE  /\ sessions' = ss
         /\ Consistent(sessions', expiry')
         /\ Cardinality(expiry') <= 2 * MaxSessions
<1>1. ss \in Contents /\ Entries(ss) \subseteq heap BY DEF Consistent
<1>2. Alive(ss) = ss BY <1>1, AliveTwice DEF Fresh
<1>3. sessions' = ss BY <1>1, <1>2, PruneEnds DEF Store
<1>4. expiry' = PrunedHeap(ss, heap) BY DEF Store
<1> QED BY <1>2, <1>3, <1>4, PruneKeeps

\* A store that has nothing expired is the promise's.
LEMMA FreshIsLive ==
  ASSUME now \in Nat, sessions' \in Contents, UNCHANGED now, Fresh(sessions')
  PROVE  Live' = sessions'
<1> DEFINE ss == sessions'
<1>1. ss \in Contents /\ \A k \in Keys : ss[k] = None \/ ~(ss[k].expires <= now)
  BY DEF Fresh
<1>2. Live' = [k \in Keys |-> IF ss[k] # None /\ ss[k].expires <= now' THEN None ELSE ss[k]]
  BY DEF Live
<1> QED BY <1>1, <1>2 DEF Contents

\* An operation that leaves a consistent store keeps the invariant.
LEMMA Kept ==
  ASSUME IInv, UNCHANGED now, issued' \subseteq Keys, issued \subseteq issued',
         Consistent(sessions', expiry'),
         Cardinality(expiry') <= 2 * MaxSessions
           \/ (reply' = <<"created">> /\ Cardinality(expiry') <= 2 * MaxSessions + 1),
         \A k \in Keys \ issued' : sessions'[k] = None
  PROVE  IInv'
<1>1. TypeOK' BY DEF IInv, TypeOK, Consistent, Contents
<1>2. IsFiniteSet(expiry') BY DEF Consistent
<1>3. HeapBounded'
  <2>1. Cardinality(expiry') \in Nat BY <1>2, FS_CardinalityType
  <2>2. Cardinality(expiry') <= 2 * MaxSessions => Cardinality(expiry') <= 2 * MaxSessions + 1
    BY <2>1, MemoryAssumption
  <2> QED BY <2>2 DEF HeapBounded
<1> QED BY <1>1, <1>2, <1>3 DEF IInv

----------------------------------------------------------------------------
\* Changing single sessions.
LEMMA Removal ==
  ASSUME NEW ss, NEW heap, Consistent(ss, heap), NEW gone \in SUBSET Keys, Fresh(ss)
  PROVE  LET less == [k \in Keys |-> IF k \in gone THEN None ELSE ss[k]]
         IN  Consistent(less, heap) /\ Fresh(less)
<1> DEFINE less == [k \in Keys |-> IF k \in gone THEN None ELSE ss[k]]
<1>1. less \in Contents BY DEF Consistent, Contents
<1>2. Held(less) \subseteq Held(ss) BY DEF Held
<1>3. Cardinality(Held(less)) <= MaxSessions
  BY <1>2, HeldFinite, FS_Subset, MemoryAssumption DEF Consistent
<1>4. \A k \in Held(less) : k \in Held(ss) /\ less[k] = ss[k] BY DEF Held
<1>5. Entries(less) \subseteq heap BY <1>4 DEF Entries, Consistent
<1>6. Fresh(less) BY DEF Fresh
<1> QED BY <1>1, <1>3, <1>5, <1>6 DEF Consistent

\* A session s is put under a key that has none.
LEMMA Addition ==
  ASSUME NEW ss, NEW heap, Consistent(ss, heap), NEW n \in Keys, NEW s \in Abstract!Session,
         ss[n] = None, Cardinality(Held(ss)) < MaxSessions, Fresh(ss), ~(s.expires <= now)
  PROVE  LET more == [ss EXCEPT ![n] = s]
         IN  Consistent(more, heap \cup {<<s.expires, n>>}) /\ Fresh(more)
<1> DEFINE more == [ss EXCEPT ![n] = s]
<1>1. more \in Contents BY DEF Consistent, Contents
<1>2. s # None BY MemoryAssumption
<1>3. Held(more) = Held(ss) \cup {n} /\ n \notin Held(ss)
  BY <1>2 DEF Held, Consistent, Contents
<1>4. Cardinality(Held(more)) = Cardinality(Held(ss)) + 1
  BY <1>3, HeldFinite, FS_AddElement
<1>5. Cardinality(Held(more)) <= MaxSessions
  BY <1>4, HeldFinite, MemoryAssumption
<1>6. Entries(more) \subseteq heap \cup {<<s.expires, n>>}
  <2> SUFFICES ASSUME NEW k \in Held(more)
               PROVE  <<more[k].expires, k>> \in heap \cup {<<s.expires, n>>}
    BY DEF Entries
  <2>1. CASE k = n
    BY <2>1 DEF Consistent, Contents
  <2>2. CASE k # n
    <3>1. k \in Held(ss) BY <1>3, <2>2
    <3>2. more[k] = ss[k] BY <3>1, <2>2 DEF Held, Consistent, Contents
    <3> QED BY <3>1, <3>2 DEF Consistent, Entries
  <2> QED BY <2>1, <2>2
<1>7. <<s.expires, n>> \in Entry BY DEF Entry, Abstract!Session
<1>8. IsFiniteSet(heap \cup {<<s.expires, n>>}) BY FS_AddElement DEF Consistent
<1>9. Fresh(more) BY DEF Fresh, Consistent, Contents
<1> QED BY <1>1, <1>5, <1>6, <1>7, <1>8, <1>9 DEF Consistent

----------------------------------------------------------------------------
\* An operation that only prunes changes nothing for its callers.
LEMMA Quiet ==
  ASSUME IInv, sessions' = Pruned, expiry' = PrunedExpiry, UNCHANGED now,
         issued' \subseteq Keys, issued \subseteq issued'
  PROVE  IInv' /\ Live' = Live
<1>1. now \in Nat BY MemoryAssumption DEF IInv, TypeOK
<1>2. Consistent(sessions', expiry') /\ Cardinality(expiry') <= 2 * MaxSessions
  BY PrunedFacts
<1>3. \A k \in Keys \ issued' : sessions'[k] = None
  BY PrunedFacts
<1>4. IInv'
  BY <1>2, <1>3, Kept
<1>5. sessions' \in Contents /\ Fresh(sessions')
  BY <1>2, PrunedFacts DEF Consistent
<1>6. Live' = sessions'
  BY <1>1, <1>5, FreshIsLive
<1> QED BY <1>4, <1>6, PrunedFacts

\* An operation that ends the sessions under the keys `gone`.
LEMMA Ending ==
  ASSUME IInv, NEW gone \in SUBSET Keys, UNCHANGED <<now, issued>>,
         Store([k \in Keys |-> IF k \in gone THEN None ELSE Pruned[k]], PrunedExpiry)
  PROVE  IInv' /\ Live' = [k \in Keys |-> IF k \in gone THEN None ELSE Live[k]]
<1> DEFINE less == [k \in Keys |-> IF k \in gone THEN None ELSE Pruned[k]]
<1>1. now \in Nat BY MemoryAssumption DEF IInv, TypeOK
<1>2. Consistent(less, PrunedExpiry) /\ Fresh(less)
  BY PrunedFacts, Removal
<1>3. sessions' = less /\ Consistent(sessions', expiry') /\ Cardinality(expiry') <= 2 * MaxSessions
  <2> HIDE DEF less
  <2>1. Store(less, PrunedExpiry) BY DEF less
  <2> QED BY <1>1, <1>2, <2>1, StoreKeeps
<1>4. \A k \in Keys \ issued' : sessions'[k] = None
  BY <1>3, PrunedFacts
<1>5. issued' \subseteq Keys /\ issued \subseteq issued' BY DEF IInv, TypeOK
<1>6. IInv'
  BY <1>3, <1>4, <1>5, Kept
<1>7. sessions' \in Contents /\ Fresh(sessions')
  BY <1>2, <1>3 DEF Consistent
<1>8. Live' = sessions'
  BY <1>1, <1>7, FreshIsLive
<1> QED BY <1>3, <1>6, <1>8, PrunedFacts

\* The count of the promise is the number of live sessions.
LEMMA CountIsHeld == Abstract!Count(Live) = Cardinality(Held(Live))
BY DEF Abstract!Count, Held, Abstract!Cardinality, Cardinality

----------------------------------------------------------------------------
\* The operations: each keeps the invariant and is the promise's.
LEMMA InitStep == Init => IInv /\ Abstract!Init
<1> SUFFICES ASSUME Init PROVE IInv /\ Abstract!Init OBVIOUS
<1>1. Held(sessions) = {} /\ Entries(sessions) = {} BY DEF Init, Held, Entries
<1>2. Cardinality({}) = 0 /\ IsFiniteSet({}) BY FS_EmptySet
<1>3. TypeOK BY MemoryAssumption DEF Init, TypeOK
<1>4. Consistent(sessions, expiry)
  BY <1>1, <1>2, MemoryAssumption DEF Init, Consistent, Contents
<1>5. HeapBounded BY <1>2, MemoryAssumption DEF Init, HeapBounded
<1>6. Abstract!Init BY DEF Init, Abstract!Init, Live
<1> QED BY <1>2, <1>3, <1>4, <1>5, <1>6 DEF Init, IInv

\* Time passes: what expires leaves the promise too.
LEMMA TickStep ==
  ASSUME IInv, Tick
  PROVE  IInv' /\ Abstract!Tick
<1>1. now \in Nat /\ now' = now + 1 /\ now < MaxTime BY MemoryAssumption DEF IInv, TypeOK, Tick
<1>2. TypeOK' BY <1>1, MemoryAssumption DEF IInv, TypeOK, Tick
<1>3. IInv'
  BY <1>2 DEF IInv, Tick, Consistent, Contents, HeapBounded, Entries, Held, Entry
<1>4. Live' = Abstract!At(now + 1, Live)
  <2> SUFFICES ASSUME NEW k \in Keys
               PROVE  Live'[k] = Abstract!At(now + 1, Live)[k]
    BY DEF Live, Abstract!At
  <2>1. sessions[k] # None => sessions[k].expires \in Nat
    BY DEF IInv, TypeOK, Abstract!Session
  <2>2. sessions[k] # None /\ sessions[k].expires <= now => sessions[k].expires <= now + 1
    BY <1>1, <2>1
  <2>3. Live'[k] = IF sessions[k] # None /\ sessions[k].expires <= now + 1 THEN None ELSE sessions[k]
    BY <1>1 DEF Live, Tick
  <2>4. Live[k] = IF sessions[k] # None /\ sessions[k].expires <= now THEN None ELSE sessions[k]
    BY DEF Live
  <2>5. Abstract!At(now + 1, Live)[k] = IF Live[k] # None /\ Live[k].expires <= now + 1 THEN None ELSE Live[k]
    BY DEF Abstract!At
  <2> QED BY <2>2, <2>3, <2>4, <2>5
<1> QED BY <1>1, <1>3, <1>4 DEF Tick, Abstract!Tick

\* create() adds one session, within its two limits.
LEMMA CreateStep ==
  ASSUME IInv, NEW k \in Keys, NEW p \in Principals, Create(k, p)
  PROVE  IInv' /\ Abstract!Create(k, p)
<1> DEFINE s == [principal |-> p, expires |-> now + TTL]
<1>1. now \in Nat /\ now <= MaxTime /\ k \notin issued /\ issued \subseteq Keys
  BY MemoryAssumption DEF IInv, TypeOK, Create
<1>2. Pruned[k] = None /\ Live[k] = None
  BY <1>1, PrunedFacts
<1>3. issued' \subseteq Keys /\ issued \subseteq issued' /\ k \in issued' /\ UNCHANGED now
  BY <1>1 DEF Create
<1>4. Cardinality(Held(Pruned)) \in Nat /\ Abstract!Count(Live) = Cardinality(Held(Pruned))
  BY HeldFinite, CountIsHeld, PrunedFacts
<1>5. CASE Cardinality(Held(Pruned)) >= MaxSessions
  <2>1. sessions' = Pruned /\ expiry' = PrunedExpiry /\ reply' = <<"full">>
    BY <1>5 DEF Create
  <2>2. IInv' /\ Live' = Live BY <1>3, <2>1, Quiet
  <2>3. ~(Abstract!Count(Live) < MaxSessions) BY <1>4, <1>5, MemoryAssumption
  <2> QED BY <1>2, <1>3, <2>1, <2>2, <2>3 DEF Abstract!Create
<1>6. CASE ~(Cardinality(Held(Pruned)) >= MaxSessions)
  <2>1. /\ sessions' = [Pruned EXCEPT ![k] = s]
        /\ expiry' = PrunedExpiry \cup {<<s.expires, k>>}
        /\ reply' = <<"created">>
    BY <1>6 DEF Create
  <2>2. s \in Abstract!Session /\ ~(s.expires <= now)
    BY <1>1, MemoryAssumption DEF Abstract!Session
  <2>3. Cardinality(Held(Pruned)) < MaxSessions BY <1>4, <1>6, MemoryAssumption
  <2> HIDE DEF s
  <2>4. Consistent(sessions', expiry') /\ Fresh(sessions')
    BY <1>2, <2>1, <2>2, <2>3, PrunedFacts, Addition
  <2>5. Cardinality(expiry') <= 2 * MaxSessions + 1
    <3>1. IsFiniteSet(PrunedExpiry) /\ Cardinality(PrunedExpiry) <= 2 * MaxSessions
      BY PrunedFacts DEF Consistent
    <3>2. Cardinality(expiry') = Cardinality(PrunedExpiry) \/ Cardinality(expiry') = Cardinality(PrunedExpiry) + 1
      BY <2>1, <3>1, FS_AddElement
    <3> QED BY <3>1, <3>2, FS_CardinalityType, MemoryAssumption
  <2>6. \A j \in Keys \ issued' : sessions'[j] = None
    <3>1. \A j \in Keys \ issued' : j # k /\ Pruned[j] = None
      BY <1>3, PrunedFacts
    <3> QED BY <2>1, <3>1, PrunedFacts DEF Consistent, Contents
  <2>7. IInv' BY <1>3, <2>1, <2>4, <2>5, <2>6, Kept
  <2>8. Live' = sessions' BY <1>1, <1>3, <2>4, FreshIsLive DEF Consistent
  <2>9. Abstract!Count(Live) < MaxSessions BY <1>4, <2>3
  <2>10. Live' = [Live EXCEPT ![k] = s] BY <2>1, <2>8, PrunedFacts
  <2> QED BY <1>2, <1>3, <2>1, <2>7, <2>9, <2>10 DEF Abstract!Create, s
<1> QED BY <1>5, <1>6

\* get() may prune and shows nothing.
LEMMA GetStep ==
  ASSUME IInv, NEW k \in Keys, Get(k)
  PROVE  IInv' /\ Abstract!Get(k)
<1>1. IInv' /\ Live' = Live
  <2>1. issued' \subseteq Keys /\ issued \subseteq issued' BY DEF Get, IInv, TypeOK
  <2> QED BY <2>1, Quiet DEF Get
<1> QED BY <1>1, PrunedFacts DEF Get, Abstract!Get

\* destroy() ends one session.
LEMMA DestroyStep ==
  ASSUME IInv, NEW k \in Keys, Destroy(k)
  PROVE  IInv' /\ Abstract!Destroy(k)
<1>1. [Pruned EXCEPT ![k] = None] = [j \in Keys |-> IF j \in {k} THEN None ELSE Pruned[j]]
  BY PrunedFacts DEF Consistent, Contents
<1>2. IInv' /\ Live' = [j \in Keys |-> IF j \in {k} THEN None ELSE Live[j]]
  BY <1>1, Ending DEF Destroy
<1>3. Live' = [Live EXCEPT ![k] = None]
  BY <1>1, <1>2, PrunedFacts
<1> QED BY <1>2, <1>3 DEF Destroy, Abstract!Destroy

\* revoke_all() ends those of one principal.
LEMMA RevokeStep ==
  ASSUME IInv, NEW p \in Principals, Revoke(p)
  PROVE  IInv' /\ Abstract!Revoke(p)
<1> DEFINE gone == Abstract!Of(p, Pruned)
<1>1. gone \in SUBSET Keys BY DEF Abstract!Of
<1>2. IInv' /\ Live' = [j \in Keys |-> IF j \in gone THEN None ELSE Live[j]]
  BY <1>1, Ending DEF Revoke
<1>3. Abstract!Cardinality(gone) = Cardinality(gone)
  BY DEF Abstract!Cardinality, Cardinality
<1> QED BY <1>2, <1>3, PrunedFacts DEF Revoke, Abstract!Revoke

\* rotate() ends one session and begins another.
LEMMA RotateStep ==
  ASSUME IInv, NEW k \in Keys, NEW n \in Keys, Rotate(k, n)
  PROVE  IInv' /\ Abstract!Rotate(k, n)
<1>1. now \in Nat /\ n # k /\ n \notin issued /\ UNCHANGED now
  BY MemoryAssumption DEF IInv, TypeOK, Rotate
<1>2. issued' \subseteq Keys /\ issued \subseteq issued' /\ n \in issued'
  BY DEF IInv, TypeOK, Rotate
<1>3. Pruned[n] = None /\ Live[n] = None /\ Live = Pruned /\ Pruned \in Contents
  BY <1>1, PrunedFacts DEF Consistent
<1>4. CASE Pruned[k] = None
  <2>1. sessions' = Pruned /\ expiry' = PrunedExpiry /\ reply' = <<"rotate", k, FALSE>>
    BY <1>4 DEF Rotate
  <2>2. IInv' /\ Live' = Live BY <1>1, <1>2, <2>1, Quiet
  <2>3. Live' = [Live EXCEPT ![k] = None, ![n] = Live[k]]
    BY <1>1, <1>3, <1>4, <2>2 DEF Contents
  <2> QED BY <1>1, <1>3, <1>4, <2>1, <2>2, <2>3 DEF Abstract!Rotate
<1>5. CASE Pruned[k] # None
  <2> DEFINE s == Pruned[k]
             less == [j \in Keys |-> IF j \in {k} THEN None ELSE Pruned[j]]
             more == [less EXCEPT ![n] = s]
             heap == PrunedExpiry \cup {<<s.expires, n>>}
  <2>1. more = [Pruned EXCEPT ![k] = None, ![n] = Pruned[k]]
    BY <1>3 DEF Contents
  <2>2. Store(more, heap) /\ reply' = <<"rotate", k, TRUE>>
    BY <1>5, <2>1 DEF Rotate
  <2>3. Consistent(less, PrunedExpiry) /\ Fresh(less)
    BY PrunedFacts, Removal
  <2>4. s \in Abstract!Session /\ ~(s.expires <= now)
    BY <1>3, <1>5, PrunedFacts DEF Contents, Fresh
  <2>5. less[n] = None BY <1>3
  <2>6. Cardinality(Held(less)) < MaxSessions
    <3>1. Held(less) = Held(Pruned) \ {k} /\ k \in Held(Pruned) BY <1>5 DEF Held
    <3>2. Cardinality(Held(less)) = Cardinality(Held(Pruned)) - 1
      BY <3>1, HeldFinite, FS_RemoveElement
    <3>3. Cardinality(Held(Pruned)) <= MaxSessions BY PrunedFacts DEF Consistent
    <3> QED BY <3>2, <3>3, HeldFinite, MemoryAssumption
  <2> HIDE DEF s, less
  <2>7. Consistent(more, heap) /\ Fresh(more)
    BY <2>3, <2>4, <2>5, <2>6, Addition
  <2> HIDE DEF more, heap
  <2>8. sessions' = more /\ Consistent(sessions', expiry') /\ Cardinality(expiry') <= 2 * MaxSessions
    BY <1>1, <2>2, <2>7, StoreKeeps
  <2>9. \A j \in Keys \ issued' : sessions'[j] = None
    <3>1. \A j \in Keys \ issued' : j # n /\ Pruned[j] = None
      BY <1>2, PrunedFacts
    <3> QED BY <2>8, <3>1 DEF more, less
  <2>10. IInv' BY <1>1, <1>2, <2>8, <2>9, Kept
  <2>11. Live' = sessions'
    BY <1>1, <2>7, <2>8, FreshIsLive DEF Consistent
  <2>12. Live' = [Live EXCEPT ![k] = None, ![n] = Live[k]]
    BY <1>3, <2>1, <2>8, <2>11
  <2> QED BY <1>1, <1>3, <1>5, <2>2, <2>10, <2>12 DEF Abstract!Rotate
<1> QED BY <1>4, <1>5

\* Every step keeps the invariant of the store in memory.
LEMMA StepKeeps ==
  ASSUME IInv, [Next]_vars
  PROVE  IInv' /\ [Abstract!Next]_(Abstract!vars)
<1>1. CASE UNCHANGED vars
  <2>1. Live' = Live BY <1>1 DEF vars, Live
  <2>2. IInv'
    BY <1>1 DEF vars, IInv, TypeOK, Consistent, Contents, HeapBounded, Entries, Held
  <2> QED BY <1>1, <2>1, <2>2 DEF vars, Abstract!vars
<1>2. CASE Tick BY <1>2, TickStep DEF Abstract!Next
<1>3. ASSUME NEW k \in Keys, NEW p \in Principals, Create(k, p)
      PROVE  IInv' /\ Abstract!Next
  BY <1>3, CreateStep DEF Abstract!Next
<1>4. ASSUME NEW k \in Keys, Get(k)
      PROVE  IInv' /\ Abstract!Next
  BY <1>4, GetStep DEF Abstract!Next
<1>5. ASSUME NEW k \in Keys, Destroy(k)
      PROVE  IInv' /\ Abstract!Next
  BY <1>5, DestroyStep DEF Abstract!Next
<1>6. ASSUME NEW k \in Keys, NEW n \in Keys, Rotate(k, n)
      PROVE  IInv' /\ Abstract!Next
  BY <1>6, RotateStep DEF Abstract!Next
<1>7. ASSUME NEW p \in Principals, Revoke(p)
      PROVE  IInv' /\ Abstract!Next
  BY <1>7, RevokeStep DEF Abstract!Next
<1> QED BY <1>1, <1>2, <1>3, <1>4, <1>5, <1>6, <1>7 DEF Next

\* The invariant of the store in memory always holds.
LEMMA Invariance == Spec => []IInv
BY InitStep, StepKeeps, PTL DEF Spec

----------------------------------------------------------------------------
\* Type correctness: what was never issued has no session.
THEOREM TypeCorrect == Spec => []TypeOK
<1>1. IInv => TypeOK BY DEF IInv
<1> QED BY <1>1, Invariance, PTL

\* Every session is in the heap with its expiry, and the heap holds at most twice
\* max_sessions entries and the one that was just created (memory.py:28-40).
THEOREM HeapIsExact == Spec => []HeapExact
<1>1. IInv => HeapExact BY DEF IInv, HeapExact, Consistent, Indexed
<1> QED BY <1>1, Invariance, PTL

\* No more sessions are kept than max_sessions, the expired ones included.
THEOREM SessionsBounded == Spec => [](Cardinality(Held(sessions)) <= MaxSessions)
<1>1. IInv => Cardinality(Held(sessions)) <= MaxSessions BY DEF IInv, Consistent
<1> QED BY <1>1, Invariance, PTL

\* The store implements the promise: that it forgets lazily is not seen.
THEOREM MemoryImplements == Spec => MemoryImplementsSessions
<1>1. Init => Abstract!Init BY InitStep
<1>2. IInv /\ [Next]_vars => [Abstract!Next]_(Abstract!vars) BY StepKeeps
<1> QED BY <1>1, <1>2, Invariance, PTL DEF Spec, MemoryImplementsSessions, Abstract!Spec

----------------------------------------------------------------------------
\* The live sessions that a hash and its scores stand for.
View(h, z) == [k \in Keys |-> IF h[k] = None THEN None ELSE [principal |-> h[k], expires |-> z[k]]]

\* A hash and scores that agree and hold nothing that has expired.
Indexing(h, z) ==
  /\ h \in [Keys -> Principals \cup {None}]
  /\ z \in [Keys -> 0..(MaxTime + TTL)]
  /\ \A k \in Keys : h[k] # None <=> z[k] # 0
Current(h, z) == Indexing(h, z) /\ \A k \in Keys : z[k] # 0 => ~(z[k] <= now)

\* The table and the slots of the SQLite store.
SqliteOK ==
  /\ table \in Contents
  /\ ready \in BOOLEAN
  /\ active \in 0..MaxConcurrency
  /\ caller \in [Calls -> {"idle", "waiting", "cancelled"}]
  /\ thread \in [Calls -> {"none", "running", "over"}]
  /\ SqliteSlotsExact

\* The three stores that are asked the same.
SInv ==
  /\ IInv
  /\ Indexing(hash, scores)
  /\ SqliteOK
  /\ StoresAgree

\* Time is a number.
LEMMA TimeIsNat == IInv => now \in Nat
BY MemoryAssumption DEF IInv, TypeOK

\* Time and the tokens issued are within the model's bounds.
LEMMA Times == IInv => now \in 0..MaxTime /\ issued \subseteq Keys
BY DEF IInv, TypeOK

----------------------------------------------------------------------------
\* The script looks at the live sessions only.
LEMMA RedisFacts ==
  ASSUME now \in Nat, Indexing(hash, scores)
  PROVE  /\ Redis!Live = View(Redis!Hash, Redis!Scores)
         /\ Current(Redis!Hash, Redis!Scores)
<1> DEFINE h == Redis!Hash
           z == Redis!Scores
<1>1. \A k \in Keys : /\ h[k] = (IF scores[k] # 0 /\ scores[k] <= now THEN None ELSE hash[k])
                      /\ z[k] = (IF scores[k] # 0 /\ scores[k] <= now THEN 0 ELSE scores[k])
  BY DEF Redis!Hash, Redis!Scores, Redis!Del, Redis!Expired
<1>2. h \in [Keys -> Principals \cup {None}] /\ z \in [Keys -> 0..(MaxTime + TTL)]
  BY MemoryAssumption DEF Redis!Hash, Redis!Scores, Redis!Del, Indexing
<1>3. Current(h, z)
  BY <1>1, <1>2 DEF Current, Indexing
<1>4. Redis!Live = View(h, z)
  <2> SUFFICES ASSUME NEW k \in Keys
               PROVE  (IF hash[k] = None \/ scores[k] <= now THEN None ELSE [principal |-> hash[k], expires |-> scores[k]])
                        = (IF h[k] = None THEN None ELSE [principal |-> h[k], expires |-> z[k]])
    BY DEF Redis!Live, View
  <2>1. hash[k] # None <=> scores[k] # 0 BY DEF Indexing
  <2> QED BY <1>1, <2>1
<1> QED BY <1>3, <1>4

\* And what it leaves is again the live sessions.
LEMMA RedisLeaves ==
  ASSUME now \in Nat, UNCHANGED now, NEW h, NEW z, Current(h, z), Redis!Changes(h, z)
  PROVE  Indexing(hash', scores') /\ Redis!Live' = View(h, z)
<1>1. hash' = h /\ scores' = z /\ now' = now BY DEF Redis!Changes
<1>2. \A k \in Keys : h[k] = None \/ z[k] <= now <=> h[k] = None
  BY DEF Current, Indexing
<1>3. Redis!Live' = View(h, z) BY <1>1, <1>2 DEF Redis!Live, View
<1> QED BY <1>1, <1>3 DEF Current

\* A view is a function of sessions.
LEMMA ViewFacts ==
  ASSUME now \in Nat, NEW h, NEW z, Current(h, z)
  PROVE  /\ View(h, z) \in Contents
         /\ \A k \in Keys : h[k] = None <=> View(h, z)[k] = None
         /\ \A k \in Keys : h[k] # None => View(h, z)[k].principal = h[k] /\ View(h, z)[k].expires = z[k]
<1>1. ASSUME NEW k \in Keys, h[k] # None
      PROVE  [principal |-> h[k], expires |-> z[k]] \in Abstract!Session
  BY <1>1, MemoryAssumption DEF Current, Indexing, Abstract!Session
<1> QED BY <1>1, MemoryAssumption DEF View, Contents

----------------------------------------------------------------------------
\* A thread commits what has nothing expired.
LEMMA SqliteLeaves ==
  ASSUME now \in Nat, UNCHANGED now, SqliteOK, NEW c \in Calls, NEW after \in Contents, NEW answer,
         Sqlite!Commits(c, after, answer)
  PROVE  SqliteOK' /\ sqliteReply' = answer /\ Sqlite!Live' = Alive(after)
<1>1. /\ thread[c] = "running" /\ thread' = [thread EXCEPT ![c] = "over"]
      /\ table' = after /\ sqliteReply' = answer
      /\ UNCHANGED <<ready, active, caller>>
  BY DEF Sqlite!Commits, Sqlite!control
<1>2. \A d \in Calls : thread'[d] = "none" <=> thread[d] = "none"
  BY <1>1 DEF SqliteOK
<1>3. {d \in Calls : thread'[d] # "none"} = {d \in Calls : thread[d] # "none"}
  BY <1>2
<1>4. SqliteSlotsExact'
  BY <1>1, <1>2, <1>3 DEF SqliteOK, SqliteSlotsExact, Sqlite!SlotsExact
<1>5. Sqlite!Live' = Alive(after)
  BY <1>1 DEF Sqlite!Live, Alive
<1> QED BY <1>1, <1>4, <1>5 DEF SqliteOK, Contents

\* What the promise holds is what is alive.
LEMMA LiveFacts ==
  ASSUME IInv
  PROVE  now \in Nat /\ Live \in Contents /\ Fresh(Live)
BY TimeIsNat, PrunedFacts DEF Consistent

\* Where nothing is expired, what is held is alive.
LEMMA FreshAlive ==
  ASSUME NEW ss \in Contents, Fresh(ss)
  PROVE  Alive(ss) = ss
BY AliveTwice DEF Fresh

\* The stores count alike.
LEMMA CountsAlike ==
  ASSUME SInv
  PROVE  /\ Sqlite!Rows = Live
         /\ Sqlite!Abstract!Count(Sqlite!Rows) = Abstract!Count(Live)
         /\ Redis!HLen = Abstract!Count(Live)
         /\ Abstract!Count(Live) \in Nat
<1>1. Sqlite!Rows = Live BY DEF SInv, StoresAgree, Sqlite!Rows
<1>2. Sqlite!Abstract!Count(Sqlite!Rows) = Abstract!Count(Live)
  BY <1>1 DEF Sqlite!Abstract!Count, Abstract!Count, Sqlite!Abstract!Cardinality, Abstract!Cardinality
<1>3. {k \in Keys : Redis!Hash[k] # None} = Held(Live)
  <2>1. Live = View(Redis!Hash, Redis!Scores) BY RedisFacts, TimeIsNat DEF SInv, StoresAgree
  <2> QED BY <2>1, ViewFacts, RedisFacts, TimeIsNat DEF Held, SInv
<1>4. Redis!HLen = Cardinality(Held(Live))
  BY <1>3 DEF Redis!HLen, Redis!Cardinality, Cardinality
<1> QED BY <1>1, <1>2, <1>4, CountIsHeld, HeldFinite

\* An operation that ends with the same sessions in all three stores, and the
\* same answers.
LEMMA Agreed ==
  ASSUME SInv, IInv', UNCHANGED now, NEW c \in Calls, NEW h, NEW z, NEW after \in Contents, NEW answer,
         Sqlite!Commits(c, after, answer), Alive(after) = Live',
         Current(h, z), Redis!Changes(h, z), View(h, z) = Live',
         reply' = answer, redisReply' = answer
  PROVE  SInv'
<1>1. now \in Nat BY TimeIsNat DEF SInv
<1>2. Indexing(hash', scores') /\ Redis!Live' = View(h, z)
  BY <1>1, RedisLeaves
<1>3. SqliteOK' /\ sqliteReply' = answer /\ Sqlite!Live' = Alive(after)
  BY <1>1, SqliteLeaves DEF SInv
<1>4. Indexing(hash, scores)' BY <1>2 DEF Indexing
<1> QED BY <1>2, <1>3, <1>4 DEF SInv, StoresAgree

\* The stores that agree, side by side.
LEMMA SharedFacts ==
  ASSUME SInv
  PROVE  /\ IInv /\ now \in Nat /\ now <= MaxTime
         /\ Live \in Contents /\ Fresh(Live) /\ Alive(Live) = Live
         /\ table \in Contents /\ Alive(table) = Live
         /\ Current(Redis!Hash, Redis!Scores) /\ View(Redis!Hash, Redis!Scores) = Live
         /\ \A k \in Keys : Redis!Hash[k] = None <=> Live[k] = None
         /\ \A k \in Keys : Redis!Hash[k] # None => Live[k].principal = Redis!Hash[k] /\ Live[k].expires = Redis!Scores[k]
<1>1. IInv /\ now \in Nat /\ now <= MaxTime
  BY TimeIsNat, Times DEF SInv
<1>2. Live \in Contents /\ Fresh(Live) /\ Alive(Live) = Live
  BY <1>1, LiveFacts, FreshAlive
<1>3. table \in Contents /\ Alive(table) = Live
  BY DEF SInv, SqliteOK, StoresAgree, Sqlite!Live, Alive
<1>4. Current(Redis!Hash, Redis!Scores) /\ View(Redis!Hash, Redis!Scores) = Live
  BY <1>1, RedisFacts DEF SInv, StoresAgree
<1> QED BY <1>1, <1>2, <1>3, <1>4, ViewFacts

----------------------------------------------------------------------------
\* The stores answer a get() alike.
LEMMA AgreedGet ==
  ASSUME SInv, NEW c \in Calls, NEW k \in Keys, Sqlite!Get(c, k), Get(k), Redis!Get(k)
  PROVE  SInv'
<1> DEFINE answer == <<"get", k, IF Live[k] = None THEN None ELSE Live[k].principal>>
<1>1. IInv' /\ Live' = Live /\ UNCHANGED now /\ reply' = answer
  BY GetStep DEF SInv, Abstract!Get
<1>2. Sqlite!Commits(c, Live, answer)
  BY CountsAlike DEF Sqlite!Get
<1>3. Redis!Changes(Redis!Hash, Redis!Scores) /\ redisReply' = answer
  <2>1. Redis!Scores[k] = 0 <=> Live[k] = None BY SharedFacts DEF Current, Indexing
  <2> QED BY <2>1, SharedFacts DEF Redis!Get
<1> HIDE DEF answer
<1> QED BY <1>1, <1>2, <1>3, SharedFacts, Agreed

\* The stores accept or refuse a create() alike.
LEMMA AgreedCreate ==
  ASSUME SInv, NEW c \in Calls, NEW k \in Keys, NEW p \in Principals,
         Sqlite!Create(c, k, p), Create(k, p), Redis!Create(k, p)
  PROVE  SInv'
<1> DEFINE s == [principal |-> p, expires |-> now + TTL]
<1>1. IInv' /\ Abstract!Create(k, p) /\ UNCHANGED now
  BY CreateStep DEF SInv, Abstract!Create
<1>2. CASE Abstract!Count(Live) < MaxSessions
  <2> DEFINE h == [Redis!Hash EXCEPT ![k] = p]
             z == [Redis!Scores EXCEPT ![k] = now + TTL]
  <2>1. Live' = [Live EXCEPT ![k] = s] /\ reply' = <<"created">>
    BY <1>1, <1>2 DEF Abstract!Create
  <2>2. Sqlite!Commits(c, [Live EXCEPT ![k] = s], <<"created">>)
    BY <1>2, CountsAlike, MemoryAssumption DEF Sqlite!Create
  <2>3. Redis!Changes(h, z) /\ redisReply' = <<"created">>
    BY <1>2, CountsAlike, MemoryAssumption DEF Redis!Create
  <2>4. Current(h, z)
    BY SharedFacts, MemoryAssumption, StoresAssumption DEF Current, Indexing
  <2>5. View(h, z) = [Live EXCEPT ![k] = s]
    <3>1. p # None BY StoresAssumption
    <3> QED BY <3>1, SharedFacts DEF View, Current, Indexing
  <2>6. s \in Abstract!Session /\ ~(s.expires <= now)
    BY SharedFacts, MemoryAssumption DEF Abstract!Session
  <2> HIDE DEF s, h, z
  <2>7. [Live EXCEPT ![k] = s] \in Contents /\ Fresh([Live EXCEPT ![k] = s])
    BY <2>6, SharedFacts DEF Contents, Fresh
  <2>8. Alive([Live EXCEPT ![k] = s]) = Live' BY <2>1, <2>7, FreshAlive
  <2> QED BY <1>1, <2>1, <2>2, <2>3, <2>4, <2>5, <2>7, <2>8, Agreed
<1>3. CASE ~(Abstract!Count(Live) < MaxSessions)
  <2>1. Live' = Live /\ reply' = <<"full">>
    BY <1>1, <1>3 DEF Abstract!Create
  <2>2. Sqlite!Commits(c, table, <<"full">>)
    BY <1>3, CountsAlike, MemoryAssumption DEF Sqlite!Create
  <2>3. Redis!Changes(Redis!Hash, Redis!Scores) /\ redisReply' = <<"full">>
    BY <1>3, CountsAlike, MemoryAssumption DEF Redis!Create
  <2> QED BY <1>1, <2>1, <2>2, <2>3, SharedFacts, Agreed
<1> QED BY <1>2, <1>3

\* The sessions under the keys `gone` are ended, in the stores alike.
LEMMA AgreedEnding ==
  ASSUME SInv, NEW gone \in SUBSET Keys,
         NEW after, after = [j \in Keys |-> IF j \in gone THEN None ELSE Live[j]]
  PROVE  /\ after \in Contents /\ Alive(after) = after
         /\ Current(Redis!Del(Redis!Hash, gone, None), Redis!Del(Redis!Scores, gone, 0))
         /\ View(Redis!Del(Redis!Hash, gone, None), Redis!Del(Redis!Scores, gone, 0)) = after
<1>1. after \in Contents /\ Fresh(after)
  BY SharedFacts DEF Contents, Fresh
<1>2. Current(Redis!Del(Redis!Hash, gone, None), Redis!Del(Redis!Scores, gone, 0))
  BY SharedFacts, MemoryAssumption DEF Current, Indexing, Redis!Del
<1>3. View(Redis!Del(Redis!Hash, gone, None), Redis!Del(Redis!Scores, gone, 0)) = after
  BY SharedFacts DEF View, Redis!Del
<1> QED BY <1>1, <1>2, <1>3, FreshAlive

\* The stores destroy the same session.
LEMMA AgreedDestroy ==
  ASSUME SInv, NEW c \in Calls, NEW k \in Keys, Sqlite!Destroy(c, k), Destroy(k), Redis!Destroy(k)
  PROVE  SInv'
<1> DEFINE after == [j \in Keys |-> IF j \in {k} THEN None ELSE Live[j]]
<1>1. IInv' /\ Live' = after /\ UNCHANGED now /\ reply' = <<"destroyed">>
  BY DestroyStep, SharedFacts DEF SInv, Abstract!Destroy, Contents
<1>2. Sqlite!Commits(c, after, <<"destroyed">>)
  <2>1. [Live EXCEPT ![k] = None] = after BY SharedFacts DEF Contents
  <2> QED BY <2>1, CountsAlike DEF Sqlite!Destroy
<1>3. Redis!Changes(Redis!Del(Redis!Hash, {k}, None), Redis!Del(Redis!Scores, {k}, 0)) /\ redisReply' = <<"destroyed">>
  <2>1. [Redis!Hash EXCEPT ![k] = None] = Redis!Del(Redis!Hash, {k}, None)
    BY SharedFacts DEF Current, Indexing, Redis!Del
  <2>2. [Redis!Scores EXCEPT ![k] = 0] = Redis!Del(Redis!Scores, {k}, 0)
    BY SharedFacts DEF Current, Indexing, Redis!Del
  <2> QED BY <2>1, <2>2 DEF Redis!Destroy
<1> HIDE DEF after
<1>4. /\ after \in Contents /\ Alive(after) = after
      /\ Current(Redis!Del(Redis!Hash, {k}, None), Redis!Del(Redis!Scores, {k}, 0))
      /\ View(Redis!Del(Redis!Hash, {k}, None), Redis!Del(Redis!Scores, {k}, 0)) = after
  BY AgreedEnding DEF after
<1> QED BY <1>1, <1>2, <1>3, <1>4, Agreed

\* The stores revoke the same sessions.
LEMMA AgreedRevoke ==
  ASSUME SInv, NEW c \in Calls, NEW p \in Principals, Sqlite!Revoke(c, p), Revoke(p), Redis!Revoke(p)
  PROVE  SInv'
<1> DEFINE gone == Abstract!Of(p, Live)
           after == [j \in Keys |-> IF j \in gone THEN None ELSE Live[j]]
           answer == <<"revoke", p, Cardinality(gone)>>
<1>1. IInv' /\ Live' = after /\ UNCHANGED now /\ reply' = answer
  <2>1. Abstract!Cardinality(gone) = Cardinality(gone)
    BY DEF Abstract!Cardinality, Cardinality
  <2> QED BY <2>1, RevokeStep DEF SInv, Abstract!Revoke
<1>2. Sqlite!Commits(c, after, answer)
  <2>1. Sqlite!Abstract!Of(p, Sqlite!Rows) = gone
    BY CountsAlike DEF Sqlite!Abstract!Of, Abstract!Of
  <2>2. Sqlite!Cardinality(gone) = Cardinality(gone)
    BY DEF Sqlite!Cardinality, Cardinality
  <2> QED BY <2>1, <2>2, CountsAlike DEF Sqlite!Revoke
<1>3. Redis!Changes(Redis!Del(Redis!Hash, gone, None), Redis!Del(Redis!Scores, gone, 0)) /\ redisReply' = answer
  <2>1. {k \in Keys : Redis!Hash[k] = p} = gone
    BY SharedFacts, StoresAssumption DEF Abstract!Of
  <2>2. Redis!Cardinality(gone) = Cardinality(gone)
    BY DEF Redis!Cardinality, Cardinality
  <2> QED BY <2>1, <2>2 DEF Redis!Revoke
<1>4. gone \in SUBSET Keys BY DEF Abstract!Of
<1> HIDE DEF gone, answer
<1>5. /\ after \in Contents /\ Alive(after) = after
      /\ Current(Redis!Del(Redis!Hash, gone, None), Redis!Del(Redis!Scores, gone, 0))
      /\ View(Redis!Del(Redis!Hash, gone, None), Redis!Del(Redis!Scores, gone, 0)) = after
  BY <1>4, AgreedEnding
<1> HIDE DEF after
<1> QED BY <1>1, <1>2, <1>3, <1>5, Agreed

\* The stores rotate the same session.
LEMMA AgreedRotate ==
  ASSUME SInv, NEW c \in Calls, NEW k \in Keys, NEW n \in Keys,
         Sqlite!Rotate(c, k, n), Rotate(k, n), Redis!Rotate(k, n)
  PROVE  SInv'
<1> DEFINE after == [Live EXCEPT ![k] = None, ![n] = Live[k]]
           answer == <<"rotate", k, Live[k] # None>>
<1>1. IInv' /\ Live' = after /\ UNCHANGED now /\ reply' = answer /\ n # k /\ Live[n] = None
  BY RotateStep DEF SInv, Abstract!Rotate
<1>2. Sqlite!Commits(c, after, answer)
  BY CountsAlike DEF Sqlite!Rotate
<1>3. after \in Contents /\ Fresh(after)
  BY <1>1, SharedFacts DEF Contents, Fresh
<1>4. Alive(after) = Live' BY <1>1, <1>3, FreshAlive
<1>5. CASE Live[k] = None
  <2>1. Redis!Changes(Redis!Hash, Redis!Scores) /\ redisReply' = <<"rotate", k, FALSE>>
    BY <1>5, SharedFacts DEF Redis!Rotate
  <2>2. answer = <<"rotate", k, FALSE>> BY <1>5
  <2>3. after = Live BY <1>1, <1>5, SharedFacts DEF Contents
  <2> HIDE DEF after, answer
  <2> QED BY <1>1, <1>2, <1>3, <1>4, <2>1, <2>2, <2>3, SharedFacts, Agreed
<1>6. CASE Live[k] # None
  <2> DEFINE h == [Redis!Hash EXCEPT ![n] = Redis!Hash[k], ![k] = None]
             z == [Redis!Scores EXCEPT ![n] = Redis!Scores[k], ![k] = 0]
  <2>1. Redis!Hash[k] # None /\ Redis!Scores[k] # 0
    BY <1>6, SharedFacts DEF Current, Indexing
  <2>2. Redis!Changes(h, z) /\ redisReply' = <<"rotate", k, TRUE>>
    BY <2>1 DEF Redis!Rotate
  <2>3. answer = <<"rotate", k, TRUE>> BY <1>6
  <2>4. Current(h, z)
    BY <1>1, SharedFacts, MemoryAssumption DEF Current, Indexing
  <2>5. View(h, z) = after
    BY <1>1, <2>1, SharedFacts DEF View, Current, Indexing, Contents
  <2> HIDE DEF after, answer, h, z
  <2> QED BY <1>1, <1>2, <1>3, <1>4, <2>2, <2>3, <2>4, <2>5, Agreed
<1> QED BY <1>5, <1>6

----------------------------------------------------------------------------
\* Time passes in all three stores at once.
LEMMA AgreedTick ==
  ASSUME SInv, Sqlite!Tick, Tick, Redis!Tick
  PROVE  SInv'
<1>1. IInv' /\ UNCHANGED <<hash, scores, redisReply, table, ready, active, caller, thread, sqliteReply, reply>>
  BY TickStep DEF SInv, Tick, Sqlite!Tick, Redis!Tick, Sqlite!control
<1>2. now \in Nat /\ now' = now + 1
  BY SharedFacts DEF Tick
<1>3. Indexing(hash, scores)' /\ SqliteOK'
  BY <1>1 DEF SInv, Indexing, SqliteOK, Contents, SqliteSlotsExact, Sqlite!SlotsExact
<1>4. \A f \in Contents, k \in Keys : f[k] # None => f[k].expires \in Nat
  BY DEF Contents, Abstract!Session
<1>5. Live' = [k \in Keys |-> IF Live[k] # None /\ Live[k].expires <= now + 1 THEN None ELSE Live[k]]
  BY TickStep DEF SInv, Abstract!Tick, Abstract!At
<1>6. Sqlite!Live' = Live'
  <2>1. Sqlite!Live' = [k \in Keys |-> IF table[k] # None /\ table[k].expires <= now + 1 THEN None ELSE table[k]]
    BY <1>1, <1>2 DEF Sqlite!Live
  <2>2. Live = [k \in Keys |-> IF table[k] # None /\ table[k].expires <= now THEN None ELSE table[k]]
    BY DEF SInv, StoresAgree, Sqlite!Live
  <2>3. table \in Contents BY SharedFacts
  <2> QED BY <1>2, <1>4, <1>5, <2>1, <2>2, <2>3
<1>7. Redis!Live' = Live'
  <2> SUFFICES ASSUME NEW k \in Keys
               PROVE  (IF hash[k] = None \/ scores[k] <= now + 1 THEN None ELSE [principal |-> hash[k], expires |-> scores[k]])
                        = (IF Live[k] # None /\ Live[k].expires <= now + 1 THEN None ELSE Live[k])
    BY <1>1, <1>2, <1>5 DEF Redis!Live
  <2>1. Live[k] = IF hash[k] = None \/ scores[k] <= now THEN None ELSE [principal |-> hash[k], expires |-> scores[k]]
    BY DEF SInv, StoresAgree, Redis!Live
  <2>2. scores[k] \in Nat BY MemoryAssumption DEF SInv, Indexing
  <2>3. hash[k] # None /\ ~(scores[k] <= now) => Live[k] # None
    BY <2>1, <2>2, SharedFacts, ViewFacts, RedisFacts, MemoryAssumption DEF SInv, Indexing, Abstract!Session
  <2> QED BY <1>2, <2>1, <2>2, <2>3
<1> QED BY <1>1, <1>3, <1>6, <1>7 DEF SInv, StoresAgree

\* The slots of the SQLite store.
LEMMA ThreadsCounted ==
  ASSUME NEW f
  PROVE  IsFiniteSet({d \in Calls : f[d] # "none"}) /\ Cardinality({d \in Calls : f[d] # "none"}) \in Nat
BY StoresAssumption, FS_Subset, FS_CardinalityType

\* The stores hold and have answered what they did.
LEMMA Unchanged ==
  ASSUME SInv, UNCHANGED <<vars, hash, scores, redisReply, table, sqliteReply>>, SqliteOK'
  PROVE  SInv'
<1>1. IInv'
  BY DEF vars, SInv, IInv, TypeOK, Consistent, Contents, HeapBounded, Entries, Held
<1>2. Indexing(hash, scores)' BY DEF SInv, Indexing
<1>3. StoresAgree' BY DEF SInv, StoresAgree, Live, Redis!Live, Sqlite!Live, vars
<1> QED BY <1>1, <1>2, <1>3 DEF SInv

\* A call that begins takes a slot.
LEMMA SlotTaken ==
  ASSUME SqliteOK, NEW c \in Calls, Sqlite!Call(c)
  PROVE  SqliteOK'
<1> DEFINE busy == {d \in Calls : thread[d] # "none"}
<1>1. /\ active < MaxConcurrency /\ active' = active + 1
      /\ caller' = [caller EXCEPT ![c] = "waiting"] /\ thread' = [thread EXCEPT ![c] = "running"]
      /\ UNCHANGED <<table, ready>> /\ caller[c] = "idle"
  BY DEF Sqlite!Call
<1>2. c \notin busy /\ {d \in Calls : thread'[d] # "none"} = busy \cup {c}
  BY <1>1 DEF SqliteOK, SqliteSlotsExact, Sqlite!SlotsExact
<1>3. Cardinality(busy \cup {c}) = Cardinality(busy) + 1
  BY <1>2, ThreadsCounted, FS_AddElement
<1>4. active = Cardinality(busy)
  BY DEF SqliteOK, SqliteSlotsExact, Sqlite!SlotsExact, Sqlite!Cardinality, Cardinality
<1> HIDE DEF busy
<1>5. SqliteSlotsExact'
  <2>1. \A d \in Calls : caller'[d] = "idle" <=> thread'[d] = "none"
    BY <1>1 DEF SqliteOK, SqliteSlotsExact, Sqlite!SlotsExact
  <2>2. active' = Cardinality({d \in Calls : thread'[d] # "none"})
    BY <1>1, <1>2, <1>3, <1>4
  <2> QED BY <2>1, <2>2 DEF SqliteSlotsExact, Sqlite!SlotsExact, Sqlite!Cardinality, Cardinality
<1>6. active' \in 0..MaxConcurrency
  BY <1>1, StoresAssumption DEF SqliteOK
<1> QED BY <1>1, <1>5, <1>6 DEF SqliteOK, Contents

\* A thread that ends gives its slot back, also when its caller is gone.
LEMMA SlotFreed ==
  ASSUME SqliteOK, NEW c \in Calls, thread[c] = "over", Sqlite!Released(c)
  PROVE  SqliteOK'
<1> DEFINE busy == {d \in Calls : thread[d] # "none"}
<1>1. /\ active' = active - 1
      /\ caller' = [caller EXCEPT ![c] = "idle"] /\ thread' = [thread EXCEPT ![c] = "none"]
      /\ UNCHANGED <<table, ready>>
  BY DEF Sqlite!Released
<1>2. c \in busy /\ {d \in Calls : thread'[d] # "none"} = busy \ {c}
  BY <1>1 DEF SqliteOK
<1>3. Cardinality(busy \ {c}) = Cardinality(busy) - 1 /\ Cardinality(busy \ {c}) \in Nat
  BY <1>2, ThreadsCounted, FS_RemoveElement, FS_CardinalityType
<1>4. active = Cardinality(busy)
  BY DEF SqliteOK, SqliteSlotsExact, Sqlite!SlotsExact, Sqlite!Cardinality, Cardinality
<1> HIDE DEF busy
<1>5. SqliteSlotsExact'
  <2>1. \A d \in Calls : caller'[d] = "idle" <=> thread'[d] = "none"
    BY <1>1 DEF SqliteOK, SqliteSlotsExact, Sqlite!SlotsExact
  <2>2. active' = Cardinality({d \in Calls : thread'[d] # "none"})
    BY <1>1, <1>2, <1>3, <1>4
  <2> QED BY <2>1, <2>2 DEF SqliteSlotsExact, Sqlite!SlotsExact, Sqlite!Cardinality, Cardinality
<1>6. active' \in 0..MaxConcurrency
  BY <1>1, <1>3, <1>4, StoresAssumption DEF SqliteOK
<1> QED BY <1>1, <1>5, <1>6 DEF SqliteOK, Contents

\* A caller that is cancelled leaves its thread the slot.
LEMMA SlotKept ==
  ASSUME SqliteOK, NEW c \in Calls, Sqlite!Cancel(c)
  PROVE  SqliteOK'
<1>1. /\ caller[c] = "waiting" /\ caller' = [caller EXCEPT ![c] = "cancelled"]
      /\ UNCHANGED <<table, ready, active, thread>>
  BY DEF Sqlite!Cancel
<1>2. SqliteSlotsExact'
  BY <1>1 DEF SqliteOK, SqliteSlotsExact, Sqlite!SlotsExact
<1> QED BY <1>1, <1>2 DEF SqliteOK, Contents

\* startup, shutdown and a crash find or leave every slot free.
LEMMA SlotsAtStart ==
  ASSUME SqliteOK, Sqlite!Startup \/ Sqlite!Shutdown \/ Sqlite!Crash
  PROVE  SqliteOK'
<1>1. CASE Sqlite!Startup \/ Sqlite!Shutdown
  BY <1>1 DEF Sqlite!Startup, Sqlite!Shutdown, SqliteOK, Contents, SqliteSlotsExact, Sqlite!SlotsExact
<1>2. CASE Sqlite!Crash
  <2>1. /\ ready' = FALSE /\ active' = 0 /\ table' = table
        /\ caller' = [d \in Calls |-> "idle"] /\ thread' = [d \in Calls |-> "none"]
    BY <1>2 DEF Sqlite!Crash
  <2>2. {d \in Calls : thread'[d] # "none"} = {} BY <2>1
  <2>3. SqliteSlotsExact'
    BY <2>1, <2>2, FS_EmptySet DEF SqliteSlotsExact, Sqlite!SlotsExact, Sqlite!Cardinality, Cardinality
  <2>4. caller' \in [Calls -> {"idle", "waiting", "cancelled"}] /\ thread' \in [Calls -> {"none", "running", "over"}]
    BY <2>1
  <2>5. ready' \in BOOLEAN /\ active' \in 0..MaxConcurrency
    <3>1. 0 \in 0..MaxConcurrency BY StoresAssumption
    <3>2. ready' \in BOOLEAN BY <2>1
    <3> QED BY <2>1, <3>1, <3>2
  <2>6. table' \in Contents' BY <2>1 DEF SqliteOK, Contents
  <2> QED BY <2>3, <2>4, <2>5, <2>6 DEF SqliteOK
<1> QED BY <1>1, <1>2

----------------------------------------------------------------------------
\* The invariant of the stores holds at the start.
LEMMA StoresInitInv == StoresInit => SInv
<1> SUFFICES ASSUME StoresInit PROVE SInv OBVIOUS
<1>1. IInv BY InitStep DEF StoresInit
<1>2. Indexing(hash, scores)
  BY MemoryAssumption DEF StoresInit, Redis!Init, Indexing
<1>3. SqliteOK
  <2>1. /\ ready = FALSE /\ active = 0 /\ table = [k \in Keys |-> None]
        /\ caller = [d \in Calls |-> "idle"] /\ thread = [d \in Calls |-> "none"]
    BY DEF StoresInit, Sqlite!Init
  <2>2. {d \in Calls : thread[d] # "none"} = {} BY <2>1
  <2>3. SqliteSlotsExact
    BY <2>1, <2>2, FS_EmptySet DEF SqliteSlotsExact, Sqlite!SlotsExact, Sqlite!Cardinality, Cardinality
  <2>4. caller \in [Calls -> {"idle", "waiting", "cancelled"}] /\ thread \in [Calls -> {"none", "running", "over"}]
    BY <2>1
  <2>5. ready \in BOOLEAN /\ active \in 0..MaxConcurrency
    <3>1. 0 \in 0..MaxConcurrency BY StoresAssumption
    <3>2. ready \in BOOLEAN BY <2>1
    <3> QED BY <2>1, <3>1, <3>2
  <2>6. table \in Contents BY <2>1 DEF Contents
  <2> QED BY <2>3, <2>4, <2>5, <2>6 DEF SqliteOK
<1>4. StoresAgree
  BY DEF StoresInit, Init, Redis!Init, Sqlite!Init, StoresAgree, Live, Redis!Live, Sqlite!Live
<1> QED BY <1>1, <1>2, <1>3, <1>4 DEF SInv

\* A transaction that fails leaves the stores as they were.
LEMMA RolledBack ==
  ASSUME SInv, NEW c \in Calls, Sqlite!Rollback(c), Redis!Unavailable, UNCHANGED memoryVars
  PROVE  SInv'
<1>1. UNCHANGED <<vars, hash, scores, table>> /\ sqliteReply' = <<"unavailable">> /\ SqliteOK'
  BY SharedFacts, SqliteLeaves DEF Sqlite!Rollback, Sqlite!Commits, Redis!Unavailable, memoryVars, vars, SInv
<1>2. IInv'
  BY <1>1 DEF vars, SInv, IInv, TypeOK, Consistent, Contents, HeapBounded, Entries, Held
<1>3. Indexing(hash, scores)' BY <1>1 DEF SInv, Indexing
<1>4. StoresAgree' BY <1>1 DEF SInv, StoresAgree, Live, Redis!Live, Sqlite!Live, vars
<1> QED BY <1>1, <1>2, <1>3, <1>4 DEF SInv

\* Every step keeps the invariant of the stores.
LEMMA StoresStep == SInv /\ [StoresNext]_stores => SInv'
<1> SUFFICES ASSUME SInv, [StoresNext]_stores PROVE SInv' OBVIOUS
<1>1. CASE UNCHANGED stores
  <2>1. SqliteOK'
    BY <1>1 DEF stores, Sqlite!vars, Sqlite!control, SInv, SqliteOK, Contents, SqliteSlotsExact, Sqlite!SlotsExact
  <2> QED BY <1>1, <2>1, Unchanged DEF stores, redisVars, Sqlite!vars
<1>2. CASE Sqlite!Tick /\ Tick /\ Redis!Tick BY <1>2, AgreedTick
<1>3. CASE (Sqlite!Startup \/ Sqlite!Shutdown \/ Sqlite!Crash) /\ UNCHANGED <<memoryVars, redisVars>>
  <2>1. SqliteOK' BY <1>3, SlotsAtStart DEF SInv
  <2>2. UNCHANGED <<now, issued, table, sqliteReply>>
    BY <1>3 DEF Sqlite!Startup, Sqlite!Shutdown, Sqlite!Crash
  <2> QED BY <1>3, <2>1, <2>2, Unchanged DEF memoryVars, redisVars, vars
<1>4. ASSUME NEW c \in Calls, Asked(c) PROVE SInv'
  BY <1>4, AgreedCreate, AgreedGet, AgreedDestroy, AgreedRotate, AgreedRevoke DEF Asked
<1>5. ASSUME NEW c \in Calls, UNCHANGED <<memoryVars, redisVars>>,
             Sqlite!Call(c) \/ Sqlite!Return(c) \/ Sqlite!Cancel(c) \/ Sqlite!Finished(c)
      PROVE  SInv'
  <2>1. SqliteOK'
    BY <1>5, SlotTaken, SlotFreed, SlotKept DEF SInv, Sqlite!Return, Sqlite!Finished
  <2>2. UNCHANGED <<now, issued, table, sqliteReply>>
    BY <1>5 DEF Sqlite!Call, Sqlite!Return, Sqlite!Cancel, Sqlite!Finished, Sqlite!Released
  <2> QED BY <1>5, <2>1, <2>2, Unchanged DEF memoryVars, redisVars, vars
<1>6. ASSUME NEW c \in Calls, Sqlite!Rollback(c), Redis!Unavailable, UNCHANGED memoryVars
      PROVE  SInv'
  BY <1>6, RolledBack
<1> QED BY <1>1, <1>2, <1>3, <1>4, <1>5, <1>6 DEF StoresNext

\* The invariant implies what the run checks.
LEMMA StoresInvAccounts == SInv => StoresAccounted
<1> SUFFICES ASSUME SInv PROVE StoresAccounted OBVIOUS
<1>1. TypeOK /\ HeapExact
  BY DEF SInv, IInv, HeapExact, Consistent, Indexed
<1>2. Redis!TypeOK /\ RedisIndexed
  BY Times DEF SInv, Redis!TypeOK, Indexing, RedisIndexed, Redis!IndexAgrees
<1>3. Sqlite!TypeOK /\ SqliteSlotsExact
  BY Times DEF SInv, SqliteOK, Sqlite!TypeOK, Contents, Abstract!Session, Sqlite!Abstract!Session
<1> QED BY <1>1, <1>2, <1>3 DEF SInv, StoresAccounted, StoresTypeOK

\* A store can take another's place: asked the same, the in-memory, the Redis and
\* the SQLite store hold the same live sessions and answer the same, and the
\* heap, the expiry index and the slots of the threads are exact.
THEOREM StoresAlike == StoresSpec => []StoresAccounted
BY StoresInitInv, StoresStep, StoresInvAccounts, PTL DEF StoresSpec

----------------------------------------------------------------------------
Positions == {"idle", "lock", "clock", "purge", "operation", "counted", "commit"}
Row == Postgres!Session \cup {None}
Timely(c) == \A k \in Postgres!Rows(c) : Postgres!Visible(c)[k].expires > clock[c]

\* What holds of a call, wherever its transaction has got to.
Holds(c) == at[c] \notin {"idle", "lock"} <=> lock = c
Unwritten(c) == at[c] \in {"idle", "lock", "clock", "purge"} => changes[c] = Postgres!Nothing
Fits(c) == Cardinality(Postgres!Rows(c)) <= MaxSessions
Read(c) ==
  /\ at[c] \in {"operation", "counted", "commit"} => Timely(c)
  /\ at[c] = "counted" => counted[c] = Cardinality(Postgres!Rows(c))
CallOK(c) == Holds(c) /\ Unwritten(c) /\ Fits(c) /\ Read(c)

Committed == {k \in Keys : rows[k] # None}
DbInv == Postgres!TypeOK /\ Cardinality(Committed) <= MaxSessions /\ \A c \in Calls : CallOK(c)

----------------------------------------------------------------------------
\* Both modules count with the same operator of the library.
LEMMA CountedAlike == \A S : Postgres!Cardinality(S) = Cardinality(S)
BY DEF Postgres!Cardinality, Cardinality

\* The rows a transaction sees are finitely many.
LEMMA RowsFinite ==
  ASSUME Postgres!Assumption, NEW c
  PROVE  IsFiniteSet(Postgres!Rows(c)) /\ Cardinality(Postgres!Rows(c)) \in Nat /\ Postgres!Rows(c) \subseteq Keys
<1>1. Postgres!Rows(c) \subseteq Keys BY DEF Postgres!Rows
<1>. QED BY <1>1, FS_Subset, FS_CardinalityType, MemoryAssumption

\* A smaller set of rows passes no limit that a larger one keeps.
LEMMA SubsetFits ==
  ASSUME Postgres!Assumption, NEW A \in SUBSET Keys, NEW B \in SUBSET A
  PROVE  Cardinality(B) <= Cardinality(A) /\ Cardinality(A) \in Nat /\ Cardinality(B) \in Nat
<1>1. IsFiniteSet(A) /\ IsFiniteSet(B) BY FS_Subset, MemoryAssumption
<1>. QED BY <1>1, FS_Subset, FS_CardinalityType

\* A call that has changed nothing sees what is committed.
LEMMA NothingSeen ==
  ASSUME NEW c, changes[c] = Postgres!Nothing
  PROVE  Postgres!Rows(c) = Committed
BY DEF Postgres!Rows, Postgres!Visible, Committed, Postgres!Nothing

\* What a call sees after a statement of its own.
LEMMA WriteSeen ==
  ASSUME Postgres!TypeOK, NEW c \in Calls, NEW keys \in SUBSET Keys, NEW row, Postgres!Writes(c, keys, row), rows' = rows
  PROVE  \A k \in Keys : Postgres!Visible(c)'[k] = IF k \in keys THEN row[k] ELSE Postgres!Visible(c)[k]
<1>1. changes'[c] = [k \in DOMAIN changes[c] \cup keys |-> IF k \in keys THEN row[k] ELSE changes[c][k]]
  BY DEF Postgres!Writes, Postgres!TypeOK
<1>. QED BY <1>1 DEF Postgres!Visible

\* And what it may have written.
LEMMA WritesSeen ==
  ASSUME Postgres!TypeOK, NEW c \in Calls, NEW keys \in SUBSET Keys, NEW row, Postgres!Writes(c, keys, row), rows' = rows,
         \A k \in keys : row[k] \in Row
  PROVE  /\ \A k \in Keys : Postgres!Visible(c)'[k] = IF k \in keys THEN row[k] ELSE Postgres!Visible(c)[k]
         /\ \A d \in Calls \ {c} : changes'[d] = changes[d]
         /\ DOMAIN changes' = Calls
         /\ \A d \in Calls : changes'[d] \in [DOMAIN changes'[d] \cap Keys -> Row]
<1>1. /\ changes'[c] = [k \in DOMAIN changes[c] \cup keys |-> IF k \in keys THEN row[k] ELSE changes[c][k]]
      /\ \A d \in Calls \ {c} : changes'[d] = changes[d]
      /\ DOMAIN changes' = Calls
  BY DEF Postgres!Writes, Postgres!TypeOK
<1>2. \A k \in Keys : Postgres!Visible(c)'[k] = IF k \in keys THEN row[k] ELSE Postgres!Visible(c)[k]
  BY WriteSeen
<1>3. changes[c] \in [DOMAIN changes[c] \cap Keys -> Row] BY DEF Postgres!TypeOK, Row
<1>4. DOMAIN changes[c] \subseteq Keys BY <1>3
<1>5. DOMAIN changes'[c] = DOMAIN changes[c] \cup keys BY <1>1
<1>6. changes'[c] \in [DOMAIN changes'[c] \cap Keys -> Row]
  <2>1. \A k \in DOMAIN changes[c] : changes[c][k] \in Row BY <1>3, <1>4
  <2>2. DOMAIN changes'[c] \cap Keys = DOMAIN changes[c] \cup keys BY <1>4, <1>5
  <2>3. \A k \in DOMAIN changes[c] \cup keys : (IF k \in keys THEN row[k] ELSE changes[c][k]) \in Row BY <2>1
  <2>. QED BY <1>1, <2>2, <2>3
<1>. QED BY <1>1, <1>2, <1>6 DEF Postgres!TypeOK, Row

\* The other calls are where they were.
LEMMA CallFrame ==
  ASSUME NEW d \in Calls, CallOK(d), rows' = rows,
         at'[d] = at[d], changes'[d] = changes[d], clock'[d] = clock[d], counted'[d] = counted[d],
         lock' = d <=> lock = d
  PROVE  CallOK(d)'
BY DEF CallOK, Holds, Unwritten, Fits, Read, Timely, Postgres!Rows, Postgres!Visible, Postgres!Nothing

\* A step of c that leaves the committed final alone.
LEMMA CallMoves ==
  ASSUME DbInv, NEW c \in Calls, CallOK(c)', Postgres!TypeOK', rows' = rows,
         \A d \in Calls \ {c} : /\ at'[d] = at[d] /\ changes'[d] = changes[d] /\ clock'[d] = clock[d]
                                /\ counted'[d] = counted[d] /\ (lock' = d <=> lock = d)
  PROVE  DbInv'
<1>1. \A d \in Calls : CallOK(d)' BY CallFrame DEF DbInv
<1>2. Cardinality(Committed)' <= MaxSessions BY DEF DbInv, Committed
<1>. QED BY <1>1, <1>2 DEF DbInv

\* The invariant holds of an empty database.
LEMMA DbInitInv ==
  ASSUME Postgres!Assumption, Postgres!Init
  PROVE  DbInv
<1>1. Committed = {} BY DEF Postgres!Init, Committed
<1>2. Cardinality(Committed) = 0 BY <1>1, FS_EmptySet
<1>3. Postgres!TypeOK BY DEF Postgres!Init, Postgres!TypeOK, Postgres!Assumption, Postgres!Nothing
<1>4. ASSUME NEW c \in Calls PROVE CallOK(c)
  <2>1. changes[c] = Postgres!Nothing /\ at[c] = "idle" /\ lock = None /\ c # None BY DEF Postgres!Init, Postgres!Assumption
  <2>2. Postgres!Rows(c) = Committed BY <2>1, NothingSeen
  <2>. QED BY <1>2, <2>1, <2>2 DEF CallOK, Holds, Unwritten, Fits, Read, Postgres!Assumption
<1>. QED BY <1>2, <1>3, <1>4 DEF DbInv, Postgres!Assumption

----------------------------------------------------------------------------
\* A step that changes only where c is, its clock, its count or the lock.
LEMMA DbQuietStep ==
  ASSUME DbInv, NEW c \in Calls, UNCHANGED <<rows, dbIssued, dbNow, changes>>, Postgres!TypeOK',
         \A d \in Calls \ {c} : at'[d] = at[d] /\ clock'[d] = clock[d] /\ counted'[d] = counted[d] /\ (lock' = d <=> lock = d),
         at'[c] \notin {"idle", "lock"} <=> lock' = c,
         at'[c] \in {"idle", "lock", "clock", "purge"} => at[c] \in {"idle", "lock", "clock", "purge"},
         Read(c)'
  PROVE  DbInv'
<1>1. Postgres!Rows(c)' = Postgres!Rows(c) BY DEF Postgres!Rows, Postgres!Visible
<1>2. CallOK(c)' BY <1>1 DEF DbInv, CallOK, Holds, Unwritten, Fits, Postgres!Nothing
<1>. QED BY <1>2, CallMoves

\* BEGIN, the lock, the clock, the count and get() change no row.
LEMMA DbBeginStep ==
  ASSUME Postgres!Assumption, DbInv, NEW c \in Calls, Postgres!Begin(c) \/ Postgres!Lock(c) \/ Postgres!ReadClock(c) \/ Postgres!CountSessions(c) \/ Postgres!Get(c)
  PROVE  DbInv'
<1>0. Postgres!TypeOK /\ CallOK(c) /\ None \notin Calls BY DEF DbInv, Postgres!Assumption
<1>1. Postgres!TypeOK'
  <2>1. /\ UNCHANGED <<dbNow, rows, dbIssued, changes>>
        /\ \E to \in Positions : at' = [at EXCEPT ![c] = to]
        /\ lock' \in Calls \cup {None}
        /\ clock' = clock \/ clock' = [clock EXCEPT ![c] = dbNow]
        /\ counted' = counted \/ counted' = [counted EXCEPT ![c] = Cardinality(Postgres!Rows(c))]
    BY <1>0, CountedAlike DEF Postgres!TypeOK, Postgres!Begin, Postgres!Lock, Postgres!ReadClock, Postgres!CountSessions, Postgres!Get, Postgres!Moves, Positions
  <2>2. at' \in [Calls -> Positions] BY <1>0, <2>1 DEF Postgres!TypeOK, Positions
  <2>3. clock' \in [Calls -> 0..MaxTime] BY <1>0, <2>1 DEF Postgres!TypeOK
  <2>4. counted' \in [Calls -> Nat] BY <1>0, <2>1, RowsFinite DEF Postgres!TypeOK
  <2>. QED BY <1>0, <2>1, <2>2, <2>3, <2>4 DEF Postgres!TypeOK, Positions
<1>2. /\ UNCHANGED <<rows, dbIssued, dbNow, changes>>
      /\ \A d \in Calls \ {c} : at'[d] = at[d] /\ clock'[d] = clock[d] /\ counted'[d] = counted[d]
  BY <1>0 DEF Postgres!TypeOK, Postgres!Begin, Postgres!Lock, Postgres!ReadClock, Postgres!CountSessions, Postgres!Get, Postgres!Moves
<1>3. Postgres!Rows(c)' = Postgres!Rows(c) /\ Postgres!Visible(c)' = Postgres!Visible(c) BY <1>2 DEF Postgres!Rows, Postgres!Visible
<1>4. CASE Postgres!Begin(c)
  BY <1>0, <1>1, <1>2, <1>4, DbQuietStep DEF Postgres!Begin, Postgres!Moves, Postgres!TypeOK, CallOK, Holds, Read
<1>5. CASE Postgres!Lock(c)
  BY <1>0, <1>1, <1>2, <1>5, DbQuietStep DEF Postgres!Lock, Postgres!Moves, Postgres!TypeOK, CallOK, Holds, Read
<1>6. CASE Postgres!ReadClock(c)
  BY <1>0, <1>1, <1>2, <1>6, DbQuietStep DEF Postgres!ReadClock, Postgres!Moves, Postgres!TypeOK, CallOK, Holds, Read
<1>7. CASE Postgres!CountSessions(c)
  <2>1. at[c] = "operation" /\ at'[c] = "counted" /\ counted'[c] = Cardinality(Postgres!Rows(c)) /\ UNCHANGED <<lock, clock>>
    BY <1>0, <1>7, CountedAlike DEF Postgres!CountSessions, Postgres!Moves, Postgres!TypeOK
  <2>2. Read(c)' BY <1>0, <1>3, <2>1 DEF CallOK, Read, Timely
  <2>. QED BY <1>0, <1>1, <1>2, <2>1, <2>2, DbQuietStep DEF CallOK, Holds
<1>8. CASE Postgres!Get(c)
  <2>1. at[c] = "operation" /\ at'[c] = "commit" /\ UNCHANGED <<lock, clock>>
    BY <1>0, <1>8 DEF Postgres!Get, Postgres!Moves, Postgres!TypeOK
  <2>2. Read(c)' BY <1>0, <1>3, <2>1 DEF CallOK, Read, Timely
  <2>. QED BY <1>0, <1>1, <1>2, <2>1, <2>2, DbQuietStep DEF CallOK, Holds
<1>. QED BY <1>4, <1>5, <1>6, <1>7, <1>8

\* A statement that writes leaves what is left fresh and within the capacity.
LEMMA DbWriteStep ==
  ASSUME Postgres!Assumption, DbInv, NEW c \in Calls, NEW keys \in SUBSET Keys, NEW row, Postgres!Writes(c, keys, row),
         \A k \in keys : row[k] \in Row,
         UNCHANGED <<rows, dbNow, lock, clock, counted>>, dbIssued' \in SUBSET Keys,
         at[c] \in {"purge", "operation", "counted"}, NEW to \in {"operation", "commit"}, at' = [at EXCEPT ![c] = to],
         Cardinality(Postgres!Rows(c))' <= MaxSessions,
         \A k \in Postgres!Rows(c)' : Postgres!Visible(c)'[k].expires > clock[c]
  PROVE  DbInv'
<1>0. Postgres!TypeOK /\ CallOK(c) BY DEF DbInv
<1>1. /\ \A d \in Calls \ {c} : changes'[d] = changes[d] /\ at'[d] = at[d]
      /\ at'[c] = to /\ DOMAIN changes' = Calls
      /\ \A d \in Calls : changes'[d] \in [DOMAIN changes'[d] \cap Keys -> Row]
  <2>1. \A d \in Calls \ {c} : at'[d] = at[d] BY <1>0 DEF Postgres!TypeOK
  <2>2. at'[c] = to BY <1>0 DEF Postgres!TypeOK
  <2>3. rows' = rows OBVIOUS
  <2>4. /\ \A d \in Calls \ {c} : changes'[d] = changes[d]
        /\ DOMAIN changes' = Calls
        /\ \A d \in Calls : changes'[d] \in [DOMAIN changes'[d] \cap Keys -> Row]
    BY <1>0, <2>3, WritesSeen
  <2>. QED BY <2>1, <2>2, <2>4
<1>2. Postgres!TypeOK'
  <2>1. at' \in [Calls -> Positions] BY <1>0 DEF Postgres!TypeOK, Positions
  <2>. QED BY <1>0, <1>1, <2>1 DEF Postgres!TypeOK, Positions, Row
<1>3. CallOK(c)' BY <1>0, <1>1 DEF CallOK, Holds, Unwritten, Fits, Read, Timely
<1>. QED BY <1>1, <1>2, <1>3, CallMoves

\* Deleting rows within a transaction.
LEMMA DbDeleteStep ==
  ASSUME Postgres!Assumption, DbInv, NEW c \in Calls, NEW keys \in SUBSET Keys, Postgres!Deletes(c, keys),
         UNCHANGED <<rows, dbNow, dbIssued, lock, clock, counted>>,
         at[c] \in {"purge", "operation"}, NEW to \in {"operation", "commit"}, at' = [at EXCEPT ![c] = to],
         \A k \in Postgres!Rows(c) \ keys : Postgres!Visible(c)[k].expires > clock[c]
  PROVE  DbInv'
<1>0. Postgres!TypeOK /\ CallOK(c) BY DEF DbInv
<1>. DEFINE gone == keys \cap Postgres!Rows(c)
            row == [k \in Keys |-> None]
<1>1. gone \in SUBSET Keys /\ Postgres!Writes(c, gone, row) /\ \A k \in gone : row[k] = None BY DEF Postgres!Deletes
<1>2. \A k \in Keys : Postgres!Visible(c)'[k] = IF k \in gone THEN None ELSE Postgres!Visible(c)[k]
  <2>. HIDE DEF row, gone
  <2>1. \A k \in gone : row[k] \in Row BY <1>1 DEF Row
  <2>2. \A k \in Keys : Postgres!Visible(c)'[k] = IF k \in gone THEN row[k] ELSE Postgres!Visible(c)[k]
    <3>1. Postgres!TypeOK /\ Postgres!Writes(c, gone, row) /\ gone \in SUBSET Keys /\ rows' = rows BY <1>0, <1>1
    <3>. QED BY <3>1, WriteSeen
  <2>. QED BY <1>1, <2>2
<1>3. Postgres!Rows(c)' = Postgres!Rows(c) \ keys BY <1>2 DEF Postgres!Rows
<1>4. Cardinality(Postgres!Rows(c)') <= Cardinality(Postgres!Rows(c)) /\ Cardinality(Postgres!Rows(c)) \in Nat /\ Cardinality(Postgres!Rows(c)') \in Nat
  BY <1>3, RowsFinite, SubsetFits
<1>5. Cardinality(Postgres!Rows(c))' <= MaxSessions
  <2>1. Cardinality(Postgres!Rows(c)) <= MaxSessions /\ MaxSessions \in Nat BY <1>0 DEF CallOK, Fits, Postgres!Assumption
  <2>. QED BY <1>4, <2>1
<1>6. \A k \in Postgres!Rows(c)' : Postgres!Visible(c)'[k].expires > clock[c]
  <2>1. \A k \in Postgres!Rows(c)' : k \in Keys /\ k \in Postgres!Rows(c) \ keys BY <1>3, RowsFinite
  <2>. QED BY <1>2, <2>1
<1>7. dbIssued' \in SUBSET Keys BY <1>0 DEF Postgres!TypeOK
<1>. HIDE DEF gone, row
<1>. QED BY <1>1, <1>5, <1>6, <1>7, DbWriteStep DEF Row

\* destroy(), revoke_all() and pruning delete rows.
LEMMA DbDeletingSteps ==
  ASSUME Postgres!Assumption, DbInv, NEW c \in Calls,
         Postgres!Purge(c) \/ (\E k \in Keys : Postgres!Destroy(c, k)) \/ (\E p \in Principals : Postgres!Revoke(c, p))
  PROVE  DbInv'
<1>0. Postgres!TypeOK /\ CallOK(c) BY DEF DbInv
<1>1. CASE Postgres!Purge(c)
  <2>. DEFINE keys == {k \in Postgres!Rows(c) : Postgres!Visible(c)[k].expires <= clock[c]}
  <2>1. keys \in SUBSET Keys BY RowsFinite
  <2>2. \A k \in Postgres!Rows(c) \ keys : Postgres!Visible(c)[k].expires > clock[c]
    <3>1. \A k \in Postgres!Rows(c) : Postgres!Visible(c)[k] \in Postgres!Session
      <4>. SUFFICES ASSUME NEW k \in Postgres!Rows(c) PROVE Postgres!Visible(c)[k] \in Postgres!Session
        OBVIOUS
      <4>1. k \in Keys /\ Postgres!Visible(c)[k] # None BY DEF Postgres!Rows
      <4>2. k \in DOMAIN changes[c] => changes[c][k] \in Row BY <1>0, <4>1 DEF Postgres!TypeOK, Row
      <4>3. rows[k] \in Row BY <1>0, <4>1 DEF Postgres!TypeOK, Row
      <4>. QED BY <4>1, <4>2, <4>3 DEF Postgres!Visible, Row
    <3>2. clock[c] \in Nat /\ \A x \in Postgres!Session : x.expires \in Nat BY <1>0 DEF Postgres!TypeOK, Postgres!Session, Postgres!Assumption
    <3>. QED BY <3>1, <3>2
  <2>3. /\ Postgres!Deletes(c, keys) /\ at[c] = "purge" /\ at' = [at EXCEPT ![c] = "operation"]
        /\ UNCHANGED <<rows, dbNow, dbIssued, lock, clock, counted>>
    BY <1>1 DEF Postgres!Purge, Postgres!Moves
  <2>. HIDE DEF keys
  <2>. QED BY <2>1, <2>2, <2>3, DbDeleteStep
<1>2. ASSUME NEW keys \in SUBSET Keys, Postgres!Deletes(c, keys), Postgres!Moves(c, "operation", "commit"),
             UNCHANGED <<rows, dbNow, dbIssued, lock, clock, counted>>
      PROVE  DbInv'
  <2>1. \A k \in Postgres!Rows(c) \ keys : Postgres!Visible(c)[k].expires > clock[c]
    BY <1>0, <1>2 DEF CallOK, Read, Timely, Postgres!Moves
  <2>. QED BY <1>2, <2>1, DbDeleteStep DEF Postgres!Moves
<1>3. CASE \E k \in Keys : Postgres!Destroy(c, k) BY <1>2, <1>3 DEF Postgres!Destroy
<1>4. CASE \E p \in Principals : Postgres!Revoke(c, p)
  <2>1. PICK p \in Principals : Postgres!Revoke(c, p) BY <1>4
  <2>. DEFINE keys == {k \in Postgres!Rows(c) : Postgres!Visible(c)[k].principal = p}
  <2>2. keys \in SUBSET Keys BY RowsFinite
  <2>3. Postgres!Deletes(c, keys) /\ Postgres!Moves(c, "operation", "commit") /\ UNCHANGED <<rows, dbNow, dbIssued, lock, clock, counted>>
    BY <2>1 DEF Postgres!Revoke
  <2>. HIDE DEF keys
  <2>. QED BY <1>2, <2>2, <2>3
<1>. QED BY <1>1, <1>3, <1>4

\* Create has counted, and nobody has come in between; rotate takes one row away.
LEMMA DbInsertStep ==
  ASSUME Postgres!Assumption, DbInv, NEW c \in Calls, NEW k \in Keys, NEW p \in Principals, Postgres!Insert(c, k, p)
  PROVE  DbInv'
<1>0. Postgres!TypeOK /\ CallOK(c) BY DEF DbInv
<1>. DEFINE new == [principal |-> p, expires |-> clock[c] + TTL]
            row == [x \in {k} |-> new]
<1>1. /\ at[c] = "counted" /\ at' = [at EXCEPT ![c] = "commit"] /\ counted[c] < MaxSessions
      /\ Postgres!Writes(c, {k}, row) /\ UNCHANGED <<rows, dbNow, lock, clock, counted>> /\ dbIssued' = dbIssued \cup {k}
  BY DEF Postgres!Insert, Postgres!Moves
<1>2. clock[c] \in 0..MaxTime /\ TTL \in Nat \ {0} /\ MaxTime \in Nat /\ MaxSessions \in Nat
  BY <1>0 DEF Postgres!TypeOK, Postgres!Assumption
<1>3. new \in Postgres!Session /\ new.expires > clock[c] BY <1>2 DEF Postgres!Session
<1>4. row[k] = new OBVIOUS
<1>. HIDE DEF new, row
<1>5. (\A x \in {k} : row[x] \in Row) /\ {k} \in SUBSET Keys /\ rows' = rows BY <1>1, <1>3, <1>4 DEF Row
<1>6. \A x \in Keys : Postgres!Visible(c)'[x] = IF x = k THEN new ELSE Postgres!Visible(c)[x]
  <2>1. \A x \in Keys : Postgres!Visible(c)'[x] = IF x \in {k} THEN row[x] ELSE Postgres!Visible(c)[x]
    <3>1. Postgres!TypeOK /\ Postgres!Writes(c, {k}, row) BY <1>0, <1>1
    <3>. QED BY <1>5, <3>1, WriteSeen
  <2>. QED BY <1>4, <2>1
<1>7. Postgres!Rows(c)' \subseteq Postgres!Rows(c) \cup {k} /\ Postgres!Rows(c)' \subseteq Keys BY <1>6 DEF Postgres!Rows
<1>8. Cardinality(Postgres!Rows(c))' <= MaxSessions
  <2>1. IsFiniteSet(Postgres!Rows(c)) /\ Cardinality(Postgres!Rows(c)) \in Nat /\ Postgres!Rows(c) \subseteq Keys BY RowsFinite
  <2>2. Cardinality(Postgres!Rows(c)) < MaxSessions BY <1>0, <1>1 DEF CallOK, Read
  <2>3. Cardinality(Postgres!Rows(c) \cup {k}) <= Cardinality(Postgres!Rows(c)) + 1
    <3>1. Cardinality(Postgres!Rows(c) \cup {k}) = Cardinality(Postgres!Rows(c))
            \/ Cardinality(Postgres!Rows(c) \cup {k}) = Cardinality(Postgres!Rows(c)) + 1
      BY <2>1, FS_AddElement
    <3>. QED BY <2>1, <3>1
  <2>4. Cardinality(Postgres!Rows(c)') <= Cardinality(Postgres!Rows(c) \cup {k}) /\ Cardinality(Postgres!Rows(c) \cup {k}) \in Nat
        /\ Cardinality(Postgres!Rows(c)') \in Nat
    BY <1>7, <2>1, SubsetFits
  <2>. QED BY <1>2, <2>1, <2>2, <2>3, <2>4
<1>9. \A x \in Postgres!Rows(c)' : Postgres!Visible(c)'[x].expires > clock[c]
  <2>1. \A x \in Postgres!Rows(c) : Postgres!Visible(c)[x].expires > clock[c] BY <1>0, <1>1 DEF CallOK, Read, Timely
  <2>. QED BY <1>3, <1>6, <1>7, <2>1
<1>10. dbIssued' \in SUBSET Keys BY <1>0, <1>1 DEF Postgres!TypeOK
<1>. QED BY <1>1, <1>5, <1>8, <1>9, <1>10, DbWriteStep

\* What a transaction sees of a row.
LEMMA DbVisibleTyped ==
  ASSUME Postgres!TypeOK, NEW c \in Calls, NEW k \in Keys
  PROVE  Postgres!Visible(c)[k] \in Row
<1>1. k \in DOMAIN changes[c] => changes[c][k] \in Row BY DEF Postgres!TypeOK, Row
<1>2. rows[k] \in Row BY DEF Postgres!TypeOK, Row
<1>. QED BY <1>1, <1>2 DEF Postgres!Visible

\* rotate() replaces one row by another.
LEMMA DbRotateStep ==
  ASSUME Postgres!Assumption, DbInv, NEW c \in Calls, NEW k \in Keys, NEW n \in Keys, Postgres!Rotate(c, k, n)
  PROVE  DbInv'
<1>0. Postgres!TypeOK /\ CallOK(c) BY DEF DbInv
<1>. DEFINE row == [x \in {k, n} |-> IF x = n THEN Postgres!Visible(c)[k] ELSE None]
<1>1. /\ at[c] = "operation" /\ at' = [at EXCEPT ![c] = "commit"] /\ k \in Postgres!Rows(c)
      /\ Postgres!Writes(c, {k, n}, row) /\ UNCHANGED <<rows, dbNow, lock, clock, counted>> /\ dbIssued' = dbIssued \cup {n}
  BY DEF Postgres!Rotate, Postgres!Moves
<1>2. Postgres!Visible(c)[k] \in Row BY <1>0, DbVisibleTyped
<1>3. row[n] = Postgres!Visible(c)[k] /\ (k # n => row[k] = None) OBVIOUS
<1>. HIDE DEF row
<1>4. \A x \in {k, n} : row[x] \in Row BY <1>2, <1>3 DEF Row
<1>5. {k, n} \in SUBSET Keys /\ rows' = rows BY <1>1
<1>6. \A x \in Keys : Postgres!Visible(c)'[x] = IF x \in {k, n} THEN row[x] ELSE Postgres!Visible(c)[x]
  BY <1>0, <1>1, <1>4, <1>5, WritesSeen
<1>7. Postgres!Rows(c)' \subseteq (Postgres!Rows(c) \ {k}) \cup {n} BY <1>3, <1>6 DEF Postgres!Rows
<1>8. Cardinality(Postgres!Rows(c))' <= MaxSessions
  <2>1. IsFiniteSet(Postgres!Rows(c)) /\ Cardinality(Postgres!Rows(c)) \in Nat /\ Postgres!Rows(c) \subseteq Keys BY RowsFinite
  <2>. DEFINE rest == Postgres!Rows(c) \ {k}
  <2>2. IsFiniteSet(rest) /\ rest \subseteq Keys BY <2>1, FS_Subset
  <2>3. Cardinality(rest) = Cardinality(Postgres!Rows(c)) - 1 BY <1>1, <2>1, FS_RemoveElement
  <2>. HIDE DEF rest
  <2>a. Cardinality(rest) \in Nat BY <2>2, FS_CardinalityType
  <2>b. Cardinality(rest \cup {n}) = IF n \in rest THEN Cardinality(rest) ELSE Cardinality(rest) + 1
    BY <2>2, FS_AddElement
  <2>4. Cardinality(rest \cup {n}) <= Cardinality(rest) + 1 BY <2>a, <2>b
  <2>5. Cardinality(Postgres!Rows(c)') <= Cardinality(rest \cup {n}) /\ Cardinality(rest \cup {n}) \in Nat
        /\ Cardinality(Postgres!Rows(c)') \in Nat
    <3>1. Postgres!Rows(c)' \subseteq rest \cup {n} BY <1>7 DEF rest
    <3>2. rest \cup {n} \in SUBSET Keys BY <2>2
    <3>. QED BY <3>1, <3>2, SubsetFits
  <2>6. Cardinality(Postgres!Rows(c)) <= MaxSessions /\ MaxSessions \in Nat BY <1>0 DEF CallOK, Fits, Postgres!Assumption
  <2>. QED BY <2>1, <2>a, <2>3, <2>4, <2>5, <2>6
<1>9. \A x \in Postgres!Rows(c)' : Postgres!Visible(c)'[x].expires > clock[c]
  <2>1. \A x \in Postgres!Rows(c) : Postgres!Visible(c)[x].expires > clock[c] BY <1>0, <1>1 DEF CallOK, Read, Timely
  <2>2. ASSUME NEW x \in Postgres!Rows(c)' PROVE Postgres!Visible(c)'[x].expires > clock[c]
    <3>1. x \in Keys BY DEF Postgres!Rows
    <3>2. CASE x = n BY <1>1, <1>3, <1>6, <2>1, <3>1, <3>2
    <3>3. CASE x # n
      <4>1. x \in Postgres!Rows(c) /\ x # k BY <1>7, <3>3
      <4>. QED BY <1>6, <2>1, <3>1, <3>3, <4>1
    <3>. QED BY <3>2, <3>3
  <2>. QED BY <2>2
<1>10. dbIssued' \in SUBSET Keys BY <1>0, <1>1 DEF Postgres!TypeOK
<1>. QED BY <1>1, <1>4, <1>5, <1>8, <1>9, <1>10, DbWriteStep

----------------------------------------------------------------------------
\* The transaction of c ends with `final` committed.
LEMMA DbEndStep ==
  ASSUME Postgres!Assumption, DbInv, NEW c \in Calls, at[c] # "idle", NEW final \in [Keys -> Row], Postgres!Ends(c, final),
         Cardinality({k \in Keys : final[k] # None}) <= MaxSessions,
         final = rows \/ lock = c
  PROVE  DbInv'
<1>0. Postgres!TypeOK /\ (\A d \in Calls : CallOK(d)) /\ None \notin Calls BY DEF DbInv, Postgres!Assumption
<1>1. Postgres!TypeOK'
  <2>1. /\ rows' = final /\ at' = [at EXCEPT ![c] = "idle"] /\ lock' = (IF lock = c THEN None ELSE lock)
        /\ clock' = [clock EXCEPT ![c] = 0] /\ counted' = [counted EXCEPT ![c] = 0]
        /\ UNCHANGED <<dbNow, dbIssued>>
    BY DEF Postgres!Ends
  <2>2. /\ at' \in [Calls -> Positions] /\ clock' \in [Calls -> 0..MaxTime] /\ counted' \in [Calls -> Nat]
    BY <1>0, <2>1 DEF Postgres!TypeOK, Positions, Postgres!Assumption
  <2>3. DOMAIN changes' = Calls /\ changes'[c] = Postgres!Nothing /\ \A d \in Calls \ {c} : changes'[d] = changes[d]
    BY <1>0 DEF Postgres!Ends, Postgres!TypeOK
  <2>4. Postgres!Nothing \in [DOMAIN Postgres!Nothing \cap Keys -> Row] BY DEF Postgres!Nothing
  <2>5. \A d \in Calls : changes'[d] \in [DOMAIN changes'[d] \cap Keys -> Row] BY <1>0, <2>3, <2>4 DEF Postgres!TypeOK, Row
  <2>. QED BY <1>0, <2>1, <2>2, <2>3, <2>5 DEF Postgres!TypeOK, Positions, Row
<1>2. /\ at'[c] = "idle" /\ changes'[c] = Postgres!Nothing
      /\ \A d \in Calls \ {c} : /\ at'[d] = at[d] /\ changes'[d] = changes[d] /\ clock'[d] = clock[d]
                               /\ counted'[d] = counted[d] /\ (lock' = d <=> lock = d)
      /\ lock' # c /\ rows' = final
  BY <1>0 DEF Postgres!Ends, Postgres!TypeOK
<1>3. Committed' = {k \in Keys : final[k] # None} BY <1>2 DEF Committed
<1>4. Cardinality(Committed)' <= MaxSessions BY <1>3
\* Of the others none holds the lock when final are committed.
<1>5. ASSUME NEW d \in Calls, changes'[d] = Postgres!Nothing, at'[d] \in {"idle", "lock"}, lock' # d PROVE CallOK(d)'
  <2>1. Postgres!Rows(d)' = Committed' BY <1>5 DEF Postgres!Rows, Postgres!Visible, Committed, Postgres!Nothing
  <2>. QED BY <1>4, <1>5, <2>1 DEF CallOK, Holds, Unwritten, Fits, Read, Postgres!Nothing
<1>6. CallOK(c)' BY <1>2, <1>5
<1>7. ASSUME NEW d \in Calls \ {c} PROVE CallOK(d)'
  <2>1. CASE final = rows BY <1>0, <1>2, <2>1, CallFrame
  <2>2. CASE lock = c
    <3>1. lock # d BY <2>2
    <3>2. at[d] \in {"idle", "lock"} /\ changes[d] = Postgres!Nothing BY <1>0, <3>1 DEF CallOK, Holds, Unwritten
    <3>. QED BY <1>2, <1>5, <3>1, <3>2
  <2>. QED BY <2>1, <2>2
<1>. QED BY <1>1, <1>4, <1>6, <1>7 DEF DbInv

\* COMMIT publishes a transaction, ROLLBACK drops it.
LEMMA DbEndSteps ==
  ASSUME Postgres!Assumption, DbInv, NEW c \in Calls, Postgres!Commit(c) \/ Postgres!RollBack(c)
  PROVE  DbInv'
<1>0. Postgres!TypeOK /\ CallOK(c) BY DEF DbInv
<1>1. CASE Postgres!Commit(c)
  <2>1. at[c] = "commit" /\ Postgres!Ends(c, Postgres!Visible(c)) BY <1>1 DEF Postgres!Commit
  <2>2. Postgres!Visible(c) \in [Keys -> Row] BY <1>0, DbVisibleTyped DEF Postgres!Visible
  <2>3. Cardinality({k \in Keys : Postgres!Visible(c)[k] # None}) <= MaxSessions BY <1>0 DEF CallOK, Fits, Postgres!Rows
  <2>4. lock = c BY <1>0, <2>1 DEF CallOK, Holds
  <2>. QED BY <2>1, <2>2, <2>3, <2>4, DbEndStep
<1>2. CASE Postgres!RollBack(c)
  <2>1. at[c] # "idle" /\ Postgres!Ends(c, rows) BY <1>2 DEF Postgres!RollBack
  <2>2. rows \in [Keys -> Row] BY <1>0 DEF Postgres!TypeOK, Row
  <2>3. Cardinality({k \in Keys : rows[k] # None}) <= MaxSessions BY DEF DbInv, Committed
  <2>. QED BY <2>1, <2>2, <2>3, DbEndStep
<1>. QED BY <1>1, <1>2

\* Every step keeps the invariant of the database.
LEMMA DbInvStep == Postgres!Assumption /\ DbInv /\ [Postgres!Next]_(Postgres!vars) => DbInv'
<1>. SUFFICES ASSUME Postgres!Assumption, DbInv, [Postgres!Next]_(Postgres!vars) PROVE DbInv'
  OBVIOUS
<1>1. ASSUME Postgres!TypeOK', UNCHANGED <<rows, lock, at, clock, counted, changes>> PROVE DbInv'
  <2>1. \A d \in Calls : CallOK(d)' BY <1>1, CallFrame DEF DbInv
  <2>2. Cardinality(Committed)' <= MaxSessions BY <1>1 DEF DbInv, Committed
  <2>. QED BY <1>1, <2>1, <2>2 DEF DbInv
<1>2. CASE Postgres!Tick
  <2>1. Postgres!TypeOK /\ MaxTime \in Nat BY DEF DbInv, Postgres!Assumption
  <2>2. dbNow' \in 0..MaxTime BY <1>2, <2>1 DEF Postgres!Tick, Postgres!TypeOK
  <2>3. Postgres!TypeOK' BY <1>2, <2>1, <2>2 DEF Postgres!Tick, Postgres!transaction, Postgres!TypeOK
  <2>. QED BY <1>1, <1>2, <2>3 DEF Postgres!Tick, Postgres!transaction
<1>3. CASE UNCHANGED Postgres!vars
  <2>1. Postgres!TypeOK' BY <1>3 DEF Postgres!vars, Postgres!transaction, DbInv, Postgres!TypeOK
  <2>. QED BY <1>1, <1>3, <2>1 DEF Postgres!vars, Postgres!transaction
<1>. QED BY <1>2, <1>3, DbBeginStep, DbDeletingSteps, DbInsertStep, DbRotateStep, DbEndSteps DEF Postgres!Next

----------------------------------------------------------------------------
\* The invariant implies what the run checks.
LEMMA DbInvSerial == DbInv => PostgresSerial
<1>. SUFFICES ASSUME DbInv PROVE PostgresSerial
  OBVIOUS
<1>1. Cardinality({k \in Keys : rows[k] # None}) <= MaxSessions BY DEF DbInv, Committed
<1>2. ASSUME NEW c \in Calls
      PROVE  /\ at[c] \in {"operation", "counted", "commit"} => \A k \in Postgres!Rows(c) : Postgres!Visible(c)[k].expires > clock[c]
             /\ at[c] = "counted" => counted[c] = Cardinality(Postgres!Rows(c))
             /\ at[c] = "commit" => Cardinality(Postgres!Rows(c)) <= MaxSessions
  BY DEF DbInv, CallOK, Read, Timely, Fits
<1>. QED BY <1>1, <1>2, CountedAlike DEF DbInv, PostgresSerial, Postgres!Serial

\* For any number of processes that share the database: their transactions are
\* serial under the lock, no two creations take the last place, and no
\* operation answers for a session whose time has come (postgres.py:54).
THEOREM TransactionsSerial == Postgres!Spec => []PostgresSerial
<1>1. Postgres!Init => DbInv BY DbInitInv, PostgresAssumption
<1>2. DbInv /\ [Postgres!Next]_(Postgres!vars) => DbInv' BY DbInvStep, PostgresAssumption
<1>. QED BY <1>1, <1>2, DbInvSerial, PTL DEF Postgres!Spec

----------------------------------------------------------------------------
\* All four stores: those that are asked the same agree after every operation,
\* each keeps its second structure in step with its sessions, and the
\* transactions of the one that is shared between processes are serial.
THEOREM StoresAreAccountedFor == AllSpec => []AllAccounted
<1>1. AllInit => SInv /\ DbInv
  BY StoresInitInv, DbInitInv, PostgresAssumption DEF AllInit
<1>2. SInv /\ DbInv /\ [AllNext]_all => SInv' /\ DbInv'
  <2>1. [AllNext]_all => [StoresNext]_stores /\ [Postgres!Next]_(Postgres!vars)
    BY DEF AllNext, all, storeVars, postgresVars, stores, vars, redisVars, Sqlite!vars, Sqlite!control,
           Postgres!vars, Postgres!transaction
  <2>. QED BY <2>1, StoresStep, DbInvStep, PostgresAssumption
<1>3. SInv /\ DbInv => AllAccounted
  BY StoresInvAccounts, DbInvSerial DEF AllAccounted
<1>. QED BY <1>1, <1>2, <1>3, PTL DEF AllSpec
=============================================================================
