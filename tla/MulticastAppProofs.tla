------------------------- MODULE MulticastAppProofs -------------------------
(***************************************************************************)
(* Proofs about MulticastApp for every set of peers and of requests and     *)
(* every number of slots.                                                   *)
(***************************************************************************)
EXTENDS MCMulticastApp, SubsequencesProofs, FiniteSetTheorems, TLAPS

\* Where a request is decides which of the listener's variables know it.
Links ==
  /\ \A r \in Requests : task[r] # "unsent" => peer[r] \in Peers
  /\ \A r \in received : task[r] = "queued"
  /\ \A i \in 1..Len(inbox) : task[inbox[i]] = "queued" /\ inbox[i] \notin received
  /\ \A i, j \in 1..Len(inbox) : inbox[i] = inbox[j] => i = j
  /\ \A r \in busy : task[r] \notin {"unsent", "queued", "lost"}
  /\ LiveTasks \subseteq tasks
  /\ listener # "received" => received = {}

\* No slot is ever returned twice, and none is lost while the app serves.
Slots ==
  /\ free + Cardinality(LiveTasks) + Held <= MaxConcurrency
  /\ SlotsBalance

Inv == TypeOK /\ Links /\ CountsExact /\ Slots /\ OnePerPeer /\ NothingOutlivesStop

OfPeer(p) == {r \in LiveTasks : peer[r] = p}

----------------------------------------------------------------------------
\* The three ways a step can change the live tasks.

\* A task is started.
Started(r) ==
  /\ task[r] = "queued"
  /\ Claim(r)
  /\ UNCHANGED <<peer, free>>

\* A task ends.
EndedBy(r) ==
  /\ task[r] \in Live
  /\ \E how \in Ended : task' = [task EXCEPT ![r] = how]
  /\ Release(r)
  /\ UNCHANGED <<peer, busy>>

\* The live tasks stay what they are, and so do the requests that have ended.
Quiet ==
  /\ \A r \in Requests : task[r] \in Live <=> task'[r] \in Live
  /\ \A r \in Requests : task[r] \in Ended <=> task'[r] \in Ended
  /\ \A r \in Requests : task[r] \in Live \cup Ended => peer'[r] = peer[r]
  /\ UNCHANGED <<count, busy>>

Ending(r) == Silent(r) \/ Sent(r) \/ Escape(r) \/ Cancelled(r)

Background ==
  \/ Stop \/ Interrupt \/ InterruptDrain \/ Listen \/ UNCHANGED vars
  \/ \E r \in Requests : Arrive(r) \/ Start(r) \/ Answer(r)

\* The steps: those of a request, and those of the loop that start or end none.
LEMMA NextCases ==
  [Next]_vars <=> Background \/ \E r \in Requests : Accept(r) \/ Ending(r)
  BY DEF Next, Background, Step, Ending

\* A step that ends a request is one of its own.
LEMMA EndingCase ==
  ASSUME NEW r \in Requests, Ending(r), Links
  PROVE  /\ EndedBy(r)
         /\ UNCHANGED <<inbox, listener, received, tasks, stopping>>
  BY DEF Ending, Silent, Sent, Escape, Cancelled, End, EndedBy, Live, Ended, environment, Links

\* Accepting a request starts its task.
LEMMA AcceptCase ==
  ASSUME NEW r \in Requests, Accept(r), Links
  PROVE  Started(r)
  BY DEF Accept, Started, Links, environment

\* A message that is discarded starts nothing.
LEMMA DiscardQuiet ==
  ASSUME TypeOK, Links, Discard
  PROVE  /\ \A r \in Requests : task[r] \in Live <=> task'[r] \in Live
         /\ \A r \in Requests : task[r] \in Ended <=> task'[r] \in Ended
         /\ \A r \in Requests : task[r] # task'[r] => task[r] = "queued" /\ task'[r] = "lost"
  BY DEF TypeOK, Links, Discard, Live, Ended

\* The other steps of the loop leave the tasks as they are.
LEMMA BackgroundCase ==
  ASSUME TypeOK, Links, Background
  PROVE  Quiet
<1>1. CASE Stop
  BY <1>1 DEF Stop, Quiet, environment, requestVars
<1>2. CASE Interrupt \/ StopWins
  BY <1>2, DiscardQuiet DEF Interrupt, StopWins, Quiet, environment
<1>3. CASE Acquire \/ AwaitMessage \/ Receive \/ Closed \/ GiveUp \/ Drained \/ InterruptDrain \/ UNCHANGED vars
  BY <1>3 DEF Acquire, AwaitMessage, Receive, Closed, GiveUp, Drained, InterruptDrain, Quiet, environment,
     requestVars, vars
<1>4. ASSUME NEW r \in Requests, Arrive(r)
      PROVE  Quiet
  BY <1>4 DEF TypeOK, Arrive, Quiet, Live, Ended
<1>5. ASSUME NEW r \in Requests, Start(r) \/ Answer(r)
      PROVE  Quiet
  BY <1>5 DEF TypeOK, Start, Answer, Quiet, Live, Ended, environment
<1> QED
  BY <1>1, <1>2, <1>3, <1>4, <1>5 DEF Background, Listen

----------------------------------------------------------------------------
\* What each of the three does to the sets the counts are about.
LEMMA LiveFinite ==
  /\ IsFiniteSet(LiveTasks)
  /\ \A p : IsFiniteSet(OfPeer(p))
  /\ Cardinality(LiveTasks) \in Nat
  /\ \A p : Cardinality(OfPeer(p)) \in Nat
  BY RequestsAssumption, FS_Subset, FS_CardinalityType DEF LiveTasks, OfPeer

\* The sets of live tasks when one starts.
LEMMA StartedSets ==
  ASSUME TypeOK, Links, NEW r \in Requests, Started(r)
  PROVE  /\ peer[r] \in Peers
         /\ r \notin LiveTasks
         /\ LiveTasks' = LiveTasks \cup {r}
         /\ OfPeer(peer[r])' = OfPeer(peer[r]) \cup {r}
         /\ \A p : p # peer[r] => OfPeer(p)' = OfPeer(p)
<1>1. task' = [task EXCEPT ![r] = "created"] /\ peer' = peer /\ task[r] = "queued"
  BY DEF Started, Claim
<1>2. peer[r] \in Peers /\ r \notin LiveTasks
  BY <1>1 DEF Links, LiveTasks, Live
<1>3. LiveTasks' = LiveTasks \cup {r}
  BY <1>1 DEF TypeOK, LiveTasks, Live
<1> QED
  BY <1>1, <1>2, <1>3 DEF OfPeer

\* The sets of live tasks when one ends.
LEMMA EndedSets ==
  ASSUME TypeOK, Links, NEW r \in Requests, EndedBy(r)
  PROVE  /\ peer[r] \in Peers
         /\ r \in LiveTasks
         /\ LiveTasks' = LiveTasks \ {r}
         /\ OfPeer(peer[r])' = OfPeer(peer[r]) \ {r}
         /\ \A p : p # peer[r] => OfPeer(p)' = OfPeer(p)
<1>1. PICK how \in Ended : task' = [task EXCEPT ![r] = how]
  BY DEF EndedBy
<1>2. peer' = peer /\ task[r] \in Live
  BY DEF EndedBy
<1>3. peer[r] \in Peers /\ r \in LiveTasks
  BY <1>2 DEF Links, LiveTasks, Live
<1>4. LiveTasks' = LiveTasks \ {r}
  BY <1>1 DEF TypeOK, LiveTasks, Live, Ended
<1> QED
  BY <1>2, <1>3, <1>4 DEF OfPeer

\* The sets of live tasks when none starts or ends.
LEMMA QuietSets ==
  ASSUME Quiet
  PROVE  LiveTasks' = LiveTasks /\ \A p : OfPeer(p)' = OfPeer(p)
  BY DEF Quiet, LiveTasks, OfPeer

----------------------------------------------------------------------------
\* Every step keeps the types.
LEMMA TypeStep == Inv /\ [Next]_vars => TypeOK'
<1> SUFFICES ASSUME Inv, [Next]_vars PROVE TypeOK'
  OBVIOUS
<1>1. ASSUME NEW r \in Requests, Accept(r)
      PROVE  TypeOK'
  <2>1. Started(r) /\ peer[r] \in Peers
    BY <1>1, AcceptCase, StartedSets DEF Inv
  <2>2. count' \in [Peers -> Nat] /\ busy' \in SUBSET Requests /\ task' \in [Requests -> Task]
    BY <2>1 DEF Inv, TypeOK, Started, Claim, Task, Live
  <2> QED
    BY <1>1, <2>2 DEF Inv, TypeOK, Accept, environment, Listener, Returned, Serving
<1>2. ASSUME NEW r \in Requests, Ending(r)
      PROVE  TypeOK'
  <2>1. EndedBy(r) /\ peer[r] \in Peers /\ r \in LiveTasks
    BY <1>2, EndingCase, EndedSets DEF Inv
  <2>2. count[peer[r]] = Cardinality(OfPeer(peer[r])) /\ r \in OfPeer(peer[r])
    BY <2>1 DEF Inv, CountsExact, OfPeer
  <2>3. count[peer[r]] - 1 \in Nat
    BY <2>2, LiveFinite, FS_EmptySet
  <2>4. count' \in [Peers -> Nat] /\ free' \in Nat /\ task' \in [Requests -> Task]
    BY <2>1, <2>3 DEF Inv, TypeOK, EndedBy, Release, Ended, Task
  <2> QED
    BY <1>2, <2>1, <2>4, EndingCase DEF Inv, TypeOK, EndedBy
<1>3. CASE Stop \/ UNCHANGED vars
  BY <1>3 DEF Inv, TypeOK, Stop, vars, environment, requestVars
<1>4. CASE Interrupt \/ StopWins
  <2>1. task' \in [Requests -> Task] /\ received' \in SUBSET Requests
    BY <1>4 DEF Interrupt, StopWins, Discard, Inv, TypeOK, Task
  <2>2. free' \in Nat /\ listener' \in Listener
    BY <1>4 DEF Interrupt, StopWins, Inv, TypeOK, Listener, Returned
  <2>3. UNCHANGED <<inbox, peer, busy, tasks, count, stopping>>
    BY <1>4 DEF Interrupt, StopWins, environment
  <2> QED
    BY <2>1, <2>2, <2>3 DEF Inv, TypeOK
<1>5. CASE Acquire \/ AwaitMessage \/ Closed \/ GiveUp \/ Drained \/ InterruptDrain
  <2>1. free' \in Nat /\ listener' \in Listener
    BY <1>5 DEF Acquire, AwaitMessage, Closed, GiveUp, Drained, InterruptDrain, Inv, TypeOK,
       requestVars, Listener, Returned, Serving
  <2>2. tasks' \in SUBSET Requests
    BY <1>5 DEF Acquire, AwaitMessage, Closed, GiveUp, Drained, InterruptDrain, Inv, TypeOK, requestVars
  <2>3. UNCHANGED <<inbox, peer, received, busy, count, task, stopping>>
    BY <1>5 DEF Acquire, AwaitMessage, Closed, GiveUp, Drained, InterruptDrain, environment, requestVars
  <2> QED
    BY <2>1, <2>2, <2>3 DEF Inv, TypeOK
<1>6. CASE Receive
  <2>1. inbox' \in Seq(Requests) /\ received' \in SUBSET Requests
    BY <1>6 DEF Receive, Inv, TypeOK
  <2> QED
    BY <1>6, <2>1 DEF Receive, Inv, TypeOK, requestVars, Listener, Returned, Serving
<1>7. ASSUME NEW r \in Requests, Arrive(r)
      PROVE  TypeOK'
  <2>1. inbox' \in Seq(Requests)
    BY <1>7 DEF Arrive, Inv, TypeOK
  <2> QED
    BY <1>7, <2>1 DEF Arrive, Inv, TypeOK, Task
<1>8. ASSUME NEW r \in Requests, Start(r) \/ Answer(r)
      PROVE  TypeOK'
  <2> QED
    BY <1>8 DEF Start, Answer, Inv, TypeOK, Task, Live, environment
<1> QED
  BY <1>1, <1>2, <1>3, <1>4, <1>5, <1>6, <1>7, <1>8, NextCases DEF Background, Listen

----------------------------------------------------------------------------
\* A message is in the transport's queue once, then with the listener, then in
\* a task of its own.
LEMMA LinksStep == Inv /\ [Next]_vars => Links'
<1> SUFFICES ASSUME TypeOK, Links, [Next]_vars PROVE Links'
  BY DEF Inv
<1>1. ASSUME NEW r \in Requests, Accept(r)
      PROVE  Links'
  <2>1. Started(r) /\ LiveTasks' = LiveTasks \cup {r}
    BY <1>1, AcceptCase, StartedSets
  <2>2. /\ task[r] = "queued" /\ r \in received /\ received' = {}
        /\ task' = [task EXCEPT ![r] = "created"]
        /\ UNCHANGED <<inbox, peer>>
        /\ busy' \subseteq busy \cup {r}
        /\ listener = "received"
    BY <1>1, <2>1 DEF Started, Claim, Accept, environment
  <2>3. \A s \in Requests : task'[s] = IF s = r THEN "created" ELSE task[s]
    BY <2>2 DEF TypeOK
  <2>4. \A i \in 1..Len(inbox) : inbox[i] \in Requests
    BY DEF TypeOK
  <2>5. LiveTasks' \subseteq tasks'
    BY <1>1, <2>1 DEF Accept, Links, LiveTasks, Live, Ended
  <2> QED
    BY <2>2, <2>3, <2>4, <2>5 DEF Links, TypeOK
<1>2. ASSUME NEW r \in Requests, Ending(r)
      PROVE  Links'
  <2>1. /\ EndedBy(r) /\ LiveTasks' = LiveTasks \ {r}
        /\ UNCHANGED <<inbox, peer, received, busy, tasks, listener>>
    BY <1>2, EndingCase, EndedSets DEF EndedBy
  <2>2. /\ \A s \in Requests \ {r} : task'[s] = task[s]
        /\ task[r] \in Live /\ task'[r] \in Ended
    BY <2>1 DEF EndedBy, TypeOK
  <2>3. \A i \in 1..Len(inbox) : inbox[i] \in Requests
    BY DEF TypeOK
  <2> QED
    BY <2>1, <2>2, <2>3 DEF Links, TypeOK, Live, Ended
<1>3. CASE Stop \/ UNCHANGED vars
  BY <1>3 DEF Links, LiveTasks, Stop, vars, environment, requestVars
<1>4. CASE Interrupt \/ StopWins
  <2>1. /\ UNCHANGED <<inbox, peer, busy, tasks>> /\ received' = {}
        /\ \A r \in Requests : task'[r] = IF r \in received THEN "lost" ELSE task[r]
        /\ LiveTasks' = LiveTasks
    BY <1>4, DiscardQuiet DEF Interrupt, StopWins, Discard, environment, LiveTasks
  <2>2. received \subseteq Requests /\ busy \subseteq Requests
        /\ \A i \in 1..Len(inbox) : inbox[i] \in Requests
    BY DEF TypeOK
  <2>3. \A r \in Requests : task'[r] # "unsent" => peer'[r] \in Peers
    BY <2>1 DEF Links
  <2>4. \A i \in 1..Len(inbox') : task'[inbox'[i]] = "queued" /\ inbox'[i] \notin received'
    BY <2>1, <2>2 DEF Links
  <2>5. \A r \in busy' : task'[r] \notin {"unsent", "queued", "lost"}
    BY <2>1, <2>2 DEF Links
  <2>6. /\ \A i, j \in 1..Len(inbox') : inbox'[i] = inbox'[j] => i = j
        /\ LiveTasks' \subseteq tasks'
    BY <2>1 DEF Links
  <2>7. \A r \in received' : task'[r] = "queued"
    BY <2>1
  <2> QED
    BY <2>1, <2>3, <2>4, <2>5, <2>6, <2>7 DEF Links
<1>5. CASE Acquire \/ AwaitMessage \/ Closed \/ GiveUp \/ InterruptDrain
  <2>1. UNCHANGED <<inbox, peer, received, busy, tasks, task>>
    BY <1>5 DEF Acquire, AwaitMessage, Closed, GiveUp, InterruptDrain, environment, requestVars
  <2>2. received = {}
    BY <1>5 DEF Acquire, AwaitMessage, Closed, GiveUp, InterruptDrain, Links
  <2>3. LiveTasks' = LiveTasks
    BY <2>1 DEF LiveTasks
  <2> QED
    BY <2>1, <2>2, <2>3 DEF Links
<1>6. CASE Drained
  BY <1>6 DEF Drained, Unfinished, Links, LiveTasks, environment, Serving
<1>7. CASE Receive
  <2> DEFINE h == inbox[1]
  <2>1. /\ inbox # <<>> /\ inbox' = Tail(inbox) /\ received' = {h}
        /\ listener' = "received"
        /\ UNCHANGED <<peer, busy, tasks, task>>
    BY <1>7 DEF Receive, requestVars, TypeOK
  <2>2. /\ Len(inbox) \in Nat \ {0} /\ Len(inbox') = Len(inbox) - 1
        /\ \A i \in 1..Len(inbox') : inbox'[i] = inbox[i + 1]
    BY <2>1 DEF TypeOK
  <2>3. \A i \in 1..Len(inbox') : i + 1 \in 1..Len(inbox) /\ i + 1 # 1
    BY <2>2
  <2>4. 1 \in 1..Len(inbox)
    BY <2>2
  <2>5. task[h] = "queued"
    BY <2>4 DEF Links
  <2>6. \A i \in 1..Len(inbox') : task[inbox'[i]] = "queued" /\ inbox'[i] # h
    BY <2>2, <2>3, <2>4 DEF Links
  <2>7. \A i, j \in 1..Len(inbox') : inbox'[i] = inbox'[j] => i = j
    <3> SUFFICES ASSUME NEW i \in 1..Len(inbox'), NEW j \in 1..Len(inbox'), inbox'[i] = inbox'[j]
                 PROVE  i = j
      OBVIOUS
    <3>1. i + 1 = j + 1
      BY <2>2, <2>3 DEF Links
    <3> QED
      BY <3>1, <2>2
  <2>8. LiveTasks' = LiveTasks
    BY <2>1 DEF LiveTasks
  <2> HIDE DEF h
  <2> QED
    BY <2>1, <2>5, <2>6, <2>7, <2>8 DEF Links, Serving
<1>8. ASSUME NEW r \in Requests, Arrive(r)
      PROVE  Links'
  <2>1. /\ task[r] = "unsent"
        /\ \A s \in Requests \ {r} : task'[s] = task[s] /\ peer'[s] = peer[s]
        /\ task'[r] = "queued" /\ peer'[r] \in Peers
        /\ UNCHANGED <<listener, received, busy, tasks>>
    BY <1>8 DEF Arrive, TypeOK
  <2>2. /\ Len(inbox) \in Nat /\ Len(inbox') = Len(inbox) + 1
        /\ inbox'[Len(inbox) + 1] = r
        /\ \A i \in 1..Len(inbox) : inbox'[i] = inbox[i] /\ inbox[i] \in Requests
    BY <1>8 DEF Arrive, TypeOK
  <2>3. \A i \in 1..Len(inbox') : i \in 1..Len(inbox) \/ i = Len(inbox) + 1
    BY <2>2
  <2>4. \A i \in 1..Len(inbox) : inbox[i] # r /\ task'[inbox[i]] = "queued"
    BY <2>1, <2>2 DEF Links
  <2>5. \A i \in 1..Len(inbox') : task'[inbox'[i]] = "queued" /\ inbox'[i] \notin received'
    BY <2>1, <2>2, <2>3, <2>4 DEF Links
  <2>6. \A i, j \in 1..Len(inbox') : inbox'[i] = inbox'[j] => i = j
    BY <2>2, <2>3, <2>4 DEF Links
  <2>7. LiveTasks' = LiveTasks
    BY <2>1 DEF LiveTasks, Live
  <2>8. r \notin received /\ r \notin busy
    BY <2>1 DEF Links
  <2> QED
    BY <2>1, <2>5, <2>6, <2>7, <2>8 DEF Links, TypeOK
<1>9. ASSUME NEW r \in Requests, Start(r) \/ Answer(r)
      PROVE  Links'
  <2>1. /\ task[r] \in Live /\ task'[r] \in Live
        /\ \A s \in Requests \ {r} : task'[s] = task[s]
        /\ UNCHANGED <<inbox, peer, listener, received, busy, tasks>>
    BY <1>9 DEF Start, Answer, TypeOK, Live, environment
  <2>2. LiveTasks' = LiveTasks
    BY <2>1 DEF LiveTasks
  <2>3. \A i \in 1..Len(inbox) : inbox[i] \in Requests
    BY DEF TypeOK
  <2> QED
    BY <2>1, <2>2, <2>3 DEF Links, TypeOK, Live
<1> QED
  BY <1>1, <1>2, <1>3, <1>4, <1>5, <1>6, <1>7, <1>8, <1>9, NextCases DEF Background, Listen

----------------------------------------------------------------------------
\* Every step keeps the per-peer counts exact.
LEMMA CountsStep == Inv /\ [Next]_vars => CountsExact'
<1> SUFFICES ASSUME Inv, [Next]_vars PROVE CountsExact'
  OBVIOUS
<1>0. CountsExact <=> \A p \in Peers : count[p] = Cardinality(OfPeer(p))
  BY DEF CountsExact, OfPeer
<1>1. CountsExact' <=> \A p \in Peers : count'[p] = Cardinality(OfPeer(p)')
  BY DEF CountsExact, OfPeer
<1>2. ASSUME NEW r \in Requests, Accept(r)
      PROVE  CountsExact'
  <2>1. Started(r)
    BY <1>2, AcceptCase DEF Inv
  <2>2. /\ peer[r] \in Peers /\ r \notin OfPeer(peer[r])
        /\ OfPeer(peer[r])' = OfPeer(peer[r]) \cup {r}
        /\ \A p : p # peer[r] => OfPeer(p)' = OfPeer(p)
    BY <2>1, StartedSets DEF Inv, OfPeer
  <2>3. Cardinality(OfPeer(peer[r])') = Cardinality(OfPeer(peer[r])) + 1
    BY <2>2, LiveFinite, FS_AddElement
  <2>4. \A p \in Peers : count'[p] = IF p = peer[r] THEN count[p] + 1 ELSE count[p]
    BY <2>1, <2>2 DEF Started, Claim, Inv, TypeOK
  <2>5. \A p \in Peers : count'[p] = Cardinality(OfPeer(p)')
    <3> SUFFICES ASSUME NEW p \in Peers PROVE count'[p] = Cardinality(OfPeer(p)')
      OBVIOUS
    <3>1. CASE p = peer[r]
      <4>1. count'[peer[r]] = Cardinality(OfPeer(peer[r])')
        BY <1>0, <2>2, <2>3, <2>4 DEF Inv
      <4> QED
        BY <3>1, <4>1, <2>1 DEF OfPeer, Started, EndedBy
    <3>2. CASE p # peer[r]
      BY <1>0, <2>2, <2>4, <3>2 DEF Inv
    <3> QED
      BY <3>1, <3>2
  <2> QED
    BY <1>1, <2>5
<1>3. ASSUME NEW r \in Requests, Ending(r)
      PROVE  CountsExact'
  <2>1. EndedBy(r)
    BY <1>3, EndingCase DEF Inv
  <2>2. /\ peer[r] \in Peers /\ r \in OfPeer(peer[r])
        /\ OfPeer(peer[r])' = OfPeer(peer[r]) \ {r}
        /\ \A p : p # peer[r] => OfPeer(p)' = OfPeer(p)
    BY <2>1, EndedSets DEF Inv, OfPeer
  <2>3. Cardinality(OfPeer(peer[r])') = Cardinality(OfPeer(peer[r])) - 1
    BY <2>2, LiveFinite, FS_RemoveElement
  <2>4. \A p \in Peers : count'[p] = IF p = peer[r] THEN count[p] - 1 ELSE count[p]
    BY <2>1, <2>2 DEF EndedBy, Release, Inv, TypeOK
  <2>5. \A p \in Peers : count'[p] = Cardinality(OfPeer(p)')
    <3> SUFFICES ASSUME NEW p \in Peers PROVE count'[p] = Cardinality(OfPeer(p)')
      OBVIOUS
    <3>1. CASE p = peer[r]
      <4>1. count'[peer[r]] = Cardinality(OfPeer(peer[r])')
        BY <1>0, <2>2, <2>3, <2>4 DEF Inv
      <4> QED
        BY <3>1, <4>1, <2>1 DEF OfPeer, Started, EndedBy
    <3>2. CASE p # peer[r]
      BY <1>0, <2>2, <2>4, <3>2 DEF Inv
    <3> QED
      BY <3>1, <3>2
  <2> QED
    BY <1>1, <2>5
<1>4. CASE Background
  <2>1. Quiet
    BY <1>4, BackgroundCase DEF Inv
  <2>2. count' = count /\ \A p : OfPeer(p)' = OfPeer(p)
    BY <2>1, QuietSets DEF Quiet
  <2> QED
    BY <1>0, <1>1, <2>2 DEF Inv
<1> QED
  BY <1>2, <1>3, <1>4, NextCases

----------------------------------------------------------------------------
\* Every step keeps the slots exact.
LEMMA SlotsStep == Inv /\ [Next]_vars => Slots'
<1> SUFFICES ASSUME Inv, [Next]_vars PROVE Slots'
  OBVIOUS
<1> DEFINE n == Cardinality(LiveTasks)
<1>0. n \in Nat /\ n' \in Nat /\ free \in Nat /\ MaxConcurrency \in Nat /\ IsFiniteSet(LiveTasks)
  BY LiveFinite, ConcurrencyAssumption, RequestsAssumption, FS_Subset, FS_CardinalityType
     DEF Inv, TypeOK, LiveTasks
<1>1. ASSUME NEW r \in Requests, Accept(r)
      PROVE  Slots'
  <2>1. Started(r)
    BY <1>1, AcceptCase DEF Inv
  <2>2. r \notin LiveTasks /\ LiveTasks' = LiveTasks \cup {r}
    BY <2>1, StartedSets DEF Inv
  <2>3. n' = n + 1
    BY <1>0, <2>2, FS_AddElement
  <2>4. /\ listener = "received" /\ listener' \in {"acquire", "drain"}
        /\ free' = free
    BY <1>1 DEF Accept
  <2> HIDE DEF n
  <2>5. free + n + 1 <= MaxConcurrency /\ free + n + 1 = MaxConcurrency
    BY <2>4 DEF Inv, Slots, SlotsBalance, Held, Serving, n
  <2>6. Held' = 0
    BY <2>4 DEF Held
  <2>7. free' + n' + Held' = MaxConcurrency
    BY <1>0, <2>3, <2>4, <2>5, <2>6
  <2> QED
    BY <1>0, <2>7 DEF Slots, SlotsBalance, n
<1>2. ASSUME NEW r \in Requests, Ending(r)
      PROVE  Slots'
  <2>1. EndedBy(r) /\ listener' = listener
    BY <1>2, EndingCase DEF Inv
  <2>2. r \in LiveTasks /\ LiveTasks' = LiveTasks \ {r}
    BY <2>1, EndedSets DEF Inv
  <2>3. n' = n - 1
    BY <1>0, <2>2, FS_RemoveElement
  <2>4. free' = free + 1 /\ Held' = Held /\ Held \in {0, 1}
    BY <2>1 DEF EndedBy, Release, Held
  <2> HIDE DEF n
  <2>5. free' + n' + Held' = free + n + Held
    BY <1>0, <2>3, <2>4
  <2> QED
    BY <2>1, <2>5 DEF Inv, Slots, SlotsBalance, n
<1>3. CASE Background
  <2>1. n' = n
    BY <1>3, BackgroundCase, QuietSets DEF Inv
  <2> HIDE DEF n
  <2>2. \/ UNCHANGED <<free, listener>>
        \/ Interrupt \/ InterruptDrain
        \/ Listen
    BY <1>3 DEF Background, Stop, Arrive, Start, Answer, vars, requestVars
  <2>3. \/ /\ \/ free' = free /\ Held' = Held
              \/ free' = free - 1 /\ Held' = Held + 1
              \/ free' = free + 1 /\ Held' = Held - 1
           /\ listener' \in Serving => listener \in Serving
        \/ listener' \notin Serving /\ free' = free /\ Held' = Held - 1
    BY <2>2, <1>0 DEF Interrupt, Listen, Acquire, AwaitMessage, Receive, StopWins, Closed, GiveUp,
       Drained, InterruptDrain, Held, Serving, requestVars
  <2>4. Held \in Nat
    BY DEF Held
  <2>5. /\ free + n + Held <= MaxConcurrency
        /\ listener \in Serving => free + n + Held = MaxConcurrency
    BY DEF Inv, Slots, SlotsBalance, n
  <2>6. free' + n' + Held' <= MaxConcurrency
    BY <1>0, <2>1, <2>3, <2>4, <2>5
  <2>7. listener' \in Serving => free' + n' + Held' = MaxConcurrency
    BY <1>0, <2>1, <2>3, <2>4, <2>5
  <2> QED
    BY <2>6, <2>7 DEF Slots, SlotsBalance, n
<1> QED
  BY <1>1, <1>2, <1>3, NextCases

----------------------------------------------------------------------------
\* A peer without a count has no live task, so its next request may execute.
LEMMA UncountedPeer ==
  ASSUME CountsExact, NEW p \in Peers, count[p] = 0
  PROVE  OfPeer(p) = {}
  BY LiveFinite, FS_EmptySet DEF CountsExact, OfPeer

\* Every step keeps at most one executing request per peer.
LEMMA OnePerPeerStep == Inv /\ [Next]_vars => OnePerPeer'
<1> SUFFICES ASSUME Inv, [Next]_vars PROVE OnePerPeer'
  OBVIOUS
<1>1. ASSUME NEW r \in Requests, Accept(r)
      PROVE  OnePerPeer'
  <2>1. Started(r)
    BY <1>1, AcceptCase DEF Inv
  <2>2. /\ LiveTasks' = LiveTasks \cup {r}
        /\ peer[r] \in Peers /\ peer' = peer
    BY <2>1, StartedSets DEF Inv, Started
  <2>3. CASE count[peer[r]] = 0
    <3>1. OfPeer(peer[r]) = {} /\ busy' = busy
      BY <2>1, <2>2, <2>3, UncountedPeer DEF Inv, Started, Claim
    <3> QED
      BY <2>2, <3>1 DEF Inv, OnePerPeer, Executing, OfPeer
  <2>4. CASE count[peer[r]] # 0
    <3>1. busy' = busy \cup {r}
      BY <2>1, <2>2, <2>4 DEF Inv, TypeOK, Started, Claim
    <3> QED
      BY <2>2, <3>1 DEF Inv, OnePerPeer, Executing
  <2> QED
    BY <2>3, <2>4
<1>2. ASSUME NEW r \in Requests, Ending(r)
      PROVE  OnePerPeer'
  <2>1. EndedBy(r)
    BY <1>2, EndingCase DEF Inv
  <2>2. LiveTasks' = LiveTasks \ {r} /\ peer' = peer /\ busy' = busy
    BY <2>1, EndedSets DEF Inv, EndedBy
  <2> QED
    BY <2>2 DEF Inv, OnePerPeer, Executing
<1>3. CASE Background
  <2>1. Quiet
    BY <1>3, BackgroundCase DEF Inv
  <2>2. Executing' = Executing /\ \A r \in Executing : peer'[r] = peer[r]
    BY <2>1, QuietSets DEF Quiet, Executing, LiveTasks
  <2> QED
    BY <2>2 DEF Inv, OnePerPeer
<1> QED
  BY <1>1, <1>2, <1>3, NextCases

\* No step leaves a task behind when the loop is over.
LEMMA OutlivesStep == Inv /\ [Next]_vars => NothingOutlivesStop'
<1> SUFFICES ASSUME Inv, [Next]_vars PROVE NothingOutlivesStop'
  OBVIOUS
<1>1. ASSUME NEW r \in Requests, Accept(r)
      PROVE  NothingOutlivesStop'
  BY <1>1 DEF Accept, NothingOutlivesStop
<1>2. ASSUME NEW r \in Requests, Ending(r)
      PROVE  NothingOutlivesStop'
  BY <1>2, EndingCase, EndedSets DEF Inv, NothingOutlivesStop
<1>3. CASE Background
  <2>1. LiveTasks' = LiveTasks
    BY <1>3, BackgroundCase, QuietSets DEF Inv
  <2>2. listener' = "stopped" => listener = "stopped" \/ Drained
    BY <1>3 DEF Background, Stop, Interrupt, Listen, Acquire, AwaitMessage, Receive, StopWins,
       Closed, GiveUp, InterruptDrain, Arrive, Start, Answer, vars, requestVars
  <2>3. Drained => LiveTasks = {}
    BY DEF Drained, Unfinished, Inv, Links
  <2> QED
    BY <2>1, <2>2, <2>3 DEF Inv, NothingOutlivesStop
<1> QED
  BY <1>1, <1>2, <1>3, NextCases

----------------------------------------------------------------------------
\* The invariant holds before run().
LEMMA InitInv == Init => Inv
<1> SUFFICES ASSUME Init PROVE Inv
  OBVIOUS
<1>1. LiveTasks = {} /\ Executing = {} /\ \A p : OfPeer(p) = {}
  BY DEF Init, LiveTasks, Live, Executing, OfPeer
<1>2. TypeOK
  <2>1. inbox \in Seq(Requests)
    BY DEF Init
  <2>2. free \in Nat /\ listener \in Listener
    BY ConcurrencyAssumption DEF Init, Listener, Returned, Serving
  <2>3. peer \in [Requests -> Peers \cup {NoPeer}] /\ task \in [Requests -> Task]
    BY DEF Init, Task
  <2>4. count \in [Peers -> Nat]
    BY DEF Init
  <2> QED
    BY <2>1, <2>2, <2>3, <2>4 DEF Init, TypeOK
<1>3. Links
  BY <1>1 DEF Init, Links
<1>4. CountsExact
  BY <1>1, FS_EmptySet DEF Init, CountsExact, OfPeer
<1>5. Slots
  BY <1>1, FS_EmptySet, ConcurrencyAssumption DEF Init, Slots, SlotsBalance, Held
<1> QED
  BY <1>1, <1>2, <1>3, <1>4, <1>5 DEF Inv, OnePerPeer, NothingOutlivesStop

\* Every step keeps the invariant.
LEMMA InvStep == Inv /\ [Next]_vars => Inv'
  BY TypeStep, LinksStep, CountsStep, SlotsStep, OnePerPeerStep, OutlivesStep DEF Inv

\* The invariant always holds.
LEMMA InvCorrect == Spec => []Inv
  BY InitInv, InvStep, PTL DEF Spec

\* The type invariant: no count and no semaphore goes below zero.
THEOREM TypeCorrect == Spec => []TypeOK
<1>1. Inv => TypeOK
  BY DEF Inv
<1> QED
  BY <1>1, InvCorrect, PTL

\* The count of a peer's lock is the number of its unfinished tasks, no slot is
\* lost or returned twice while the app serves, and when `_listen` has returned
\* none of its tasks runs, unless its drain was cancelled before the time limit
\* (multicast_app.py:315).
THEOREM AllAccounted == Spec => []RequestsAccounted
<1>1. Inv => RequestsAccounted
  BY DEF Inv, Slots, RequestsAccounted
<1> QED
  BY <1>1, InvCorrect, PTL

\* A peer has one request executing at a time.
THEOREM OneAtATime == Spec => []OnePerPeer
<1>1. Inv => OnePerPeer
  BY DEF Inv
<1> QED
  BY <1>1, InvCorrect, PTL

----------------------------------------------------------------------------
Finished == {r \in Requests : task[r] \in Ended}

\* The library's Cardinality, as PeerService sees it.
LEMMA SameCardinality == \A S : Service!Cardinality(S) = Cardinality(S)
  BY DEF Service!Cardinality, Cardinality

\* What the app shows of itself, in the terms of PeerService.
LEMMA Hidden ==
  /\ Service!Active = LiveTasks
  /\ \A p : Service!ActiveOf(p) = OfPeer(p)
  BY DEF Service!Active, Service!ActiveOf, Executing, OfPeer

\* An app that was just made serves nobody.
LEMMA ServiceInit == Init => Service!Init
  BY DEF Init, Service!Init, LiveTasks, Live, Ended, Executing

\* Every step of the app is one of PeerService or shows nothing.
LEMMA ServiceStep == Inv /\ [Next]_vars => [Service!Next]_(Service!vars)
<1> SUFFICES ASSUME Inv, [Next]_vars PROVE [Service!Next]_(Service!vars)
  OBVIOUS
<1>1. ASSUME NEW r \in Requests, Accept(r)
      PROVE  Service!Execute(r) \/ Service!Refuse(r)
  <2>1. Started(r)
    BY <1>1, AcceptCase DEF Inv
  <2>2. /\ task[r] = "queued" /\ task' = [task EXCEPT ![r] = "created"]
        /\ r \notin LiveTasks /\ LiveTasks' = LiveTasks \cup {r}
        /\ peer[r] \in Peers /\ peer' = peer
    BY <2>1, StartedSets DEF Inv, Started, Claim
  <2>3. r \notin Finished /\ Finished' = Finished /\ r \notin busy
    BY <2>2 DEF Finished, Ended, Inv, TypeOK, Links
  <2>4. Cardinality(LiveTasks) < MaxConcurrency
    BY <1>1, LiveFinite, ConcurrencyAssumption DEF Inv, Slots, Accept, Held, TypeOK
  <2>5. Service!Admissible(r)
    <3>1. r \notin Service!Active /\ Service!Cardinality(Service!Active) < MaxConcurrency
      BY <2>2, <2>4, Hidden, SameCardinality
    <3> QED
      BY <2>3, <3>1 DEF Service!Admissible, Finished
  <2>6. CASE count[peer[r]] = 0
    <3>1. OfPeer(peer[r]) = {} /\ busy' = busy
      BY <2>1, <2>2, <2>6, UncountedPeer DEF Inv, Started, Claim
    <3>2. Executing' = Executing \cup {r} /\ (LiveTasks \cap busy)' = LiveTasks \cap busy
      BY <2>2, <2>3, <3>1 DEF Executing
    <3> QED
      BY <2>2, <2>3, <2>5, <3>1, <3>2, Hidden DEF Service!Execute, Finished
  <2>7. CASE count[peer[r]] # 0
    <3>1. busy' = busy \cup {r}
      BY <2>1, <2>2, <2>7 DEF Inv, TypeOK, Started, Claim
    <3>2. OfPeer(peer[r]) # {}
      BY <2>2, <2>7, FS_EmptySet DEF Inv, CountsExact, OfPeer
    <3>3. Executing' = Executing /\ (LiveTasks \cap busy)' = (LiveTasks \cap busy) \cup {r}
      BY <2>2, <2>3, <3>1 DEF Executing
    <3> QED
      BY <2>2, <2>3, <2>5, <3>2, <3>3, Hidden DEF Service!Refuse, Finished
  <2> QED
    BY <2>6, <2>7
<1>2. ASSUME NEW r \in Requests, Ending(r)
      PROVE  Service!Finish(r)
  <2>1. EndedBy(r)
    BY <1>2, EndingCase DEF Inv
  <2>2. r \in LiveTasks /\ LiveTasks' = LiveTasks \ {r} /\ peer' = peer /\ busy' = busy
    BY <2>1, EndedSets DEF Inv, EndedBy
  <2>3. Finished' = Finished \cup {r}
    BY <2>1 DEF EndedBy, Finished, Inv, TypeOK
  <2>4. Executing' = Executing \ {r} /\ (LiveTasks \cap busy)' = (LiveTasks \cap busy) \ {r}
    BY <2>2 DEF Executing
  <2> QED
    BY <2>2, <2>3, <2>4, Hidden DEF Service!Finish, Finished
<1>3. ASSUME NEW r \in Requests, Arrive(r)
      PROVE  Service!Send(r)
  <2>1. Quiet
    BY <1>3, BackgroundCase DEF Inv, Background
  <2>2. /\ LiveTasks' = LiveTasks /\ Finished' = Finished /\ busy' = busy
        /\ Executing' = Executing
    BY <2>1, QuietSets DEF Quiet, Finished, Executing
  <2>3. r \notin LiveTasks \cup Finished /\ \A s \in Requests \ {r} : peer'[s] = peer[s]
    BY <1>3 DEF Arrive, LiveTasks, Finished, Live, Ended, Inv, TypeOK
  <2> QED
    BY <2>2, <2>3, Hidden DEF Service!Send, Finished
<1>4. ASSUME Background, \A r \in Requests : ~Arrive(r)
      PROVE  UNCHANGED Service!vars
  <2>1. Quiet
    BY <1>4, BackgroundCase DEF Inv
  <2>2. /\ LiveTasks' = LiveTasks /\ Finished' = Finished /\ busy' = busy
        /\ Executing' = Executing
    BY <2>1, QuietSets DEF Quiet, Finished, Executing
  <2>3. peer' = peer
    BY <1>4 DEF Background, Stop, Interrupt, Listen, Acquire, AwaitMessage, Receive, StopWins,
       Closed, GiveUp, Drained, InterruptDrain, Start, Answer, vars, environment
  <2> QED
    BY <2>2, <2>3 DEF Service!vars, Finished
<1> QED
  BY <1>1, <1>2, <1>3, <1>4, NextCases DEF Service!Next

\* The listen loop, its slots and its counts implement the promise to the peers.
THEOREM ImplementsService == Spec => ServiceSpec
  BY ServiceInit, ServiceStep, InvCorrect, PTL DEF Spec, ServiceSpec, Service!Spec

----------------------------------------------------------------------------
(***************************************************************************)
(* The queue its transports receive from.  Each task is in one place of the *)
(* schedule at most, which is what makes a change wake everyone who waits,  *)
(* and once; what is accounted is what is in the queue, item by item.       *)
(***************************************************************************)
LEMMA SameKept == \A s, S : Queue!Kept(s, S) = Kept(s, S)
BY DEF Queue!Kept, Queue!KeptSoFar, Kept, KeptSoFar

\* The queue's Total is that of Subsequences.
LEMMA SameTotal == \A s, w : Queue!Total(s, w) = Total(s, w)
BY DEF Queue!Total, Queue!TotalSoFar, Total, TotalSoFar

\* The accounts, the tasks without one and what drop_peer removes.
Exact ==
  /\ bytes = Total(items, Queue!SizeOf) /\ bytes <= MaxBytes
  /\ \A p \in Readers :
       /\ counts[p] = Len(Kept(items, Queue!Of(p)))
       /\ counts[p] <= PerPeer
  /\ Len(items) <= MaxSize

Left(line, p) == Kept(line, Queue!Tasks \ {p})

Drops(p) ==
  /\ items' = Kept(items, Queue!Item \ Queue!Of(p))
  /\ bytes' = bytes - Total(Kept(items, Queue!Of(p)), Queue!SizeOf)
  /\ counts' = [counts EXCEPT ![p] = 0]

\* The accounts, in the terms of the lemmas.
LEMMA ExactIsAccountsExact == Exact <=> Queue!AccountsExact
BY SameKept, SameTotal DEF Exact, Queue!AccountsExact

\* The waiters without one, in the terms of the lemmas.
LEMMA LeftIsWithout == \A line, p : Queue!Without(line, p) = Left(line, p)
BY SameKept DEF Left, Queue!Without

\* Dropping a peer, in the terms of the lemmas.
LEMMA DropsIsDrop == \A p : Queue!Drop(p) <=> Drops(p)
BY SameKept, SameTotal DEF Drops, Queue!Drop

\* A task is in one place: it is ready, waits or runs.
Scheduled ==
  /\ Distinct(ready) /\ Distinct(waiters)
  /\ Items(ready) \cap Items(waiters) = {}
  /\ running \notin Items(ready) \cup Items(waiters)

\* Who waits could not go on: nothing to get, or no room to put.
NoRoom(t) == IF t = Queue!Getter THEN items = <<>> ELSE ~Queue!Fits(t)
Patient == \A t \in Items(waiters) : ~closed /\ NoRoom(t)

\* The inductive invariant of the queue.
QueueInv == Queue!TypeOK /\ Exact /\ Scheduled /\ Patient

\* The limits of the queue and who its tasks are.
LEMMA QueueFacts ==
  /\ MaxSize \in Nat \ {0} /\ MaxBytes \in Nat \ {0} /\ PerPeer \in Nat \ {0}
  /\ Sizes \subseteq Nat \ {0}
  /\ Queue!Getter \notin Readers /\ Queue!Nobody \notin Readers /\ Queue!Nobody \notin Queue!Tasks
  /\ Queue!SizeOf \in [Queue!Item -> Nat] /\ \A m \in Queue!Item : Queue!SizeOf[m] = m.size
BY QueueAssumption DEF Queue!LimitsAssumption, Queue!SizesAssumption, Queue!PeersAssumption, Queue!Tasks, Queue!Getter, Queue!Nobody, Queue!SizeOf, Queue!Item

\* The invariant holds of an empty queue.
LEMMA QueueInitInv == Queue!Init => QueueInv
<1> SUFFICES ASSUME Queue!Init PROVE QueueInv OBVIOUS
<1>1. Queue!TypeOK
  <2>1. items \in Seq(Queue!Item) /\ ready \in Seq(Queue!Tasks) /\ waiters \in Seq(Queue!Tasks) BY DEF Queue!Init
  <2>2. counts \in [Readers -> Nat] /\ frame \in [Readers -> Sizes \cup {0}] BY DEF Queue!Init
  <2> QED BY <2>1, <2>2 DEF Queue!Init, Queue!TypeOK
<1>2. Exact
  <2>1. Total(<<>>, Queue!SizeOf) = 0 BY TotalEmpty
  <2>2. \A p \in Readers : Kept(<<>>, Queue!Of(p)) = <<>> BY KeptEmpty
  <2> QED BY <2>1, <2>2, QueueFacts DEF Queue!Init, Exact
<1>3. Scheduled /\ Patient BY DEF Queue!Init, Scheduled, Patient, Items, Distinct
<1> QED BY <1>1, <1>3, <1>2 DEF QueueInv

\* The tasks move between the queue of the ready ones and that of the waiters.
LEMMA ChangedSchedule ==
  ASSUME QueueInv, Queue!Changed
  PROVE  /\ ready' \in Seq(Queue!Tasks) /\ waiters' \in Seq(Queue!Tasks)
         /\ Items(ready') = Items(ready) \cup Items(waiters) /\ Distinct(ready')
         /\ Items(waiters') = {} /\ Distinct(waiters')
<1>1. ready \in Seq(Queue!Tasks) /\ waiters \in Seq(Queue!Tasks) BY DEF QueueInv, Queue!TypeOK
<1>2. Items(ready \o waiters) = Items(ready) \cup Items(waiters) /\ Distinct(ready \o waiters)
  BY <1>1, ConcatItems DEF QueueInv, Scheduled
<1>3. Items(<<>>) = {} /\ Distinct(<<>>) BY DEF Items, Distinct
<1> QED BY <1>1, <1>2, <1>3 DEF Queue!Changed

\* A task that leaves the lines is in neither of them.
LEMMA WithoutSchedule ==
  ASSUME QueueInv, NEW p
  PROVE  /\ Left(ready, p) \in Seq(Queue!Tasks) /\ Left(waiters, p) \in Seq(Queue!Tasks)
         /\ Items(Left(ready, p)) = Items(ready) \ {p} /\ Distinct(Left(ready, p))
         /\ Items(Left(waiters, p)) = Items(waiters) \ {p} /\ Distinct(Left(waiters, p))
<1>1. ready \in Seq(Queue!Tasks) /\ waiters \in Seq(Queue!Tasks) BY DEF QueueInv, Queue!TypeOK
<1>2. Items(ready) \subseteq Queue!Tasks /\ Items(waiters) \subseteq Queue!Tasks BY <1>1 DEF Items
<1>3. Distinct(ready) /\ Distinct(waiters) BY DEF QueueInv, Scheduled
<1>4. /\ Kept(ready, Queue!Tasks \ {p}) \in Seq(Queue!Tasks)
      /\ Items(Kept(ready, Queue!Tasks \ {p})) = Items(ready) \cap (Queue!Tasks \ {p}) /\ Distinct(Kept(ready, Queue!Tasks \ {p}))
  BY <1>1, <1>3, KeptItems
<1>5. /\ Kept(waiters, Queue!Tasks \ {p}) \in Seq(Queue!Tasks)
      /\ Items(Kept(waiters, Queue!Tasks \ {p})) = Items(waiters) \cap (Queue!Tasks \ {p}) /\ Distinct(Kept(waiters, Queue!Tasks \ {p}))
  BY <1>1, <1>3, KeptItems
<1>6. Items(ready) \cap (Queue!Tasks \ {p}) = Items(ready) \ {p} /\ Items(waiters) \cap (Queue!Tasks \ {p}) = Items(waiters) \ {p}
  BY <1>2
<1> QED BY <1>4, <1>5, <1>6 DEF Left

\* Being in a line, in the terms of the lemmas.
LEMMA InItems ==
  ASSUME NEW p, NEW s
  PROVE  Queue!In(p, s) <=> p \in Items(s)
BY DEF Queue!In, Items

\* A task that was nowhere becomes ready.
LEMMA ReadySchedule ==
  ASSUME QueueInv, NEW p \in Queue!Tasks, Queue!Idle(p), Queue!Yielded, ready' = Append(ready, p), UNCHANGED <<running, waiters>>
  PROVE  Scheduled' /\ ready' \in Seq(Queue!Tasks) /\ Items(waiters') = Items(waiters)
<1>1. ready \in Seq(Queue!Tasks) /\ waiters \in Seq(Queue!Tasks) BY DEF QueueInv, Queue!TypeOK
<1>2. p \notin Items(ready) /\ p \notin Items(waiters) BY InItems DEF Queue!Idle
<1>3. Items(ready') = Items(ready) \cup {p} /\ (Distinct(ready') <=> Distinct(ready) /\ p \notin Items(ready)) /\ ready' \in Seq(Queue!Tasks)
  BY <1>1, AppendItems
<1>4. running' \notin Queue!Tasks /\ running' \notin Items(waiters) BY QueueFacts, <1>1 DEF Queue!Yielded, QueueInv, Scheduled
<1> QED BY <1>1, <1>2, <1>3, <1>4, QueueFacts DEF QueueInv, Scheduled

\* The task that runs waits.
LEMMA WaitSchedule ==
  ASSUME QueueInv, NEW p \in Queue!Tasks, Queue!Runs(p), Queue!AwaitChange(p)
  PROVE  Scheduled' /\ waiters' \in Seq(Queue!Tasks) /\ Items(waiters') = Items(waiters) \cup {p}
<1>1. ready \in Seq(Queue!Tasks) /\ waiters \in Seq(Queue!Tasks) BY DEF QueueInv, Queue!TypeOK
<1>2. p \notin Items(ready) /\ p \notin Items(waiters) BY DEF Queue!Runs, QueueInv, Scheduled
<1>3. waiters' = Append(waiters, p) /\ ready' = ready /\ running' = Queue!Nobody BY DEF Queue!AwaitChange
<1>4. Items(waiters') = Items(waiters) \cup {p} /\ (Distinct(waiters') <=> Distinct(waiters) /\ p \notin Items(waiters)) /\ waiters' \in Seq(Queue!Tasks)
  BY <1>1, <1>3, AppendItems
<1>5. Items(ready) \subseteq Queue!Tasks /\ Items(waiters) \subseteq Queue!Tasks BY <1>1 DEF Items
<1> QED BY <1>1, <1>2, <1>3, <1>4, <1>5, QueueFacts DEF QueueInv, Scheduled

\* The task that runs leaves the ready queue.
LEMMA TurnSchedule ==
  ASSUME QueueInv, Queue!Turn
  PROVE  Scheduled' /\ ready' \in Seq(Queue!Tasks) /\ running' \in Queue!Tasks /\ waiters' = waiters
<1>1. ready \in Seq(Queue!Tasks) /\ ready # <<>> /\ ready' = Tail(ready) /\ running' = Head(ready) /\ waiters' = waiters
  BY DEF QueueInv, Queue!TypeOK, Queue!Turn
<1>2. /\ Head(ready) \in Queue!Tasks /\ Tail(ready) \in Seq(Queue!Tasks)
      /\ Items(ready) = {Head(ready)} \cup Items(Tail(ready))
      /\ Distinct(ready) => Head(ready) \notin Items(Tail(ready)) /\ Distinct(Tail(ready))
  BY <1>1, HeadAndTail
<1> QED BY <1>1, <1>2 DEF QueueInv, Scheduled

----------------------------------------------------------------------------
\* Every step keeps each task in at most one place of the schedule, and wakes whoever could go on.
LEMMA ScheduleStep ==
  ASSUME QueueInv, Queue!Next
  PROVE  /\ ready' \in Seq(Queue!Tasks) /\ waiters' \in Seq(Queue!Tasks) /\ running' \in Queue!Tasks \cup {Queue!Nobody}
         /\ Scheduled' /\ Patient'
<1>0. ready \in Seq(Queue!Tasks) /\ waiters \in Seq(Queue!Tasks) /\ running \in Queue!Tasks \cup {Queue!Nobody} BY DEF QueueInv, Queue!TypeOK
<1>00. Items(ready) \subseteq Queue!Tasks /\ Items(waiters) \subseteq Queue!Tasks BY <1>0 DEF Items
<1>000. Scheduled /\ Patient BY DEF QueueInv
<1> DEFINE Goal == /\ ready' \in Seq(Queue!Tasks) /\ waiters' \in Seq(Queue!Tasks) /\ running' \in Queue!Tasks \cup {Queue!Nobody}
                   /\ Scheduled' /\ Patient'
\* Everyone is woken.
<1>1. ASSUME Queue!Changed, running' \in {running, Queue!Nobody} PROVE Goal
  <2>1. /\ ready' \in Seq(Queue!Tasks) /\ waiters' \in Seq(Queue!Tasks)
        /\ Items(ready') = Items(ready) \cup Items(waiters) /\ Distinct(ready')
        /\ Items(waiters') = {} /\ Distinct(waiters')
    BY <1>1, ChangedSchedule
  <2>2. running' \in Queue!Tasks \cup {Queue!Nobody} BY <1>0, <1>1
  <2>3. running' \notin Items(ready) \cup Items(waiters) BY <1>1, <1>00, <1>000, QueueFacts DEF Scheduled
  <2>4. Scheduled' BY <2>1, <2>3 DEF Scheduled
  <2>5. Patient' BY <2>1 DEF Patient
  <2> QED BY <2>1, <2>2, <2>4, <2>5
\* Nobody is, and those who go on waiting wait for the same.
<1>2. ASSUME ready' \in Seq(Queue!Tasks), waiters' \in Seq(Queue!Tasks), running' \in Queue!Tasks \cup {Queue!Nobody},
             Scheduled', UNCHANGED Queue!queue, Items(waiters') \subseteq Items(waiters),
             \A p \in Items(waiters') \cap Readers : frame'[p] = frame[p]
      PROVE  Goal
  <2>1. ASSUME NEW t \in Items(waiters') PROVE ~closed' /\ NoRoom(t)'
    <3>1. ~closed /\ NoRoom(t) /\ t \in Queue!Tasks BY <1>2, <1>00, <1>000, <2>1 DEF Patient
    <3>2. closed' = closed /\ items' = items /\ bytes' = bytes /\ counts' = counts BY <1>2 DEF Queue!queue
    <3>3. CASE t = Queue!Getter BY <3>1, <3>2, <3>3 DEF NoRoom
    <3>4. CASE t \in Readers
      <4>1. frame'[t] = frame[t] BY <1>2, <2>1, <3>4
      <4> QED BY <3>1, <3>2, <3>4, <4>1, QueueFacts DEF NoRoom, Queue!Fits
    <3> QED BY <3>1, <3>3, <3>4 DEF Queue!Tasks
  <2>2. Patient' BY <2>1 DEF Patient
  <2> QED BY <1>2, <2>2
\* Nor does the schedule change but for the task that runs, which ends its turn.
<1>3. ASSUME UNCHANGED <<ready, waiters>>, running' \in {running, Queue!Nobody}, UNCHANGED Queue!queue,
             \A p \in Items(waiters) \cap Readers : frame'[p] = frame[p]
      PROVE  Goal
  <2>1. Scheduled' BY <1>3, <1>00, <1>000, QueueFacts DEF Scheduled
  <2> HIDE DEF Goal
  <2> QED BY <1>0, <1>2, <1>3, <2>1
<1>4. ASSUME NEW p \in Readers, Queue!Runs(p), UNCHANGED <<ready, waiters>>, running' \in {running, Queue!Nobody}, UNCHANGED Queue!queue,
             \A q \in Readers \ {p} : frame'[q] = frame[q]
      PROVE  Goal
  <2>1. p \notin Items(waiters) BY <1>4, <1>000 DEF Queue!Runs, Scheduled
  <2> HIDE DEF Goal
  <2> QED BY <1>3, <1>4, <2>1
<1>5. ASSUME NEW p \in Queue!Tasks, UNCHANGED Queue!queue, running' = running, Queue!Yielded,
             waiters' = Left(waiters, p), ready' = Left(ready, p),
             \A q \in Readers \ {p} : frame'[q] = frame[q]
      PROVE  Goal
  <2>1. /\ ready' \in Seq(Queue!Tasks) /\ waiters' \in Seq(Queue!Tasks)
        /\ Items(ready') = Items(ready) \ {p} /\ Distinct(ready')
        /\ Items(waiters') = Items(waiters) \ {p} /\ Distinct(waiters')
    BY <1>5, WithoutSchedule
  <2>2. Scheduled' BY <1>5, <1>000, <2>1 DEF Scheduled
  <2> HIDE DEF Goal
  <2> QED BY <1>0, <1>2, <1>5, <2>1, <2>2
<1> HIDE DEF Goal
<1>6. ASSUME NEW p \in Queue!Tasks, Queue!Idle(p), Queue!Yielded, ready' = Append(ready, p), UNCHANGED <<running, waiters, Queue!queue>>,
             \A q \in Readers \ {p} : frame'[q] = frame[q]
      PROVE  Goal
  <2>1. Scheduled' /\ ready' \in Seq(Queue!Tasks) /\ Items(waiters') = Items(waiters) BY <1>6, ReadySchedule
  <2>2. p \notin Items(waiters) BY <1>6, InItems DEF Queue!Idle
  <2> QED BY <1>0, <1>2, <1>6, <2>1, <2>2
<1>7. ASSUME NEW p \in Queue!Tasks, Queue!Runs(p), Queue!AwaitChange(p), UNCHANGED <<Queue!queue, frame>>, ~closed, NoRoom(p) PROVE Goal
  <2>1. Scheduled' /\ waiters' \in Seq(Queue!Tasks) /\ Items(waiters') = Items(waiters) \cup {p} BY <1>7, WaitSchedule
  <2>2. ASSUME NEW t \in Items(waiters') PROVE ~closed' /\ NoRoom(t)'
    <3>1. ~closed /\ NoRoom(t) BY <1>7, <1>000, <2>1, <2>2 DEF Patient
    <3> QED BY <1>7, <3>1 DEF NoRoom, Queue!Fits, Queue!queue
  <2>3. Patient' BY <2>2 DEF Patient
  <2>4. ready' = ready /\ running' = Queue!Nobody BY <1>7 DEF Queue!AwaitChange
  <2> QED BY <1>0, <2>1, <2>3, <2>4 DEF Goal
<1>8. Queue!Getter \in Queue!Tasks /\ \A p \in Readers : p \in Queue!Tasks /\ p # Queue!Getter BY QueueFacts DEF Queue!Tasks
<1>9. frame \in [Readers -> Sizes \cup {0}] BY DEF QueueInv, Queue!TypeOK
<1>10. ASSUME Queue!Turn PROVE Goal
  <2>1. Scheduled' /\ ready' \in Seq(Queue!Tasks) /\ running' \in Queue!Tasks /\ waiters' = waiters BY <1>10, TurnSchedule
  <2> QED BY <1>0, <1>2, <1>10, <2>1 DEF Queue!Turn
<1>11. ASSUME Queue!GetRaises PROVE Goal BY <1>3, <1>11 DEF Queue!GetRaises, Queue!Raise, Queue!Runs
<1>12. ASSUME Queue!Get PROVE Goal BY <1>1, <1>12 DEF Queue!Get
<1>13. ASSUME Queue!GetWaits PROVE Goal BY <1>7, <1>8, <1>13 DEF Queue!GetWaits, NoRoom
<1>14. ASSUME NEW p \in Readers, Queue!NextFrame(p) PROVE Goal BY <1>4, <1>9, <1>14 DEF Queue!NextFrame, Queue!schedule
<1>15. ASSUME NEW p \in Readers, Queue!AwaitFrame(p) PROVE Goal BY <1>3, <1>15 DEF Queue!AwaitFrame, Queue!Runs
<1>16. ASSUME NEW p \in Readers, Queue!PutRaises(p) PROVE Goal BY <1>4, <1>9, <1>16 DEF Queue!PutRaises, Queue!Raise
<1>17. ASSUME NEW p \in Readers, Queue!Put(p) PROVE Goal BY <1>1, <1>17 DEF Queue!Put
<1>18. ASSUME NEW p \in Readers, Queue!PutWaits(p) PROVE Goal BY <1>7, <1>8, <1>18 DEF Queue!PutWaits, NoRoom
<1>19. ASSUME Queue!StartGet PROVE Goal BY <1>6, <1>8, <1>19 DEF Queue!StartGet
<1>20. ASSUME Queue!CancelGet PROVE Goal BY <1>5, <1>8, <1>20, LeftIsWithout DEF Queue!CancelGet
<1>21. ASSUME Queue!Close PROVE Goal BY <1>1, <1>21 DEF Queue!Close
<1>22. ASSUME NEW p \in Readers, Queue!Arrive(p) PROVE Goal BY <1>6, <1>8, <1>9, <1>22 DEF Queue!Arrive
<1>23. ASSUME NEW p \in Readers, Queue!Leave(p) PROVE Goal BY <1>5, <1>8, <1>9, <1>23, LeftIsWithout DEF Queue!Leave
<1>24. ASSUME NEW p \in Readers, Queue!DropPeer(p) PROVE Goal BY <1>1, <1>24 DEF Queue!DropPeer
<1>25. Goal
  BY <1>10, <1>11, <1>12, <1>13, <1>14, <1>15, <1>16, <1>17, <1>18, <1>19, <1>20, <1>21, <1>22, <1>23, <1>24
  DEF Queue!Next, Queue!Run
<1> QED BY <1>25 DEF Goal

----------------------------------------------------------------------------
\* The accounts, and that they are typed.
Accounts ==
  /\ items \in Seq(Queue!Item) /\ counts \in [Readers -> Nat] /\ bytes \in Nat
  /\ Exact

\* The messages of one peer are those of no other.
LEMMA OfPeers ==
  /\ \A p \in Readers, m \in Queue!Item : m \in Queue!Of(p) <=> m.peer = p
  /\ \A m \in Queue!Item : m.peer \in Readers /\ m.size \in Nat /\ m.size = Queue!SizeOf[m]
  /\ \A p \in Readers : Queue!Item \subseteq Queue!Of(p) \cup (Queue!Item \ Queue!Of(p)) /\ Queue!Of(p) \cap (Queue!Item \ Queue!Of(p)) = {}
BY QueueFacts DEF Queue!Of, Queue!Item

\* The accounts are numbers.
LEMMA AccountsTyped ==
  ASSUME QueueInv
  PROVE  Accounts
BY DEF QueueInv, Queue!TypeOK, Accounts

\* put() adds what it appends to both accounts.
LEMMA PutAccounts ==
  ASSUME QueueInv, NEW p \in Readers, Queue!Put(p)
  PROVE  Accounts'
<1> DEFINE m == [peer |-> p, size |-> frame[p]]
<1>1. Accounts /\ frame \in [Readers -> Sizes \cup {0}] BY AccountsTyped DEF QueueInv, Queue!TypeOK
<1>2. frame[p] \in Sizes /\ m \in Queue!Item BY <1>1, QueueFacts DEF Queue!Put, Queue!Item
<1> HIDE DEF m
<1>3. items' = Append(items, m) /\ bytes' = bytes + frame[p] /\ counts' = [counts EXCEPT ![p] = @ + 1] BY DEF Queue!Put, m
<1>4. Len(items) < MaxSize /\ bytes + frame[p] <= MaxBytes /\ counts[p] < PerPeer BY DEF Queue!Put, Queue!Fits
<1>5. items' \in Seq(Queue!Item) /\ Len(items') = Len(items) + 1 BY <1>1, <1>2, <1>3 DEF Accounts
<1>6. Total(items', Queue!SizeOf) = Total(items, Queue!SizeOf) + Queue!SizeOf[m] BY <1>1, <1>2, <1>3, TotalAppend DEF Accounts
<1>7. Queue!SizeOf[m] = frame[p] /\ m.peer = p BY <1>2, OfPeers DEF m
<1>8. bytes' = Total(items', Queue!SizeOf) /\ bytes' <= MaxBytes /\ bytes' \in Nat
  <2>1. bytes = Total(items, Queue!SizeOf) /\ bytes \in Nat BY <1>1 DEF Accounts, Exact
  <2>2. bytes' = Total(items', Queue!SizeOf) BY <1>3, <1>6, <1>7, <2>1
  <2>3. frame[p] \in Nat BY <1>2, QueueFacts
  <2> QED BY <1>3, <1>4, <2>1, <2>2, <2>3
<1>9. \A q \in Readers : counts'[q] = Len(Kept(items', Queue!Of(q))) /\ counts'[q] <= PerPeer
  <2> SUFFICES ASSUME NEW q \in Readers PROVE counts'[q] = Len(Kept(items', Queue!Of(q))) /\ counts'[q] <= PerPeer OBVIOUS
  <2>1. Kept(items', Queue!Of(q)) = IF m \in Queue!Of(q) THEN Append(Kept(items, Queue!Of(q)), m) ELSE Kept(items, Queue!Of(q))
    BY <1>1, <1>2, <1>3, KeptAppend DEF Accounts
  <2>2. Kept(items, Queue!Of(q)) \in Seq(Queue!Item) BY <1>1, KeptItems DEF Accounts
  <2>3. counts[q] = Len(Kept(items, Queue!Of(q))) /\ counts[q] <= PerPeer /\ counts \in [Readers -> Nat] BY <1>1 DEF Accounts, Exact
  <2>4. CASE q = p
    <3>1. m \in Queue!Of(q) BY <1>2, <1>7, <2>4, OfPeers
    <3>2. Len(Kept(items', Queue!Of(q))) = Len(Kept(items, Queue!Of(q))) + 1 BY <1>2, <2>1, <2>2, <3>1
    <3>3. counts'[q] = counts[q] + 1 BY <1>3, <2>3, <2>4
    <3> QED BY <1>4, <2>3, <2>4, <3>2, <3>3, QueueFacts
  <2>5. CASE q # p
    <3>1. m \notin Queue!Of(q) BY <1>2, <1>7, <2>5, OfPeers
    <3> QED BY <1>3, <2>1, <2>3, <2>5, <3>1
  <2> QED BY <2>4, <2>5
<1>10. counts' \in [Readers -> Nat] BY <1>1, <1>3 DEF Accounts
<1>11. Len(items') <= MaxSize
  <2>1. Len(items) \in Nat BY <1>1 DEF Accounts
  <2> QED BY <1>4, <1>5, <2>1, QueueFacts
<1> QED BY <1>5, <1>8, <1>9, <1>10, <1>11 DEF Accounts, Exact

\* get() takes what it pops from both accounts.
LEMMA TakeAccounts ==
  ASSUME QueueInv, items # <<>>, Queue!Take
  PROVE  Accounts'
<1> DEFINE m == Head(items)
           t == Tail(items)
<1>1. Accounts BY AccountsTyped
<1>2. m \in Queue!Item /\ t \in Seq(Queue!Item) /\ Len(t) = Len(items) - 1 BY <1>1, HeadAndTail DEF Accounts
<1>3. items' = t /\ bytes' = bytes - m.size /\ counts' = [counts EXCEPT ![m.peer] = @ - 1] BY DEF Queue!Take
<1>4. Total(items, Queue!SizeOf) = Queue!SizeOf[m] + Total(t, Queue!SizeOf) BY <1>1, TotalHead, QueueFacts DEF Accounts
<1> HIDE DEF t, m
<1>5. m.peer \in Readers /\ m.size = Queue!SizeOf[m] /\ m.size \in Nat BY <1>2, OfPeers
<1>6. bytes' = Total(items', Queue!SizeOf) /\ bytes' <= MaxBytes /\ bytes' \in Nat
  <2>1. bytes = Total(items, Queue!SizeOf) /\ bytes <= MaxBytes /\ bytes \in Nat BY <1>1 DEF Accounts, Exact
  <2>2. Total(t, Queue!SizeOf) \in Nat BY <1>2, QueueFacts, TotalType
  <2>3. bytes' = Total(t, Queue!SizeOf) BY <1>3, <1>4, <1>5, <2>1, <2>2
  <2>4. Total(t, Queue!SizeOf) <= bytes BY <1>4, <1>5, <2>1, <2>2
  <2> QED BY <1>3, <2>1, <2>2, <2>3, <2>4, QueueFacts
<1>7. ASSUME NEW q \in Readers PROVE counts'[q] = Len(Kept(items', Queue!Of(q))) /\ counts'[q] <= PerPeer /\ counts'[q] \in Nat
  <2>1. Kept(items, Queue!Of(q)) = (IF m \in Queue!Of(q) THEN <<m>> ELSE <<>>) \o Kept(t, Queue!Of(q))
    BY <1>1, KeptHead DEF Accounts, m, t
  <2>2. Kept(t, Queue!Of(q)) \in Seq(Queue!Item) BY <1>2, KeptItems
  <2>3. counts[q] = Len(Kept(items, Queue!Of(q))) /\ counts[q] <= PerPeer /\ counts \in [Readers -> Nat] BY <1>1 DEF Accounts, Exact
  <2>4. CASE q = m.peer
    <3>1. m \in Queue!Of(q) BY <1>2, <2>4, OfPeers
    <3>2. Len(Kept(items, Queue!Of(q))) = Len(Kept(t, Queue!Of(q))) + 1 BY <1>2, <2>1, <2>2, <3>1
    <3>3. counts'[q] = counts[q] - 1 BY <1>3, <2>3, <2>4
    <3>4. Len(Kept(t, Queue!Of(q))) \in Nat BY <2>2
    <3> QED BY <1>3, <2>3, <3>2, <3>3, <3>4, QueueFacts
  <2>5. CASE q # m.peer
    <3>1. m \notin Queue!Of(q) BY <1>2, <2>5, OfPeers
    <3>2. Kept(items, Queue!Of(q)) = Kept(t, Queue!Of(q)) BY <2>1, <2>2, <3>1
    <3>3. counts'[q] = counts[q] BY <1>3, <2>3, <2>5
    <3> QED BY <1>3, <2>3, <3>2, <3>3
  <2> QED BY <2>4, <2>5
<1>8. counts' \in [Readers -> Nat]
  <2>1. counts' = [q \in Readers |-> counts'[q]] BY <1>1, <1>3 DEF Accounts
  <2> QED BY <1>7, <2>1
<1>9. Len(items') <= MaxSize /\ items' \in Seq(Queue!Item)
  <2>1. Len(items) \in Nat /\ Len(items) <= MaxSize BY <1>1 DEF Accounts, Exact
  <2> QED BY <1>2, <1>3, <2>1, QueueFacts
<1> QED BY <1>6, <1>7, <1>8, <1>9 DEF Accounts, Exact

\* drop_peer() takes a peer's messages from both accounts, whatever lies between them.
LEMMA DropAccounts ==
  ASSUME QueueInv, NEW p \in Readers, Drops(p)
  PROVE  Accounts'
<1> DEFINE kept == Kept(items, Queue!Item \ Queue!Of(p))
           gon == Kept(items, Queue!Of(p))
<1>1. Accounts /\ items \in Seq(Queue!Item) BY AccountsTyped DEF Accounts
<1>2. items' = kept /\ bytes' = bytes - Total(gon, Queue!SizeOf) /\ counts' = [counts EXCEPT ![p] = 0] BY DEF Drops
<1>3. kept \in Seq(Queue!Item) /\ Len(kept) <= Len(items) /\ gon \in Seq(Queue!Item) BY <1>1, KeptItems
<1>4. Total(gon, Queue!SizeOf) + Total(kept, Queue!SizeOf) = Total(items, Queue!SizeOf)
  <2>1. Queue!Item \subseteq Queue!Of(p) \cup (Queue!Item \ Queue!Of(p)) /\ Queue!Of(p) \cap (Queue!Item \ Queue!Of(p)) = {} BY OfPeers
  <2>2. Queue!SizeOf \in [Queue!Item -> Nat] BY QueueFacts
  <2> QED BY <1>1, <2>1, <2>2, KeptTotals
<1>5. ASSUME NEW q \in Readers PROVE counts'[q] = Len(Kept(kept, Queue!Of(q))) /\ counts'[q] <= PerPeer /\ counts'[q] \in Nat
  <2>1. Kept(kept, Queue!Of(q)) = Kept(items, (Queue!Item \ Queue!Of(p)) \cap Queue!Of(q)) BY <1>1, KeptTwice
  <2>2. counts[q] = Len(Kept(items, Queue!Of(q))) /\ counts[q] <= PerPeer /\ counts \in [Readers -> Nat] BY <1>1 DEF Accounts, Exact
  <2>3. CASE q = p
    <3>1. Items(items) \cap ((Queue!Item \ Queue!Of(p)) \cap Queue!Of(q)) = {} BY <2>3
    <3>2. Kept(items, (Queue!Item \ Queue!Of(p)) \cap Queue!Of(q)) = <<>> BY <1>1, <3>1, KeptAllOrNone
    <3>3. Kept(kept, Queue!Of(q)) = <<>> BY <2>1, <3>2, Zenon
    <3>4. counts'[q] = 0 BY <1>2, <2>2, <2>3
    <3> HIDE DEF kept
    <3> QED BY <3>3, <3>4, QueueFacts
  <2>4. CASE q # p
    <3>1. (Queue!Item \ Queue!Of(p)) \cap Queue!Of(q) = Queue!Of(q)
      <4>1. Queue!Of(q) \subseteq Queue!Item BY DEF Queue!Of, Queue!Item
      <4> QED BY <2>4, <4>1, OfPeers
    <3>2. counts'[q] = counts[q] BY <1>2, <2>2, <2>4
    <3> QED BY <2>1, <2>2, <3>1, <3>2
  <2> QED BY <2>3, <2>4
<1>6. Total(gon, Queue!SizeOf) \in Nat /\ Total(kept, Queue!SizeOf) \in Nat
  <2>1. Queue!SizeOf \in [Queue!Item -> Nat] BY QueueFacts
  <2>2. Total(gon, Queue!SizeOf) \in Nat BY <1>3, <2>1, TotalType
  <2>3. Total(kept, Queue!SizeOf) \in Nat BY <1>3, <2>1, TotalType
  <2> QED BY <2>2, <2>3
<1> HIDE DEF kept, gon
<1>7. bytes' = Total(items', Queue!SizeOf) /\ bytes' <= MaxBytes /\ bytes' \in Nat
  <2>1. bytes = Total(items, Queue!SizeOf) /\ bytes <= MaxBytes /\ bytes \in Nat BY <1>1 DEF Accounts, Exact
  <2>2. bytes' = Total(kept, Queue!SizeOf) BY <1>2, <1>4, <1>6, <2>1
  <2> QED BY <1>2, <1>4, <1>6, <2>1, <2>2, QueueFacts
<1>8. counts' \in [Readers -> Nat]
  <2>1. counts' = [q \in Readers |-> counts'[q]] BY <1>1, <1>2 DEF Accounts
  <2> QED BY <1>5, <2>1
<1>9. Len(items') <= MaxSize
  <2>1. Len(items) \in Nat /\ Len(items) <= MaxSize /\ Len(kept) \in Nat BY <1>1, <1>3 DEF Accounts, Exact
  <2> QED BY <1>2, <1>3, <2>1, QueueFacts
<1> QED BY <1>2, <1>3, <1>5, <1>7, <1>8, <1>9 DEF Accounts, Exact

\* close() empties the queue and its accounts.
LEMMA CloseAccounts ==
  ASSUME QueueInv, Queue!Close
  PROVE  Accounts'
<1>1. items' = <<>> /\ bytes' = 0 /\ counts' = [p \in Readers |-> 0] BY DEF Queue!Close
<1>2. Total(<<>>, Queue!SizeOf) = 0 BY TotalEmpty
<1>3. \A p \in Readers : Kept(<<>>, Queue!Of(p)) = <<>> BY KeptEmpty
<1>4. <<>> \in Seq(Queue!Item) /\ Len(<<>>) = 0 OBVIOUS
<1>5. counts' \in [Readers -> Nat] /\ \A p \in Readers : counts'[p] = 0 BY <1>1
<1> QED BY <1>1, <1>2, <1>3, <1>4, <1>5, QueueFacts DEF Accounts, Exact

\* Every step keeps the accounts exact.
LEMMA AccountsStep ==
  ASSUME QueueInv, Queue!Next
  PROVE  Accounts'
<1>1. ASSUME UNCHANGED <<items, bytes, counts>> PROVE Accounts' BY <1>1, AccountsTyped DEF Accounts, Exact
<1>2. ASSUME NEW p \in Readers, Queue!NextFrame(p) \/ Queue!AwaitFrame(p) \/ Queue!PutRaises(p) \/ Queue!PutWaits(p) \/ Queue!Arrive(p) \/ Queue!Leave(p)
      PROVE  Accounts'
  BY <1>1, <1>2 DEF Queue!NextFrame, Queue!AwaitFrame, Queue!PutRaises, Queue!PutWaits, Queue!Arrive, Queue!Leave, Queue!Raise, Queue!queue
<1>3. ASSUME Queue!Turn \/ Queue!GetRaises \/ Queue!GetWaits \/ Queue!StartGet \/ Queue!CancelGet PROVE Accounts'
  BY <1>1, <1>3 DEF Queue!Turn, Queue!GetRaises, Queue!GetWaits, Queue!StartGet, Queue!CancelGet, Queue!Raise, Queue!queue
<1>4. ASSUME Queue!Get PROVE Accounts' BY <1>4, TakeAccounts DEF Queue!Get
<1>5. ASSUME NEW p \in Readers, Queue!DropPeer(p) PROVE Accounts' BY <1>5, DropAccounts, DropsIsDrop DEF Queue!DropPeer
<1> QED BY <1>2, <1>3, <1>4, <1>5, PutAccounts, CloseAccounts DEF Queue!Next, Queue!Run

\* Every step keeps the types of the queue and the waiting tasks patient.
LEMMA RestStep ==
  ASSUME QueueInv, Queue!Next
  PROVE  /\ closed' \in BOOLEAN /\ frame' \in [Readers -> Sizes \cup {0}]
         /\ ended' \in SUBSET Queue!Tasks /\ gone' \in SUBSET Readers
<1>1. /\ closed \in BOOLEAN /\ frame \in [Readers -> Sizes \cup {0}]
      /\ ended \in SUBSET Queue!Tasks /\ gone \in SUBSET Readers
  BY DEF QueueInv, Queue!TypeOK
<1> DEFINE Goal == /\ closed' \in BOOLEAN /\ frame' \in [Readers -> Sizes \cup {0}]
                   /\ ended' \in SUBSET Queue!Tasks /\ gone' \in SUBSET Readers
<1>2. ASSUME NEW p \in Readers,
             Queue!NextFrame(p) \/ Queue!AwaitFrame(p) \/ Queue!PutRaises(p) \/ Queue!PutWaits(p) \/ Queue!Arrive(p) \/ Queue!Leave(p) \/ Queue!Put(p) \/ Queue!DropPeer(p)
      PROVE  Goal
  <2>1. CASE Queue!NextFrame(p) \/ Queue!Arrive(p) BY <1>1, <2>1 DEF Queue!NextFrame, Queue!Arrive, Queue!queue
  <2>2. CASE Queue!AwaitFrame(p) \/ Queue!PutWaits(p) \/ Queue!DropPeer(p) BY <1>1, <2>2 DEF Queue!AwaitFrame, Queue!PutWaits, Queue!DropPeer, Queue!queue
  <2>3. CASE Queue!PutRaises(p) \/ Queue!Leave(p) \/ Queue!Put(p) BY <1>1, <2>3 DEF Queue!PutRaises, Queue!Leave, Queue!Put, Queue!Raise, Queue!queue, Queue!Tasks
  <2> QED BY <1>2, <2>1, <2>2, <2>3
<1>3. ASSUME Queue!Turn \/ Queue!GetRaises \/ Queue!GetWaits \/ Queue!StartGet \/ Queue!CancelGet \/ Queue!Get \/ Queue!Close PROVE Goal
  BY <1>1, <1>3 DEF Queue!Turn, Queue!GetRaises, Queue!GetWaits, Queue!StartGet, Queue!CancelGet, Queue!Raise, Queue!Get, Queue!Close, Queue!queue, Queue!Tasks
<1> HIDE DEF Goal
<1>4. Goal BY <1>2, <1>3 DEF Queue!Next, Queue!Run
<1> QED BY <1>4 DEF Goal

\* Every step keeps the invariant of the queue.
LEMMA QueueInvStep == QueueInv /\ [Queue!Next]_(Queue!vars) => QueueInv'
<1> SUFFICES ASSUME QueueInv, [Queue!Next]_(Queue!vars) PROVE QueueInv' OBVIOUS
<1>1. CASE Queue!Next
  <2>1. Queue!TypeOK' BY <1>1, ScheduleStep, AccountsStep, RestStep DEF Queue!TypeOK, Accounts
  <2> QED BY <1>1, <2>1, ScheduleStep, AccountsStep DEF QueueInv, Accounts
<1>2. CASE UNCHANGED Queue!vars
  BY <1>2 DEF Queue!vars, Queue!queue, Queue!schedule, QueueInv, Queue!TypeOK, Exact, Scheduled, Patient, NoRoom, Queue!Fits
<1> QED BY <1>1, <1>2

\* The invariant implies what the run checks.
LEMMA QueueInvMeans == QueueInv => Queue!QueueConsistent
<1> SUFFICES ASSUME QueueInv PROVE Queue!QueueConsistent OBVIOUS
<1>1. Queue!TypeOK /\ Exact /\ Patient /\ waiters \in Seq(Queue!Tasks) BY DEF QueueInv, Queue!TypeOK
<1>2. Queue!NobodyWaitsInVain BY <1>1, QueueFacts DEF Patient, NoRoom, Queue!NobodyWaitsInVain, Items, Queue!Tasks
<1> QED BY <1>1, <1>2, ExactIsAccountsExact DEF Queue!QueueConsistent

\* From any state the queue can be in: the bytes and the counts of every peer are
\* those of its items, within the limits, and nobody waits for what is there.
THEOREM QueueIsConsistent == EitherSpec => []QueueConsistent
<1>1. EitherInit => QueueInv BY QueueInitInv DEF EitherInit
<1>2. QueueInv /\ [EitherNext]_allVars => QueueInv'
  <2> SUFFICES ASSUME QueueInv, [EitherNext]_allVars PROVE QueueInv' OBVIOUS
  <2>1. [Queue!Next]_(Queue!vars)
    BY DEF EitherNext, allVars, queueVars, Queue!vars, Queue!queue, Queue!schedule
  <2> QED BY <2>1, QueueInvStep
<1>3. QueueInv => QueueConsistent BY QueueInvMeans DEF QueueConsistent
<1> QED BY <1>1, <1>2, <1>3, PTL DEF EitherSpec
=============================================================================
