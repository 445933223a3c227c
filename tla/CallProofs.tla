----------------------------- MODULE CallProofs -----------------------------
(***************************************************************************)
(* Proofs about what becomes of calls.  Of Execution, for every set of      *)
(* tasks, every set of messages and every limit: replies and counters.  Of  *)
(* Client, for any number of exchanges and any max_concurrency: each reads  *)
(* the reply to its own message, and who waits disturbs nobody.             *)
(***************************************************************************)
EXTENDS Execution, MCClient, SubsequencesProofs, FiniteSetTheorems

\* The steps of one task, as one action.
Step(t) ==
  \/ Undecodable(t) \/ Receive(t) \/ Reserve(t) \/ RefuseBatch(t) \/ Admit(t)
  \/ Invalid(t) \/ Enter(t) \/ Suspend(t) \/ Resume(t) \/ Finish(t)
  \/ TimeOut(t) \/ Cancel(t) \/ Expire(t) \/ Reply(t)

\* A message that runs is one of Messages and its task is at an item of it or
\* just past the last one; a refused message ran nothing.
WellPlaced(t) ==
  /\ pc[t] \in PC \ {"new", "refused", "cancelled"} => msg[t] \in Messages
  /\ at[t] <= Size(t) + 1
  /\ pc[t] \in {"running", "waiting"} => at[t] <= Size(t) /\ This(t).kind # "invalid"
  /\ Len(sums[t]) \in 1..(Size(t) + 1)
  /\ pc[t] = "new" => sums[t] = <<0>>
  /\ pc[t] \in {"new", "reserve"} => at[t] = 1 /\ replies[t] = <<>> /\ bytes[t] = 0
  /\ pc[t] \in {"answered", "silent"} => at[t] = Size(t) + 1

\* The partial sums are what the loop over the fallbacks computes.
SumsRight(t) ==
  /\ sums[t][1] = 0
  /\ \A k \in 1..(Len(sums[t]) - 1) : sums[t][k + 1] = sums[t][k] + msg[t].items[k].fallback

\* The budget of an admitted batch: what is held back is what the fallbacks of the
\* items not yet answered take, the rest of the reply has room for that much, and
\* what was used and what remains add up.
Budget(t) ==
  msg[t].batch /\ pc[t] \in {"next", "running", "waiting", "answered", "silent"} =>
    /\ Len(sums[t]) = Size(t) + 1
    /\ reserved[t] = sums[t][Size(t) + 1] - sums[t][at[t]]
    /\ reserved[t] <= remaining[t]
    /\ bytes[t] + remaining[t] = MaxResponse - Framing(Size(t))
    /\ Len(replies[t]) <= at[t] - 1

\* The items in answered, in increasing order, are those before item a that are
\* no notification.
Answers(answered, items, a) ==
  /\ \A i \in 1..Len(answered) : answered[i] \in 1..(a - 1)
  /\ \A i, j \in 1..Len(answered) : i < j => answered[i] < answered[j]
  /\ \A k \in 1..(a - 1) :
       items[k].kind # "notification" <=> \E i \in 1..Len(answered) : answered[i] = k

RepliesRight(t) == Answers(replies[t], msg[t].items, at[t])

----------------------------------------------------------------------------
\* Next is a step of one task.
LEMMA NextIsStep == Next <=> \E t \in Tasks : Step(t)
  BY DEF Next, Step

\* The inductive invariant of the types: the current item must exist.
TypeInv == Shape /\ \A t \in Tasks : WellPlaced(t)

\* The counters stay integers whichever of them are bumped.
LEMMA BumpType ==
  ASSUME NEW counters, Shape
  PROVE  Bump(counters) \in
           ExecutionStats
<1>1. stats \in [Counters -> Int] /\ \A c \in Counters \ {"active"} : stats[c] >= 0
  BY DEF Shape, ExecutionStats
<1>2. Bump(counters) \in [Counters -> Int]
  BY <1>1 DEF Bump
<1>3. \A c \in Counters \ {"active"} : Bump(counters)[c] >= 0
  BY <1>1 DEF Bump
<1>4. QED
  BY <1>2, <1>3 DEF ExecutionStats

\* Collecting a reply keeps the types of what it touches.
LEMMA CollectType ==
  ASSUME Shape, NEW t \in Tasks, at[t] <= Size(t),
         NEW reply \in Nat, Collect(t, reply)
  PROVE  /\ This(t) \in Item
         /\ at' \in [Tasks -> Nat \ {0}] /\ at'[t] = at[t] + 1
         /\ remaining' \in [Tasks -> Int]
         /\ reserved' \in [Tasks -> Int]
         /\ replies' \in [Tasks -> Seq(Nat)]
         /\ bytes' \in [Tasks -> Nat]
<1>1. This(t) \in Item /\ msg[t].batch \in BOOLEAN
  <2>1. msg[t].items \in Seq(Item) /\ msg[t].batch \in BOOLEAN
    BY DEF Shape
  <2>2. at[t] \in 1..Len(msg[t].items)
    BY DEF Shape, Size
  <2>3. QED
    BY <2>1, <2>2 DEF This
<1>2. Fitted(t, reply) \in Nat
  BY <1>1 DEF Fitted, Held, Shape, Item
<1>3. Held(t) \in Int
  BY <1>1 DEF Held, Shape, Item
<1>4. at' \in [Tasks -> Nat \ {0}] /\ at'[t] = at[t] + 1
  BY DEF Collect, Shape
<1>5. remaining' \in [Tasks -> Int] /\ reserved' \in [Tasks -> Int] /\ bytes' \in [Tasks -> Nat]
  <2>1. remaining[t] - Fitted(t, reply) \in Int /\ bytes[t] + Fitted(t, reply) \in Nat
    BY <1>2 DEF Shape
  <2>2. remaining' \in [Tasks -> Int]
    BY <2>1 DEF Collect, Shape
  <2>3. reserved' \in [Tasks -> Int]
    BY <1>3 DEF Collect, Shape
  <2>4. bytes' \in [Tasks -> Nat]
    BY <2>1 DEF Collect, Shape
  <2>5. QED
    BY <2>2, <2>3, <2>4
<1>6. replies' \in [Tasks -> Seq(Nat)]
  <2>1. replies[t] \in Seq(Nat) /\ at[t] \in Nat
    BY DEF Shape
  <2>2. Append(replies[t], at[t]) \in Seq(Nat)
    BY <2>1
  <2>3. QED
    BY <2>1, <2>2 DEF Collect, Shape
<1>7. QED
  BY <1>1, <1>4, <1>5, <1>6

\* A log line of an outcome keeps the log's type.
LEMMA AccessType ==
  ASSUME Shape, NEW t \in Tasks, NEW outcome \in Outcome, Access(t, outcome)
  PROVE  log' \in [Tasks -> Seq(Outcome)]
<1> DEFINE Line == Outcome
<1>1. log \in [Tasks -> Seq(Line)] /\ outcome \in Line
  BY DEF Shape
<1> HIDE DEF Line
<1>2. Append(log[t], outcome) \in Seq(Line)
  BY <1>1
<1>3. log' \in [Tasks -> Seq(Line)]
  BY <1>1, <1>2 DEF Access
<1>4. QED
  BY <1>3 DEF Line

\* A step of one task leaves every other task alone.
Same(u) ==
  /\ pc'[u] = pc[u] /\ msg'[u] = msg[u] /\ sums'[u] = sums[u] /\ at'[u] = at[u]
  /\ remaining'[u] = remaining[u] /\ reserved'[u] = reserved[u]
  /\ replies'[u] = replies[u] /\ bytes'[u] = bytes[u]

\* What a step of one task leaves to the others.
LEMMA Others ==
  ASSUME Shape, NEW t \in Tasks, NEW u \in Tasks, u # t, Step(t)
  PROVE  Same(u)
<1> USE DEF Shape, Same, budget
<1>1. CASE Undecodable(t)
  BY <1>1 DEF Undecodable
<1>2. CASE Receive(t)
  BY <1>2 DEF Receive
<1>3. CASE Reserve(t)
  BY <1>3 DEF Reserve
<1>4. CASE RefuseBatch(t)
  BY <1>4 DEF RefuseBatch
<1>5. CASE Admit(t)
  BY <1>5 DEF Admit
<1>6. CASE Invalid(t)
  BY <1>6 DEF Invalid, Collect
<1>7. CASE Enter(t)
  BY <1>7 DEF Enter
<1>8. CASE Suspend(t)
  BY <1>8 DEF Suspend
<1>9. CASE Resume(t)
  BY <1>9 DEF Resume
<1>10. CASE Finish(t)
  <2>1. CASE Complete(t)
    BY <2>1 DEF Complete, Collect, Leave
  <2>2. CASE CompleteNotification(t)
    BY <2>2 DEF CompleteNotification, Collect, Leave
  <2>3. CASE Fail(t)
    BY <2>3 DEF Fail, Answer, Collect, Leave
  <2>4. QED
    BY <1>10, <2>1, <2>2, <2>3 DEF Finish
<1>11. CASE TimeOut(t)
  BY <1>11 DEF TimeOut, Answer, Collect, Leave
<1>12. CASE Cancel(t)
  BY <1>12 DEF Cancel, Leave
<1>13. CASE Expire(t)
  BY <1>13 DEF Expire
<1>14. CASE Reply(t)
  BY <1>14 DEF Reply
<1>15. QED
  BY <1>1, <1>2, <1>3, <1>4, <1>5, <1>6, <1>7, <1>8, <1>9, <1>10, <1>11, <1>12, <1>13,
     <1>14 DEF Step
----------------------------------------------------------------------------
\* The steps that end an item, as one: its reply is collected and the task goes on.
Collects(t) ==
  /\ pc[t] \in {"next", "running", "waiting"} /\ at[t] <= Size(t)
  /\ pc' = [pc EXCEPT ![t] = "next"]
  /\ UNCHANGED <<msg, sums>>
  /\ \E reply \in ReplyLengths \cup {0} :
       Collect(t, reply) /\ (reply = 0 <=> This(t).kind = "notification")

\* The steps that leave the batch and its budget alone.
Rests(t) ==
  /\ UNCHANGED <<msg, budget, at, replies, bytes>>
  /\ \E next \in PC :
       /\ pc' = [pc EXCEPT ![t] = next]
       /\ \/ next = pc[t]
          \/ next \in {"refused", "cancelled"}
          \/ next = "running" /\ pc[t] = "next" /\ at[t] <= Size(t) /\ This(t).kind # "invalid"
          \/ next \in {"running", "waiting"} /\ pc[t] \in {"running", "waiting"}
          \/ next \in {"answered", "silent"} /\ pc[t] = "next" /\ at[t] > Size(t)

\* What collecting a result does to the budget and the replies.
LEMMA CollectCases ==
  ASSUME TypeInv, NEW t \in Tasks, Invalid(t) \/ Finish(t) \/ TimeOut(t)
  PROVE  Collects(t)
<1>1. pc \in [Tasks -> PC] /\ WellPlaced(t)
  BY DEF TypeInv, Shape
<1>2. pc[t] \in {"running", "waiting"} => at[t] <= Size(t) /\ This(t).kind # "invalid"
  BY <1>1 DEF WellPlaced
<1>3. CASE Invalid(t)
  BY <1>1, <1>3, LimitsAssumption, MessagesAssumption DEF Invalid, Collects
<1>4. CASE Complete(t)
  BY <1>2, <1>4, LimitsAssumption, MessagesAssumption DEF Complete, Leave, Collects
<1>5. CASE CompleteNotification(t)
  BY <1>2, <1>5 DEF CompleteNotification, Leave, Collects
<1>6. ASSUME NEW why, pc[t] \in {"running", "waiting"}, Answer(t, why)
      PROVE  Collects(t)
  BY <1>2, <1>6, LimitsAssumption, MessagesAssumption DEF Answer, Leave, Collects
<1>7. QED
  BY <1>3, <1>4, <1>5, <1>6 DEF Finish, Fail, TimeOut

\* A step collects a result or leaves the replies alone.
LEMMA StepCases ==
  ASSUME TypeInv, NEW t \in Tasks, Step(t)
  PROVE  Receive(t) \/ Reserve(t) \/ Admit(t) \/ Collects(t) \/ Rests(t)
<1> USE DEF TypeInv, Shape, PC, Final
<1>1. CASE Undecodable(t) \/ RefuseBatch(t) \/ Cancel(t)
  BY <1>1 DEF Undecodable, RefuseBatch, Cancel, Leave, Rests, budget
<1>2. CASE Enter(t) \/ Suspend(t) \/ Resume(t) \/ Expire(t) \/ Reply(t)
  BY <1>2 DEF Enter, Suspend, Resume, Expire, Reply, Rests, budget
<1>3. QED
  BY <1>1, <1>2, CollectCases DEF Step

\* Leaving a handler keeps the types.
LEMMA LeaveType ==
  ASSUME Shape, NEW t \in Tasks, NEW next \in PC, NEW counters, Leave(t, next, counters)
  PROVE  /\ pc' \in [Tasks -> PC]
         /\ stats' \in ExecutionStats
         /\ UNCHANGED <<msg, sums, expired>>
<1>1. Bump(counters) \in ExecutionStats
  BY BumpType
<1>2. stats' = [Bump(counters) EXCEPT !["active"] = Bump(counters)["active"] - 1]
  BY DEF Leave
<1>3. stats' \in ExecutionStats
  <2>1. stats' \in [Counters -> Int]
    BY <1>1, <1>2 DEF ExecutionStats, Counters
  <2>2. \A c \in Counters \ {"active"} : stats'[c] >= 0
    BY <1>1, <1>2 DEF ExecutionStats
  <2>3. QED
    BY <2>1, <2>2 DEF ExecutionStats
<1>4. QED
  BY <1>3 DEF Leave, Shape

\* A step that collects a reply keeps the types of the batch and its budget.
LEMMA CollectsType ==
  ASSUME TypeInv, NEW t \in Tasks, Collects(t)
  PROVE  /\ at[t] <= Size(t) /\ at' \in [Tasks -> Nat \ {0}]
         /\ remaining' \in [Tasks -> Int] /\ reserved' \in [Tasks -> Int]
         /\ replies' \in [Tasks -> Seq(Nat)] /\ bytes' \in [Tasks -> Nat]
         /\ msg' = msg /\ sums' = sums
<1>1. PICK reply \in ReplyLengths \cup {0} : Collect(t, reply)
  BY DEF Collects
<1>2. at[t] <= Size(t)
  BY DEF Collects
<1>3. reply \in Nat
  BY LimitsAssumption
<1>4. QED
  BY <1>1, <1>2, <1>3, CollectType DEF TypeInv, Collects

\* Every step of a message keeps the types.
LEMMA TypeStep ==
  ASSUME TypeInv, NEW t \in Tasks, Step(t)
  PROVE  Shape'
<1> USE DEF PC, Outcome, Failures, Completions, Final
<1>t. Shape
  BY DEF TypeInv
<1>1. CASE Undecodable(t)
  BY <1>1, <1>t, BumpType, AccessType DEF Undecodable, Shape, budget
<1>2. CASE Receive(t)
  <2>1. PICK m \in Messages : /\ msg' = [msg EXCEPT ![t] = m]
                              /\ pc' = [pc EXCEPT ![t] = IF m.batch THEN "reserve" ELSE "next"]
    BY <1>2 DEF Receive
  <2>2. msg' \in [Tasks -> [batch : BOOLEAN, items : Seq(Item)]] /\ pc' \in [Tasks -> PC]
    BY <1>t, <2>1, LimitsAssumption, MessagesAssumption DEF Shape
  <2>3. QED
    BY <1>2, <1>t, <2>2, BumpType DEF Receive, Shape, budget
<1>3. CASE Reserve(t)
  <2> DEFINE k == Len(sums[t])
  <2>1. sums[t] \in Seq(Nat) /\ msg[t].items \in Seq(Item) /\ k \in 1..Size(t)
    BY <1>3, <1>t DEF Shape, TypeInv, WellPlaced, Size, Reserve, Summed
  <2>2. msg[t].items[k] \in Item /\ sums[t][k] \in Nat
    BY <2>1 DEF Size
  <2>3. sums[t][k] + msg[t].items[k].fallback \in Nat
    BY <2>2 DEF Item
  <2>4. Append(sums[t], sums[t][k] + msg[t].items[k].fallback) \in Seq(Nat)
    BY <2>1, <2>3
  <2>5. sums' \in [Tasks -> Seq(Nat)]
    BY <1>3, <1>t, <2>4 DEF Reserve, Shape
  <2>6. QED
    BY <1>3, <1>t, <2>5 DEF Reserve, Shape
<1>4. CASE RefuseBatch(t)
  BY <1>4, <1>t, BumpType, AccessType DEF RefuseBatch, Shape, budget
<1>5. CASE Admit(t)
  <2>1. sums[t] \in Seq(Nat) /\ Size(t) \in Nat /\ sums[t][Size(t) + 1] \in Nat
    BY <1>5, <1>t DEF Shape, Size, Admit, Summed
  <2>2. MaxResponse - Framing(Size(t)) \in Int
    BY <2>1, LimitsAssumption, MessagesAssumption DEF Framing
  <2>3. remaining' \in [Tasks -> Int] /\ reserved' \in [Tasks -> Int] /\ pc' \in [Tasks -> PC]
    <3>1. remaining' = [remaining EXCEPT ![t] = MaxResponse - Framing(Size(t))]
      BY <1>5 DEF Admit
    <3>2. reserved' = [reserved EXCEPT ![t] = sums[t][Size(t) + 1]]
      BY <1>5 DEF Admit
    <3>3. pc' = [pc EXCEPT ![t] = "next"]
      BY <1>5 DEF Admit
    <3>4. remaining' \in [Tasks -> Int]
      BY <1>t, <2>2, <3>1 DEF Shape
    <3>5. reserved' \in [Tasks -> Int]
      BY <1>t, <2>1, <3>2 DEF Shape
    <3>6. QED
      BY <1>t, <3>3, <3>4, <3>5 DEF Shape
  <2>4. QED
    BY <1>5, <1>t, <2>3 DEF Admit, Shape
<1>6. CASE Invalid(t)
  <2>1. Collects(t)
    BY <1>6, CollectCases
  <2>2. "invalid" \in Outcome /\ Access(t, "invalid")
    BY <1>6 DEF Invalid
  <2>3. log' \in [Tasks -> Seq(Outcome)]
    BY <1>t, <2>2, AccessType
  <2>4. /\ pc' = pc /\ expired' = expired
        /\ stats' = Bump({"invalid"})
    BY <1>6 DEF Invalid
  <2>5. QED
    BY <1>t, <2>1, <2>3, <2>4, BumpType, CollectsType DEF Shape
<1>7. CASE Enter(t) \/ Suspend(t) \/ Resume(t) \/ Expire(t) \/ Reply(t)
  <2>1. CASE Enter(t)
    BY <2>1, <1>t, BumpType DEF Enter, Shape, budget
  <2>2. CASE Suspend(t) \/ Resume(t)
    BY <2>2, <1>t DEF Suspend, Resume, Shape, budget
  <2>3. CASE Expire(t) \/ Reply(t)
    BY <2>3, <1>t DEF Expire, Reply, Shape, budget
  <2>4. QED
    BY <1>7, <2>1, <2>2, <2>3
<1>8. ASSUME NEW outcome \in Outcome, NEW counters, Collects(t), Access(t, outcome),
             Leave(t, "next", counters)
      PROVE  Shape'
  <2>1. log' \in [Tasks -> Seq(Outcome)]
    BY <1>8, <1>t, AccessType
  <2>2. QED
    BY <1>8, <1>t, <2>1, CollectsType, LeaveType DEF Shape
<1>9. CASE Complete(t)
  BY <1>9, <1>8, CollectCases DEF Complete, Finish
<1>10. CASE CompleteNotification(t)
  BY <1>10, <1>8, CollectCases DEF CompleteNotification, Finish
<1>11. CASE Fail(t) \/ TimeOut(t)
  <2>1. Collects(t)
    BY <1>11, CollectCases DEF Finish
  <2>2. PICK why \in Failures : Answer(t, why)
    BY <1>11 DEF Fail, TimeOut
  <2>3. QED
    BY <1>8, <2>1, <2>2 DEF Answer
<1>12. CASE Cancel(t)
  <2>1. log' \in [Tasks -> Seq(Outcome)]
    BY <1>12, <1>t, AccessType DEF Cancel
  <2>2. QED
    BY <1>12, <1>t, <2>1, LeaveType DEF Cancel, Shape
<1>13. QED
  BY <1>1, <1>2, <1>3, <1>4, <1>5, <1>6, <1>7, <1>9, <1>10, <1>11, <1>12
     DEF Step, Finish
----------------------------------------------------------------------------
\* The places of the tasks are kept.
LEMMA PlacedStep ==
  ASSUME TypeInv, NEW t \in Tasks, Step(t)
  PROVE  WellPlaced(t)'
<1>1. Shape /\ WellPlaced(t) /\ at[t] \in Nat /\ Size(t) \in Nat /\ Len(sums[t]) \in Nat
  <2>1. Shape /\ WellPlaced(t)
    BY DEF TypeInv
  <2>2. at[t] \in Nat /\ msg[t].items \in Seq(Item) /\ sums[t] \in Seq(Nat)
    BY <2>1 DEF Shape
  <2>3. QED
    BY <2>1, <2>2 DEF Size
<1>2. CASE Receive(t)
  <2>1. PICK m \in Messages : msg'[t] = m /\ pc'[t] \in {"reserve", "next"}
    BY <1>1, <1>2 DEF Receive, Shape
  <2>2. sums'[t] = <<0>> /\ at'[t] = 1 /\ replies'[t] = <<>> /\ bytes'[t] = 0
    BY <1>1, <1>2 DEF Receive, WellPlaced, budget
  <2>3. Len(m.items) \in Nat
    BY LimitsAssumption, MessagesAssumption
  <2>4. QED
    BY <2>1, <2>2, <2>3 DEF WellPlaced, Size
<1>3. CASE Reserve(t)
  <2>1. /\ pc'[t] = "reserve" /\ msg'[t] = msg[t] /\ at'[t] = at[t]
        /\ replies'[t] = replies[t] /\ bytes'[t] = bytes[t]
    BY <1>3 DEF Reserve
  <2>2. sums[t] \in Seq(Nat) /\ Len(sums[t]) # Size(t) + 1 /\ pc[t] = "reserve"
    BY <1>1, <1>3 DEF Reserve, Summed, Shape
  <2>3. Len(sums'[t]) = Len(sums[t]) + 1
    BY <1>1, <1>3, <2>2 DEF Reserve, Shape
  <2>4. QED
    BY <1>1, <2>1, <2>2, <2>3 DEF WellPlaced, Size, PC, Final
<1>4. CASE Admit(t)
  <2>1. /\ pc[t] = "reserve" /\ pc'[t] = "next" /\ msg'[t] = msg[t] /\ sums'[t] = sums[t]
        /\ at'[t] = at[t]
    BY <1>1, <1>4 DEF Admit, Shape
  <2>2. QED
    BY <1>1, <2>1 DEF WellPlaced, Size, PC, Final
<1>5. CASE Collects(t)
  <2>1. /\ pc[t] \in {"next", "running", "waiting"} /\ pc'[t] = "next" /\ at[t] <= Size(t)
        /\ msg'[t] = msg[t] /\ sums'[t] = sums[t]
    BY <1>1, <1>5 DEF Collects, Shape
  <2>2. at'[t] = at[t] + 1
    BY <1>1, <1>5 DEF Collects, Collect, Shape
  <2>3. QED
    BY <1>1, <2>1, <2>2 DEF WellPlaced, Size, PC, Final
<1>6. CASE Rests(t)
  <2>1. PICK next \in PC :
          /\ pc'[t] = next
          /\ \/ next = pc[t]
             \/ next \in {"refused", "cancelled"}
             \/ next = "running" /\ pc[t] = "next" /\ at[t] <= Size(t) /\ This(t).kind # "invalid"
             \/ next \in {"running", "waiting"} /\ pc[t] \in {"running", "waiting"}
             \/ next \in {"answered", "silent"} /\ pc[t] = "next" /\ at[t] > Size(t)
    BY <1>1, <1>6 DEF Rests, Shape
  <2>2. /\ msg'[t] = msg[t] /\ sums'[t] = sums[t] /\ at'[t] = at[t]
        /\ replies'[t] = replies[t] /\ bytes'[t] = bytes[t]
    BY <1>6 DEF Rests, budget
  <2>3. Size(t)' = Size(t) /\ This(t)' = This(t)
    BY <2>2 DEF Size, This
  <2>4. QED
    BY <1>1, <2>1, <2>2, <2>3 DEF WellPlaced, PC, Final
<1>7. QED
  BY <1>2, <1>3, <1>4, <1>5, <1>6, StepCases

\* Types and places at the start.
LEMMA InitPlaced == Init => TypeInv
<1> SUFFICES ASSUME Init
             PROVE  TypeInv
  OBVIOUS
<1>1. Shape
  <2>1. stats \in ExecutionStats
    BY DEF Init, ExecutionStats
  <2>2. QED
    BY <2>1 DEF Init, Shape, PC
<1>2. ASSUME NEW t \in Tasks
      PROVE  WellPlaced(t)
  BY DEF Init, WellPlaced, Size
<1>3. QED
  BY <1>1, <1>2 DEF TypeInv

\* Every step keeps the types.
LEMMA TypeInvStep == TypeInv /\ [Next]_vars => TypeInv'
<1> SUFFICES ASSUME TypeInv, [Next]_vars
             PROVE  TypeInv'
  OBVIOUS
<1>1. ASSUME NEW t \in Tasks, Step(t)
      PROVE  TypeInv'
  <2>1. ASSUME NEW u \in Tasks, u # t
        PROVE  WellPlaced(u)'
    <3>1. Same(u) /\ WellPlaced(u)
      BY <1>1, <2>1, Others DEF TypeInv
    <3>2. QED
      BY <3>1 DEF Same, WellPlaced, Size, This
  <2>2. QED
    BY <1>1, <2>1, TypeStep, PlacedStep DEF TypeInv
<1>2. CASE UNCHANGED vars
  BY <1>2 DEF vars, budget, TypeInv, Shape, WellPlaced, Size, This
<1>3. QED
  BY <1>1, <1>2, NextIsStep

\* The types hold, with what they rest on.
LEMMA ShapeCorrect == Spec => []TypeInv
  BY InitPlaced, TypeInvStep, PTL DEF Spec

----------------------------------------------------------------------------
\* An element of a sequence.
LEMMA ElementType ==
  ASSUME NEW S, NEW s \in Seq(S), NEW i \in 1..Len(s)
  PROVE  s[i] \in S
  OBVIOUS

\* The arithmetic of Fitted: the reply that is kept fits beside what stays held back.
LEMMA FittedFits ==
  ASSUME NEW f \in Nat, NEW reply \in Nat, NEW room \in Int, NEW held \in Int,
         held <= room, f = 0 => reply = 0,
         NEW kept, kept = IF f # 0 /\ reply > room - (held - f) THEN f ELSE reply
  PROVE  kept \in Nat /\ kept <= room - (held - f)
  OBVIOUS

\* What a collected reply does to the budget: the room for the items after this
\* one is kept, and used and remaining bytes still add up.
LEMMA CollectBudget ==
  ASSUME TypeInv, NEW t \in Tasks, SumsRight(t), Budget(t), Collects(t), msg[t].batch
  PROVE  Budget(t)'
<1>1. Shape /\ WellPlaced(t) /\ msg[t] \in Messages
  BY DEF TypeInv, WellPlaced, Collects, PC, Final
<1>2. PICK reply \in ReplyLengths \cup {0} :
        Collect(t, reply) /\ (reply = 0 <=> This(t).kind = "notification")
  BY DEF Collects
<1>3. reply \in Nat /\ at[t] \in 1..Size(t) /\ Size(t) \in Nat
  BY <1>1, LimitsAssumption, MessagesAssumption DEF Shape, Collects, Size
<1> DEFINE f == This(t).fallback
           kept == Fitted(t, reply)
<1>4. f \in Nat /\ (f = 0 <=> reply = 0)
  BY <1>1, <1>2, <1>3, LimitsAssumption, MessagesAssumption, CollectType DEF This, Size, Item
<1>5. /\ Len(sums[t]) = Size(t) + 1
      /\ reserved[t] = sums[t][Size(t) + 1] - sums[t][at[t]]
      /\ reserved[t] <= remaining[t]
      /\ bytes[t] + remaining[t] = MaxResponse - Framing(Size(t))
      /\ Len(replies[t]) <= at[t] - 1
  BY DEF Budget, Collects
<1>6. /\ sums[t][at[t] + 1] = sums[t][at[t]] + f
      /\ sums[t][at[t]] \in Nat /\ sums[t][Size(t) + 1] \in Nat
      /\ remaining[t] \in Int /\ reserved[t] \in Int /\ bytes[t] \in Nat
      /\ replies[t] \in Seq(Nat)
  <2>1. /\ sums[t] \in Seq(Nat) /\ replies[t] \in Seq(Nat)
        /\ remaining[t] \in Int /\ reserved[t] \in Int /\ bytes[t] \in Nat
    BY <1>1 DEF Shape
  <2>2. at[t] \in 1..(Len(sums[t]) - 1)
    BY <1>3, <1>5
  <2>3. sums[t][at[t] + 1] = sums[t][at[t]] + f
    BY <2>2 DEF SumsRight, This
  <2>4. sums[t][at[t]] \in Nat /\ sums[t][Size(t) + 1] \in Nat
    <3>1. at[t] \in 1..Len(sums[t]) /\ Size(t) + 1 \in 1..Len(sums[t])
      BY <1>3, <1>5
    <3>2. QED
      BY <2>1, <3>1, ElementType
  <2>5. QED
    BY <2>1, <2>3, <2>4
<1>7. /\ reserved'[t] = reserved[t] - f
      /\ remaining'[t] = remaining[t] - kept
      /\ bytes'[t] = bytes[t] + kept
      /\ replies'[t] = IF reply = 0 THEN replies[t] ELSE Append(replies[t], at[t])
      /\ at'[t] = at[t] + 1
  BY <1>1, <1>2 DEF Collect, Held, Shape
<1>8. kept \in Nat /\ kept <= remaining[t] - (reserved[t] - f)
  <2>1. kept = IF f # 0 /\ reply > remaining[t] - (reserved[t] - f) THEN f ELSE reply
    BY DEF Fitted, Held
  <2>2. QED
    BY <1>3, <1>4, <1>5, <1>6, <2>1, FittedFits
<1>9. sums'[t] = sums[t] /\ msg'[t] = msg[t] /\ Size(t)' = Size(t)
  BY DEF Collects, Size
<1>10. Len(replies'[t]) <= at'[t] - 1
  BY <1>3, <1>5, <1>6, <1>7
<1> HIDE DEF f, kept
<1>11. /\ reserved'[t] = sums[t][Size(t) + 1] - sums[t][at[t] + 1]
       /\ reserved'[t] <= remaining'[t]
  <2>1. reserved'[t] = sums[t][Size(t) + 1] - sums[t][at[t] + 1]
    BY <1>4, <1>5, <1>6, <1>7
  <2>2. reserved'[t] <= remaining'[t]
    BY <1>4, <1>6, <1>7, <1>8
  <2>3. QED
    BY <2>1, <2>2
<1>12. Framing(Size(t)) \in Nat /\ MaxResponse \in Nat
  BY <1>3, LimitsAssumption, MessagesAssumption DEF Framing
<1>13. bytes'[t] + remaining'[t] = MaxResponse - Framing(Size(t))
  BY <1>5, <1>6, <1>7, <1>8, <1>12
<1>14. QED
  BY <1>5, <1>7, <1>9, <1>10, <1>11, <1>13 DEF Budget

\* Every step of a message keeps its budget.
LEMMA BudgetStep ==
  ASSUME TypeInv, NEW t \in Tasks, SumsRight(t), Budget(t), Step(t)
  PROVE  SumsRight(t)' /\ Budget(t)'
<1>1. /\ Shape /\ WellPlaced(t) /\ at[t] \in Nat /\ Size(t) \in Nat
      /\ sums[t] \in Seq(Nat) /\ Len(sums[t]) \in 1..(Size(t) + 1)
  <2>1. Shape /\ WellPlaced(t)
    BY DEF TypeInv
  <2>2. at[t] \in Nat /\ msg[t].items \in Seq(Item) /\ sums[t] \in Seq(Nat)
    BY <2>1 DEF Shape
  <2>3. QED
    BY <2>1, <2>2 DEF Size, WellPlaced
<1>2. CASE Receive(t)
  <2>1. PICK m \in Messages :
          msg'[t] = m /\ pc'[t] = IF m.batch THEN "reserve" ELSE "next"
    BY <1>1, <1>2 DEF Receive, Shape
  <2>2. sums'[t] = <<0>>
    BY <1>1, <1>2 DEF Receive, WellPlaced, budget
  <2>3. QED
    BY <2>1, <2>2 DEF SumsRight, Budget
<1>3. CASE Reserve(t)
  <2> DEFINE k == Len(sums[t])
             next == sums[t][k] + msg[t].items[k].fallback
  <2>1. pc'[t] = "reserve" /\ msg'[t] = msg[t] /\ sums'[t] = Append(sums[t], next)
    BY <1>1, <1>3 DEF Reserve, Shape
  <2>2. Len(sums'[t]) = k + 1 /\ \A i \in 1..k : sums'[t][i] = sums[t][i]
    BY <1>1, <2>1
  <2>3. sums'[t][k + 1] = next
    BY <1>1, <2>1
  <2>4. ASSUME NEW i \in 1..(Len(sums'[t]) - 1)
        PROVE  sums'[t][i + 1] = sums'[t][i] + msg'[t].items[i].fallback
    <3>1. CASE i = k
      BY <1>1, <2>1, <2>2, <2>3, <3>1
    <3>2. CASE i # k
      <4>1. i \in 1..(k - 1) /\ i + 1 \in 1..k /\ i \in 1..k
        BY <1>1, <2>2, <3>2
      <4>2. QED
        BY <2>1, <2>2, <4>1 DEF SumsRight
    <3>3. QED
      BY <3>1, <3>2
  <2>5. SumsRight(t)'
    <3>1. sums'[t][1] = 0
      BY <1>1, <2>2 DEF SumsRight
    <3>2. QED
      BY <2>4, <3>1 DEF SumsRight
  <2>6. QED
    BY <2>1, <2>5 DEF Budget
<1>4. CASE Admit(t)
  <2>1. /\ pc[t] = "reserve" /\ msg'[t] = msg[t] /\ sums'[t] = sums[t] /\ at'[t] = at[t]
        /\ bytes'[t] = bytes[t] /\ replies'[t] = replies[t]
        /\ remaining'[t] = MaxResponse - Framing(Size(t))
        /\ reserved'[t] = sums[t][Size(t) + 1]
    BY <1>1, <1>4 DEF Admit, Shape
  <2>2. /\ Len(sums[t]) = Size(t) + 1 /\ sums[t][1] = 0 /\ at[t] = 1 /\ bytes[t] = 0
        /\ replies[t] = <<>>
    BY <1>1, <1>4, <2>1 DEF Admit, Summed, SumsRight, WellPlaced
  <2>3. sums[t][Size(t) + 1] \in Nat /\ Framing(Size(t)) \in Nat /\ MaxResponse \in Nat
    BY <1>1, <2>2, LimitsAssumption, MessagesAssumption DEF Framing
  <2>4. sums[t][Size(t) + 1] + Framing(Size(t)) <= MaxResponse
    BY <1>4, <2>3 DEF Admit, TooLarge, Needed
  <2>5. Size(t)' = Size(t) /\ SumsRight(t)'
    BY <2>1 DEF Size, SumsRight
  <2>6. /\ reserved'[t] = sums'[t][Size(t)' + 1] - sums'[t][at'[t]]
        /\ reserved'[t] <= remaining'[t]
        /\ bytes'[t] + remaining'[t] = MaxResponse - Framing(Size(t))
        /\ Len(replies'[t]) <= at'[t] - 1
    BY <2>1, <2>2, <2>3, <2>4, <2>5
  <2>7. QED
    BY <2>1, <2>2, <2>5, <2>6 DEF Budget
<1>5. CASE Collects(t)
  <2>1. msg'[t] = msg[t] /\ SumsRight(t)'
    BY <1>5 DEF Collects, SumsRight
  <2>2. QED
    BY <1>5, <2>1, CollectBudget DEF Budget
<1>6. CASE Rests(t)
  <2>1. pc'[t] \in {"next", "running", "waiting", "answered", "silent"}
          => pc[t] \in {"next", "running", "waiting", "answered", "silent"}
    BY <1>1, <1>6 DEF Rests, Shape
  <2>2. QED
    BY <1>6, <2>1 DEF Rests, budget, SumsRight, Budget, Size
<1>7. QED
  BY <1>2, <1>3, <1>4, <1>5, <1>6, StepCases

BudgetInv == TypeInv /\ \A t \in Tasks : SumsRight(t) /\ Budget(t)

\* "The batch reply must fit in max_response_size" (docs/protocol.md:84), for every
\* batch, every limit and whatever length the replies turn out to have.
THEOREM BatchAlwaysFits == Spec => []BatchFits
<1>1. Init => BudgetInv
  <2>1. Init => \A t \in Tasks : SumsRight(t) /\ Budget(t)
    BY DEF Init, SumsRight, Budget
  <2>2. QED
    BY <2>1, InitPlaced DEF BudgetInv
<1>2. BudgetInv /\ [Next]_vars => BudgetInv'
  <2> SUFFICES ASSUME BudgetInv, [Next]_vars
               PROVE  \A u \in Tasks : SumsRight(u)' /\ Budget(u)'
    BY TypeInvStep DEF BudgetInv
  <2>1. ASSUME NEW t \in Tasks, Step(t), NEW u \in Tasks
        PROVE  SumsRight(u)' /\ Budget(u)'
    <3>1. CASE u = t
      BY <2>1, <3>1, BudgetStep DEF BudgetInv
    <3>2. CASE u # t
      <4>1. Same(u) /\ SumsRight(u) /\ Budget(u)
        BY <2>1, <3>2, Others DEF BudgetInv, TypeInv
      <4>2. QED
        BY <4>1 DEF Same, SumsRight, Budget, Size
    <3>3. QED
      BY <3>1, <3>2
  <2>2. CASE UNCHANGED vars
    BY <2>2 DEF vars, budget, BudgetInv, SumsRight, Budget, Size
  <2>3. QED
    BY <2>1, <2>2, NextIsStep
<1>3. BudgetInv => BatchFits
  <2> SUFFICES ASSUME BudgetInv, NEW t \in Tasks, msg[t].batch, pc[t] = "answered"
               PROVE  BatchLength(t) <= MaxResponse
    BY DEF BatchFits
  <2>1. Shape /\ at[t] = Size(t) + 1
    BY DEF BudgetInv, TypeInv, WellPlaced
  <2>2. /\ Size(t) \in Nat /\ bytes[t] \in Nat /\ remaining[t] \in Int /\ Len(replies[t]) \in Nat
        /\ sums[t] \in Seq(Nat)
    <3>1. msg[t].items \in Seq(Item) /\ replies[t] \in Seq(Nat)
      BY <2>1 DEF Shape
    <3>2. QED
      BY <2>1, <3>1 DEF Shape, Size
  <2>3. /\ Len(sums[t]) = Size(t) + 1
        /\ reserved[t] = sums[t][Size(t) + 1] - sums[t][at[t]]
        /\ reserved[t] <= remaining[t]
        /\ bytes[t] + remaining[t] = MaxResponse - Framing(Size(t))
        /\ Len(replies[t]) <= at[t] - 1
    BY DEF BudgetInv, Budget
  <2>4. sums[t][Size(t) + 1] \in Nat
    BY <2>2, <2>3
  <2>5. reserved[t] = 0
    BY <2>1, <2>3, <2>4
  <2>6. QED
    <3>1. remaining[t] >= 0 /\ Len(replies[t]) <= Size(t)
      BY <2>1, <2>2, <2>3, <2>5
    <3>2. bytes[t] + remaining[t] = MaxResponse - (Size(t) + 8) /\ MaxResponse \in Nat
      BY <2>3, LimitsAssumption, MessagesAssumption DEF Framing
    <3>3. QED
      BY <2>2, <3>1, <3>2 DEF BatchLength
<1>4. QED
  BY <1>1, <1>2, <1>3, PTL DEF Spec
----------------------------------------------------------------------------
\* A notification adds no reply, and none is missing.
LEMMA AnswersSilent ==
  ASSUME NEW answered \in Seq(Nat), NEW items, NEW a \in Nat \ {0}, Answers(answered, items, a),
         items[a].kind = "notification"
  PROVE  Answers(answered, items, a + 1)
<1>1. ~ \E i \in 1..Len(answered) : answered[i] = a
  BY DEF Answers
<1>2. 1..((a + 1) - 1) = 1..(a - 1) \cup {a}
  OBVIOUS
<1>3. QED
  BY <1>1, <1>2 DEF Answers

\* A call adds its reply at the end.
LEMMA AnswersReply ==
  ASSUME NEW answered \in Seq(Nat), NEW items, NEW a \in Nat \ {0}, Answers(answered, items, a),
         items[a].kind # "notification"
  PROVE  Answers(Append(answered, a), items, a + 1)
<1> DEFINE n == Len(answered)
           longer == Append(answered, a)
<1>1. /\ n \in Nat /\ Len(longer) = n + 1 /\ longer[n + 1] = a
      /\ \A i \in 1..n : longer[i] = answered[i]
  OBVIOUS
<1>2. /\ 1..((a + 1) - 1) = 1..(a - 1) \cup {a}
      /\ 1..(n + 1) = 1..n \cup {n + 1}
  BY <1>1
<1>3. \A i \in 1..n : answered[i] \in 1..(a - 1)
  BY DEF Answers
<1> HIDE DEF longer, n
<1>4. \A i \in 1..(n + 1) : longer[i] \in 1..((a + 1) - 1)
  BY <1>1, <1>2, <1>3
<1>5. ASSUME NEW i \in 1..(n + 1), NEW j \in 1..(n + 1), i < j
      PROVE  longer[i] < longer[j]
  <2>1. i \in 1..n
    BY <1>1, <1>5
  <2>2. CASE j = n + 1
    BY <1>1, <1>3, <2>1, <2>2
  <2>3. CASE j \in 1..n
    BY <1>1, <1>5, <2>1, <2>3 DEF Answers, n
  <2>4. QED
    BY <1>2, <2>2, <2>3
<1>6. ASSUME NEW k \in 1..((a + 1) - 1)
      PROVE  items[k].kind # "notification" <=> \E i \in 1..(n + 1) : longer[i] = k
  <2>1. CASE k = a
    BY <1>1, <2>1
  <2>2. CASE k \in 1..(a - 1)
    <3>1. items[k].kind # "notification" <=> \E i \in 1..n : answered[i] = k
      BY <2>2 DEF Answers, n
    <3>2. longer[n + 1] # k
      BY <1>1, <2>2
    <3>3. QED
      BY <1>1, <1>2, <3>1, <3>2
  <2>3. QED
    BY <1>2, <2>1, <2>2
<1>7. QED
  BY <1>1, <1>4, <1>5, <1>6 DEF Answers, longer

\* Collecting a result keeps the replies right.
LEMMA CollectReplies ==
  ASSUME TypeInv, NEW t \in Tasks, RepliesRight(t), Collects(t)
  PROVE  RepliesRight(t)'
<1>1. Shape
  BY DEF TypeInv
<1>2. PICK reply \in ReplyLengths \cup {0} :
        Collect(t, reply) /\ (reply = 0 <=> This(t).kind = "notification")
  BY DEF Collects
<1>3. at[t] \in Nat \ {0} /\ replies[t] \in Seq(Nat)
  BY <1>1 DEF Shape
<1>4. /\ msg'[t] = msg[t] /\ at'[t] = at[t] + 1
      /\ replies'[t] = IF reply = 0 THEN replies[t] ELSE Append(replies[t], at[t])
  BY <1>1, <1>2 DEF Collects, Collect, Shape
<1>5. CASE This(t).kind = "notification"
  BY <1>2, <1>3, <1>4, <1>5, AnswersSilent DEF RepliesRight, This
<1>6. CASE This(t).kind # "notification"
  BY <1>2, <1>3, <1>4, <1>6, AnswersReply DEF RepliesRight, This
<1>7. QED
  BY <1>5, <1>6
RepliesInv == TypeInv /\ \A t \in Tasks : RepliesRight(t)

\* Once a message has run, every call in it has exactly one reply and no
\* notification has one.
THEOREM CallsAnswered == Spec => []EveryCallAnswered
<1>1. Init => RepliesInv
  BY InitPlaced DEF Init, RepliesInv, RepliesRight, Answers
<1>2. RepliesInv /\ [Next]_vars => RepliesInv'
  <2> SUFFICES ASSUME RepliesInv, [Next]_vars
               PROVE  \A u \in Tasks : RepliesRight(u)'
    BY TypeInvStep DEF RepliesInv
  <2>1. ASSUME NEW t \in Tasks, Step(t), NEW u \in Tasks
        PROVE  RepliesRight(u)'
    <3>0. TypeInv /\ Shape /\ WellPlaced(t) /\ RepliesRight(u)
      BY DEF RepliesInv, TypeInv
    <3>1. CASE u # t
      BY <2>1, <3>0, <3>1, Others DEF Same, RepliesRight
    <3>2. CASE u = t /\ Receive(t)
      <4>1. at'[t] = 1 /\ replies'[t] = <<>>
        BY <3>0, <3>2 DEF Receive, WellPlaced
      <4>2. QED
        BY <3>2, <4>1 DEF RepliesRight, Answers
    <3>3. CASE u = t /\ Reserve(t)
      BY <3>0, <3>3 DEF Reserve, RepliesRight
    <3>4. CASE u = t /\ Admit(t)
      BY <3>0, <3>4 DEF Admit, RepliesRight
    <3>5. CASE u = t /\ Collects(t)
      BY <3>0, <3>5, CollectReplies
    <3>6. CASE u = t /\ Rests(t)
      BY <3>0, <3>6 DEF Rests, RepliesRight
    <3>7. QED
      BY <2>1, <3>0, <3>1, <3>2, <3>3, <3>4, <3>5, <3>6, StepCases
  <2>2. CASE UNCHANGED vars
    BY <2>2 DEF vars, RepliesInv, RepliesRight
  <2>3. QED
    BY <2>1, <2>2, NextIsStep
<1>3. RepliesInv => EveryCallAnswered
  <2> SUFFICES ASSUME RepliesInv, NEW t \in Tasks, pc[t] \in {"answered", "silent"}
               PROVE  Answers(replies[t], msg[t].items, Size(t) + 1)
    <3>1. ASSUME NEW t \in Tasks, Answers(replies[t], msg[t].items, Size(t) + 1)
          PROVE  /\ \A i, j \in 1..Len(replies[t]) : i < j => replies[t][i] < replies[t][j]
                 /\ \A k \in 1..Size(t) :
                      msg[t].items[k].kind # "notification"
                        <=> \E i \in 1..Len(replies[t]) : replies[t][i] = k
      <4>1. (Size(t) + 1) - 1 = Size(t)
        BY DEF Size
      <4>2. QED
        BY <3>1, <4>1 DEF Answers
    <3>2. QED
      BY <3>1 DEF EveryCallAnswered
  <2>1. QED
    BY DEF RepliesInv, TypeInv, WellPlaced, RepliesRight
<1>4. QED
  BY <1>1, <1>2, <1>3, PTL DEF Spec
----------------------------------------------------------------------------
\* A step starts a handler and counts it, ends one and uncounts it, or does neither.
LEMMA ActiveCases ==
  ASSUME TypeInv, NEW t \in Tasks, Step(t)
  PROVE  \/ /\ InHandler' = InHandler \cup {t} /\ t \notin InHandler
            /\ stats'.active = stats.active + 1
         \/ /\ InHandler' = InHandler \ {t} /\ t \in InHandler
            /\ stats'.active = stats.active - 1
         \/ InHandler' = InHandler /\ stats'.active = stats.active
<1>1. Shape /\ pc \in [Tasks -> PC] /\ "active" \in DOMAIN stats
  BY DEF TypeInv, Shape, ExecutionStats, Counters
<1>2. ASSUME NEW next, next \notin {"running", "waiting"}, pc[t] \in {"running", "waiting"},
             NEW counters, "active" \notin counters, Leave(t, next, counters)
      PROVE  InHandler' = InHandler \ {t} /\ t \in InHandler /\ stats'.active = stats.active - 1
  BY <1>1, <1>2 DEF Leave, Bump, InHandler
<1>3. CASE Enter(t)
  BY <1>1, <1>3 DEF Enter, Bump, InHandler
<1>4. CASE Complete(t) \/ CompleteNotification(t) \/ Cancel(t)
  BY <1>2, <1>4 DEF Complete, CompleteNotification, Cancel
<1>5. CASE Fail(t) \/ TimeOut(t)
  BY <1>2, <1>5 DEF Fail, TimeOut, Answer
<1>6. CASE Undecodable(t) \/ Receive(t) \/ RefuseBatch(t) \/ Invalid(t)
  BY <1>1, <1>6 DEF Undecodable, Receive, RefuseBatch, Invalid, Bump, InHandler
<1>7. CASE Reserve(t) \/ Admit(t) \/ Suspend(t) \/ Resume(t) \/ Expire(t) \/ Reply(t)
  BY <1>1, <1>7 DEF Reserve, Admit, Suspend, Resume, Expire, Reply, InHandler
<1>8. QED
  BY <1>3, <1>4, <1>5, <1>6, <1>7 DEF Step, Finish

ActiveInv == TypeInv /\ ActiveIsExact

\* `active` counts the running handlers exactly, whatever ends the others.
THEOREM ActiveAlwaysExact == Spec => []ActiveIsExact
<1>1. Init => ActiveInv
  <2>1. Init => InHandler = {} /\ stats.active = 0
    BY DEF Init, InHandler, Counters
  <2>2. QED
    BY <2>1, InitPlaced, FS_EmptySet DEF ActiveInv, ActiveIsExact
<1>2. ActiveInv /\ [Next]_vars => ActiveInv'
  <2> SUFFICES ASSUME ActiveInv, [Next]_vars
               PROVE  stats'.active = Cardinality(InHandler')
    BY TypeInvStep DEF ActiveInv, ActiveIsExact
  <2>1. stats.active = Cardinality(InHandler)
    BY DEF ActiveInv, ActiveIsExact
  <2>2. IsFiniteSet(InHandler) /\ Cardinality(InHandler) \in Nat
    <3>1. InHandler \in SUBSET Tasks
      BY DEF InHandler
    <3>2. QED
      BY <3>1, FS_Subset, FS_CardinalityType, LimitsAssumption, MessagesAssumption
  <2>3. ASSUME NEW t \in Tasks, Step(t)
        PROVE  stats'.active = Cardinality(InHandler')
    BY <2>1, <2>2, <2>3, ActiveCases, FS_AddElement, FS_RemoveElement DEF ActiveInv
  <2>4. CASE UNCHANGED vars
    BY <2>1, <2>4 DEF vars, InHandler
  <2>5. QED
    BY <2>3, <2>4, NextIsStep
<1>3. QED
  BY <1>1, <1>2, PTL DEF Spec, ActiveInv
\* Type correctness, for every set of tasks and messages and every limit: in
\* particular `active` never goes below zero.
THEOREM TypeCorrect == Spec => []TypeOK
<1>1. TypeInv /\ ActiveIsExact => TypeOK
  <2> SUFFICES ASSUME TypeInv, ActiveIsExact
               PROVE  stats.active >= 0
    BY DEF TypeInv, TypeOK
  <2>1. IsFiniteSet(InHandler)
    <3>1. InHandler \in SUBSET Tasks
      BY DEF InHandler
    <3>2. QED
      BY <3>1, FS_Subset, LimitsAssumption, MessagesAssumption
  <2>2. QED
    BY <2>1, FS_CardinalityType DEF ActiveIsExact
<1>2. QED
  BY <1>1, ShapeCorrect, ActiveAlwaysExact, PTL
----------------------------------------------------------------------------
\* The counters that the access log has lines for, and the outcomes each counts.
Counting == [completed |-> Completions, failed |-> Failures, timed_out |-> {"timeout"},
             invalid |-> {"invalid", "refused", "unparseable"}]
Counted == {"completed", "failed", "timed_out", "invalid"}

\* Which lines of a log have one of these outcomes.
LEMMA LoggedAt ==
  ASSUME NEW outcomes, NEW t \in Tasks, NEW k
  PROVE  <<t, k>> \in Logged(outcomes) <=> k \in 1..Len(log[t]) /\ log[t][k] \in outcomes
BY DEF Logged

\* A line with an outcome is one more line of those the outcome is among.
LEMMA LineAdded ==
  ASSUME Shape, NEW t \in Tasks, NEW outcome \in Outcome, Access(t, outcome),
         NEW outcomes, IsFiniteSet(Logged(outcomes))
  PROVE  /\ IsFiniteSet(Logged(outcomes))'
         /\ Lines(outcomes)' = IF outcome \in outcomes THEN Lines(outcomes) + 1 ELSE Lines(outcomes)
<1>. DEFINE n == Len(log[t]) + 1
<1>1. log \in [Tasks -> Seq(Outcome)] BY DEF Shape
<1>2. Len(log[t]) \in Nat /\ log[t] \in Seq(Outcome) BY <1>1
<1>3. log'[t] = Append(log[t], outcome) /\ \A u \in Tasks \ {t} : log'[u] = log[u] BY <1>1 DEF Access
<1>4. /\ Len(log'[t]) = n /\ log'[t][n] = outcome
      /\ \A k \in 1..Len(log[t]) : log'[t][k] = log[t][k]
  BY <1>2, <1>3
<1>5. \A u \in Tasks : \A k : k \in 1..Len(log'[u]) /\ log'[u][k] \in outcomes
        <=> \/ k \in 1..Len(log[u]) /\ log[u][k] \in outcomes
            \/ u = t /\ k = n /\ outcome \in outcomes
  <2>1. ASSUME NEW u \in Tasks, u # t, NEW k
        PROVE  k \in 1..Len(log'[u]) /\ log'[u][k] \in outcomes
                 <=> \/ k \in 1..Len(log[u]) /\ log[u][k] \in outcomes
                     \/ u = t /\ k = n /\ outcome \in outcomes
    BY <1>3, <2>1
  <2>2. ASSUME NEW k
        PROVE  k \in 1..Len(log'[t]) /\ log'[t][k] \in outcomes
                 <=> \/ k \in 1..Len(log[t]) /\ log[t][k] \in outcomes
                     \/ k = n /\ outcome \in outcomes
    <3>1. k \in 1..Len(log'[t]) <=> k \in 1..Len(log[t]) \/ k = n BY <1>2, <1>4
    <3>2. n \notin 1..Len(log[t]) BY <1>2
    <3>. QED BY <1>4, <3>1, <3>2
  <2>. QED BY <2>1, <2>2
<1>6. \A p : p \in Logged(outcomes)' <=> p \in Logged(outcomes) \/ (p = <<t, n>> /\ outcome \in outcomes)
  <2>1. \A p : p \in Logged(outcomes)' <=>
          \E u \in Tasks : \E k : p = <<u, k>> /\ k \in 1..Len(log'[u]) /\ log'[u][k] \in outcomes
    BY DEF Logged
  <2>2. \A p : p \in Logged(outcomes) <=>
          \E u \in Tasks : \E k : p = <<u, k>> /\ k \in 1..Len(log[u]) /\ log[u][k] \in outcomes
    BY DEF Logged
  <2>. HIDE DEF n
  <2>. QED BY <1>5, <2>1, <2>2
<1>7. <<t, n>> \notin Logged(outcomes)
  <2>1. n \notin 1..Len(log[t]) BY <1>2
  <2>. HIDE DEF n
  <2>. QED BY <2>1, LoggedAt
<1>. HIDE DEF n
<1>8. CASE outcome \in outcomes
  <2>1. Logged(outcomes)' = Logged(outcomes) \cup {<<t, n>>} BY <1>6, <1>8
  <2>2. IsFiniteSet(Logged(outcomes) \cup {<<t, n>>})
        /\ Cardinality(Logged(outcomes) \cup {<<t, n>>}) = Cardinality(Logged(outcomes)) + 1
    BY <1>7, FS_AddElement
  <2>. QED BY <1>8, <2>1, <2>2 DEF Lines
<1>9. CASE outcome \notin outcomes
  <2>1. Logged(outcomes)' = Logged(outcomes) BY <1>6, <1>9
  <2>. QED BY <1>9, <2>1 DEF Lines
<1>. QED BY <1>8, <1>9

\* A step logs one line and counts it where it belongs, or does neither.
Logs(t, outcome) ==
  /\ Access(t, outcome)
  /\ \A c \in Counted : stats'[c] = IF outcome \in Counting[c] THEN stats[c] + 1 ELSE stats[c]

\* A step writes one line and counts its outcome, or does neither.
LEMMA LogCases ==
  ASSUME TypeInv, NEW t \in Tasks, Step(t)
  PROVE  \/ \E outcome \in Outcome : Logs(t, outcome)
         \/ log' = log /\ \A c \in Counted : stats'[c] = stats[c]
<1>. USE DEF Counted, Failures, Completions, Outcome
<1>1. DOMAIN stats = Counters /\ Counted \subseteq Counters /\ "active" \notin Counted
  BY DEF TypeInv, Shape, ExecutionStats, Counters
<1>2. ASSUME NEW counters PROVE \A c \in Counted : Bump(counters)[c] = IF c \in counters THEN stats[c] + 1 ELSE stats[c]
  BY <1>1 DEF Bump
<1>3. ASSUME NEW next, NEW counters, Leave(t, next, counters)
      PROVE  \A c \in Counted : stats'[c] = IF c \in counters THEN stats[c] + 1 ELSE stats[c]
  <2>1. stats' = [Bump(counters) EXCEPT !.active = @ - 1] BY <1>3 DEF Leave
  <2>2. \A c \in Counted : stats'[c] = Bump(counters)[c] BY <1>1, <2>1 DEF Bump
  <2>. QED BY <1>2, <2>2
<1>4. /\ Counting["completed"] = {"ok", "declared"} /\ Counting["failed"] = {"timeout", "error"}
      /\ Counting["timed_out"] = {"timeout"} /\ Counting["invalid"] = {"invalid", "refused", "unparseable"}
  BY DEF Counting
<1>. HIDE DEF Counting
<1>5. CASE Undecodable(t)
  <2>1. Access(t, "unparseable") /\ stats' = Bump({"requests", "invalid"}) BY <1>5 DEF Undecodable
  <2>2. \A c \in Counted : stats'[c] = IF c \in {"requests", "invalid"} THEN stats[c] + 1 ELSE stats[c] BY <1>2, <2>1
  <2>3. Logs(t, "unparseable") BY <1>4, <2>1, <2>2 DEF Logs
  <2>. QED BY <2>3
<1>6. CASE RefuseBatch(t)
  <2>1. Access(t, "refused") /\ stats' = Bump({"invalid"}) BY <1>6 DEF RefuseBatch
  <2>2. \A c \in Counted : stats'[c] = IF c \in {"invalid"} THEN stats[c] + 1 ELSE stats[c] BY <1>2, <2>1
  <2>3. Logs(t, "refused") BY <1>4, <2>1, <2>2 DEF Logs
  <2>. QED BY <2>3
<1>7. CASE Invalid(t)
  <2>1. Access(t, "invalid") /\ stats' = Bump({"invalid"}) BY <1>7 DEF Invalid
  <2>2. \A c \in Counted : stats'[c] = IF c \in {"invalid"} THEN stats[c] + 1 ELSE stats[c] BY <1>2, <2>1
  <2>3. Logs(t, "invalid") BY <1>4, <2>1, <2>2 DEF Logs
  <2>. QED BY <2>3
<1>8. CASE Complete(t)
  <2>1. PICK outcome \in {"ok", "declared"} : Access(t, outcome) BY <1>8 DEF Complete
  <2>4. Leave(t, "next", {"completed"}) BY <1>8 DEF Complete
  <2>2. \A c \in Counted : stats'[c] = IF c \in {"completed"} THEN stats[c] + 1 ELSE stats[c] BY <1>3, <2>4
  <2>3. Logs(t, outcome) BY <1>4, <2>1, <2>2 DEF Logs
  <2>. QED BY <2>3
<1>9. CASE CompleteNotification(t)
  <2>1. Access(t, "notification") /\ Leave(t, "next", {}) BY <1>9 DEF CompleteNotification
  <2>2. \A c \in Counted : stats'[c] = stats[c] BY <1>3, <2>1
  <2>3. Logs(t, "notification") BY <1>4, <2>1, <2>2 DEF Logs
  <2>. QED BY <2>3
<1>10. CASE Cancel(t)
  <2>1. Access(t, "cancelled") /\ Leave(t, "cancelled", {}) BY <1>10 DEF Cancel
  <2>2. \A c \in Counted : stats'[c] = stats[c] BY <1>3, <2>1
  <2>3. Logs(t, "cancelled") BY <1>4, <2>1, <2>2 DEF Logs
  <2>. QED BY <2>3
<1>11. CASE Fail(t) \/ TimeOut(t)
  <2>1. PICK why \in {"timeout", "error"} : Answer(t, why) BY <1>11 DEF Fail, TimeOut
  <2>2. Access(t, why) /\ Leave(t, "next", IF why = "timeout" THEN {"failed", "timed_out"} ELSE {"failed"})
    BY <2>1 DEF Answer
  <2>3. \A c \in Counted : stats'[c] =
          IF c \in (IF why = "timeout" THEN {"failed", "timed_out"} ELSE {"failed"}) THEN stats[c] + 1 ELSE stats[c]
    BY <1>3, <2>2
  <2>4. Logs(t, why) BY <1>4, <2>2, <2>3 DEF Logs
  <2>. QED BY <2>4
<1>12. CASE Receive(t)
  <2>1. log' = log /\ stats' = Bump({"requests"}) BY <1>12 DEF Receive
  <2>. QED BY <1>2, <2>1
<1>13. CASE Enter(t)
  <2>1. log' = log /\ stats' = Bump({"active"}) BY <1>13 DEF Enter
  <2>. QED BY <1>2, <2>1
<1>14. CASE Reserve(t) \/ Admit(t) \/ Suspend(t) \/ Resume(t) \/ Expire(t) \/ Reply(t)
  BY <1>14 DEF Reserve, Admit, Suspend, Resume, Expire, Reply
<1>. QED BY <1>5, <1>6, <1>7, <1>8, <1>9, <1>10, <1>11, <1>12, <1>13, <1>14 DEF Step, Finish

LogInv ==
  \A c \in Counted : IsFiniteSet(Logged(Counting[c])) /\ stats[c] = Lines(Counting[c])

\* Every step keeps the counters at the number of their lines.
LEMMA LogInvStep == TypeInv /\ LogInv /\ [Next]_vars => LogInv'
<1>. SUFFICES ASSUME TypeInv, LogInv, [Next]_vars PROVE LogInv' OBVIOUS
<1>1. ASSUME NEW t \in Tasks, Step(t) PROVE LogInv'
  <2>1. CASE log' = log /\ \A c \in Counted : stats'[c] = stats[c]
    <3>1. \A c \in Counted : Logged(Counting[c])' = Logged(Counting[c]) BY <2>1 DEF Logged, Counting
    <3>. QED BY <2>1, <3>1 DEF LogInv, Lines
  <2>2. ASSUME NEW outcome \in Outcome, Logs(t, outcome) PROVE LogInv'
    <3>1. Shape BY DEF TypeInv
    <3>2. ASSUME NEW c \in Counted PROVE (IsFiniteSet(Logged(Counting[c])) /\ stats[c] = Lines(Counting[c]))'
      <4>1. /\ IsFiniteSet(Logged(Counting[c]))'
            /\ Lines(Counting[c])' = IF outcome \in Counting[c] THEN Lines(Counting[c]) + 1 ELSE Lines(Counting[c])
        BY <2>2, <3>1, LineAdded DEF LogInv, Logs
      <4>. QED BY <2>2, <4>1 DEF LogInv, Logs
    <3>. QED BY <3>2 DEF LogInv
  <2>. QED BY <1>1, <2>1, <2>2, LogCases
<1>2. CASE UNCHANGED vars BY <1>2 DEF vars, LogInv, Lines, Logged
<1>. QED BY <1>1, <1>2, NextIsStep

\* What `app.stats` reports is what happened, for any number of messages at once:
\* the gauge is the number of running handlers, and each counter the number of
\* lines of the access log that it stands for (_execution.py:93-147).
THEOREM StatsAlwaysExact == Spec => []StatsExact
<1>1. Init => LogInv
  <2>. SUFFICES ASSUME Init PROVE LogInv OBVIOUS
  <2>1. \A outcomes : Logged(outcomes) = {}
    <3>1. \A t \in Tasks : Len(log[t]) = 0 BY DEF Init
    <3>. QED BY <3>1 DEF Logged
  <2>2. \A c \in Counted : stats[c] = 0 BY DEF Init, Counters, Counted
  <2>. QED BY <2>1, <2>2, FS_EmptySet DEF LogInv, Lines
<1>2. LogInv => CountersMatchLog
  BY DEF LogInv, CountersMatchLog, Counted, Counting
<1>. QED BY <1>1, <1>2, ShapeCorrect, LogInvStep, ActiveAlwaysExact, TypeCorrect, PTL DEF Spec, StatsExact

(***************************************************************************)
(* Client.                                                                  *)
(***************************************************************************)
\* Client has the operators of Subsequences under names of its own, and who its tasks are.
LEMMA ClientFacts ==
  /\ Kinds \subseteq Shared!Kind /\ Shared!Nobody \notin Calls /\ MaxPushes \in Nat
  /\ \A s, S : Shared!Kept(s, S) = Kept(s, S)
  /\ \A c : Shared!InLink(c) <=> c \in Items(toServer)
<1>1. \A s, S : Shared!Kept(s, S) = Kept(s, S)
  BY DEF Shared!Kept, Shared!KeptSoFar, Kept, KeptSoFar
<1>2. \A c : Shared!InLink(c) <=> c \in Items(toServer) BY DEF Shared!InLink, Items
<1> QED BY <1>1, <1>2, ClientAssumption DEF Shared!KindsAssumption, Shared!CallsAssumption, Shared!PushesAssumption

\* The replies that wait at the client, and the requests the app has seen.
Response == {m \in Shared!Message : m.kind # "push"}
AtHand == Kept(toClient, Response)
Known == executing \cup refusing \cup finished

\* Some exchange may still read a reply.
Live == ~closed \/ (lock \in Calls /\ state[lock] \in {"sending", "receiving", "delivering"})
Reads(c) == state[c] \in {"receiving", "delivering"} /\ op[c] \in Shared!Awaited

\* Of the lock, the handlers and the failures: a handler's exchange waits for the lock of
\* the exchange whose handler it is, and an exchange that fails has closed the client.
Locks ==
  /\ Shared!LockFollowsExchange
  /\ Distinct(waiters)
  /\ \A c \in Calls : state[c] = "aborting" => closed
  /\ \A c \in Calls : parent[c] # Shared!Nobody =>
       /\ state[c] # "idle"
       /\ state[c] # "done" => state[c] = "waiting" /\ state[parent[c]] = "delivering"

\* A message is sent once, and the app gets it once.
SentOnce ==
  /\ Distinct(toServer) /\ Items(toServer) \cap Known = {}
  /\ \A c \in Calls : state[c] \in {"idle", "waiting", "sending"} => c \notin Items(toServer) \cup Known

\* No reply is owed or at hand but the one that the exchange under way waits for.
OneAnswer ==
  Live => \/ AtHand = <<>> /\ \A c \in Calls : Shared!Owed(c) => c = lock /\ Reads(c)
          \/ /\ \E m \in Response : AtHand = <<m>> /\ lock \in Calls /\ Reads(lock) /\ Shared!Accepts(lock, m)
             /\ \A c \in Calls : ~Shared!Owed(c)

----------------------------------------------------------------------------
\* The steps: whoever starts an exchange, it begins in the same way.
Begins(c) == \E p \in Calls \cup {Shared!Nobody} :
  /\ p \in Calls => state[p] = "delivering" /\ Shared!Children(p) = {}
  /\ Shared!Begin(c, p)

\* Every step is one of these.
LEMMA ClientCases ==
  ASSUME Shared!Next
  PROVE  \/ \E c \in Calls : \/ Begins(c) \/ Shared!Resume(c) \/ Shared!Send(c) \/ Shared!Broken(c)
                             \/ Shared!ReceiveReply(c) \/ Shared!ReceivePush(c) \/ Shared!Delivered(c)
                             \/ Shared!Listen(c) \/ Shared!Aborted(c)
                             \/ Shared!GiveUpWaiting(c) \/ Shared!GiveUpExchange(c) \/ Shared!ServerReplies(c)
         \/ Shared!Connect \/ Shared!Close \/ Shared!LinkFails \/ Shared!ServerReceives \/ Shared!ServerPushes
<1>1. \A c \in Calls : Shared!Start(c) => Begins(c) BY ClientFacts DEF Shared!Start, Begins
<1>2. \A c, p \in Calls : Shared!HandlerCalls(c, p) => Begins(c) BY Zenon DEF Shared!HandlerCalls, Begins
<1> QED BY <1>1, <1>2, Zenon DEF Shared!Next, Shared!Act, Shared!GiveUp

\* Nothing has been done before connect().
LEMMA ClientInit == Shared!Init => Shared!TypeOK /\ Locks /\ SentOnce
<1> SUFFICES ASSUME Shared!Init PROVE Shared!TypeOK /\ Locks /\ SentOnce OBVIOUS
<1> USE ClientFacts
<1>1. waiters = <<>> /\ toServer = <<>> /\ toClient = <<>> /\ Items(<<>>) = {} /\ Distinct(<<>>) BY DEF Shared!Init, Items, Distinct
<1>2. Shared!TypeOK
  <2>1. waiters \in Seq(Calls) /\ toServer \in Seq(Calls) /\ toClient \in Seq(Shared!Message) BY <1>1
  <2>2. /\ op \in [Calls -> Shared!Kind \cup {"none"}]
        /\ state \in [Calls -> Shared!Exchanging \cup {"idle", "waiting", "done"}]
        /\ ended \in [Calls -> Shared!Outcome] /\ parent \in [Calls -> Calls \cup {Shared!Nobody}]
        /\ \A c \in Calls : ended[c] # "none" <=> state[c] \in {"aborting", "done"}
    BY DEF Shared!Init, Shared!Outcome
  <2>3. /\ closed \in BOOLEAN /\ lock \in Calls \cup {Shared!Nobody} /\ link \in {"none", "up", "down"}
    BY DEF Shared!Init
  <2>4. executing \in SUBSET Calls /\ refusing \in SUBSET Calls /\ finished \in SUBSET Calls
    BY DEF Shared!Init, Shared!App!Init
  <2>5. pushes \in 0..MaxPushes
    <3>1. 0 \in 0..MaxPushes OBVIOUS
    <3> QED BY <3>1 DEF Shared!Init
  <2> QED BY <2>1, <2>2, <2>3, <2>4, <2>5 DEF Shared!TypeOK
<1>3. Locks BY <1>1 DEF Shared!Init, Locks, Shared!LockFollowsExchange, Shared!Exchanging, Items
<1>4. SentOnce BY <1>1 DEF Shared!Init, Shared!App!Init, SentOnce, Known
<1> QED BY <1>2, <1>3, <1>4

----------------------------------------------------------------------------
\* The types.
LEMMA ClientTyped ==
  ASSUME Shared!TypeOK, Locks, Shared!Next
  PROVE  Shared!TypeOK'
<1> USE ClientFacts
<1> USE DEF Shared!TypeOK, Shared!vars, Shared!clientVars, Shared!serverVars, Shared!channel
<1>1. ASSUME NEW c \in Calls, Begins(c) PROVE Shared!TypeOK'
  <2>1. PICK p \in Calls \cup {Shared!Nobody} : Shared!Begin(c, p) BY <1>1 DEF Begins
  <2>2. PICK k \in Kinds :
          /\ op' = [op EXCEPT ![c] = k]
          /\ parent' = [parent EXCEPT ![c] = p]
          /\ IF lock = Shared!Nobody /\ waiters = <<>>
               THEN Shared!Enter(c, k) /\ UNCHANGED waiters
               ELSE /\ waiters' = Append(waiters, c)
                    /\ state' = [state EXCEPT ![c] = "waiting"]
                    /\ UNCHANGED <<lock, ended>>
    BY <2>1 DEF Shared!Begin
  <2>3. k \in Shared!Kind /\ state[c] = "idle" BY <2>1 DEF Shared!Begin
  <2>4. waiters' \in Seq(Calls)
    <3>1. waiters \in Seq(Calls) /\ Append(waiters, c) \in Seq(Calls) OBVIOUS
    <3> QED BY <2>2, <3>1
  <2>5. UNCHANGED <<closed, link, toServer, toClient, pushes, executing, refusing, finished>> BY <2>1 DEF Shared!Begin
  <2> QED BY <2>2, <2>3, <2>4, <2>5 DEF Shared!Enter, Shared!Outcome, Shared!Exchanging
<1>2. ASSUME NEW c \in Calls, Shared!Resume(c) PROVE Shared!TypeOK'
  <2>1. waiters' \in Seq(Calls) BY <1>2, HeadAndTail DEF Shared!Resume
  <2>2. UNCHANGED <<closed, op, parent, link, toServer, toClient, pushes, executing, refusing, finished>>
    BY <1>2 DEF Shared!Resume
  <2>3. Shared!Enter(c, op[c]) BY <1>2 DEF Shared!Resume
  <2>4. state[c] = "waiting"
    <3>1. Head(waiters) = c /\ waiters # <<>> BY <1>2 DEF Shared!Resume
    <3>2. waiters \in Seq(Calls) OBVIOUS
    <3>3. Items(waiters) = {Head(waiters)} \cup Items(Tail(waiters)) BY <3>1, <3>2, HeadAndTail
    <3>4. c \in Items(waiters) BY <3>1, <3>3
    <3> QED BY <3>4 DEF Locks, Shared!LockFollowsExchange, Items
  <2> QED BY <2>1, <2>2, <2>3, <2>4 DEF Shared!Enter, Shared!Outcome, Shared!Exchanging
<1>3. ASSUME NEW c \in Calls, Shared!Send(c) PROVE Shared!TypeOK'
  <2>1. toServer' \in Seq(Calls) BY <1>3 DEF Shared!Send
  <2> QED BY <1>3, <2>1 DEF Shared!Send, Shared!Return, Shared!Outcome, Shared!Exchanging
<1>4. ASSUME NEW c \in Calls, Shared!Broken(c) PROVE Shared!TypeOK'
  BY <1>4 DEF Shared!Broken, Shared!Abort, Shared!Outcome, Shared!Exchanging
<1>5. ASSUME NEW c \in Calls, Shared!ReceiveReply(c) PROVE Shared!TypeOK'
  <2>1. toClient' \in Seq(Shared!Message) BY <1>5, HeadAndTail DEF Shared!ReceiveReply
  <2>2. Shared!Result(Head(toClient)) \in Shared!Outcome \ {"none"} BY DEF Shared!Result, Shared!Outcome
  <2> QED BY <1>5, <2>1, <2>2 DEF Shared!ReceiveReply, Shared!Return, Shared!Abort, Shared!Outcome, Shared!Exchanging
<1>6. ASSUME NEW c \in Calls, Shared!ReceivePush(c) PROVE Shared!TypeOK'
  <2>1. toClient' \in Seq(Shared!Message) BY <1>6, HeadAndTail DEF Shared!ReceivePush
  <2> QED BY <1>6, <2>1 DEF Shared!ReceivePush, Shared!Exchanging
<1>7. ASSUME NEW c \in Calls, Shared!Delivered(c) PROVE Shared!TypeOK'
  BY <1>7 DEF Shared!Delivered, Shared!Exchanging
<1>8. ASSUME NEW c \in Calls, Shared!Listen(c) PROVE Shared!TypeOK'
  <2>1. toClient' \in Seq(Shared!Message) BY <1>8, HeadAndTail DEF Shared!Listen
  <2> QED BY <1>8, <2>1 DEF Shared!Listen, Shared!Return, Shared!Abort, Shared!Outcome, Shared!Exchanging
<1>9. ASSUME NEW c \in Calls, Shared!Aborted(c) PROVE Shared!TypeOK'
  BY <1>9 DEF Shared!Aborted, Shared!Return, Shared!Outcome, Shared!Exchanging
<1>10. ASSUME NEW c \in Calls, Shared!GiveUpWaiting(c) PROVE Shared!TypeOK'
  <2>1. waiters' \in Seq(Calls) BY <1>10, KeptItems DEF Shared!GiveUpWaiting
  <2> QED BY <1>10, <2>1 DEF Shared!GiveUpWaiting, Shared!Outcome, Shared!Exchanging
<1>11. ASSUME NEW c \in Calls, Shared!GiveUpExchange(c) PROVE Shared!TypeOK'
  <2>1. waiters' \in Seq(Calls) BY <1>11, KeptItems DEF Shared!GiveUpExchange
  <2>2. toServer' \in Seq(Calls)
    <3>1. toServer \in Seq(Calls) /\ Append(toServer, c) \in Seq(Calls) OBVIOUS
    <3> QED BY <1>11, <3>1 DEF Shared!GiveUpExchange, Shared!MaybeSent
  <2>3. c \notin Shared!Children(c) => state'[c] = "aborting" BY <1>11 DEF Shared!GiveUpExchange
  <2> DEFINE Own == Shared!Children(c)
  <2>4. /\ state' = [d \in Calls |-> IF d = c THEN "aborting" ELSE IF d \in Own THEN "done" ELSE state[d]]
        /\ ended' = [d \in Calls |-> IF d \in Own \cup {c} THEN "gave up" ELSE ended[d]]
        /\ closed' /\ UNCHANGED <<lock, op, parent, link, toClient, pushes, executing, refusing, finished>>
    BY <1>11 DEF Shared!GiveUpExchange
  <2> HIDE DEF Own
  <2> QED BY <2>1, <2>2, <2>4 DEF Shared!Outcome, Shared!Exchanging
<1>12. ASSUME NEW c \in Calls, Shared!ServerReplies(c) PROVE Shared!TypeOK'
  <2>1. PICK reply \in Shared!Replies(c) : toClient' = IF link = "up" THEN toClient \o reply ELSE toClient
    BY <1>12 DEF Shared!ServerReplies
  <2>2. reply \in Seq(Shared!Message)
    <3>1. reply = <<>> \/ \E m \in Shared!Message : reply = <<m>> BY <2>1 DEF Shared!Replies, Shared!Refusal, Shared!Message
    <3>2. \A m \in Shared!Message : <<m>> \in Seq(Shared!Message) OBVIOUS
    <3>3. <<>> \in Seq(Shared!Message) OBVIOUS
    <3> QED BY <3>1, <3>2, <3>3
  <2>3. toClient' \in Seq(Shared!Message) BY <2>1, <2>2
  <2> QED BY <1>12, <2>3 DEF Shared!ServerReplies, Shared!App!Finish
<1>13. ASSUME Shared!Connect \/ Shared!Close \/ Shared!LinkFails PROVE Shared!TypeOK'
  BY <1>13 DEF Shared!Connect, Shared!Close, Shared!LinkFails
<1>14. ASSUME Shared!ServerReceives PROVE Shared!TypeOK'
  <2>1. toServer' \in Seq(Calls) /\ Head(toServer) \in Calls BY <1>14, HeadAndTail DEF Shared!ServerReceives
  <2> QED BY <1>14, <2>1 DEF Shared!ServerReceives, Shared!App!Execute, Shared!App!Refuse
<1>15. ASSUME Shared!ServerPushes PROVE Shared!TypeOK'
  <2>1. toClient' \in Seq(Shared!Message) BY <1>15 DEF Shared!ServerPushes, Shared!Push, Shared!Message
  <2> QED BY <1>15, <2>1 DEF Shared!ServerPushes
<1> HIDE DEF Shared!TypeOK
<1> QED BY ClientCases, <1>1, <1>2, <1>3, <1>4, <1>5, <1>6, <1>7, <1>8, <1>9, <1>10, <1>11, <1>12, <1>13, <1>14, <1>15, Zenon

----------------------------------------------------------------------------
\* What a task whose exchange ends, or that is resumed, leaves of the waiters.
LEMMA WaitersLeft ==
  ASSUME NEW line \in Seq(Calls), Distinct(line), NEW S \in SUBSET Calls
  PROVE  /\ Items(Kept(line, Calls \ S)) = Items(line) \ S
         /\ Distinct(Kept(line, Calls \ S))
         /\ line # <<>> => Distinct(Tail(line)) /\ Items(Tail(line)) = Items(line) \ {Head(line)}
<1>1. Items(line) \subseteq Calls BY DEF Items
<1>2. Items(Kept(line, Calls \ S)) = Items(line) \cap (Calls \ S) /\ Distinct(Kept(line, Calls \ S)) BY KeptItems
<1>3. ASSUME line # <<>> PROVE Distinct(Tail(line)) /\ Items(Tail(line)) = Items(line) \ {Head(line)}
  BY <1>3, HeadAndTail
<1> QED BY <1>1, <1>2, <1>3

\* The lock, in terms of the items of sequences.
LockHeld == \A c \in Calls : state[c] \in Shared!Exchanging <=> lock = c
Waiting == \A c \in Calls : state[c] = "waiting" <=> c \in Items(waiters)
\* The lock and the waiters, in those terms.
LEMMA LockFollows == Shared!LockFollowsExchange <=> LockHeld /\ Waiting
BY DEF Shared!LockFollowsExchange, LockHeld, Waiting, Items

AbortCloses == \A c \in Calls : state[c] = "aborting" => closed
HandlersWait == \A c \in Calls : parent[c] # Shared!Nobody =>
  /\ state[c] # "idle"
  /\ state[c] # "done" => state[c] = "waiting" /\ state[parent[c]] = "delivering"
\* All of Locks, in those terms.
LEMMA LocksAre == Locks <=> LockHeld /\ Waiting /\ Distinct(waiters) /\ AbortCloses /\ HandlersWait
BY LockFollows DEF Locks, AbortCloses, HandlersWait

\* The lock and what follows it.
LEMMA ClientLocks ==
  ASSUME Shared!TypeOK, Locks, Shared!Next
  PROVE  Locks'
<1> USE ClientFacts
<1> DEFINE States == Shared!Exchanging \cup {"idle", "waiting", "done"}
<1>0. /\ LockHeld /\ Waiting /\ Distinct(waiters) /\ AbortCloses /\ HandlersWait
      /\ state \in [Calls -> States] /\ waiters \in Seq(Calls) /\ lock \in Calls \cup {Shared!Nobody}
      /\ parent \in [Calls -> Calls \cup {Shared!Nobody}] /\ closed \in BOOLEAN
  BY LocksAre DEF Shared!TypeOK
<1> SUFFICES LockHeld' /\ Waiting' /\ Distinct(waiters)' /\ AbortCloses' /\ HandlersWait'
  BY LocksAre, PTL
<1> DEFINE Goal == LockHeld' /\ Waiting' /\ Distinct(waiters)' /\ AbortCloses' /\ HandlersWait'
           Quiet == UNCHANGED <<lock, waiters, state, parent>> /\ (closed => closed')
<1>1. Quiet => Goal BY <1>0 DEF LockHeld, Waiting, AbortCloses, HandlersWait
<1> DEFINE Moves(c) ==
      /\ UNCHANGED <<waiters, parent>> /\ (closed => closed')
      /\ state[c] \in Shared!Exchanging /\ (state[c] = "delivering" => Shared!Children(c) = {})
      /\ \E a \in Shared!Exchanging \cup {"done"} :
           /\ state' = [state EXCEPT ![c] = a]
           /\ lock' = IF a = "done" THEN Shared!Nobody ELSE lock
           /\ a = "aborting" => closed'
<1>2. ASSUME NEW c \in Calls, Moves(c) PROVE Goal
  <2>1. PICK a \in Shared!Exchanging \cup {"done"} :
           /\ state' = [state EXCEPT ![c] = a]
           /\ lock' = IF a = "done" THEN Shared!Nobody ELSE lock
           /\ a = "aborting" => closed'
    BY <1>2
  <2>2. UNCHANGED <<waiters, parent>> /\ (closed => closed') /\ state[c] \in Shared!Exchanging /\ lock = c
    BY <1>2, <1>0 DEF LockHeld
  <2>3. "waiting" \notin Shared!Exchanging /\ "done" \notin Shared!Exchanging /\ "idle" \notin Shared!Exchanging
    BY DEF Shared!Exchanging
  <2>4. LockHeld' BY <1>0, <2>1, <2>2, <2>3 DEF LockHeld
  <2>5. Waiting' BY <1>0, <2>1, <2>2, <2>3 DEF Waiting
  <2>6. AbortCloses' BY <1>0, <2>1, <2>2, <2>3 DEF AbortCloses
  <2>7. HandlersWait'
    <3>1. \A d \in Calls : parent[d] = c => state[d] = "done"
      BY <1>2, <1>0, <2>2 DEF Shared!Children, HandlersWait
    <3> QED BY <1>0, <2>1, <2>2, <2>3, <3>1 DEF HandlersWait
  <2> QED BY <1>0, <2>2, <2>4, <2>5, <2>6, <2>7
<1> HIDE DEF Goal, Moves
<1>3. ASSUME NEW c \in Calls, Begins(c) PROVE Goal
  <2>1. PICK p \in Calls \cup {Shared!Nobody} :
          (p \in Calls => state[p] = "delivering" /\ Shared!Children(p) = {}) /\ Shared!Begin(c, p)
    BY <1>3 DEF Begins
  <2>2. state[c] = "idle" /\ closed' = closed /\ parent' = [parent EXCEPT ![c] = p] /\ c # p
    BY <2>1 DEF Shared!Begin
  <2>3. c \notin Items(waiters) /\ lock # c BY <1>0, <2>2 DEF Waiting, LockHeld, Shared!Exchanging
  <2>4. parent[c] = Shared!Nobody /\ \A d \in Calls : parent[d] = c => state[d] = "done"
    BY <1>0, <2>2 DEF HandlersWait
  <2>5. CASE lock = Shared!Nobody /\ waiters = <<>>
    <3>1. PICK k \in Kinds : Shared!Enter(c, k) /\ UNCHANGED waiters BY <2>1, <2>5 DEF Shared!Begin
    <3>2. p = Shared!Nobody BY <1>0, <2>1, <2>5 DEF LockHeld, Shared!Exchanging
    <3>3. PICK a \in {"done", "sending", "receiving"} :
            /\ state' = [state EXCEPT ![c] = a] /\ lock' = IF a = "done" THEN Shared!Nobody ELSE c
      BY <3>1 DEF Shared!Enter
    <3>4. LockHeld' BY <1>0, <2>5, <3>3 DEF LockHeld, Shared!Exchanging
    <3>5. Waiting' BY <1>0, <2>3, <3>1, <3>3 DEF Waiting
    <3>6. AbortCloses' BY <1>0, <2>2, <3>3 DEF AbortCloses
    <3>7. HandlersWait' BY <1>0, <2>2, <2>4, <3>2, <3>3 DEF HandlersWait
    <3> QED BY <1>0, <3>1, <3>4, <3>5, <3>6, <3>7 DEF Goal
  <2>6. CASE ~(lock = Shared!Nobody /\ waiters = <<>>)
    <3>1. /\ waiters' = Append(waiters, c) /\ state' = [state EXCEPT ![c] = "waiting"] /\ lock' = lock
      BY <2>1, <2>6 DEF Shared!Begin
    <3>2. Items(waiters') = Items(waiters) \cup {c} /\ Distinct(waiters') BY <1>0, <2>3, <3>1, AppendItems
    <3>3. LockHeld' BY <1>0, <2>3, <3>1 DEF LockHeld, Shared!Exchanging
    <3>4. Waiting' BY <1>0, <3>1, <3>2 DEF Waiting
    <3>5. AbortCloses' BY <1>0, <2>2, <3>1 DEF AbortCloses
    <3>6. HandlersWait' BY <1>0, <2>1, <2>2, <2>4, <3>1 DEF HandlersWait
    <3> QED BY <3>2, <3>3, <3>4, <3>5, <3>6 DEF Goal
  <2> QED BY <2>5, <2>6
<1>4. ASSUME NEW c \in Calls, Shared!Resume(c) PROVE Goal
  <2>1. /\ lock = Shared!Nobody /\ waiters # <<>> /\ Head(waiters) = c /\ waiters' = Tail(waiters)
        /\ Shared!Enter(c, op[c]) /\ UNCHANGED <<closed, parent>>
    BY <1>4 DEF Shared!Resume
  <2>2. Items(waiters') = Items(waiters) \ {c} /\ Distinct(waiters') BY <1>0, <2>1, WaitersLeft
  <2>3. state[c] = "waiting"
    <3>1. c \in Items(waiters) BY <1>0, <2>1, HeadAndTail
    <3> QED BY <1>0, <3>1 DEF Waiting
  <2>4. PICK a \in {"done", "sending", "receiving"} :
          /\ state' = [state EXCEPT ![c] = a] /\ lock' = IF a = "done" THEN Shared!Nobody ELSE c
    BY <2>1 DEF Shared!Enter
  <2>5. LockHeld' BY <1>0, <2>1, <2>4 DEF LockHeld, Shared!Exchanging
  <2>6. Waiting' BY <1>0, <2>2, <2>4 DEF Waiting
  <2>7. AbortCloses' BY <1>0, <2>1, <2>4 DEF AbortCloses
  <2>8. HandlersWait'
    <3>1. \A d \in Calls : parent[d] # Shared!Nobody => state[d] = "done"
      BY <1>0, <2>1 DEF HandlersWait, LockHeld, Shared!Exchanging
    <3>2. state'[c] # "idle" /\ parent[c] = Shared!Nobody BY <1>0, <2>3, <2>4, <3>1
    <3> QED BY <1>0, <2>1, <2>4, <3>1, <3>2 DEF HandlersWait
  <2> QED BY <2>2, <2>5, <2>6, <2>7, <2>8 DEF Goal
<1>5. ASSUME NEW c \in Calls, Shared!GiveUpWaiting(c) PROVE Goal
  <2>1. /\ state[c] = "waiting" /\ waiters' = Kept(waiters, Calls \ {c}) /\ state' = [state EXCEPT ![c] = "done"]
        /\ UNCHANGED <<closed, lock, parent>>
    BY <1>5 DEF Shared!GiveUpWaiting
  <2>2. Items(waiters') = Items(waiters) \ {c} /\ Distinct(waiters') BY <1>0, <2>1, WaitersLeft
  <2>3. LockHeld' BY <1>0, <2>1 DEF LockHeld, Shared!Exchanging
  <2>4. Waiting' BY <1>0, <2>1, <2>2 DEF Waiting
  <2>5. AbortCloses' BY <1>0, <2>1 DEF AbortCloses
  <2>6. HandlersWait' BY <1>0, <2>1 DEF HandlersWait
  <2> QED BY <2>2, <2>3, <2>4, <2>5, <2>6 DEF Goal
<1>6. ASSUME NEW c \in Calls, Shared!GiveUpExchange(c) PROVE Goal
  <2> DEFINE Own == Shared!Children(c)
  <2>1. /\ state[c] \in {"sending", "receiving", "delivering"} /\ waiters' = Kept(waiters, Calls \ Own)
        /\ state' = [d \in Calls |-> IF d = c THEN "aborting" ELSE IF d \in Own THEN "done" ELSE state[d]]
        /\ closed' /\ UNCHANGED <<lock, parent>>
    BY <1>6 DEF Shared!GiveUpExchange
  <2>2. Own \in SUBSET Calls /\ \A d \in Calls : parent[d] = c => d \in Own \/ state[d] = "done" BY DEF Shared!Children
  <2>3. \A d \in Own : state[d] = "waiting" BY <1>0 DEF HandlersWait, Shared!Children
  <2> HIDE DEF Own
  <2>4. Items(waiters') = Items(waiters) \ Own /\ Distinct(waiters') BY <1>0, <2>1, <2>2, WaitersLeft
  <2>5. LockHeld' BY <1>0, <2>1, <2>2, <2>3 DEF LockHeld, Shared!Exchanging
  <2>6. Waiting' BY <1>0, <2>1, <2>2, <2>3, <2>4 DEF Waiting
  <2>7. AbortCloses' BY <2>1 DEF AbortCloses
  <2>8. HandlersWait'
    <3>1. ASSUME NEW d \in Calls, parent[d] # Shared!Nobody, state'[d] # "done"
          PROVE  state'[d] = "waiting" /\ state'[parent[d]] = "delivering"
      <4>1. d # c BY <1>0, <2>1, <3>1 DEF HandlersWait
      <4>2. d \notin Own /\ state'[d] = state[d] BY <2>1, <2>2, <3>1, <4>1
      <4>3. state[d] = "waiting" /\ state[parent[d]] = "delivering" /\ parent[d] # c
        BY <1>0, <2>2, <3>1, <4>2 DEF HandlersWait
      <4>4. parent[d] \in Calls \ Own BY <1>0, <2>3, <3>1, <4>3
      <4> QED BY <2>1, <4>2, <4>3, <4>4
    <3>2. \A d \in Calls : parent[d] # Shared!Nobody => state'[d] # "idle" BY <1>0, <2>1 DEF HandlersWait
    <3> QED BY <2>1, <3>1, <3>2 DEF HandlersWait
  <2> QED BY <2>4, <2>5, <2>6, <2>7, <2>8 DEF Goal
<1>7. ASSUME NEW c \in Calls, Shared!Send(c) PROVE Goal
  <2>1. Moves(c) BY <1>7 DEF Shared!Send, Shared!Return, Shared!Exchanging, Moves
  <2> QED BY <1>2, <2>1
<1>8. ASSUME NEW c \in Calls, Shared!Broken(c) PROVE Goal
  <2>1. Moves(c) BY <1>8 DEF Shared!Broken, Shared!Abort, Shared!Exchanging, Moves
  <2> QED BY <1>2, <2>1
<1>9. ASSUME NEW c \in Calls, Shared!ReceiveReply(c) PROVE Goal
  <2>1. Moves(c) BY <1>9 DEF Shared!ReceiveReply, Shared!Return, Shared!Abort, Shared!Exchanging, Moves
  <2> QED BY <1>2, <2>1
<1>10. ASSUME NEW c \in Calls, Shared!ReceivePush(c) PROVE Goal
  <2>1. CASE state' = state
    <3>1. Quiet BY <1>10, <2>1 DEF Shared!ReceivePush
    <3> QED BY <1>1, <3>1
  <2>2. CASE state' = [state EXCEPT ![c] = "delivering"]
    <3>1. Moves(c) BY <1>10, <2>2 DEF Shared!ReceivePush, Shared!Exchanging, Moves
    <3> QED BY <1>2, <3>1
  <2> QED BY <1>10, <2>1, <2>2 DEF Shared!ReceivePush
<1>11. ASSUME NEW c \in Calls, Shared!Delivered(c) PROVE Goal
  <2>1. Moves(c) BY <1>11 DEF Shared!Delivered, Shared!Exchanging, Moves
  <2> QED BY <1>2, <2>1
<1>12. ASSUME NEW c \in Calls, Shared!Listen(c) PROVE Goal
  <2>1. Moves(c) BY <1>12 DEF Shared!Listen, Shared!Return, Shared!Abort, Shared!Exchanging, Moves
  <2> QED BY <1>2, <2>1
<1>13. ASSUME NEW c \in Calls, Shared!Aborted(c) PROVE Goal
  <2>1. Moves(c) BY <1>13 DEF Shared!Aborted, Shared!Return, Shared!Exchanging, Moves
  <2> QED BY <1>2, <2>1
<1>14. ASSUME \/ \E c \in Calls : Shared!ServerReplies(c)
              \/ Shared!Connect \/ Shared!Close \/ Shared!LinkFails \/ Shared!ServerReceives \/ Shared!ServerPushes
       PROVE Goal
  <2>1. Quiet
    BY <1>14 DEF Shared!ServerReplies, Shared!Connect, Shared!Close, Shared!LinkFails, Shared!ServerReceives,
      Shared!ServerPushes, Shared!clientVars
  <2> QED BY <1>1, <2>1
<1> HIDE DEF Quiet
<1>15. Goal
  BY ClientCases, <1>3, <1>4, <1>5, <1>6, <1>7, <1>8, <1>9, <1>10, <1>11, <1>12, <1>13, <1>14, Zenon
<1> QED BY <1>15 DEF Goal

----------------------------------------------------------------------------
\* An exchange that has not sent its message, and what the steps do about that.
Early == {"idle", "waiting", "sending"}

\* The waiter that goes on.
LEMMA ResumedWaits ==
  ASSUME Shared!TypeOK, Locks, NEW c \in Calls, Shared!Resume(c)
  PROVE  state[c] = "waiting"
<1>1. Waiting /\ waiters \in Seq(Calls) BY LocksAre DEF Shared!TypeOK
<1>2. waiters # <<>> /\ Head(waiters) = c BY DEF Shared!Resume
<1>3. c \in Items(waiters) BY <1>1, <1>2, HeadAndTail
<1> QED BY <1>1, <1>3 DEF Waiting

\* Messages are sent once.
LEMMA ClientSends ==
  ASSUME Shared!TypeOK, Locks, SentOnce, Shared!Next
  PROVE  SentOnce'
<1> USE ClientFacts
<1>0. /\ state \in [Calls -> Shared!Exchanging \cup {"idle", "waiting", "done"}] /\ toServer \in Seq(Calls)
      /\ executing \in SUBSET Calls /\ refusing \in SUBSET Calls /\ finished \in SUBSET Calls
      /\ Distinct(toServer) /\ Items(toServer) \cap Known = {}
      /\ \A c \in Calls : state[c] \in Early => c \notin Items(toServer) \cup Known
  BY DEF Shared!TypeOK, SentOnce, Early
<1> SUFFICES /\ Distinct(toServer)' /\ Items(toServer)' \cap Known' = {}
             /\ \A c \in Calls : state'[c] \in Early => c \notin Items(toServer)' \cup Known'
  BY DEF SentOnce, Early
<1> DEFINE Goal == /\ Distinct(toServer)' /\ Items(toServer)' \cap Known' = {}
                   /\ \A c \in Calls : state'[c] \in Early => c \notin Items(toServer)' \cup Known'
           Keeps == /\ UNCHANGED <<toServer, executing, refusing, finished>>
                    /\ \A c \in Calls : state'[c] \in Early => state[c] \in Early
           Sends(c) == /\ state[c] = "sending" /\ toServer' = Append(toServer, c) /\ state'[c] \notin Early
                       /\ UNCHANGED <<executing, refusing, finished>>
                       /\ \A d \in Calls : state'[d] \in Early => state[d] \in Early
<1>1. Keeps => Goal BY <1>0 DEF Known
<1>2. ASSUME NEW c \in Calls, Sends(c) PROVE Goal
  <2>1. c \notin Items(toServer) \cup Known BY <1>0, <1>2 DEF Early
  <2>2. Items(toServer') = Items(toServer) \cup {c} /\ Distinct(toServer') BY <1>0, <1>2, <2>1, AppendItems
  <2>3. Known' = Known BY <1>2 DEF Known
  <2> QED BY <1>0, <1>2, <2>1, <2>2, <2>3
<1> HIDE DEF Goal
<1>3. ASSUME NEW c \in Calls, Begins(c) PROVE Goal
  <2>1. PICK p \in Calls \cup {Shared!Nobody} : Shared!Begin(c, p) BY <1>3 DEF Begins
  <2>2. state[c] = "idle" /\ UNCHANGED <<toServer, executing, refusing, finished>>
    BY <2>1 DEF Shared!Begin, Shared!channel, Shared!serverVars
  <2>3. \E a \in {"done", "sending", "receiving", "waiting"} : state' = [state EXCEPT ![c] = a]
    BY <2>1 DEF Shared!Begin, Shared!Enter
  <2>4. Keeps BY <1>0, <2>2, <2>3 DEF Early
  <2> QED BY <1>1, <2>4
<1>4. ASSUME NEW c \in Calls, Shared!Resume(c) PROVE Goal
  <2>1. state[c] = "waiting" BY <1>4, ResumedWaits
  <2>2. UNCHANGED <<toServer, executing, refusing, finished>>
    BY <1>4 DEF Shared!Resume, Shared!channel, Shared!serverVars
  <2>3. \E a \in {"done", "sending", "receiving"} : state' = [state EXCEPT ![c] = a]
    BY <1>4 DEF Shared!Resume, Shared!Enter
  <2>4. Keeps BY <1>0, <2>1, <2>2, <2>3 DEF Early
  <2> QED BY <1>1, <2>4
<1>5. ASSUME NEW c \in Calls, Shared!Send(c) PROVE Goal
  <2>1. \E a \in {"done", "receiving"} : state' = [state EXCEPT ![c] = a] BY <1>5 DEF Shared!Send, Shared!Return
  <2>2. Sends(c) BY <1>0, <1>5, <2>1 DEF Shared!Send, Shared!serverVars, Early
  <2> QED BY <1>2, <2>2
<1>6. ASSUME NEW c \in Calls,
             \/ Shared!Broken(c) \/ Shared!ReceiveReply(c) \/ Shared!ReceivePush(c) \/ Shared!Delivered(c)
             \/ Shared!Listen(c) \/ Shared!Aborted(c) \/ Shared!GiveUpWaiting(c)
      PROVE Goal
  <2>1. UNCHANGED <<toServer, executing, refusing, finished>>
    BY <1>6 DEF Shared!Broken, Shared!ReceiveReply, Shared!ReceivePush, Shared!Delivered, Shared!Listen, Shared!Aborted,
      Shared!GiveUpWaiting, Shared!channel, Shared!serverVars
  <2>2. state' = state \/ \E a \in {"done", "receiving", "delivering", "aborting"} : state' = [state EXCEPT ![c] = a]
    BY <1>6 DEF Shared!Broken, Shared!ReceiveReply, Shared!ReceivePush, Shared!Delivered, Shared!Listen, Shared!Aborted,
      Shared!GiveUpWaiting, Shared!Return, Shared!Abort
  <2>3. Keeps BY <1>0, <2>1, <2>2 DEF Early
  <2> QED BY <1>1, <2>3
<1>7. ASSUME NEW c \in Calls, Shared!GiveUpExchange(c) PROVE Goal
  <2>1. /\ state'[c] = "aborting" /\ \A d \in Calls : state'[d] \in Early => state[d] \in Early
        /\ UNCHANGED <<executing, refusing, finished>>
    BY <1>7 DEF Shared!GiveUpExchange, Shared!serverVars, Early
  <2>2. CASE toServer' = toServer
    <3>1. Keeps BY <2>1, <2>2
    <3> QED BY <1>1, <3>1
  <2>3. CASE state[c] = "sending" /\ toServer' = Append(toServer, c)
    <3>1. Sends(c) BY <2>1, <2>3 DEF Early
    <3> QED BY <1>2, <3>1
  <2> QED BY <1>7, <2>2, <2>3 DEF Shared!GiveUpExchange, Shared!MaybeSent
<1>8. ASSUME NEW c \in Calls, Shared!ServerReplies(c) PROVE Goal
  <2>1. Known' = Known BY <1>8 DEF Shared!ServerReplies, Shared!App!Finish, Shared!App!Active, Known
  <2>2. state' = state /\ toServer' = toServer BY <1>8 DEF Shared!ServerReplies, Shared!clientVars
  <2> QED BY <1>0, <2>1, <2>2 DEF Goal
<1>9. ASSUME Shared!Connect \/ Shared!Close \/ Shared!LinkFails \/ Shared!ServerPushes PROVE Goal
  <2>1. Keeps BY <1>9 DEF Shared!Connect, Shared!Close, Shared!LinkFails, Shared!ServerPushes, Shared!clientVars, Shared!serverVars
  <2> QED BY <1>1, <2>1
<1>10. ASSUME Shared!ServerReceives PROVE Goal
  <2> DEFINE r == Head(toServer)
  <2>1. toServer # <<>> /\ toServer' = Tail(toServer) /\ state' = state BY <1>10 DEF Shared!ServerReceives, Shared!clientVars
  <2>2. Distinct(toServer') /\ Items(toServer) = {r} \cup Items(toServer') /\ r \notin Items(toServer')
    BY <1>0, <2>1, HeadAndTail
  <2>3. Known' = Known \cup {r} BY <1>10 DEF Shared!ServerReceives, Shared!App!Execute, Shared!App!Refuse, Known
  <2> HIDE DEF r
  <2> QED BY <1>0, <2>1, <2>2, <2>3 DEF Goal
<1> HIDE DEF Keeps, Sends
<1>11. Goal BY ClientCases, <1>3, <1>4, <1>5, <1>6, <1>7, <1>8, <1>9, <1>10, Zenon
<1> QED BY <1>11 DEF Goal

----------------------------------------------------------------------------
\* Replies that are owed, and those at hand.
Unanswered == Items(toServer) \cup executing \cup refusing

\* A reply is owed while its request is with the server or its reply at hand.
LEMMA OwedIs ==
  ASSUME NEW c \in Calls
  PROVE  Shared!Owed(c) <=> op[c] \in Shared!Awaited /\ c \in Unanswered
BY ClientFacts DEF Shared!Owed, Unanswered

\* The replies at hand when the first message has been read, and when more have come.
LEMMA AtHandRead ==
  ASSUME NEW line \in Seq(Shared!Message), line # <<>>
  PROVE  /\ Head(line) \in Response => Kept(line, Response) = <<Head(line)>> \o Kept(Tail(line), Response)
         /\ Head(line) \notin Response => Kept(line, Response) = Kept(Tail(line), Response)
         /\ Head(line) \in Shared!Message /\ Kept(Tail(line), Response) \in Seq(Shared!Message)
<1>1. Head(line) \in Shared!Message /\ Tail(line) \in Seq(Shared!Message) BY HeadAndTail
<1>2. Kept(Tail(line), Response) \in Seq(Shared!Message) BY <1>1, KeptItems
<1>3. Kept(line, Response) = (IF Head(line) \in Response THEN <<Head(line)>> ELSE <<>>) \o Kept(Tail(line), Response)
  BY KeptHead
<1>4. <<>> \o Kept(Tail(line), Response) = Kept(Tail(line), Response) BY <1>2
<1> QED BY <1>1, <1>2, <1>3, <1>4

\* The replies at hand when another message comes.
LEMMA AtHandCome ==
  ASSUME NEW line \in Seq(Shared!Message), NEW m \in Shared!Message
  PROVE  /\ Kept(Append(line, m), Response) =
              IF m \in Response THEN Append(Kept(line, Response), m) ELSE Kept(line, Response)
         /\ line \o <<m>> = Append(line, m) /\ line \o <<>> = line
<1>1. line \o <<m>> = Append(line, m) BY AppendIsConcat
<1> QED BY <1>1, KeptAppend

\* The requests are of the kinds that are used.
Asked == \A c \in Calls : op[c] \in Kinds \cup {"none"}

\* No step begins a request of another kind.
LEMMA ClientAsks ==
  ASSUME Shared!TypeOK, Asked, Shared!Next
  PROVE  Asked'
<1>0. op \in [Calls -> Shared!Kind \cup {"none"}] BY DEF Shared!TypeOK
<1>1. ASSUME NEW c \in Calls, Begins(c) PROVE Asked'
  BY <1>0, <1>1 DEF Begins, Shared!Begin, Asked
<1>3. ASSUME op' = op PROVE Asked' BY <1>3 DEF Asked
<1>4. \/ \E c \in Calls : \/ Shared!Resume(c) \/ Shared!Send(c) \/ Shared!Broken(c)
                          \/ Shared!ReceiveReply(c) \/ Shared!ReceivePush(c) \/ Shared!Delivered(c)
                          \/ Shared!Listen(c) \/ Shared!Aborted(c)
                          \/ Shared!GiveUpWaiting(c) \/ Shared!GiveUpExchange(c) \/ Shared!ServerReplies(c)
      \/ Shared!Connect \/ Shared!Close \/ Shared!LinkFails \/ Shared!ServerReceives \/ Shared!ServerPushes
      => op' = op
  BY DEF Shared!Resume, Shared!Send, Shared!Broken, Shared!ReceiveReply, Shared!ReceivePush, Shared!Delivered,
    Shared!Listen, Shared!Aborted, Shared!GiveUpWaiting, Shared!GiveUpExchange, Shared!ServerReplies, Shared!Connect,
    Shared!Close, Shared!LinkFails, Shared!ServerReceives, Shared!ServerPushes, Shared!clientVars
<1> QED BY ClientCases, <1>1, <1>3, <1>4, Zenon

\* Nothing is owed and nothing at hand.
NothingLeft == AtHand = <<>> /\ \A c \in Calls : ~Shared!Owed(c)
\* One exchange is owed a reply, or has it at hand.
OneLeft ==
  /\ lock \in Calls /\ Reads(lock)
  /\ \/ AtHand = <<>> /\ \A c \in Calls : Shared!Owed(c) => c = lock
     \/ (\E m \in Response : AtHand = <<m>> /\ Shared!Accepts(lock, m)) /\ \A c \in Calls : ~Shared!Owed(c)
\* The same in two words.
LEMMA AtHandLeft == OneAnswer <=> (Live => NothingLeft \/ OneLeft)
BY DEF OneAnswer, NothingLeft, OneLeft

\* A step that leaves what is owed and at hand alone.
LEMMA AtHandKept ==
  ASSUME AtHand' = AtHand, \A c \in Calls : Shared!Owed(c)' => Shared!Owed(c)
  PROVE  /\ NothingLeft => NothingLeft'
         /\ OneLeft /\ lock' = lock /\ Reads(lock)' /\ op'[lock] = op[lock] => OneLeft'
<1>1. NothingLeft => NothingLeft' BY DEF NothingLeft
<1>2. ASSUME OneLeft, lock' = lock, Reads(lock)', op'[lock] = op[lock] PROVE OneLeft'
  <2>1. \A m \in Response : Shared!Accepts(lock, m) => Shared!Accepts(lock, m)' BY <1>2 DEF Shared!Accepts
  <2>2. lock' \in Calls /\ Reads(lock)' BY <1>2 DEF OneLeft
  <2> QED BY <1>2, <2>1, <2>2 DEF OneLeft
<1> QED BY <1>1, <1>2

\* Steps of the exchange under way, or about no exchange, that touch neither channel
\* nor app.
LEMMA AtHandUntouched ==
  ASSUME Shared!TypeOK, Locks, SentOnce, OneAnswer,
         UNCHANGED <<toClient, toServer, executing, refusing>>,
         \/ \E c \in Calls : \/ Begins(c) \/ Shared!Resume(c) \/ Shared!Broken(c) \/ Shared!Delivered(c)
                             \/ Shared!Aborted(c) \/ Shared!GiveUpWaiting(c)
         \/ Shared!Connect \/ Shared!Close \/ Shared!LinkFails
  PROVE  OneAnswer'
<1> USE ClientFacts
<1>0. /\ state \in [Calls -> Shared!Exchanging \cup {"idle", "waiting", "done"}] /\ lock \in Calls \cup {Shared!Nobody}
      /\ op \in [Calls -> Shared!Kind \cup {"none"}] /\ closed \in BOOLEAN /\ parent \in [Calls -> Calls \cup {Shared!Nobody}]
      /\ LockHeld /\ Waiting /\ AbortCloses
      /\ Live => NothingLeft \/ OneLeft
  BY LocksAre, AtHandLeft DEF Shared!TypeOK
<1>1. AtHand' = AtHand /\ Unanswered' = Unanswered BY DEF AtHand, Unanswered
<1>2. ASSUME op' = op PROVE \A c \in Calls : Shared!Owed(c)' => Shared!Owed(c)
  <2>1. \A c \in Calls : Shared!Owed(c)' <=> op'[c] \in Shared!Awaited /\ c \in Unanswered' BY DEF Shared!Owed, Unanswered, Shared!InLink, Items
  <2> QED BY <1>1, <1>2, <2>1, OwedIs
<1> SUFFICES ASSUME Live' PROVE NothingLeft' \/ OneLeft'
  BY AtHandLeft, PTL
<1> DEFINE Goal == NothingLeft' \/ OneLeft'
<1> HIDE DEF Goal
<1>3. ASSUME NEW c \in Calls, Begins(c) PROVE Goal
  <2>1. PICK p \in Calls \cup {Shared!Nobody}, k \in Kinds : /\ Shared!Begin(c, p) /\ op' = [op EXCEPT ![c] = k]
    BY <1>3 DEF Begins, Shared!Begin
  <2>2. state[c] = "idle" /\ closed' = closed BY <2>1 DEF Shared!Begin
  <2>3. c \notin Unanswered BY <2>2 DEF SentOnce, Unanswered, Known
  <2>4. \A d \in Calls : Shared!Owed(d)' => Shared!Owed(d)
    <3>1. \A d \in Calls : Shared!Owed(d)' <=> op'[d] \in Shared!Awaited /\ d \in Unanswered' BY DEF Shared!Owed, Unanswered, Shared!InLink, Items
    <3> QED BY <1>0, <1>1, <2>1, <2>3, <3>1, OwedIs
  <2>5. CASE lock = Shared!Nobody
    <3>1. ~OneLeft BY <2>5 DEF OneLeft
    <3>2. Live
      <4>1. ASSUME closed PROVE FALSE
        <5>1. lock' \notin Calls \/ state'[lock'] \notin {"sending", "receiving", "delivering"}
          BY <1>0, <2>1, <2>5, <4>1 DEF Shared!Begin, Shared!Enter
        <5> QED BY <2>2, <4>1, <5>1 DEF Live
      <4> QED BY <4>1 DEF Live
    <3>3. NothingLeft' BY <1>0, <1>1, <2>4, <3>1, <3>2, AtHandKept
    <3> QED BY <3>3 DEF Goal
  <2>6. CASE lock # Shared!Nobody
    <3>1. lock' = lock /\ state' = [state EXCEPT ![c] = "waiting"] BY <2>1, <2>6 DEF Shared!Begin
    <3>2. lock # c /\ lock \in Calls BY <1>0, <2>2, <2>6 DEF LockHeld, Shared!Exchanging
    <3>3. Live BY <1>0, <2>2, <3>1, <3>2 DEF Live
    <3>4. OneLeft => Reads(lock)' /\ op'[lock] = op[lock] BY <1>0, <2>1, <3>1, <3>2 DEF OneLeft, Reads
    <3> QED BY <1>0, <1>1, <2>4, <3>1, <3>3, <3>4, AtHandKept DEF Goal
  <2> QED BY <2>5, <2>6
<1>4. ASSUME NEW c \in Calls, Shared!Resume(c) PROVE Goal
  <2>1. lock = Shared!Nobody /\ op' = op /\ closed' = closed /\ Shared!Enter(c, op[c]) BY <1>4 DEF Shared!Resume
  <2>2. ~OneLeft BY <2>1 DEF OneLeft
  <2>3. Live
    <3>1. ASSUME closed PROVE FALSE
      <4>1. lock' \notin Calls BY <2>1, <3>1 DEF Shared!Enter
      <4> QED BY <2>1, <3>1, <4>1 DEF Live
    <3> QED BY <3>1 DEF Live
  <2>4. NothingLeft' BY <1>0, <1>1, <1>2, <2>1, <2>2, <2>3, AtHandKept
  <2> QED BY <2>4 DEF Goal
<1>5. ASSUME NEW c \in Calls, Shared!Broken(c) \/ Shared!Aborted(c) PROVE Goal
  <2>1. lock = c BY <1>0, <1>5 DEF LockHeld, Shared!Exchanging, Shared!Broken, Shared!Aborted
  <2>2. closed' /\ (lock' \notin Calls \/ (lock' = c /\ state'[c] = "aborting"))
    BY <1>0, <1>5, <2>1 DEF Shared!Broken, Shared!Abort, Shared!Aborted, Shared!Return, AbortCloses
  <2> QED BY <2>2 DEF Live
<1>6. ASSUME NEW c \in Calls, Shared!Delivered(c) PROVE Goal
  <2>1. /\ state[c] = "delivering" /\ state' = [state EXCEPT ![c] = "receiving"]
        /\ UNCHANGED <<closed, lock, op>>
    BY <1>6 DEF Shared!Delivered
  <2>2. lock = c BY <1>0, <2>1 DEF LockHeld, Shared!Exchanging
  <2>3. Live BY <2>1, <2>2 DEF Live
  <2>4. OneLeft => Reads(lock)' /\ op'[lock] = op[lock] BY <1>0, <2>1, <2>2 DEF OneLeft, Reads
  <2> QED BY <1>0, <1>1, <1>2, <2>1, <2>3, <2>4, AtHandKept DEF Goal
<1>7. ASSUME NEW c \in Calls, Shared!GiveUpWaiting(c) PROVE Goal
  <2>1. /\ state[c] = "waiting" /\ state' = [state EXCEPT ![c] = "done"] /\ UNCHANGED <<closed, lock, op>>
    BY <1>7 DEF Shared!GiveUpWaiting
  <2>2. lock # c BY <1>0, <2>1 DEF LockHeld, Shared!Exchanging
  <2>3. Live BY <1>0, <2>1, <2>2 DEF Live
  <2>4. OneLeft => Reads(lock)' /\ op'[lock] = op[lock] BY <1>0, <2>1, <2>2 DEF OneLeft, Reads
  <2> QED BY <1>0, <1>1, <1>2, <2>1, <2>3, <2>4, AtHandKept DEF Goal
<1>8. ASSUME Shared!Connect \/ Shared!Close \/ Shared!LinkFails PROVE Goal
  <2>1. UNCHANGED <<lock, op, state>> /\ (closed => closed')
    BY <1>8 DEF Shared!Connect, Shared!Close, Shared!LinkFails, Shared!clientVars
  <2>2. Live BY <2>1 DEF Live
  <2>3. OneLeft => Reads(lock)' /\ op'[lock] = op[lock] BY <2>1 DEF OneLeft, Reads
  <2> QED BY <1>0, <1>1, <1>2, <2>1, <2>2, <2>3, AtHandKept DEF Goal
<1>9. Goal BY <1>3, <1>4, <1>5, <1>6, <1>7, <1>8, Zenon
<1> QED BY <1>9 DEF Goal

\* A message goes to the app, or the exchange is given up and perhaps it goes.
LEMMA AtHandOfSender ==
  ASSUME Shared!TypeOK, Locks, SentOnce, OneAnswer, NEW c \in Calls, Shared!Send(c) \/ Shared!GiveUpExchange(c)
  PROVE  OneAnswer'
<1> USE ClientFacts
<1>0. /\ state \in [Calls -> Shared!Exchanging \cup {"idle", "waiting", "done"}] /\ lock \in Calls \cup {Shared!Nobody}
      /\ toServer \in Seq(Calls) /\ LockHeld
      /\ Live => NothingLeft \/ OneLeft
  BY LocksAre, AtHandLeft DEF Shared!TypeOK
<1> SUFFICES ASSUME Live' PROVE NothingLeft' \/ OneLeft'
  BY AtHandLeft, PTL
<1>1. ASSUME Shared!GiveUpExchange(c) PROVE FALSE
  <2>1. lock = c BY <1>0, <1>1 DEF LockHeld, Shared!Exchanging, Shared!GiveUpExchange
  <2>2. closed' /\ lock' = c /\ state'[c] = "aborting" BY <1>1, <2>1 DEF Shared!GiveUpExchange
  <2> QED BY <2>2 DEF Live
<1>2. ASSUME Shared!Send(c) PROVE NothingLeft' \/ OneLeft'
  <2>1. /\ state[c] = "sending" /\ toServer' = Append(toServer, c)
        /\ UNCHANGED <<op, toClient, executing, refusing>>
        /\ IF op[c] \in Shared!Awaited THEN state' = [state EXCEPT ![c] = "receiving"] /\ lock' = lock
                                       ELSE TRUE
    BY <1>2 DEF Shared!Send, Shared!serverVars
  <2>2. lock = c BY <1>0, <2>1 DEF LockHeld, Shared!Exchanging
  <2>3. Live /\ ~Reads(lock) BY <2>1, <2>2 DEF Live, Reads
  <2>4. NothingLeft BY <1>0, <2>3 DEF OneLeft
  <2>5. AtHand' = <<>> BY <2>1, <2>4 DEF AtHand, NothingLeft
  <2>6. Unanswered' = Unanswered \cup {c}
    <3>1. Items(toServer') = Items(toServer) \cup {c} BY <1>0, <2>1, AppendItems
    <3> QED BY <2>1, <3>1 DEF Unanswered
  <2>7. \A d \in Calls : Shared!Owed(d)' => d = c /\ op[c] \in Shared!Awaited
    <3>1. \A d \in Calls : Shared!Owed(d)' <=> op'[d] \in Shared!Awaited /\ d \in Unanswered'
      BY DEF Shared!Owed, Unanswered, Shared!InLink, Items
    <3> QED BY <2>1, <2>4, <2>6, <3>1, OwedIs DEF NothingLeft
  <2>8. CASE op[c] \in Shared!Awaited
    <3>1. lock' = c /\ Reads(c)' BY <1>0, <2>1, <2>2, <2>8 DEF Reads
    <3>2. lock' \in Calls /\ Reads(lock)' BY <3>1 DEF Reads
    <3> QED BY <2>5, <2>7, <3>1, <3>2 DEF OneLeft
  <2>9. CASE op[c] \notin Shared!Awaited BY <2>5, <2>7, <2>9 DEF NothingLeft
  <2> QED BY <2>8, <2>9
<1> QED BY <1>1, <1>2

\* The exchange under way reads the first message: it is a notification, or its own reply.
LEMMA AtHandOfReader ==
  ASSUME Shared!TypeOK, Locks, OneAnswer, NEW c \in Calls,
         Shared!ReceiveReply(c) \/ Shared!ReceivePush(c) \/ Shared!Listen(c)
  PROVE  OneAnswer' /\ (NeverMismatched => NeverMismatched')
<1> USE ClientFacts
<1>0. /\ state \in [Calls -> Shared!Exchanging \cup {"idle", "waiting", "done"}] /\ lock \in Calls \cup {Shared!Nobody}
      /\ toClient \in Seq(Shared!Message) /\ LockHeld
      /\ Live => NothingLeft \/ OneLeft
      /\ ended \in [Calls -> Shared!Outcome]
  BY LocksAre, AtHandLeft DEF Shared!TypeOK
<1>1. /\ state[c] = "receiving" /\ toClient # <<>> /\ toClient' = Tail(toClient)
      /\ UNCHANGED <<op, toServer, executing, refusing>>
  BY DEF Shared!ReceiveReply, Shared!ReceivePush, Shared!Listen, Shared!serverVars
<1>2. lock = c BY <1>0, <1>1 DEF LockHeld, Shared!Exchanging
<1>3. Live BY <1>1, <1>2 DEF Live
<1>4. /\ Head(toClient) \in Response => AtHand = <<Head(toClient)>> \o Kept(Tail(toClient), Response)
      /\ Head(toClient) \notin Response => AtHand = Kept(Tail(toClient), Response)
      /\ Head(toClient) \in Shared!Message /\ Kept(Tail(toClient), Response) \in Seq(Shared!Message)
  BY <1>0, <1>1, AtHandRead DEF AtHand
<1>5. AtHand' = Kept(Tail(toClient), Response) BY <1>1 DEF AtHand
<1>6. \A d \in Calls : Shared!Owed(d)' => Shared!Owed(d)
  <2>1. \A d \in Calls : Shared!Owed(d)' <=> op'[d] \in Shared!Awaited /\ d \in Unanswered'
    BY DEF Shared!Owed, Unanswered, Shared!InLink, Items
  <2>2. Unanswered' \subseteq Unanswered BY <1>1 DEF Unanswered
  <2> QED BY <1>1, <2>1, <2>2, OwedIs
<1> DEFINE head == Head(toClient)
           rest == Kept(Tail(toClient), Response)
<1> HIDE DEF head, rest
<1>7. ASSUME head \in Response
      PROVE  /\ Shared!Accepts(c, head) /\ op[c] \in Shared!Awaited
             /\ NothingLeft'
  <2>1. AtHand = <<head>> \o rest /\ rest \in Seq(Shared!Message) BY <1>4, <1>7 DEF head, rest
  <2>2. Len(AtHand) = 1 + Len(rest) /\ AtHand[1] = head /\ AtHand # <<>> /\ Len(rest) \in Nat BY <2>1
  <2>3. OneLeft /\ ~ NothingLeft BY <1>0, <1>3, <2>2 DEF NothingLeft
  <2>4. PICK m \in Response : AtHand = <<m>> /\ Shared!Accepts(lock, m) BY <2>2, <2>3 DEF OneLeft
  <2>5. m = head /\ Len(rest) = 0 BY <2>2, <2>4
  <2>6. rest = <<>> BY <2>1, <2>5
  <2>7. \A d \in Calls : ~Shared!Owed(d) BY <2>2, <2>3 DEF OneLeft
  <2>8. NothingLeft' BY <1>5, <1>6, <2>6, <2>7 DEF NothingLeft, rest
  <2> QED BY <1>2, <2>3, <2>4, <2>5, <2>8 DEF OneLeft, Reads
<1>8. ASSUME head \notin Response PROVE AtHand' = AtHand
  BY <1>4, <1>5, <1>8 DEF head
<1>9. CASE Shared!ReceiveReply(c)
  <2>1. head \in Response BY <1>4, <1>9 DEF head, Shared!ReceiveReply, Response
  <2>2. ended' = [ended EXCEPT ![c] = Shared!Result(head)] BY <1>7, <1>9, <2>1 DEF head, Shared!ReceiveReply, Shared!Return
  <2>3. Shared!Result(head) # "mismatched" BY DEF Shared!Result
  <2>4. NeverMismatched => NeverMismatched' BY <1>0, <2>2, <2>3 DEF NeverMismatched, Shared!NeverMismatched
  <2>5. NothingLeft' BY <1>7, <2>1
  <2> QED BY <2>4, <2>5, AtHandLeft, PTL
<1>10. CASE Shared!ReceivePush(c)
  <2>1. head \notin Response BY <1>10 DEF head, Shared!ReceivePush, Response
  <2>2. UNCHANGED <<closed, lock, ended>> /\ state'[c] \in {"receiving", "delivering"} BY <1>0, <1>1, <1>10 DEF Shared!ReceivePush
  <2>3. OneLeft => Reads(lock)' /\ op'[lock] = op[lock] BY <1>1, <1>2, <2>2 DEF OneLeft, Reads
  <2>4. NothingLeft' \/ OneLeft' BY <1>0, <1>3, <1>6, <1>8, <2>1, <2>2, <2>3, AtHandKept
  <2>5. NeverMismatched => NeverMismatched' BY <2>2 DEF NeverMismatched, Shared!NeverMismatched
  <2> QED BY <2>4, <2>5, AtHandLeft, PTL
<1>11. CASE Shared!Listen(c)
  <2>1. op[c] \notin Shared!Awaited BY <1>11 DEF Shared!Listen, Shared!Awaited
  <2>2. head \notin Response BY <1>7, <2>1
  <2>3. ~OneLeft BY <1>2, <2>1 DEF OneLeft, Reads
  <2>4. NothingLeft' BY <1>0, <1>3, <1>6, <1>8, <2>2, <2>3, AtHandKept
  <2>5. Head(toClient).kind = "push" BY <1>4, <2>2 DEF head, Response
  <2>6. ended' = [ended EXCEPT ![c] = "ok"] BY <1>11, <2>5 DEF Shared!Listen, Shared!Return
  <2>7. NeverMismatched => NeverMismatched' BY <1>0, <2>6 DEF NeverMismatched, Shared!NeverMismatched
  <2> QED BY <2>4, <2>7, AtHandLeft, PTL
<1> QED BY <1>9, <1>10, <1>11

\* The app receives, replies or pushes.
LEMMA AtHandOfApp ==
  ASSUME Shared!TypeOK, SentOnce, Asked, "notes" \notin Kinds, OneAnswer,
         Shared!ServerReceives \/ Shared!ServerPushes \/ \E c \in Calls : Shared!ServerReplies(c)
  PROVE  OneAnswer'
<1> USE ClientFacts
<1>0. /\ toServer \in Seq(Calls) /\ toClient \in Seq(Shared!Message) /\ executing \in SUBSET Calls /\ refusing \in SUBSET Calls
      /\ Live => NothingLeft \/ OneLeft
  BY AtHandLeft DEF Shared!TypeOK
<1>1. UNCHANGED <<closed, lock, op, state>>
  BY DEF Shared!ServerReceives, Shared!ServerPushes, Shared!ServerReplies, Shared!clientVars
<1>2. Live' = Live BY <1>1 DEF Live
<1>3. OneLeft => Reads(lock)' BY <1>1 DEF OneLeft, Reads
<1>4. \A d \in Calls : Shared!Owed(d)' <=> op[d] \in Shared!Awaited /\ d \in Unanswered'
  BY <1>1 DEF Shared!Owed, Unanswered, Shared!InLink, Items
<1> DEFINE Goal == Live' => NothingLeft' \/ OneLeft'
<1>5. ASSUME AtHand' = AtHand, Unanswered' \subseteq Unanswered PROVE Goal
  <2>1. \A d \in Calls : Shared!Owed(d)' => Shared!Owed(d) BY <1>4, <1>5, OwedIs
  <2> QED BY <1>0, <1>1, <1>2, <1>3, <1>5, <2>1, AtHandKept
<1> HIDE DEF Goal
<1>6. ASSUME Shared!ServerReceives PROVE Goal
  <2>1. toServer # <<>> /\ toServer' = Tail(toServer) /\ toClient' = toClient
        /\ executing' \cup refusing' = executing \cup refusing \cup {Head(toServer)}
    BY <1>6 DEF Shared!ServerReceives, Shared!App!Execute, Shared!App!Refuse
  <2>2. Items(toServer) = {Head(toServer)} \cup Items(toServer') BY <1>0, <2>1, HeadAndTail
  <2>3. Unanswered' = Unanswered BY <2>1, <2>2 DEF Unanswered
  <2>4. AtHand' = AtHand BY <2>1 DEF AtHand
  <2> QED BY <1>5, <2>3, <2>4
<1>7. ASSUME Shared!ServerPushes PROVE Goal
  <2>1. toClient' = Append(toClient, Shared!Push) /\ UNCHANGED <<toServer, executing, refusing>>
    BY <1>7 DEF Shared!ServerPushes, Shared!serverVars
  <2>2. Shared!Push \in Shared!Message \ Response BY DEF Shared!Push, Shared!Message, Response
  <2>3. AtHand' = AtHand BY <1>0, <2>1, <2>2, AtHandCome DEF AtHand
  <2>4. Unanswered' = Unanswered BY <2>1 DEF Unanswered
  <2> QED BY <1>5, <2>3, <2>4
<1>8. ASSUME NEW c \in Calls, Shared!ServerReplies(c) PROVE Goal
  <2>1. PICK reply \in Shared!Replies(c) : toClient' = IF link = "up" THEN toClient \o reply ELSE toClient
    BY <1>8 DEF Shared!ServerReplies
  <2>2. /\ toServer' = toServer /\ c \in executing \cup refusing
        /\ executing' = executing \ {c} /\ refusing' = refusing \ {c}
    BY <1>8 DEF Shared!ServerReplies, Shared!App!Finish, Shared!App!Active
  <2>3. Unanswered' = Unanswered \ {c} /\ c \in Unanswered
    <3>1. c \notin Items(toServer) BY <2>2 DEF SentOnce, Known
    <3> QED BY <2>2, <3>1 DEF Unanswered
  <2>4. ASSUME toClient' = toClient PROVE Goal
    <3>1. AtHand' = AtHand BY <2>4 DEF AtHand
    <3> QED BY <1>5, <2>3, <3>1
  <2>5. CASE op[c] \notin Shared!Awaited
    <3>1. op[c] \notin {"batch", "notes"} BY <2>5 DEF Asked, Shared!Awaited
    <3>2. reply = <<>> BY <2>1, <2>5, <3>1 DEF Shared!Replies
    <3>3. toClient' = toClient BY <1>0, <2>1, <3>2
    <3> QED BY <2>4, <3>3
  <2>6. CASE op[c] \in Shared!Awaited /\ toClient' # toClient
    <3>1. PICK m \in Shared!Message : reply = <<m>> /\ m \in Response /\ Shared!Accepts(c, m)
      <4>1. c \in refusing \/ c \notin refusing OBVIOUS
      <4> DEFINE given == [kind |-> IF c \in refusing THEN "busy" ELSE "answer", re |-> c]
      <4>2. given \in Response /\ Shared!Accepts(c, given) BY DEF Response, Shared!Message, Shared!Accepts
      <4>3. op[c] = "batch" => Shared!Refusal \in Response /\ Shared!Accepts(c, Shared!Refusal)
        BY DEF Response, Shared!Message, Shared!Accepts, Shared!Refusal
      <4>4. reply = <<given>> \/ (op[c] = "batch" /\ reply = <<Shared!Refusal>>)
        <5>1. op[c] # "notes" BY <2>6 DEF Shared!Awaited
        <5> QED BY <2>1, <2>6, <5>1 DEF Shared!Replies
      <4> HIDE DEF given
      <4> QED BY <4>2, <4>3, <4>4 DEF Response
    <3>2. toClient' = Append(toClient, m) BY <1>0, <2>1, <2>6, <3>1, AtHandCome
    <3>3. AtHand' = Append(AtHand, m) BY <1>0, <3>1, <3>2, AtHandCome DEF AtHand
    <3>4. ASSUME Live PROVE OneLeft'
      <4>1. Shared!Owed(c) BY <2>3, <2>6, OwedIs
      <4>2. OneLeft /\ c = lock /\ AtHand = <<>> /\ \A d \in Calls : Shared!Owed(d) => d = lock
        BY <1>0, <3>4, <4>1 DEF NothingLeft, OneLeft
      <4>3. AtHand' = <<m>> BY <3>3, <4>2
      <4>4. \A d \in Calls : ~Shared!Owed(d)'
        <5>1. ASSUME NEW d \in Calls, Shared!Owed(d)' PROVE FALSE
          <6>1. Shared!Owed(d) /\ d # c BY <1>4, <2>3, <5>1, OwedIs
          <6> QED BY <4>2, <6>1
        <5> QED BY <5>1
      <4>5. lock' \in Calls /\ Reads(lock)' BY <1>1, <1>3, <4>2 DEF OneLeft
      <4>6. Shared!Accepts(lock, m)' BY <1>1, <3>1, <4>2 DEF Shared!Accepts
      <4> QED BY <3>1, <4>3, <4>4, <4>5, <4>6 DEF OneLeft
    <3> QED BY <1>2, <3>4 DEF Goal
  <2> QED BY <2>4, <2>5, <2>6
<1>9. Goal BY <1>6, <1>7, <1>8, Zenon
<1> QED BY <1>9, AtHandLeft, PTL DEF Goal

\* Every step keeps what is owed and at hand in order, and no reply is a wrong one.
LEMMA ClientAnswers ==
  ASSUME Shared!TypeOK, Locks, SentOnce, Asked, "notes" \notin Kinds, OneAnswer, NeverMismatched, Shared!Next
  PROVE  OneAnswer' /\ NeverMismatched'
<1>1. ASSUME NEW c \in Calls, Shared!ReceiveReply(c) \/ Shared!ReceivePush(c) \/ Shared!Listen(c)
      PROVE  OneAnswer' /\ NeverMismatched'
  BY <1>1, AtHandOfReader
<1>2. ASSUME ~\E c \in Calls : Shared!ReceiveReply(c) \/ Shared!Listen(c), NEW c \in Calls, ended'[c] = "mismatched"
      PROVE  ended[c] = "mismatched"
  <2>1. ended \in [Calls -> Shared!Outcome] BY DEF Shared!TypeOK
  <2>2. \/ ended' = ended \/ (\E d \in Calls, r \in {"ok", "broken", "gave up"} : ended' = [ended EXCEPT ![d] = r])
        \/ (\E d \in Calls : ended' = [ended EXCEPT ![d] = ended[d]])
        \/ (\E S \in SUBSET Calls : ended' = [d \in Calls |-> IF d \in S THEN "gave up" ELSE ended[d]])
    <3>1. ASSUME NEW d \in Calls, Shared!GiveUpExchange(d)
          PROVE  \E S \in SUBSET Calls : ended' = [e \in Calls |-> IF e \in S THEN "gave up" ELSE ended[e]]
      <4>1. Shared!Children(d) \cup {d} \in SUBSET Calls BY DEF Shared!Children
      <4> QED BY <3>1, <4>1 DEF Shared!GiveUpExchange
    <3>2. ASSUME NEW d \in Calls, Begins(d) \/ Shared!Resume(d) \/ Shared!Send(d) \/ Shared!Broken(d) \/ Shared!GiveUpWaiting(d)
          PROVE  ended' = ended \/ (\E r \in {"ok", "broken", "gave up"} : ended' = [ended EXCEPT ![d] = r])
      BY <3>2 DEF Begins, Shared!Begin, Shared!Enter, Shared!Resume, Shared!Send, Shared!Return, Shared!Broken, Shared!Abort,
        Shared!GiveUpWaiting
    <3>3. ASSUME NEW d \in Calls, Shared!Aborted(d) PROVE ended' = [ended EXCEPT ![d] = ended[d]]
      BY <3>3 DEF Shared!Aborted, Shared!Return
    <3>4. ASSUME \/ \E d \in Calls : Shared!ReceivePush(d) \/ Shared!Delivered(d) \/ Shared!ServerReplies(d)
                 \/ Shared!Connect \/ Shared!Close \/ Shared!LinkFails \/ Shared!ServerReceives \/ Shared!ServerPushes
          PROVE  ended' = ended
      BY <3>4 DEF Shared!ReceivePush, Shared!Delivered, Shared!ServerReplies, Shared!Connect, Shared!Close,
        Shared!LinkFails, Shared!ServerReceives, Shared!ServerPushes, Shared!clientVars
    <3> QED BY ClientCases, <1>2, <3>1, <3>2, <3>3, <3>4, Zenon
  <2> QED BY <1>2, <2>1, <2>2
<1>3. ASSUME ~\E c \in Calls : Shared!ReceiveReply(c) \/ Shared!Listen(c) PROVE NeverMismatched'
  BY <1>2, <1>3 DEF NeverMismatched, Shared!NeverMismatched
<1>4. ASSUME \/ \E c \in Calls : \/ Begins(c) \/ Shared!Resume(c) \/ Shared!Broken(c) \/ Shared!Delivered(c)
                                 \/ Shared!Aborted(c) \/ Shared!GiveUpWaiting(c)
             \/ Shared!Connect \/ Shared!Close \/ Shared!LinkFails
      PROVE OneAnswer'
  <2>1. UNCHANGED <<toClient, toServer, executing, refusing>>
    BY <1>4 DEF Begins, Shared!Begin, Shared!Resume, Shared!Broken, Shared!Delivered, Shared!Aborted, Shared!GiveUpWaiting,
      Shared!Connect, Shared!Close, Shared!LinkFails, Shared!channel, Shared!serverVars
  <2> QED BY <1>4, <2>1, AtHandUntouched
<1>5. ASSUME NEW c \in Calls, Shared!Send(c) \/ Shared!GiveUpExchange(c) PROVE OneAnswer'
  BY <1>5, AtHandOfSender
<1>6. ASSUME Shared!ServerReceives \/ Shared!ServerPushes \/ \E c \in Calls : Shared!ServerReplies(c) PROVE OneAnswer'
  BY <1>6, AtHandOfApp
<1>7. CASE \E c \in Calls : Shared!ReceiveReply(c) \/ Shared!Listen(c) BY <1>1, <1>7
<1>8. CASE ~\E c \in Calls : Shared!ReceiveReply(c) \/ Shared!Listen(c)
  <2>1. OneAnswer' BY ClientCases, <1>1, <1>4, <1>5, <1>6, <1>8, Zenon
  <2> QED BY <1>3, <1>8, <2>1
<1> QED BY <1>7, <1>8

\* The steps keep types, lock and messages, whatever the exchanges are.
ClientInv == Shared!TypeOK /\ Locks /\ SentOnce

\* Every step keeps types, lock and messages.
LEMMA ClientStep == ClientInv /\ [Shared!Next]_(Shared!vars) => ClientInv'
<1> SUFFICES ASSUME ClientInv, [Shared!Next]_(Shared!vars) PROVE ClientInv' OBVIOUS
<1>1. CASE Shared!Next BY <1>1, ClientTyped, ClientLocks, ClientSends DEF ClientInv
<1>2. CASE UNCHANGED Shared!vars
  <2> USE <1>2 DEF Shared!vars, Shared!clientVars, Shared!serverVars, Shared!channel, ClientInv
  <2>1. Shared!TypeOK' BY DEF Shared!TypeOK
  <2>2. Locks' BY DEF Locks, Shared!LockFollowsExchange
  <2>3. SentOnce' BY DEF SentOnce, Known
  <2> QED BY <2>1, <2>2, <2>3
<1> QED BY <1>1, <1>2

\* Without batches of notifications only, whose refusal nobody waits for, nothing is left behind.
CleanInv == ClientInv /\ Asked /\ OneAnswer /\ NeverMismatched
\* Nothing is owed at the start.
LEMMA CleanInit == Shared!Init => CleanInv
<1> SUFFICES ASSUME Shared!Init PROVE CleanInv OBVIOUS
<1>1. ClientInv BY ClientInit DEF ClientInv
<1>2. Asked BY DEF Shared!Init, Asked
<1>3. NeverMismatched BY DEF Shared!Init, NeverMismatched, Shared!NeverMismatched
<1>4. OneAnswer
  <2>1. AtHand = <<>> BY KeptEmpty DEF Shared!Init, AtHand
  <2>2. \A c \in Calls : ~Shared!Owed(c) BY DEF Shared!Init, Shared!Owed, Shared!Awaited
  <2> QED BY <2>1, <2>2 DEF OneAnswer
<1> QED BY <1>1, <1>2, <1>3, <1>4 DEF CleanInv

\* Every step keeps it so.
LEMMA CleanStep ==
  ASSUME "notes" \notin Kinds
  PROVE  CleanInv /\ [Shared!Next]_(Shared!vars) => CleanInv'
<1> SUFFICES ASSUME CleanInv, [Shared!Next]_(Shared!vars) PROVE CleanInv' OBVIOUS
<1>1. ClientInv' BY ClientStep DEF CleanInv
<1>2. CASE Shared!Next
  <2>1. Asked' BY <1>2, ClientAsks DEF CleanInv, ClientInv
  <2>2. OneAnswer' /\ NeverMismatched' BY <1>2, ClientAnswers DEF CleanInv, ClientInv
  <2> QED BY <1>1, <2>1, <2>2 DEF CleanInv
<1>3. CASE UNCHANGED Shared!vars
  <2> USE <1>3 DEF Shared!vars, Shared!clientVars, Shared!serverVars, Shared!channel
  <2>1. Asked' BY DEF Asked, CleanInv
  <2>2. NeverMismatched' BY DEF NeverMismatched, Shared!NeverMismatched, CleanInv
  <2>3. OneAnswer'
    <3>1. Live' = Live /\ AtHand' = AtHand /\ lock' = lock BY DEF Live, AtHand
    <3>2. \A c : Reads(c)' = Reads(c) /\ Shared!Owed(c)' = Shared!Owed(c) BY DEF Reads, Shared!Owed, Shared!InLink
    <3>3. OneLeft => Reads(lock)' /\ op'[lock] = op[lock] BY DEF OneLeft, Reads
    <3>4. (NothingLeft => NothingLeft') /\ (OneLeft => OneLeft') BY <3>1, <3>2, <3>3, AtHandKept
    <3>5. Live' => NothingLeft' \/ OneLeft' BY <3>1, <3>4, AtHandLeft DEF CleanInv
    <3> QED BY <3>5, AtHandLeft, PTL
  <2> QED BY <1>1, <2>1, <2>2, <2>3 DEF CleanInv
<1> QED BY <1>2, <1>3

\* The invariant gives what the run checks: no reply but the awaited one is in the channel.
LEMMA CleanMeans == CleanInv => ExchangesAccounted
<1> SUFFICES ASSUME CleanInv PROVE ExchangesAccounted OBVIOUS
<1>1. Shared!TypeOK /\ Shared!LockFollowsExchange BY DEF CleanInv, ClientInv, Locks
<1>2. ASSUME ~closed PROVE NothingLeft \/ OneLeft BY <1>2, AtHandLeft DEF CleanInv, Live
<1>3. toClient \in Seq(Shared!Message) /\ lock \in Calls \cup {Shared!Nobody} BY <1>1 DEF Shared!TypeOK
<1>4. ASSUME ~closed, NEW i \in 1..Len(toClient), toClient[i].kind # "push"
      PROVE  lock # Shared!Nobody /\ Shared!Accepts(lock, toClient[i])
  <2>1. toClient[i] \in Response BY <1>3, <1>4 DEF Response
  <2>2. Items(AtHand) = Items(toClient) \cap Response BY <1>3, KeptItems DEF AtHand
  <2>3. toClient[i] \in Items(AtHand) BY <1>4, <2>1, <2>2 DEF Items
  <2>4. AtHand # <<>> BY <2>3 DEF Items
  <2>5. PICK m \in Response : AtHand = <<m>> /\ Shared!Accepts(lock, m) /\ lock \in Calls
    BY <1>2, <1>4, <2>4 DEF NothingLeft, OneLeft
  <2>6. toClient[i] = m BY <2>3, <2>5 DEF Items
  <2> QED BY <2>5, <2>6, ClientFacts
<1>5. ASSUME ~closed, NEW c \in Calls, Shared!Owed(c) PROVE lock = c
  BY <1>2, <1>5 DEF NothingLeft, OneLeft
<1>6. Shared!ChannelClean BY <1>4, <1>5 DEF Shared!ChannelClean
<1> QED BY <1>1, <1>6 DEF ExchangesAccounted, Shared!ExchangesAccounted

\* For any number of exchanges of a shared client, any max_concurrency and however they end: the
\* lock is held by the exchange under way, and the channel of a usable client holds no reply but
\* the one that exchange waits for.  Batches of notifications only are excepted: the server's
\* refusal of one stays in the channel (client.py:210, 267-289).
THEOREM ExchangesAreAccounted ==
  ASSUME "notes" \notin Kinds
  PROVE  ClientSpec => []ExchangesAccounted
<1> QED BY CleanInit, CleanStep, CleanMeans, PTL DEF ClientSpec

\* With the same exception, no reply that is not its own closes the client (client.py:160-162).
THEOREM OnlyNotesMismatch ==
  ASSUME "notes" \notin Kinds
  PROVE  ClientSpec => []NeverMismatched
<1>1. CleanInv => NeverMismatched BY DEF CleanInv
<1> QED BY <1>1, CleanInit, CleanStep, PTL DEF ClientSpec

\* Who gives up waiting disturbs nobody.
LEMMA WaitersHarmless ==
  ASSUME ClientInv, Shared!Next, NEW c \in Calls, state[c] = "waiting", state'[c] = "done", parent[c] = Shared!Nobody
  PROVE  /\ UNCHANGED <<closed, Shared!channel>>
         /\ \A d \in Calls \ {c} : state'[d] = state[d]
<1> USE ClientFacts
<1>0. /\ state \in [Calls -> Shared!Exchanging \cup {"idle", "waiting", "done"}]
      /\ \A d \in Calls : state[d] = "waiting" => state[d] \notin Shared!Exchanging \cup {"idle"}
  BY DEF ClientInv, Shared!TypeOK, Shared!Exchanging
<1> DEFINE Goal == UNCHANGED <<closed, Shared!channel>> /\ \A d \in Calls \ {c} : state'[d] = state[d]
<1>1. ASSUME NEW d \in Calls, Begins(d) PROVE Goal
  <2>1. d # c BY <1>1 DEF Begins, Shared!Begin
  <2>2. \E a \in {"done", "sending", "receiving", "waiting"} : state' = [state EXCEPT ![d] = a]
    BY <1>1 DEF Begins, Shared!Begin, Shared!Enter
  <2> QED BY <1>0, <2>1, <2>2
<1>2. ASSUME NEW d \in Calls, Shared!Resume(d) \/ Shared!GiveUpWaiting(d) PROVE Goal
  <2>1. UNCHANGED <<closed, Shared!channel>> BY <1>2 DEF Shared!Resume, Shared!GiveUpWaiting
  <2>2. \E a \in {"done", "sending", "receiving"} : state' = [state EXCEPT ![d] = a]
    BY <1>2 DEF Shared!Resume, Shared!Enter, Shared!GiveUpWaiting
  <2>3. d = c BY <1>0, <2>2
  <2> QED BY <1>0, <2>1, <2>2, <2>3
<1>3. ASSUME NEW d \in Calls,
             \/ Shared!Send(d) \/ Shared!Broken(d) \/ Shared!ReceiveReply(d) \/ Shared!ReceivePush(d)
             \/ Shared!Delivered(d) \/ Shared!Listen(d) \/ Shared!Aborted(d)
      PROVE FALSE
  <2>1. state[d] \in Shared!Exchanging
    BY <1>3 DEF Shared!Send, Shared!Broken, Shared!ReceiveReply, Shared!ReceivePush, Shared!Delivered, Shared!Listen,
      Shared!Aborted, Shared!Exchanging
  <2>2. state' = state \/ \E a \in {"done", "receiving", "delivering", "aborting"} : state' = [state EXCEPT ![d] = a]
    BY <1>3 DEF Shared!Send, Shared!Broken, Shared!ReceiveReply, Shared!ReceivePush, Shared!Delivered, Shared!Listen,
      Shared!Aborted, Shared!Return, Shared!Abort
  <2> QED BY <1>0, <2>1, <2>2
<1>4. ASSUME NEW d \in Calls, Shared!GiveUpExchange(d) PROVE FALSE
  <2>1. state[d] \in Shared!Exchanging BY <1>4 DEF Shared!GiveUpExchange, Shared!Exchanging
  <2>2. c \notin Shared!Children(d) BY DEF Shared!Children
  <2>3. d # c BY <1>0, <2>1
  <2>4. state'[c] = state[c] BY <1>4, <2>2, <2>3 DEF Shared!GiveUpExchange
  <2> QED BY <2>4
<1>5. ASSUME \/ \E d \in Calls : Shared!ServerReplies(d)
             \/ Shared!Connect \/ Shared!Close \/ Shared!LinkFails \/ Shared!ServerReceives \/ Shared!ServerPushes
      PROVE FALSE
  BY <1>5 DEF Shared!ServerReplies, Shared!Connect, Shared!Close, Shared!LinkFails, Shared!ServerReceives,
    Shared!ServerPushes, Shared!clientVars
<1> HIDE DEF Goal
<1>6. Goal BY ClientCases, <1>1, <1>2, <1>3, <1>4, <1>5, Zenon
<1> QED BY <1>6 DEF Goal

\* Of any exchanges, batches of notifications only among them: a task that gives up to wait for the
\* lock, or finds the client closed, neither closes it nor disturbs another (client.py:267-270).
THEOREM WaitersAreHarmless == ClientSpec => HarmlessWaiters
<1>1. Shared!Init => ClientInv BY ClientInit DEF ClientInv
<1>2. ClientInv /\ [Shared!Next]_(Shared!vars) =>
        [\A c \in Calls : state[c] = "waiting" /\ state'[c] = "done" /\ parent[c] = Shared!Nobody
           => /\ UNCHANGED <<closed, Shared!channel>>
              /\ \A d \in Calls \ {c} : state'[d] = state[d]]_(Shared!vars)
  BY WaitersHarmless
<1> QED BY <1>1, <1>2, ClientStep, PTL DEF ClientSpec, HarmlessWaiters, Shared!HarmlessWaiters
=============================================================================
