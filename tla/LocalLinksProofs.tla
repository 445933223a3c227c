-------------------------- MODULE LocalLinksProofs --------------------------
(***************************************************************************)
(* Proofs about the transports that stay within a machine.  For any        *)
(* closers and any sizes of the pipes the parent of StdioLink behaves as   *)
(* StdioChild says, and so no child is forgotten that still runs; and      *)
(* frames arrive in each direction in order, once and whole.  For any      *)
(* number of messages and any limit ThreadChannel delivers what was sent,  *)
(* in order, before the end.                                               *)
(***************************************************************************)
EXTENDS MCLocalLinks, SubsequencesProofs

----------------------------------------------------------------------------
\* The closer that holds the lock has begun to stop a child that connect() made.
ClosersHoldChild ==
  /\ proc => connector = "connected"
  /\ connector = "connected" => child # "none"
  /\ \A c \in Closers : closer[c] \in Inside => proc /\ closing
  /\ \A c \in Closers : closer[c] = "drains" => child = "exited"

ChildInv == TypeOK /\ ClosersHoldChild /\ ForgottenChildExited /\ PipesOutliveOperations

\* The states in which a close() is under way, spelled out.
LEMMA InsideIsFinite ==
  /\ Inside = {"eof wait", "terminate wait", "kill wait", "operations", "abandoning", "kill", "last wait", "drains"}
  /\ Gathers = {"operations", "abandoning"}
BY DEF Inside, Waits, Gathers

\* A transport that was just made has no child.
LEMMA ChildInit == Init => ChildInv
BY NoneAssumption DEF Init, ChildInv, TypeOK, ClosersHoldChild, ForgottenChildExited,
   PipesOutliveOperations, Inside, Waits, Gathers

\* Steps that move no closer.
LEMMA ConnectorSteps ==
  ASSUME ChildInv, Connect \/ Spawn \/ Connected \/ ChildExits
  PROVE  ChildInv'
<1>. USE DEF ChildInv
<1>1. TypeOK' BY DEF TypeOK, Connect, Spawn, Connected, ChildExits
<1>2. ClosersHoldChild' BY DEF TypeOK, ClosersHoldChild, Connect, Spawn, Connected, ChildExits
<1>3. ForgottenChildExited'
  BY DEF ClosersHoldChild, ForgottenChildExited, Connect, Spawn, Connected, ChildExits
<1>4. UNCHANGED <<op, closer>> /\ (proc => proc')
  BY DEF Connect, Spawn, Connected, ChildExits
<1>5. PipesOutliveOperations' BY <1>4 DEF PipesOutliveOperations
<1>. QED BY <1>1, <1>2, <1>3, <1>5

\* What an operation on the pipes does: it touches neither the child nor the closers.
LEMMA OperationSteps ==
  ASSUME ChildInv, NEW o \in Operations,
         Operate(o) \/ Operated(o) \/ OperationFails(o) \/ OperationCancelled(o) \/ CleanupEnds(o)
  PROVE  ChildInv'
<1>. USE DEF ChildInv
<1>1. UNCHANGED <<connector, child, killed, proc, closing, holder, closer>>
  BY DEF Operate, Operated, OperationFails, OperationCancelled, CleanupEnds, process
<1>2. eof' \in BOOLEAN /\ op' \in [Operations -> {"idle", "pending", "cancelled", "cleanup"}]
  BY DEF TypeOK, Operate, Operated, OperationFails, OperationCancelled, CleanupEnds, process
<1>3. TypeOK' /\ ClosersHoldChild' /\ ForgottenChildExited'
  BY <1>1, <1>2 DEF TypeOK, ClosersHoldChild, ForgottenChildExited
<1>4. ASSUME NEW q \in Operations, op'[q] # "idle", op[q] = "idle"
      PROVE  proc /\ ~closing
  BY <1>4 DEF TypeOK, Operate, Operated, OperationFails, OperationCancelled, CleanupEnds
<1>5. PipesOutliveOperations'
  BY <1>1, <1>4 DEF PipesOutliveOperations, ClosersHoldChild
<1>. QED BY <1>3, <1>5

\* Where a step leaves a closer, and what becomes of the lock.
LEMMA LockMoves ==
  ASSUME TypeOK, NEW c \in Closers, NEW to \in {"idle", "lock"} \cup Inside \cup Ended, Goes(c, to),
         \/ closer[c] \in Inside /\ to \in Inside /\ holder' = holder
         \/ closer[c] \in Inside /\ to \notin Inside /\ holder' = None
         \/ closer[c] \notin Inside /\ to \in Inside /\ holder = None /\ holder' = c
         \/ closer[c] \notin Inside /\ to \notin Inside /\ holder' = holder
         \/ closer[c] \notin Inside /\ to \notin Inside /\ holder = None /\ holder' = None
  PROVE  /\ holder' \in Closers \cup {None}
         /\ closer' \in [Closers -> {"idle", "lock"} \cup Inside \cup Ended]
         /\ \A d \in Closers : closer'[d] \in Inside <=> holder' = d
         /\ \A d \in Closers : closer'[d] = IF d = c THEN to ELSE closer[d]
<1>1. \A d \in Closers : closer'[d] = IF d = c THEN to ELSE closer[d]
  BY DEF Goes, TypeOK
<1>2. closer' \in [Closers -> {"idle", "lock"} \cup Inside \cup Ended]
  BY DEF Goes, TypeOK
<1>3. holder' \in Closers \cup {None}
  BY DEF TypeOK
<1>4. ASSUME NEW d \in Closers PROVE closer'[d] \in Inside <=> holder' = d
  <2>1. d # None /\ c # None BY NoneAssumption
  <2>2. (closer[d] \in Inside <=> holder = d) /\ (closer[c] \in Inside <=> holder = c) BY DEF TypeOK
  <2>. QED BY <1>1, <2>1, <2>2
<1>. QED BY <1>1, <1>2, <1>3, <1>4

\* The steps of a closer.
LEMMA CloserSteps ==
  ASSUME ChildInv, NEW c \in Closers, Close(c) \/ Progress(c) \/ Cancelled(c) \/ Abandon(c)
  PROVE  ChildInv'
<1>. USE DEF ChildInv
<1>1. CASE Close(c)
  <2>1. Goes(c, "lock") /\ closer[c] = "idle" /\ UNCHANGED <<process, closing, holder, op>>
    BY <1>1 DEF Close, At
  <2>2. /\ holder' \in Closers \cup {None}
        /\ closer' \in [Closers -> {"idle", "lock"} \cup Inside \cup Ended]
        /\ \A d \in Closers : closer'[d] \in Inside <=> holder' = d
        /\ \A d \in Closers : closer'[d] = IF d = c THEN "lock" ELSE closer[d]
    BY <2>1, LockMoves, InsideIsFinite
  <2>. QED BY <2>1, <2>2, InsideIsFinite DEF TypeOK, ClosersHoldChild, ForgottenChildExited, PipesOutliveOperations, process
<1>2. CASE CloseBegins(c)
  <2>1. CASE proc
    <3>1. /\ Goes(c, "operations") /\ closer[c] = "lock" /\ holder = None /\ holder' = c /\ closing' = TRUE
          /\ op' = [o \in Operations |-> IF op[o] = "pending" THEN "cancelled" ELSE op[o]]
          /\ UNCHANGED process
      BY <1>2, <2>1 DEF CloseBegins, At
    <3>2. /\ holder' \in Closers \cup {None}
          /\ closer' \in [Closers -> {"idle", "lock"} \cup Inside \cup Ended]
          /\ \A d \in Closers : closer'[d] \in Inside <=> holder' = d
          /\ \A d \in Closers : closer'[d] = IF d = c THEN "operations" ELSE closer[d]
      BY <3>1, LockMoves, InsideIsFinite
    <3>3. \A o \in Operations : op'[o] # "idle" => op[o] # "idle" BY <3>1
    <3>4. op' \in [Operations -> {"idle", "pending", "cancelled", "cleanup"}] BY <3>1 DEF TypeOK
    <3>5. TypeOK' BY <3>1, <3>2, <3>4 DEF TypeOK, process
    <3>6. ClosersHoldChild' /\ ForgottenChildExited'
      BY <3>1, <3>2, <2>1 DEF ClosersHoldChild, ForgottenChildExited, process
    <3>7. PipesOutliveOperations'
      BY <3>1, <3>2, <3>3, InsideIsFinite DEF PipesOutliveOperations, process
    <3>. QED BY <3>5, <3>6, <3>7
  <2>2. CASE ~proc
    <3>1. /\ Goes(c, "done") /\ closer[c] = "lock" /\ holder = None /\ holder' = None /\ closing' = TRUE
          /\ UNCHANGED <<process, op>>
      BY <1>2, <2>2 DEF CloseBegins, At, Leaves
    <3>2. /\ holder' \in Closers \cup {None}
          /\ closer' \in [Closers -> {"idle", "lock"} \cup Inside \cup Ended]
          /\ \A d \in Closers : closer'[d] \in Inside <=> holder' = d
          /\ \A d \in Closers : closer'[d] = IF d = c THEN "done" ELSE closer[d]
      BY <3>1, LockMoves, InsideIsFinite DEF Ended
    <3>. QED BY <3>1, <3>2, InsideIsFinite DEF TypeOK, ClosersHoldChild, ForgottenChildExited, PipesOutliveOperations, process
  <2>. QED BY <2>1, <2>2
<1>3. CASE CloseStdin(c)
  <2>1. /\ Goes(c, "eof wait") /\ closer[c] = "operations" /\ eof' = TRUE /\ \A o \in Operations : op[o] = "idle"
        /\ UNCHANGED <<connector, child, killed, proc, closing, holder, op>>
    BY <1>3 DEF CloseStdin, At, TasksEnded
  <2>2. /\ holder' \in Closers \cup {None}
        /\ closer' \in [Closers -> {"idle", "lock"} \cup Inside \cup Ended]
        /\ \A d \in Closers : closer'[d] \in Inside <=> holder' = d
        /\ \A d \in Closers : closer'[d] = IF d = c THEN "eof wait" ELSE closer[d]
    BY <2>1, LockMoves, InsideIsFinite
  <2>. QED BY <2>1, <2>2, InsideIsFinite DEF TypeOK, ClosersHoldChild, ForgottenChildExited, PipesOutliveOperations
<1>4. ASSUME NEW to \in Inside \ (Gathers \cup {"drains"}), Goes(c, to), closer[c] \in Inside \ Gathers,
             killed' \in BOOLEAN, UNCHANGED <<connector, child, proc, eof, closing, holder, op>>
      PROVE  ChildInv'
  <2>2. /\ holder' \in Closers \cup {None}
        /\ closer' \in [Closers -> {"idle", "lock"} \cup Inside \cup Ended]
        /\ \A d \in Closers : closer'[d] \in Inside <=> holder' = d
        /\ \A d \in Closers : closer'[d] = IF d = c THEN to ELSE closer[d]
    BY <1>4, LockMoves, InsideIsFinite
  <2>. QED BY <1>4, <2>2, InsideIsFinite DEF TypeOK, ClosersHoldChild, ForgottenChildExited, PipesOutliveOperations
<1>5. ASSUME Goes(c, "drains"), closer[c] \in Inside \ Gathers, child # "running",
             UNCHANGED <<process, closing, holder, op>>
      PROVE  ChildInv'
  <2>1. child = "exited" BY <1>5 DEF TypeOK, ClosersHoldChild
  <2>2. /\ holder' \in Closers \cup {None}
        /\ closer' \in [Closers -> {"idle", "lock"} \cup Inside \cup Ended]
        /\ \A d \in Closers : closer'[d] \in Inside <=> holder' = d
        /\ \A d \in Closers : closer'[d] = IF d = c THEN "drains" ELSE closer[d]
    BY <1>5, LockMoves, InsideIsFinite
  <2>. QED BY <1>5, <2>1, <2>2, InsideIsFinite DEF TypeOK, ClosersHoldChild, ForgottenChildExited, PipesOutliveOperations, process
<1>6. CASE Exited(c) BY <1>5, <1>6, InsideIsFinite DEF Exited, Waits
<1>7. CASE Terminate(c) BY <1>4, <1>7, InsideIsFinite DEF Terminate, At, process, TypeOK
<1>8. CASE Kill(c) BY <1>4, <1>8, InsideIsFinite DEF Kill, At
<1>9. CASE Interrupted(c) BY <1>4, <1>9, InsideIsFinite DEF Interrupted, Waits, process, TypeOK
<1>10. CASE Finally(c)
  <2>1. CASE child = "running" BY <1>4, <1>10, <2>1, InsideIsFinite DEF Finally, At
  <2>2. CASE child # "running" BY <1>5, <1>10, <2>2, InsideIsFinite DEF Finally, At, process
  <2>. QED BY <2>1, <2>2
<1>11. CASE LastExited(c) BY <1>5, <1>11, InsideIsFinite DEF LastExited, At
<1>12. CASE LastTimesOut(c)
  <2>1. /\ Goes(c, "failed") /\ closer[c] = "last wait" /\ holder' = None
        /\ UNCHANGED <<process, closing, op>>
    BY <1>12 DEF LastTimesOut, At, Leaves
  <2>2. /\ holder' \in Closers \cup {None}
        /\ closer' \in [Closers -> {"idle", "lock"} \cup Inside \cup Ended]
        /\ \A d \in Closers : closer'[d] \in Inside <=> holder' = d
        /\ \A d \in Closers : closer'[d] = IF d = c THEN "failed" ELSE closer[d]
    <3>1. "failed" \in Ended /\ "failed" \notin Inside /\ closer[c] \in Inside
      BY <2>1, InsideIsFinite DEF Ended
    <3>. QED BY <2>1, <3>1, LockMoves
  <2>. QED BY <2>1, <2>2, InsideIsFinite DEF TypeOK, ClosersHoldChild, ForgottenChildExited, PipesOutliveOperations, process
<1>13. CASE Drained(c)
  <2>1. /\ Goes(c, "done") /\ closer[c] = "drains" /\ holder = c /\ holder' = None /\ proc' = FALSE /\ child = "exited"
        /\ UNCHANGED <<connector, child, killed, eof, closing, op>>
    BY <1>13, InsideIsFinite DEF Drained, At, Leaves, TypeOK, ClosersHoldChild
  <2>2. /\ holder' \in Closers \cup {None}
        /\ closer' \in [Closers -> {"idle", "lock"} \cup Inside \cup Ended]
        /\ \A d \in Closers : closer'[d] \in Inside <=> holder' = d
        /\ \A d \in Closers : closer'[d] = IF d = c THEN "done" ELSE closer[d]
    BY <2>1, LockMoves, InsideIsFinite DEF Ended
  <2>3. \A o \in Operations : op[o] = "idle" BY <2>1, InsideIsFinite DEF PipesOutliveOperations
  <2>4. \A d \in Closers : closer'[d] \notin Inside BY <2>1, <2>2, NoneAssumption
  <2>. QED BY <2>1, <2>2, <2>3, <2>4, InsideIsFinite DEF TypeOK, ClosersHoldChild, ForgottenChildExited, PipesOutliveOperations
<1>14. CASE Cancelled(c)
  <2>1. /\ Goes(c, "cancelled") /\ closer[c] \in {"lock", "drains"}
        /\ holder' = (IF holder = c THEN None ELSE holder)
        /\ UNCHANGED <<process, closing, op>>
    BY <1>14 DEF Cancelled
  <2>2. /\ holder' \in Closers \cup {None}
        /\ closer' \in [Closers -> {"idle", "lock"} \cup Inside \cup Ended]
        /\ \A d \in Closers : closer'[d] \in Inside <=> holder' = d
        /\ \A d \in Closers : closer'[d] = IF d = c THEN "cancelled" ELSE closer[d]
    <3>1. closer[c] \in Inside <=> holder = c BY DEF TypeOK
    <3>. QED BY <2>1, <3>1, LockMoves, InsideIsFinite DEF Ended
  <2>. QED BY <2>1, <2>2, InsideIsFinite DEF TypeOK, ClosersHoldChild, ForgottenChildExited, PipesOutliveOperations, process
<1>15. CASE Abandon(c)
  <2>1. /\ Goes(c, "abandoning") /\ closer[c] \in Gathers
        /\ op' = [o \in Operations |-> IF op[o] = "cleanup" THEN "idle" ELSE op[o]]
        /\ UNCHANGED <<process, closing, holder>>
    BY <1>15 DEF Abandon
  <2>2. /\ holder' \in Closers \cup {None}
        /\ closer' \in [Closers -> {"idle", "lock"} \cup Inside \cup Ended]
        /\ \A d \in Closers : closer'[d] \in Inside <=> holder' = d
        /\ \A d \in Closers : closer'[d] = IF d = c THEN "abandoning" ELSE closer[d]
    BY <2>1, LockMoves, InsideIsFinite
  <2>3. \A o \in Operations : op'[o] # "idle" => op[o] # "idle" BY <2>1
  <2>4. op' \in [Operations -> {"idle", "pending", "cancelled", "cleanup"}] BY <2>1 DEF TypeOK
  <2>5. TypeOK' BY <2>1, <2>2, <2>4 DEF TypeOK, process
  <2>6. ClosersHoldChild' /\ ForgottenChildExited'
    BY <2>1, <2>2, InsideIsFinite DEF ClosersHoldChild, ForgottenChildExited, process
  <2>7. PipesOutliveOperations'
    BY <2>1, <2>2, <2>3, InsideIsFinite DEF PipesOutliveOperations, process
  <2>. QED BY <2>5, <2>6, <2>7
<1>16. CASE Abandoned(c)
  <2>1. /\ Goes(c, "cancelled") /\ closer[c] = "abandoning" /\ holder' = None
        /\ UNCHANGED <<process, closing, op>>
    BY <1>16 DEF Abandoned, At, Leaves
  <2>2. /\ holder' \in Closers \cup {None}
        /\ closer' \in [Closers -> {"idle", "lock"} \cup Inside \cup Ended]
        /\ \A d \in Closers : closer'[d] \in Inside <=> holder' = d
        /\ \A d \in Closers : closer'[d] = IF d = c THEN "cancelled" ELSE closer[d]
    <3>1. "cancelled" \in Ended /\ "cancelled" \notin Inside /\ closer[c] \in Inside
      BY <2>1, InsideIsFinite DEF Ended
    <3>. QED BY <2>1, <3>1, LockMoves
  <2>. QED BY <2>1, <2>2, InsideIsFinite DEF TypeOK, ClosersHoldChild, ForgottenChildExited, PipesOutliveOperations, process
<1>. QED BY <1>1, <1>2, <1>3, <1>6, <1>7, <1>8, <1>9, <1>10, <1>11, <1>12, <1>13, <1>14, <1>15, <1>16 DEF Progress

\* Every step of the parent's transport keeps the invariant of its child.
LEMMA ChildStep == ChildInv /\ [Next]_vars => ChildInv'
<1>. SUFFICES ASSUME ChildInv, [Next]_vars PROVE ChildInv'
  OBVIOUS
<1>1. CASE Connect \/ Spawn \/ Connected \/ ChildExits BY <1>1, ConnectorSteps
<1>2. CASE \E o \in Operations : Operate(o) \/ Operated(o) \/ OperationFails(o) \/ OperationCancelled(o) \/ CleanupEnds(o)
  BY <1>2, OperationSteps
<1>3. CASE \E c \in Closers : Close(c) \/ Progress(c) \/ Cancelled(c) \/ Abandon(c) BY <1>3, CloserSteps
<1>4. CASE UNCHANGED vars
  BY <1>4 DEF vars, process, ChildInv, TypeOK, ClosersHoldChild, ForgottenChildExited, PipesOutliveOperations
<1>. QED BY <1>1, <1>2, <1>3, <1>4 DEF Next

\* For any closers and operations: whatever times out or is cancelled, the parent's
\* transport forgets a child only when it has exited, and no operation is under
\* way on pipes that close() has released (StdIoTransport.close, stdio.py:150).
THEOREM ChildSupervised == Spec => [](TypeOK /\ ForgottenChildExited /\ PipesOutliveOperations)
<1>1. ChildInv => TypeOK /\ ForgottenChildExited /\ PipesOutliveOperations BY DEF ChildInv
<1>. QED BY ChildInit, ChildStep, <1>1, PTL DEF Spec

----------------------------------------------------------------------------
\* Every step of StdioLink is one of StdioChild, or none of its.
LEMMA LinkStepIsChildStep == [LinkNext]_linkVars => [Next]_vars
<1>. SUFFICES ASSUME [LinkNext]_linkVars PROVE [Next]_vars
  OBVIOUS
<1>. RecvTask \in Operations /\ SendTask \in Operations BY OperationsAssumption
<1>1. CASE Supervision
  <2>1. CASE Connect \/ Spawn \/ Connected BY <2>1 DEF Next
  <2>2. CASE \E c \in Closers :
          \/ Close(c) \/ CloseBegins(c) \/ CloseStdin(c) \/ Exited(c) \/ Finally(c) \/ LastExited(c) \/ Drained(c)
          \/ Terminate(c) \/ Kill(c) \/ Interrupted(c) \/ LastTimesOut(c) \/ Cancelled(c)
          \/ Abandon(c) \/ Abandoned(c)
    BY <2>2 DEF Next, Progress
  <2>3. CASE \E o \in Operations : CleanupEnds(o) BY <2>3 DEF Next
  <2>. QED BY <1>1, <2>1, <2>2, <2>3 DEF Supervision
<1>2. CASE ParentSteps
  <2>1. CASE SendRequest BY <2>1 DEF SendRequest, Next
  <2>2. CASE SendDone BY <2>2 DEF SendDone, Next
  <2>3. CASE AwaitReply BY <2>3 DEF AwaitReply, Next
  <2>4. CASE ReadReply BY <2>4 DEF ReadReply, Next
  <2>5. CASE \E o \in Operations : ParentFails(o) BY <2>5 DEF ParentFails, Next
  <2>. QED BY <1>2, <2>1, <2>2, <2>3, <2>4, <2>5 DEF ParentSteps
<1>3. CASE Discard \/ ParentDies \/ PumpReads \/ Feed
  BY <1>3 DEF Discard, ParentDies, PumpReads, Feed
<1>4. CASE Program
  <2>1. CASE Leave BY <2>1 DEF Leave, Next
  <2>. QED BY <1>4, <2>1
    DEF Program, HearHeader, HearPayload, HearFails, Reply, HandlerEnds, Drain, DrainFails, CloseStdout
<1>5. CASE Writer BY <1>5 DEF Writer, WriterWrites, WriterEnds
<1>6. CASE Dies BY <1>6 DEF Dies, Next
<1>7. CASE UNCHANGED linkVars BY <1>7 DEF linkVars
<1>. QED BY <1>1, <1>2, <1>3, <1>4, <1>5, <1>6, <1>7 DEF LinkNext

\* With the pipes, the child's threads and its program around it, the parent's
\* transport does what StdioChild lets it do: what holds of the one holds of the other.
THEOREM LinkImplementsChild == LinkSpec => Spec
<1>1. LinkInit => Init BY DEF LinkInit
<1>. QED BY <1>1, LinkStepIsChildStep, PTL DEF LinkSpec, Spec

----------------------------------------------------------------------------
\* The types of what is under way to the parent.
Parts == [is : {"header", "payload", "end"}, n : Nat]
OutputTyped == output \in Seq(Parts) /\ queue \in Seq(Parts) /\ replied \in Nat

LinkInv == ChildInv /\ LinkTypeOK /\ OutputTyped

\* The invariant of the connection holds before spawn.
LEMMA LinkInvInit == LinkInit => LinkInv
<1>. SUFFICES ASSUME LinkInit PROVE LinkInv
  OBVIOUS
<1>1. ChildInv BY ChildInit DEF LinkInit
<1>2. OutputTyped BY DEF LinkInit, OutputTyped
<1>3. Len(output) <= PipeSize
  <2>1. output = <<>> /\ PipeSize \in Nat BY SizesAssumption DEF LinkInit
  <2>. QED BY <2>1
<1>4. loop = "none" /\ child = "none" BY DEF LinkInit, Init
<1>5. LinkTypeOK BY <1>1, <1>3, <1>4 DEF LinkInit, LinkTypeOK, ChildInv
<1>. QED BY <1>1, <1>2, <1>5 DEF LinkInv

\* A part is appended only where there is room.
LEMMA OutputStep ==
  ASSUME OutputTyped, Len(output) <= PipeSize, [LinkNext]_linkVars
  PROVE  OutputTyped' /\ Len(output') <= PipeSize
<1>. PipeSize \in Nat BY SizesAssumption
<1>. USE DEF OutputTyped
<1>1. CASE UNCHANGED <<output, queue, replied>> BY <1>1
<1>2. CASE output # <<>> /\ output' = Tail(output) /\ UNCHANGED <<queue, replied>> BY <1>2
<1>3. CASE Shuts /\ UNCHANGED <<output, replied>>
  <2>1. End \in Parts BY DEF End, Part, Parts
  <2>. QED BY <1>3, <2>1 DEF Shuts
<1>4. CASE Reply
  <2>1. \A n \in Nat : Frame(n) \in Seq(Parts) BY DEF Frame, Part, Parts
  <2>2. replied' \in Nat /\ queue' = queue \o Frame(replied') /\ output' = output BY <1>4 DEF Reply
  <2>. QED BY <2>1, <2>2
<1>5. CASE WriterWrites
  <2>1. queue # <<>> /\ queue' = Tail(queue) /\ replied' = replied BY <1>5 DEF WriterWrites
  <2>2. queue' \in Seq(Parts) /\ Head(queue) \in Parts BY <2>1
  <2>3. \/ output' = output
        \/ Len(output) < PipeSize /\ output' = Append(output, Head(queue))
    BY <1>5 DEF WriterWrites
  <2>. QED BY <2>1, <2>2, <2>3
<1>6. CASE WriterEnds BY <1>6 DEF WriterEnds
<1>7. CASE Supervision BY <1>1, <1>7 DEF Supervision, stdout
<1>8. CASE ParentSteps
  BY <1>1, <1>2, <1>8 DEF ParentSteps, SendRequest, SendDone, AwaitReply, ReadReply, ParentFails, childSide, stdout
<1>9. CASE Discard \/ ParentDies \/ PumpReads \/ Feed \/ Dies
  BY <1>1, <1>2, <1>9 DEF Discard, ParentDies, PumpReads, Feed, Dies, childSide, stdout
<1>10. CASE HearHeader \/ HearPayload \/ HandlerEnds \/ Drain \/ Leave
  BY <1>1, <1>10 DEF HearHeader, HearPayload, HandlerEnds, Drain, Leave, stdout
<1>11. CASE HearFails \/ DrainFails \/ CloseStdout
  BY <1>1, <1>3, <1>11 DEF HearFails, DrainFails, CloseStdout
<1>12. CASE UNCHANGED linkVars BY <1>1, <1>12 DEF linkVars, childSide, stdout
<1>. QED BY <1>4, <1>5, <1>6, <1>7, <1>8, <1>9, <1>10, <1>11, <1>12 DEF LinkNext, Program, Writer

\* The program runs while the child does.
LoopRuns == loop \in {"none", "exited"} <=> child # "running"
LoopAt == loop \in {"none", "recv", "payload", "handling", "hung", "draining", "closing", "flushing", "exited"}

\* The steps of the child's event loop.
LEMMA LoopStep ==
  ASSUME LinkInv, [LinkNext]_linkVars
  PROVE  LoopRuns' /\ LoopAt'
<1>. LoopRuns /\ LoopAt /\ child \in {"none", "running", "exited"}
  BY DEF LinkInv, LinkTypeOK, LoopRuns, LoopAt, TypeOK
<1>. USE DEF LoopRuns, LoopAt
<1>1. CASE UNCHANGED <<loop, child>> BY <1>1
<1>2. CASE ChildExits /\ loop' = "exited" BY <1>2 DEF ChildExits
<1>3. CASE Supervision
  <2>1. CASE Spawn BY <1>3, <2>1 DEF Supervision, Spawn
  <2>2. CASE UNCHANGED child BY <1>3, <2>2 DEF Supervision
  <2>3. UNCHANGED child \/ Spawn
    BY <1>3 DEF Supervision, Connect, Connected, Close, CloseBegins, CloseStdin, Exited, Finally, LastExited,
      Drained, Terminate, Kill, Interrupted, LastTimesOut, Cancelled, Abandon, Abandoned, CleanupEnds, process
  <2>. QED BY <2>1, <2>2, <2>3
<1>4. CASE ParentSteps
  BY <1>1, <1>4 DEF ParentSteps, SendRequest, SendDone, AwaitReply, ReadReply, ParentFails, childSide,
    Operate, Operated, OperationFails, OperationCancelled, process, vars
<1>5. CASE Discard \/ ParentDies \/ PumpReads \/ Feed \/ Writer
  BY <1>1, <1>5 DEF Discard, ParentDies, PumpReads, Feed, Writer, WriterWrites, WriterEnds, childSide, vars, process
<1>6. CASE Leave \/ Dies BY <1>2, <1>6 DEF Leave, Dies, Moves
<1>7. CASE HearHeader \/ HearPayload \/ HearFails \/ Reply \/ HandlerEnds \/ Drain \/ DrainFails \/ CloseStdout
  BY <1>7 DEF HearHeader, HearPayload, HearFails, Reply, HandlerEnds, Drain, DrainFails, CloseStdout, Moves, vars, process
<1>8. CASE UNCHANGED linkVars BY <1>1, <1>8 DEF linkVars, childSide, vars, process
<1>. QED BY <1>3, <1>4, <1>5, <1>6, <1>7, <1>8 DEF LinkNext, Program

\* Every step of the connection keeps its invariant.
LEMMA LinkInvStep == LinkInv /\ [LinkNext]_linkVars => LinkInv'
<1>. SUFFICES ASSUME LinkInv, [LinkNext]_linkVars PROVE LinkInv'
  OBVIOUS
<1>1. ChildInv' BY LinkStepIsChildStep, ChildStep DEF LinkInv
<1>2. OutputTyped' /\ Len(output') <= PipeSize BY OutputStep DEF LinkInv, LinkTypeOK
<1>3. LoopRuns' /\ LoopAt' BY LoopStep
<1>4. /\ patient' \in BOOLEAN /\ alive' \in BOOLEAN /\ half' \in BOOLEAN
      /\ pump' \in {"reading", "ended"}
      /\ shut' \in BOOLEAN /\ broken' \in BOOLEAN /\ finished' \in BOOLEAN
  <2>. /\ patient \in BOOLEAN /\ alive \in BOOLEAN /\ half \in BOOLEAN
       /\ pump \in {"reading", "ended"}
       /\ shut \in BOOLEAN /\ broken \in BOOLEAN /\ finished \in BOOLEAN
    BY DEF LinkInv, LinkTypeOK
  <2>1. CASE Supervision BY <2>1 DEF Supervision, parentSide, stdin, stdout
  <2>2. CASE ParentSteps
    <3>1. UNCHANGED <<patient, alive, childSide>>
      BY <2>2 DEF ParentSteps, SendRequest, SendDone, AwaitReply, ReadReply, ParentFails
    <3>2. half' \in BOOLEAN
      BY <2>2, OperationsAssumption DEF ParentSteps, SendRequest, SendDone, AwaitReply, ReadReply, ParentFails, parentSide
    <3>. QED BY <3>1, <3>2 DEF childSide, stdin, stdout
  <2>3. CASE Discard \/ ParentDies \/ PumpReads \/ Feed \/ Writer \/ Dies
    BY <2>3 DEF Discard, ParentDies, PumpReads, Feed, Writer, WriterWrites, WriterEnds, Dies, childSide, parentSide, stdin, stdout
  <2>4. CASE HearHeader \/ HearPayload \/ HandlerEnds \/ Reply \/ Drain \/ Leave
    BY <2>4 DEF HearHeader, HearPayload, HandlerEnds, Reply, Drain, Leave, parentSide, stdin, stdout
  <2>5. CASE HearFails \/ DrainFails \/ CloseStdout
    BY <2>5 DEF HearFails, DrainFails, CloseStdout, Shuts, parentSide, stdin
  <2>6. CASE UNCHANGED linkVars BY <2>6 DEF linkVars, childSide, parentSide, stdin, stdout
  <2>. QED BY <2>1, <2>2, <2>3, <2>4, <2>5, <2>6 DEF LinkNext, Program
<1>5. LinkTypeOK' BY <1>1, <1>2, <1>3, <1>4 DEF ChildInv, LinkTypeOK, LoopRuns, LoopAt
<1>. QED BY <1>1, <1>2, <1>5 DEF LinkInv

\* For any sizes of the pipes and any number of frames, also when the parent crashes
\* or the child dies: no child is forgotten that runs, operations have their
\* pipes, and the program of the child ends exactly when the child does.
THEOREM ConnectionSupervised == LinkSpec => []LinkSupervised
<1>1. LinkInv => LinkSupervised BY DEF LinkInv, ChildInv, LinkSupervised
<1>. QED BY LinkInvInit, LinkInvStep, <1>1, PTL DEF LinkSpec

----------------------------------------------------------------------------
(***************************************************************************)
(* The frames of the connection.  The parts that the parent writes are a    *)
(* line of numbered positions: what the child has read, what its reader     *)
(* holds, what the thread has handed over and what is in the pipe are       *)
(* consecutive runs of it, as long as the child may still read; the same    *)
(* in the other direction.  So every part that is read is the next one.     *)
(***************************************************************************)
\* Position x of a line is the end after n parts, else the header or the payload of a frame.
Line(n) ==
  [x \in Nat |-> IF x = n + 1 THEN End ELSE Part(IF x % 2 = 1 THEN "header" ELSE "payload", (x + 1) \div 2)]

\* How many parts either program has read of what the other one writes.
HeardParts == 2 * Len(heard) + (IF loop = "payload" THEN 1 ELSE 0)
AnsweredParts == 2 * Len(answers) + (IF half THEN 1 ELSE 0)

\* While the child may read, its three stores hold what it has not read yet of
\* what the parent has written, in order, and then the end.
Reading == loop \notin {"closing", "flushing", "exited"}
FlowsIn ==
  Reading =>
    \E j, k \in Nat :
      /\ IsRun(buffer, Line(2 * asked), HeardParts, j)
      /\ IsRun(posted, Line(2 * asked), j, k)
      /\ IsRun(input, Line(2 * asked), k, 2 * asked + (IF pump = "ended" THEN 1 ELSE 0))
      /\ pump = "ended" => input = <<>>

\* While the parent may read, so do the pipe and, unless it fails, the writer.
MayRead == ~eof \/ op[RecvTask] = "pending"
FlowsOut ==
  MayRead =>
    \E k \in Nat :
      /\ k <= 2 * replied /\ IsRun(output, Line(2 * replied), AnsweredParts, k)
      /\ ~broken => \E e \in {0, 1} : (e = 1 => shut) /\ IsRun(queue, Line(2 * replied), k, 2 * replied + e)

\* Who has got to waiting for the child has closed its stdin; the end is read only
\* then; and there is no program before there is a child.
Orderly ==
  /\ \A c \in Closers : closer[c] \in Inside \ Gathers => eof
  /\ pump = "ended" => InputEnded
  /\ child = "none" => loop = "none"

FlowsTyped ==
  /\ input \in Seq(Parts) /\ posted \in Seq(Parts) /\ buffer \in Seq(Parts)
  /\ heard \in Seq(Nat) /\ answers \in Seq(Nat) /\ asked \in Nat

FlowInv == LinkInv /\ FlowsTyped /\ Orderly /\ FlowsIn /\ FlowsOut

\* The parts of frame m + 1, and the end.
LEMMA LineParts ==
  ASSUME NEW n \in Nat
  PROVE  /\ \A x \in Nat : Line(n)[x] \in Parts
         /\ Line(n)[n + 1] = End
         /\ \A m \in Nat : 2 * m + 1 # n + 1 => Line(n)[2 * m + 1] = Part("header", m + 1)
         /\ \A m \in Nat : 2 * m + 2 # n + 1 => Line(n)[2 * m + 2] = Part("payload", m + 1)
<1>1. \A x \in Nat : (x + 1) \div 2 \in Nat OBVIOUS
<1>2. \A m \in Nat : (2 * m + 1) % 2 = 1 /\ ((2 * m + 1) + 1) \div 2 = m + 1 OBVIOUS
<1>3. \A m \in Nat : (2 * m + 2) % 2 # 1 /\ ((2 * m + 2) + 1) \div 2 = m + 1 OBVIOUS
<1>4. \A m \in Nat : 2 * m + 1 \in Nat /\ 2 * m + 2 \in Nat OBVIOUS
<1>5. \A x \in Nat : Line(n)[x] \in Parts BY <1>1 DEF Line, Parts, Part, End
<1>6. Line(n)[n + 1] = End BY DEF Line
<1>7. ASSUME NEW m \in Nat, 2 * m + 1 # n + 1 PROVE Line(n)[2 * m + 1] = Part("header", m + 1)
  BY <1>2, <1>4, <1>7 DEF Line
<1>8. ASSUME NEW m \in Nat, 2 * m + 2 # n + 1 PROVE Line(n)[2 * m + 2] = Part("payload", m + 1)
  BY <1>3, <1>4, <1>8 DEF Line
<1> QED BY <1>5, <1>6, <1>7, <1>8

\* Two lines are the same as far as the shorter one goes.
LEMMA LineSame ==
  ASSUME NEW n \in Nat, NEW m \in Nat
  PROVE  \A x \in Nat : x <= n /\ x <= m => Line(n)[x] = Line(m)[x]
BY DEF Line

\* A frame more at the end of a run.
LEMMA RunFrame ==
  ASSUME NEW n \in Nat, NEW s \in Seq(Parts), NEW i \in Nat, IsRun(s, Line(2 * n), i, 2 * n)
  PROVE  s \o Frame(n + 1) \in Seq(Parts) /\ IsRun(s \o Frame(n + 1), Line(2 * (n + 1)), i, 2 * (n + 1))
<1> DEFINE f == Line(2 * (n + 1))
           h == Part("header", n + 1)
           p == Part("payload", n + 1)
<1>0. 2 * n \in Nat /\ 2 * (n + 1) \in Nat /\ 2 * n + 1 \in Nat /\ (2 * n + 1) + 1 = 2 * n + 2 /\ 2 * (n + 1) = 2 * n + 2 OBVIOUS
<1>1. \A x \in Nat : x <= 2 * n => f[x] = Line(2 * n)[x] BY <1>0, LineSame
<1>2. f[2 * n + 1] = h /\ f[2 * n + 2] = p
  <2>1. 2 * n + 1 # 2 * (n + 1) + 1 /\ 2 * n + 2 # 2 * (n + 1) + 1 OBVIOUS
  <2> QED BY <1>0, <2>1, LineParts
<1>3. h \in Parts /\ p \in Parts BY DEF Part, Parts
<1>4. s \o Frame(n + 1) = Append(Append(s, h), p) BY <1>3, AppendTwo DEF Frame
<1> HIDE DEF f, h, p
<1>5. IsRun(s, f, i, 2 * n) BY <1>0, <1>1, RunSame
<1>6. Append(s, h) \in Seq(Parts) /\ IsRun(Append(s, h), f, i, 2 * n + 1) BY <1>0, <1>2, <1>3, <1>5, RunAppend
<1>7. Append(Append(s, h), p) \in Seq(Parts) /\ IsRun(Append(Append(s, h), p), f, i, (2 * n + 1) + 1)
  BY <1>0, <1>2, <1>3, <1>6, RunAppend
<1> QED BY <1>0, <1>4, <1>7 DEF f

\* Before spawn nothing is on its way.
LEMMA FlowInit == LinkInit => FlowInv
<1> SUFFICES ASSUME LinkInit PROVE FlowInv OBVIOUS
<1>1. LinkInv BY LinkInvInit
<1>2. FlowsTyped BY DEF LinkInit, FlowsTyped
<1>3. Orderly BY InsideIsFinite DEF LinkInit, Init, Orderly
<1>4. \A f : IsRun(<<>>, f, 0, 0) BY DEF IsRun
<1>5. FlowsIn
  <2>1. HeardParts = 0 /\ 2 * asked + (IF pump = "ended" THEN 1 ELSE 0) = 0 BY DEF LinkInit, HeardParts
  <2> QED BY <1>4, <2>1 DEF LinkInit, FlowsIn
<1>6. FlowsOut
  <2>1. AnsweredParts = 0 /\ 2 * replied = 0 /\ 2 * replied + 0 = 0 BY DEF LinkInit, AnsweredParts
  <2> QED BY <1>4, <2>1 DEF LinkInit, FlowsOut
<1> QED BY <1>1, <1>2, <1>3, <1>5, <1>6 DEF FlowInv

\* A stdin that is closed stays closed, and nobody waits for the child before.
LEMMA OrderlyStep ==
  ASSUME FlowInv, [LinkNext]_linkVars
  PROVE  Orderly' /\ (eof => eof') /\ (~alive => ~alive')
<1>0. [Next]_vars BY LinkStepIsChildStep
<1>1. TypeOK /\ Orderly BY DEF FlowInv, LinkInv, LinkTypeOK
<1>2. eof => eof'
  BY <1>0, <1>1 DEF Next, vars, process, Connect, Spawn, Connected, ChildExits, Operate, Operated, OperationFails,
    OperationCancelled, CleanupEnds, Abandon, Abandoned, Close, Progress, CloseBegins, CloseStdin, Exited, Terminate, Kill, Interrupted, Finally,
    LastExited, LastTimesOut, Drained, Cancelled
<1>3. ~alive => ~alive'
  BY <1>1 DEF LinkNext, linkVars, Supervision, ParentSteps, Discard, ParentDies, PumpReads, Feed, Program, HearHeader,
    HearPayload, HearFails, Reply, HandlerEnds, Drain, DrainFails, CloseStdout, Leave, Writer, WriterWrites, WriterEnds, Dies
<1>4. ASSUME NEW c \in Closers, closer'[c] \in Inside \ Gathers PROVE eof'
  <2>1. closer[c] \in Inside \ Gathers \/ eof'
    <3>1. CASE UNCHANGED closer BY <1>4, <3>1
    <3>2. CASE \E d \in Closers : Close(d) \/ Progress(d) \/ Cancelled(d) \/ Abandon(d)
      <4>1. PICK d \in Closers : Close(d) \/ Progress(d) \/ Cancelled(d) \/ Abandon(d) BY <3>2
      <4>2. closer \in [Closers -> {"idle", "lock"} \cup Inside \cup Ended] BY <1>1 DEF TypeOK
      <4>3. CASE d # c
        <5>1. closer'[c] = closer[c]
          BY <4>1, <4>2, <4>3 DEF Goes, Leaves, Close, Progress, CloseBegins, CloseStdin, Exited, Terminate, Kill, Interrupted, Finally,
            LastExited, LastTimesOut, Drained, Cancelled, Abandon, Abandoned
        <5> QED BY <1>4, <5>1
      <4>4. CASE d = c
        <5>1. CASE Close(c) \/ CloseBegins(c) \/ LastTimesOut(c) \/ Drained(c) \/ Cancelled(c) \/ Abandon(c)
                \/ Abandoned(c)
          <6>1. closer'[c] \in {"lock", "operations", "abandoning", "done", "failed", "cancelled"}
            BY <4>2, <5>1 DEF Goes, Leaves, Close, CloseBegins, LastTimesOut, Drained, Cancelled, Abandon, Abandoned
          <6> QED BY <1>4, <6>1, InsideIsFinite
        <5>2. CASE CloseStdin(c) BY <5>2 DEF CloseStdin
        <5>3. CASE Exited(c) \/ Terminate(c) \/ Kill(c) \/ Interrupted(c) \/ Finally(c) \/ LastExited(c)
          BY <5>3, InsideIsFinite DEF At, Exited, Terminate, Kill, Interrupted, Finally, LastExited, Waits
        <5> QED BY <4>1, <4>4, <5>1, <5>2, <5>3 DEF Progress
      <4> QED BY <4>3, <4>4
    <3> QED BY <1>0, <3>1, <3>2 DEF Next, vars, Connect, Spawn, Connected, ChildExits, Operate, Operated, OperationFails, OperationCancelled,
      CleanupEnds
  <2> QED BY <1>1, <1>2, <2>1 DEF Orderly
<1>5. pump' = "ended" => InputEnded'
  <2>1. pump' = pump \/ InputEnded
    BY DEF LinkNext, linkVars, childSide, stdin, Supervision, ParentSteps, SendRequest, SendDone, AwaitReply, ReadReply, ParentFails,
      Discard, ParentDies, PumpReads, Feed, Program, HearHeader,
      HearPayload, HearFails, Reply, HandlerEnds, Drain, DrainFails, CloseStdout, Leave, Writer, WriterWrites, WriterEnds, Dies
  <2> QED BY <1>1, <1>2, <1>3, <2>1 DEF Orderly, InputEnded
<1>6. child' = "none" => loop' = "none"
  <2> SUFFICES ASSUME child' = "none" PROVE loop' = "none" OBVIOUS
  <2>1. child = "none"
    BY <1>0 DEF Next, vars, process, Connect, Spawn, Connected, ChildExits, Operate, Operated, OperationFails,
      OperationCancelled, CleanupEnds, Abandon, Abandoned, Close, Progress, CloseBegins, CloseStdin, Exited, Terminate, Kill, Interrupted, Finally,
      LastExited, LastTimesOut, Drained, Cancelled
  <2>2. loop = "none" BY <1>1, <2>1 DEF Orderly
  <2>3. UNCHANGED loop
    BY <2>1, <2>2 DEF LinkNext, linkVars, childSide, Supervision, ParentSteps, SendRequest, SendDone, AwaitReply, ReadReply, ParentFails,
      Discard, ParentDies, PumpReads, Feed, Program, HearHeader,
      HearPayload, HearFails, Reply, HandlerEnds, Drain, DrainFails, CloseStdout, Leave, Writer, WriterWrites, WriterEnds, Dies, ChildExits
  <2> QED BY <2>2, <2>3
<1> QED BY <1>2, <1>3, <1>4, <1>5, <1>6 DEF Orderly

Hears == <<asked, heard, input, pump, posted, buffer>>

\* What touches neither the stores of the child nor its place in a frame.
LEMMA FlowsInSame ==
  ASSUME FlowInv, UNCHANGED Hears, Reading' => Reading /\ (loop' = "payload" <=> loop = "payload")
  PROVE  FlowsIn'
<1> SUFFICES ASSUME Reading' PROVE FlowsIn' BY DEF FlowsIn
<1>1. HeardParts' = HeardParts BY DEF Hears, HeardParts
<1>2. FlowsIn /\ Reading BY DEF FlowInv
<1> QED BY <1>1, <1>2 DEF FlowsIn, Hears

\* The parent sends.
LEMMA FlowsInSend ==
  ASSUME FlowInv, alive, SendRequest
  PROVE  FlowsIn'
<1> SUFFICES ASSUME Reading' PROVE FlowsIn' BY DEF FlowsIn
<1>0. UNCHANGED <<heard, pump, posted, buffer, loop>> /\ asked' = asked + 1 /\ input' = input \o Frame(asked + 1) /\ ~eof
  BY DEF SendRequest, childSide, stdin
<1>1. Reading /\ FlowsIn /\ FlowsTyped /\ Orderly BY <1>0 DEF FlowInv, Reading
<1>2. pump # "ended" BY <1>0, <1>1 DEF Orderly, InputEnded
<1> DEFINE f == Line(2 * asked)
           g == Line(2 * (asked + 1))
           i == HeardParts
<1>3. asked \in Nat /\ 2 * asked \in Nat /\ 2 * (asked + 1) \in Nat /\ 2 * asked + 0 = 2 * asked /\ 2 * (asked + 1) + 0 = 2 * (asked + 1)
      /\ input \in Seq(Parts) /\ posted \in Seq(Parts) /\ buffer \in Seq(Parts) /\ 2 * asked <= 2 * (asked + 1)
  BY <1>1 DEF FlowsTyped
<1>4. HeardParts' = i /\ i \in Nat BY <1>0, <1>1 DEF HeardParts, FlowsTyped
<1>5. PICK j \in Nat, k \in Nat : IsRun(buffer, f, i, j) /\ IsRun(posted, f, j, k) /\ IsRun(input, f, k, 2 * asked)
  BY <1>1, <1>2, <1>3 DEF FlowsIn
<1>6. \A x \in Nat : x <= 2 * asked => g[x] = f[x] BY <1>3, LineSame
<1>7. IsRun(input \o Frame(asked + 1), g, k, 2 * (asked + 1)) BY <1>3, <1>5, RunFrame
<1> HIDE DEF f, g, i
<1>8. j <= k /\ k <= 2 * asked BY <1>3, <1>5, RunBounds
<1>9. IsRun(buffer, g, i, j) /\ IsRun(posted, g, j, k)
  <2>1. \A x \in Nat : (x <= j => g[x] = f[x]) /\ (x <= k => g[x] = f[x]) BY <1>3, <1>6, <1>8
  <2> QED BY <1>3, <1>4, <1>5, <2>1, RunSame
<1>10. IsRun(buffer', Line(2 * asked'), HeardParts', j) /\ IsRun(posted', Line(2 * asked'), j, k)
       /\ IsRun(input', Line(2 * asked'), k, 2 * asked' + (IF pump' = "ended" THEN 1 ELSE 0))
  BY <1>0, <1>2, <1>3, <1>4, <1>7, <1>9 DEF g
<1> QED BY <1>0, <1>2, <1>10 DEF FlowsIn

\* The thread takes what is in the pipe, or the end.
LEMMA FlowsInPump ==
  ASSUME FlowInv, PumpReads
  PROVE  FlowsIn'
<1> SUFFICES ASSUME Reading' PROVE FlowsIn' BY DEF FlowsIn
<1>0. UNCHANGED <<asked, heard, buffer, loop>> /\ pump = "reading" BY DEF PumpReads, parentSide
<1>1. Reading /\ FlowsIn /\ FlowsTyped BY <1>0 DEF FlowInv, Reading
<1> DEFINE f == Line(2 * asked)
           i == HeardParts
<1>3. 2 * asked \in Nat /\ 2 * asked + 0 = 2 * asked /\ input \in Seq(Parts) /\ posted \in Seq(Parts) /\ buffer \in Seq(Parts)
  BY <1>1 DEF FlowsTyped
<1>4. HeardParts' = i /\ i \in Nat BY <1>0, <1>1 DEF HeardParts, FlowsTyped
<1>5. PICK j \in Nat, k \in Nat : IsRun(buffer, f, i, j) /\ IsRun(posted, f, j, k) /\ IsRun(input, f, k, 2 * asked)
  BY <1>0, <1>1, <1>3 DEF FlowsIn
<1>6. f[2 * asked + 1] = End /\ End \in Parts BY <1>3, LineParts DEF End, Part, Parts
<1> HIDE DEF f, i
<1>7. CASE input # <<>>
  <2>0. posted' = Append(posted, Head(input)) /\ input' = Tail(input) /\ pump' = pump BY <1>7 DEF PumpReads
  <2>1. Head(input) = f[k + 1] /\ Head(input) \in Parts /\ IsRun(Tail(input), f, k + 1, 2 * asked) BY <1>3, <1>5, <1>7, RunHead
  <2>2. IsRun(Append(posted, Head(input)), f, j, k + 1) BY <1>3, <1>5, <2>1, RunAppend
  <2>3. IsRun(buffer', Line(2 * asked'), HeardParts', j) /\ IsRun(posted', Line(2 * asked'), j, k + 1)
        /\ IsRun(input', Line(2 * asked'), k + 1, 2 * asked' + (IF pump' = "ended" THEN 1 ELSE 0)) /\ pump' # "ended"
    BY <1>0, <1>3, <1>4, <1>5, <2>0, <2>1, <2>2 DEF f
  <2> QED BY <2>3 DEF FlowsIn
<1>8. CASE input = <<>>
  <2>0. posted' = Append(posted, End) /\ input' = <<>> /\ pump' = "ended" BY <1>8 DEF PumpReads
  <2>1. k = 2 * asked BY <1>3, <1>5, <1>8 DEF IsRun
  <2>2. IsRun(Append(posted, End), f, j, k + 1) BY <1>3, <1>5, <1>6, <2>1, RunAppend
  <2>4. IsRun(<<>>, f, k + 1, k + 1) BY DEF IsRun
  <2>3. IsRun(buffer', Line(2 * asked'), HeardParts', j) /\ IsRun(posted', Line(2 * asked'), j, k + 1)
        /\ IsRun(input', Line(2 * asked'), k + 1, 2 * asked' + (IF pump' = "ended" THEN 1 ELSE 0))
    BY <1>0, <1>3, <1>4, <1>5, <2>0, <2>1, <2>2, <2>4 DEF f
  <2> QED BY <2>0, <2>3 DEF FlowsIn
<1> QED BY <1>7, <1>8

\* The loop feeds the reader.
LEMMA FlowsInFeed ==
  ASSUME FlowInv, Feed
  PROVE  FlowsIn'
<1> SUFFICES ASSUME Reading' PROVE FlowsIn' BY DEF FlowsIn
<1>0. UNCHANGED <<asked, heard, input, pump, loop>> /\ posted # <<>> /\ buffer' = Append(buffer, Head(posted)) /\ posted' = Tail(posted)
  BY DEF Feed, parentSide
<1>1. Reading /\ FlowsIn /\ FlowsTyped BY <1>0 DEF FlowInv, Reading
<1> DEFINE f == Line(2 * asked)
           i == HeardParts
           n == 2 * asked + (IF pump = "ended" THEN 1 ELSE 0)
<1>3. n \in Nat /\ input \in Seq(Parts) /\ posted \in Seq(Parts) /\ buffer \in Seq(Parts)
  BY <1>1 DEF FlowsTyped
<1>4. HeardParts' = i /\ i \in Nat BY <1>0, <1>1 DEF HeardParts, FlowsTyped
<1>5. PICK j \in Nat, k \in Nat : IsRun(buffer, f, i, j) /\ IsRun(posted, f, j, k) /\ IsRun(input, f, k, n) /\ (pump = "ended" => input = <<>>)
  BY <1>1 DEF FlowsIn
<1> HIDE DEF f, i, n
<1>6. Head(posted) = f[j + 1] /\ Head(posted) \in Parts /\ IsRun(Tail(posted), f, j + 1, k)
  <2>1. posted # <<>> /\ posted \in Seq(Parts) /\ IsRun(posted, f, j, k) BY <1>0, <1>3, <1>5
  <2> QED BY <2>1, RunHead
<1>7. IsRun(Append(buffer, Head(posted)), f, i, j + 1) BY <1>3, <1>4, <1>5, <1>6, RunAppend
<1>8. IsRun(buffer', Line(2 * asked'), HeardParts', j + 1) /\ IsRun(posted', Line(2 * asked'), j + 1, k)
      /\ IsRun(input', Line(2 * asked'), k, 2 * asked' + (IF pump' = "ended" THEN 1 ELSE 0))
  BY <1>0, <1>4, <1>5, <1>6, <1>7 DEF f, n
<1> QED BY <1>0, <1>5, <1>8 DEF FlowsIn

\* The program reads a length or a payload: it is the next one.
LEMMA FlowsInHear ==
  ASSUME FlowInv, HearHeader \/ HearPayload
  PROVE  FlowsIn' /\ (HearPayload => Len(heard) < asked /\ heard' = Append(heard, Len(heard) + 1))
<1>0. UNCHANGED <<asked, input, pump, posted>> /\ loop \in {"recv", "payload"} /\ buffer # <<>> /\ Head(buffer) # End /\ buffer' = Tail(buffer)
  BY DEF HearHeader, HearPayload, parentSide, Buffered
<1>1. Reading /\ FlowsIn /\ FlowsTyped BY <1>0 DEF FlowInv, Reading
<1> DEFINE f == Line(2 * asked)
           i == HeardParts
           n == 2 * asked + (IF pump = "ended" THEN 1 ELSE 0)
<1>3. n \in Nat /\ 2 * asked \in Nat /\ n <= 2 * asked + 1 /\ input \in Seq(Parts) /\ posted \in Seq(Parts) /\ buffer \in Seq(Parts)
  BY <1>1 DEF FlowsTyped
<1>4. i \in Nat BY <1>1 DEF HeardParts, FlowsTyped
<1>5. PICK j \in Nat, k \in Nat : IsRun(buffer, f, i, j) /\ IsRun(posted, f, j, k) /\ IsRun(input, f, k, n) /\ (pump = "ended" => input = <<>>)
  BY <1>1 DEF FlowsIn
<1> HIDE DEF f, i, n
<1>6. i + 1 <= j /\ Head(buffer) = f[i + 1] /\ IsRun(Tail(buffer), f, i + 1, j)
  <2>1. buffer # <<>> /\ buffer \in Seq(Parts) /\ IsRun(buffer, f, i, j) BY <1>0, <1>3, <1>5
  <2> QED BY <1>4, <2>1, RunHead
<1>7. j <= k /\ k <= n BY <1>3, <1>5, RunBounds
<1>8. f[2 * asked + 1] = End BY <1>3, LineParts DEF f
<1>9. i + 1 <= 2 * asked
  <2>1. i + 1 # 2 * asked + 1 BY <1>0, <1>6, <1>8
  <2> QED BY <1>3, <1>4, <1>6, <1>7, <2>1
<1>10. ASSUME HearPayload PROVE Len(heard) < asked /\ heard' = Append(heard, Len(heard) + 1)
  <2>1. loop = "payload" /\ heard' = Append(heard, Head(buffer).n) BY <1>10 DEF HearPayload
  <2>2. Len(heard) \in Nat /\ asked \in Nat BY <1>1 DEF FlowsTyped
  <2>3. i + 1 = 2 * Len(heard) + 2 BY <2>1, <2>2 DEF i, HeardParts
  <2>4. f[2 * Len(heard) + 2] = Part("payload", Len(heard) + 1)
    <3>1. 2 * Len(heard) + 2 # 2 * asked + 1 BY <1>3, <1>9, <2>2, <2>3
    <3> QED BY <1>3, <2>2, <3>1, LineParts DEF f
  <2>5. Head(buffer).n = Len(heard) + 1 BY <1>6, <2>3, <2>4 DEF Part
  <2> QED BY <1>9, <2>1, <2>2, <2>3, <2>5
<1>11. HeardParts' = i + 1
  <2>1. CASE HearHeader BY <2>1, <1>1 DEF HearHeader, Moves, HeardParts, i, FlowsTyped
  <2>2. CASE HearPayload
    <3>1. loop = "payload" /\ loop' = "handling" BY <2>2 DEF HearPayload, Moves
    <3>2. Len(heard') = Len(heard) + 1 /\ Len(heard) \in Nat BY <1>1, <1>10, <2>2 DEF FlowsTyped
    <3> QED BY <3>1, <3>2 DEF HeardParts, i
  <2> QED BY <2>1, <2>2
<1>12. IsRun(buffer', Line(2 * asked'), HeardParts', j) /\ IsRun(posted', Line(2 * asked'), j, k)
      /\ IsRun(input', Line(2 * asked'), k, 2 * asked' + (IF pump' = "ended" THEN 1 ELSE 0))
  BY <1>0, <1>5, <1>6, <1>11 DEF f, n
<1> QED BY <1>0, <1>5, <1>10, <1>12 DEF FlowsIn

\* Every step keeps what is on its way to the child.
LEMMA FlowsInStep ==
  ASSUME FlowInv, [LinkNext]_linkVars
  PROVE  FlowsIn'
<1>1. CASE Supervision
  <2>1. UNCHANGED Hears /\ loop' = (IF child' = "running" /\ child = "none" THEN "recv" ELSE loop)
    BY <1>1 DEF Supervision, Hears, parentSide, stdin
  <2>2. child = "none" => loop = "none" BY DEF FlowInv, Orderly
  <2> QED BY <2>1, <2>2, FlowsInSame DEF Reading
<1>2. CASE ParentSteps
  <2>1. CASE SendRequest BY <1>2, <2>1, FlowsInSend DEF ParentSteps
  <2>2. CASE SendDone \/ AwaitReply \/ ReadReply \/ \E o \in Operations : ParentFails(o)
    <3>1. UNCHANGED Hears /\ UNCHANGED loop
      BY <2>2 DEF SendDone, AwaitReply, ReadReply, ParentFails, Hears, parentSide, childSide, stdin
    <3> QED BY <3>1, FlowsInSame DEF Reading
  <2> QED BY <1>2, <2>1, <2>2 DEF ParentSteps
<1>3. CASE Discard \/ ParentDies \/ Writer \/ UNCHANGED linkVars
  <2>1. UNCHANGED Hears /\ UNCHANGED loop
    BY <1>3 DEF Discard, ParentDies, Writer, WriterWrites, WriterEnds, linkVars, Hears, parentSide, childSide, stdin
  <2> QED BY <2>1, FlowsInSame DEF Reading
<1>4. CASE PumpReads BY <1>4, FlowsInPump
<1>5. CASE Feed BY <1>5, FlowsInFeed
<1>6. CASE HearHeader \/ HearPayload BY <1>6, FlowsInHear
<1>7. CASE HearFails \/ DrainFails \/ CloseStdout \/ Leave \/ Dies
  <2>1. ~Reading'
    BY <1>7 DEF HearFails, DrainFails, CloseStdout, Leave, Dies, Moves, Reading
  <2> QED BY <2>1 DEF FlowsIn
<1>8. CASE Reply \/ HandlerEnds \/ Drain
  <2>1. UNCHANGED Hears /\ loop \in {"handling", "draining"} /\ loop' \in {"draining", "recv", "hung"}
    BY <1>8 DEF Reply, HandlerEnds, Drain, Moves, Hears, parentSide, stdin
  <2> QED BY <2>1, FlowsInSame DEF Reading
<1> QED BY <1>1, <1>2, <1>3, <1>4, <1>5, <1>6, <1>7, <1>8 DEF LinkNext, Program

Replies == <<replied, answers, half, output, queue>>

\* What touches neither the pipe and the writer nor the parent's place in a frame.
LEMMA FlowsOutSame ==
  ASSUME FlowInv, UNCHANGED Replies, MayRead' => MayRead, shut => shut', ~broken' => ~broken
  PROVE  FlowsOut'
<1> SUFFICES ASSUME MayRead' PROVE FlowsOut' BY DEF FlowsOut
<1>1. AnsweredParts' = AnsweredParts BY DEF Replies, AnsweredParts
<1>2. FlowsOut /\ MayRead BY DEF FlowInv
<1> QED BY <1>1, <1>2 DEF FlowsOut, Replies

\* The parent reads the next part, which belongs to the next frame.
LEMMA FlowsOutRead ==
  ASSUME FlowInv, ReadReply
  PROVE  /\ FlowsOut' /\ UNCHANGED replied
         /\ UNCHANGED answers \/ (Len(answers) < replied /\ answers' = Append(answers, Len(answers) + 1))
<1>0. UNCHANGED <<replied, queue, shut, broken>> /\ op[RecvTask] = "pending" /\ output # <<>> /\ output' = Tail(output)
  BY DEF ReadReply, childSide, stdout
<1>1. FlowsOut /\ MayRead /\ FlowsTyped /\ output \in Seq(Parts) /\ queue \in Seq(Parts) /\ replied \in Nat /\ half \in BOOLEAN
  BY <1>0 DEF FlowInv, MayRead, LinkInv, OutputTyped, LinkTypeOK
<1> DEFINE f == Line(2 * replied)
           i == AnsweredParts
           Rest(k) == ~broken => \E e \in {0, 1} : (e = 1 => shut) /\ IsRun(queue, f, k, 2 * replied + e)
<1>2. i \in Nat /\ Len(answers) \in Nat /\ 2 * replied \in Nat BY <1>1 DEF AnsweredParts, FlowsTyped
<1>3. PICK k \in Nat : k <= 2 * replied /\ IsRun(output, f, i, k) /\ Rest(k) BY <1>1 DEF FlowsOut
<1> HIDE DEF f, i, Rest
<1>4. i + 1 <= k /\ Head(output) = f[i + 1] /\ IsRun(Tail(output), f, i + 1, k)
  <2>1. output # <<>> /\ output \in Seq(Parts) /\ IsRun(output, f, i, k) /\ i \in Nat /\ k \in Nat BY <1>0, <1>1, <1>2, <1>3
  <2> QED BY <2>1, RunHead
<1>5. i + 1 <= 2 * replied BY <1>1, <1>2, <1>3, <1>4
<1>6. /\ AnsweredParts' = i + 1
      /\ UNCHANGED answers \/ (Len(answers) < replied /\ answers' = Append(answers, Len(answers) + 1))
  <2>1. CASE ~half
    <3>1. i + 1 = 2 * Len(answers) + 1 BY <1>2, <2>1 DEF i, AnsweredParts
    <3>2. f[2 * Len(answers) + 1] = Part("header", Len(answers) + 1)
      <4>1. 2 * Len(answers) + 1 # 2 * replied + 1 BY <1>1, <1>2, <1>5, <3>1
      <4> QED BY <1>2, <4>1, LineParts DEF f
    <3>3. Head(output).is = "header" BY <1>4, <3>1, <3>2 DEF Part
    <3>4. half' = TRUE /\ answers' = answers BY <2>1, <3>3 DEF ReadReply
    <3> QED BY <1>2, <3>1, <3>4 DEF AnsweredParts
  <2>2. CASE half
    <3>1. i + 1 = 2 * Len(answers) + 2 BY <1>2, <2>2 DEF i, AnsweredParts
    <3>2. f[2 * Len(answers) + 2] = Part("payload", Len(answers) + 1)
      <4>1. 2 * Len(answers) + 2 # 2 * replied + 1 BY <1>1, <1>2, <1>5, <3>1
      <4> QED BY <1>2, <4>1, LineParts DEF f
    <3>3. Head(output).n = Len(answers) + 1 BY <1>4, <3>1, <3>2 DEF Part
    <3>4. half' = FALSE /\ answers' = Append(answers, Len(answers) + 1) BY <2>2, <3>3 DEF ReadReply
    <3>5. Len(answers') = Len(answers) + 1 BY <1>1, <1>2, <3>4 DEF FlowsTyped
    <3>6. Len(answers) < replied BY <1>1, <1>2, <1>5, <3>1
    <3> QED BY <1>2, <3>1, <3>4, <3>5, <3>6 DEF AnsweredParts
  <2> QED BY <1>1, <2>1, <2>2
<1>7. k <= 2 * replied' /\ IsRun(output', Line(2 * replied'), AnsweredParts', k)
      /\ (~broken' => \E e \in {0, 1} : (e = 1 => shut') /\ IsRun(queue', Line(2 * replied'), k, 2 * replied' + e))
  BY <1>0, <1>3, <1>4, <1>6 DEF f, Rest
<1> QED BY <1>0, <1>6, <1>7 DEF FlowsOut

\* The child's stdout is closed: the end is put behind what is queued.
LEMMA FlowsOutShut ==
  ASSUME FlowInv, Shuts, UNCHANGED <<replied, answers, half, output, eof, op>>
  PROVE  FlowsOut'
<1> SUFFICES ASSUME MayRead' PROVE FlowsOut' BY DEF FlowsOut
<1>0. shut' = TRUE /\ UNCHANGED broken /\ queue' = (IF shut THEN queue ELSE Append(queue, End)) BY DEF Shuts
<1>1. FlowsOut /\ MayRead /\ queue \in Seq(Parts) /\ replied \in Nat
  BY DEF FlowInv, MayRead, LinkInv, OutputTyped
<1> DEFINE f == Line(2 * replied)
           i == AnsweredParts
           Rest(k) == ~broken => \E e \in {0, 1} : (e = 1 => shut) /\ IsRun(queue, f, k, 2 * replied + e)
<1>2. AnsweredParts' = i BY DEF AnsweredParts
<1>3. PICK k \in Nat : k <= 2 * replied /\ IsRun(output, f, i, k) /\ Rest(k) BY <1>1 DEF FlowsOut
<1>4. f[2 * replied + 1] = End /\ End \in Parts /\ 2 * replied \in Nat /\ 2 * replied + 0 = 2 * replied
  BY <1>1, LineParts DEF End, Part, Parts
<1> HIDE DEF f, i
<1>5. ASSUME ~broken PROVE \E e \in {0, 1} : IsRun(queue', f, k, 2 * replied + e)
  <2>1. CASE shut BY <1>0, <1>3, <1>5, <2>1
  <2>2. CASE ~shut
    <3>1. IsRun(queue, f, k, 2 * replied) BY <1>3, <1>4, <1>5, <2>2
    <3>2. IsRun(Append(queue, End), f, k, 2 * replied + 1) BY <1>1, <1>4, <3>1, RunAppend
    <3> QED BY <1>0, <2>2, <3>2
  <2> QED BY <2>1, <2>2
<1>6. k <= 2 * replied' /\ IsRun(output', Line(2 * replied'), AnsweredParts', k)
      /\ (~broken' => \E e \in {0, 1} : (e = 1 => shut') /\ IsRun(queue', Line(2 * replied'), k, 2 * replied' + e))
  BY <1>0, <1>2, <1>3, <1>5 DEF f
<1> QED BY <1>6 DEF FlowsOut

\* The program answers.
LEMMA FlowsOutReply ==
  ASSUME FlowInv, Reply
  PROVE  FlowsOut'
<1> SUFFICES ASSUME MayRead' PROVE FlowsOut' BY DEF FlowsOut
<1>0. UNCHANGED <<answers, half, output, eof, op, shut, broken>> /\ ~shut /\ replied' = replied + 1
      /\ queue' = queue \o Frame(replied + 1)
  BY DEF Reply, parentSide, vars, process
<1>1. FlowsOut /\ MayRead /\ queue \in Seq(Parts) /\ output \in Seq(Parts) /\ replied \in Nat /\ FlowsTyped
  BY <1>0 DEF FlowInv, MayRead, LinkInv, OutputTyped
<1> DEFINE f == Line(2 * replied)
           g == Line(2 * (replied + 1))
           i == AnsweredParts
<1>2. AnsweredParts' = i /\ i \in Nat BY <1>0, <1>1 DEF AnsweredParts, FlowsTyped
<1>3. PICK k \in Nat : /\ k <= 2 * replied /\ IsRun(output, f, i, k)
                       /\ ~broken => \E e \in {0, 1} : (e = 1 => shut) /\ IsRun(queue, f, k, 2 * replied + e)
  BY <1>1 DEF FlowsOut
<1>4. 2 * replied \in Nat /\ 2 * (replied + 1) \in Nat /\ 2 * replied + 0 = 2 * replied /\ 2 * (replied + 1) + 0 = 2 * (replied + 1)
      /\ 2 * replied <= 2 * (replied + 1)
  BY <1>1
<1>5. \A x \in Nat : x <= k => g[x] = f[x]
  <2>1. \A x \in Nat : x <= k => x <= 2 * replied /\ x <= 2 * (replied + 1) BY <1>3, <1>4
  <2> QED BY <1>4, <2>1, LineSame
<1>6. ~broken => IsRun(queue', g, k, 2 * (replied + 1))
  <2> SUFFICES ASSUME ~broken PROVE IsRun(queue', g, k, 2 * (replied + 1)) OBVIOUS
  <2>1. IsRun(queue, f, k, 2 * replied) BY <1>0, <1>3, <1>4
  <2> QED BY <1>0, <1>1, <2>1, RunFrame
<1> HIDE DEF f, g, i
<1>7. IsRun(output, g, i, k) BY <1>1, <1>2, <1>3, <1>5, RunSame
<1>8. k <= 2 * replied' /\ IsRun(output', Line(2 * replied'), AnsweredParts', k)
      /\ (~broken' => \E e \in {0, 1} : (e = 1 => shut') /\ IsRun(queue', Line(2 * replied'), k, 2 * replied' + e))
  <2>1. k <= 2 * (replied + 1) BY <1>3, <1>4
  <2>2. ~broken => IsRun(queue', g, k, 2 * (replied + 1) + 0) BY <1>4, <1>6
  <2> QED BY <1>0, <1>2, <1>7, <2>1, <2>2 DEF g
<1> QED BY <1>8 DEF FlowsOut

\* The writer moves a part to the pipe, or fails for good, or meets the end.
LEMMA FlowsOutWrite ==
  ASSUME FlowInv, Writer
  PROVE  FlowsOut'
<1> SUFFICES ASSUME MayRead' PROVE FlowsOut' BY DEF FlowsOut
<1>0. UNCHANGED <<replied, answers, half, eof, op, shut>> /\ queue # <<>>
  BY DEF Writer, WriterWrites, WriterEnds, parentSide, vars, process
<1>1. FlowsOut /\ MayRead /\ queue \in Seq(Parts) /\ output \in Seq(Parts) /\ replied \in Nat /\ FlowsTyped
  BY <1>0 DEF FlowInv, MayRead, LinkInv, OutputTyped
<1> DEFINE f == Line(2 * replied)
           i == AnsweredParts
<1>2. AnsweredParts' = i /\ i \in Nat /\ 2 * replied \in Nat BY <1>0, <1>1 DEF AnsweredParts, FlowsTyped
<1>3. PICK k \in Nat : /\ k <= 2 * replied /\ IsRun(output, f, i, k)
                       /\ ~broken => \E e \in {0, 1} : (e = 1 => shut) /\ IsRun(queue, f, k, 2 * replied + e)
  BY <1>1 DEF FlowsOut
<1>4. f[2 * replied + 1] = End BY <1>2, LineParts
<1> HIDE DEF f, i
<1>5. CASE broken'
  <2>1. output' = output \/ ~broken'
    BY <1>5 DEF Writer, WriterWrites, WriterEnds
  <2>2. k <= 2 * replied' /\ IsRun(output', Line(2 * replied'), AnsweredParts', k) BY <1>0, <1>2, <1>3, <1>5, <2>1 DEF f
  <2> QED BY <1>5, <2>2 DEF FlowsOut
<1>6. CASE ~broken'
  <2>0. ~broken BY <1>6 DEF Writer, WriterWrites, WriterEnds
  <2>1. PICK e \in {0, 1} : (e = 1 => shut) /\ IsRun(queue, f, k, 2 * replied + e) BY <1>3, <2>0
  <2> DEFINE n == 2 * replied + e
  <2>2. n \in Nat /\ n <= 2 * replied + 1 BY <1>2
  <2> HIDE DEF n
  <2>3. k + 1 <= n /\ Head(queue) = f[k + 1] /\ Head(queue) \in Parts /\ IsRun(Tail(queue), f, k + 1, n)
    <3>1. queue # <<>> /\ queue \in Seq(Parts) /\ IsRun(queue, f, k, n) BY <1>0, <1>1, <2>1 DEF n
    <3> QED BY <2>2, <3>1, RunHead
  <2>4. CASE WriterWrites
    <3>1. queue' = Tail(queue) /\ output' = Append(output, Head(queue)) /\ Head(queue) # End BY <1>6, <2>4 DEF WriterWrites
    <3>2. k + 1 <= 2 * replied
      <4>1. k + 1 # 2 * replied + 1 BY <1>4, <2>3, <3>1
      <4> QED BY <1>2, <2>2, <2>3, <4>1
    <3>3. IsRun(Append(output, Head(queue)), f, i, k + 1) BY <1>1, <1>2, <1>3, <2>3, RunAppend
    <3>4. k + 1 <= 2 * replied' /\ IsRun(output', Line(2 * replied'), AnsweredParts', k + 1)
          /\ (e = 1 => shut') /\ IsRun(queue', Line(2 * replied'), k + 1, 2 * replied' + e)
      BY <1>0, <1>2, <2>1, <2>3, <3>1, <3>2, <3>3 DEF f, n
    <3> QED BY <3>4 DEF FlowsOut
  <2>5. CASE WriterEnds
    <3>1. queue' = <<>> /\ output' = output /\ Head(queue) = End BY <2>5 DEF WriterEnds
    <3>2. k = 2 * replied
      <4> SUFFICES ASSUME k < 2 * replied PROVE FALSE BY <1>2, <1>3
      <4>1. k + 1 \in Nat /\ k + 1 <= 2 * replied BY <1>2
      <4>2. f[k + 1].is # "end"
        <5>1. f[k + 1] = Part(IF (k + 1) % 2 = 1 THEN "header" ELSE "payload", ((k + 1) + 1) \div 2)
          <6>1. k + 1 # 2 * replied + 1 BY <1>2, <4>1
          <6> QED BY <4>1, <6>1 DEF f, Line
        <5> QED BY <5>1 DEF Part
      <4> QED BY <2>3, <3>1, <4>2 DEF End, Part
    <3>3. IsRun(<<>>, f, k, k) BY DEF IsRun
    <3>4. k <= 2 * replied' /\ IsRun(output', Line(2 * replied'), AnsweredParts', k)
          /\ IsRun(queue', Line(2 * replied'), k, 2 * replied' + 0)
      BY <1>0, <1>2, <1>3, <3>1, <3>2, <3>3 DEF f
    <3> QED BY <3>4 DEF FlowsOut
  <2> QED BY <2>4, <2>5 DEF Writer
<1> QED BY <1>5, <1>6

\* Every step keeps what is on its way to the parent.
LEMMA FlowsOutStep ==
  ASSUME FlowInv, [LinkNext]_linkVars
  PROVE  FlowsOut'
<1>0. eof => eof' BY OrderlyStep
<1>1. CASE Supervision
  <2>1. UNCHANGED Replies /\ UNCHANGED <<shut, broken>> BY <1>1 DEF Supervision, Replies, parentSide, stdout
  <2>0. op \in [Operations -> {"idle", "pending", "cancelled", "cleanup"}] BY DEF FlowInv, LinkInv, ChildInv, TypeOK
  <2>2. \A o \in Operations : op'[o] = "pending" => op[o] = "pending"
    BY <1>1, <2>0 DEF Supervision, Connect, Spawn, Connected, Close, CloseBegins, CloseStdin, Exited, Finally, LastExited,
      Drained, Terminate, Kill, Interrupted, LastTimesOut, Cancelled, Abandon, Abandoned, CleanupEnds, process
  <2>3. MayRead' => MayRead BY <1>0, <2>2, OperationsAssumption DEF MayRead
  <2> QED BY <2>1, <2>3, FlowsOutSame
<1>2. CASE SendRequest \/ SendDone \/ AwaitReply
  <2>1. UNCHANGED Replies /\ UNCHANGED <<shut, broken>>
    BY <1>2 DEF SendRequest, SendDone, AwaitReply, Replies, parentSide, childSide, stdout
  <2>2. MayRead' => MayRead
    BY <1>0, <1>2, OperationsAssumption DEF MayRead, SendRequest, SendDone, AwaitReply, Operate, Operated, FlowInv, LinkInv, ChildInv, TypeOK
  <2> QED BY <2>1, <2>2, FlowsOutSame
<1>3. CASE ReadReply BY <1>3, FlowsOutRead
<1>4. ASSUME NEW o \in Operations, ParentFails(o) PROVE FlowsOut'
  <2>1. UNCHANGED <<answers, output, childSide>> BY <1>4 DEF ParentFails
  <2>2. op' = [op EXCEPT ![o] = "idle"] \/ op' = [op EXCEPT ![o] = "cleanup"]
    BY <1>4 DEF ParentFails, OperationFails, OperationCancelled
  <2>3. op \in [Operations -> {"idle", "pending", "cancelled", "cleanup"}] BY DEF FlowInv, LinkInv, ChildInv, TypeOK
  <2>4. CASE o = RecvTask
    <3>1. ~MayRead' BY <1>4, <2>2, <2>3, <2>4 DEF ParentFails, MayRead
    <3> QED BY <3>1 DEF FlowsOut
  <2>5. CASE o = SendTask
    <3>1. half' = half BY <1>4, <2>5 DEF ParentFails
    <3>2. op'[RecvTask] = op[RecvTask] BY <2>2, <2>3, <2>5, OperationsAssumption
    <3>3. MayRead' => MayRead BY <1>0, <3>2 DEF MayRead
    <3> QED BY <2>1, <3>1, <3>3, FlowsOutSame DEF Replies, childSide, stdout
  <2> QED BY <2>4, <2>5, OperationsAssumption
<1>5. CASE Discard
  <2>1. UNCHANGED <<eof, op>> BY <1>5 DEF Discard, vars, process
  <2>2. PICK c \in Closers : closer[c] \in Waits \cup {"kill", "last wait"} BY <1>5 DEF Discard
  <2>3. closer[c] \in Inside \ Gathers BY <2>2, InsideIsFinite DEF Waits
  <2>4. eof /\ op[RecvTask] = "idle"
    BY <2>3, OperationsAssumption DEF FlowInv, Orderly, LinkInv, ChildInv, PipesOutliveOperations
  <2>5. ~MayRead' BY <2>1, <2>4 DEF MayRead
  <2> QED BY <2>5 DEF FlowsOut
<1>6. CASE ParentDies \/ PumpReads \/ Feed \/ HearHeader \/ HearPayload \/ HandlerEnds \/ Drain \/ Leave \/ Dies \/ UNCHANGED linkVars
  <2>1. UNCHANGED Replies /\ UNCHANGED <<shut, broken, eof, op>>
    BY <1>6 DEF ParentDies, PumpReads, Feed, HearHeader, HearPayload, HandlerEnds, Drain, Leave, Dies, ChildExits, linkVars,
      Replies, parentSide, childSide, stdout, vars, process
  <2> QED BY <2>1, FlowsOutSame DEF MayRead
<1>7. CASE HearFails \/ CloseStdout
  BY <1>7, FlowsOutShut DEF HearFails, CloseStdout, parentSide, vars, process
<1>8. CASE DrainFails
  <2>1. UNCHANGED <<replied, answers, half, output, eof, op>> BY <1>8 DEF DrainFails, parentSide, vars, process
  <2>2. CASE Shuts BY <2>1, <2>2, FlowsOutShut
  <2>3. CASE shut' = TRUE /\ UNCHANGED <<queue, broken>> BY <2>1, <2>3, FlowsOutSame DEF Replies, MayRead
  <2> QED BY <1>8, <2>2, <2>3 DEF DrainFails
<1>9. CASE Reply BY <1>9, FlowsOutReply
<1>10. CASE Writer BY <1>10, FlowsOutWrite
<1> QED BY <1>1, <1>2, <1>3, <1>4, <1>5, <1>6, <1>7, <1>8, <1>9, <1>10 DEF LinkNext, ParentSteps, Program

\* The types of what is on its way to the child and of what both sides have read.
LEMMA FlowsTypedStep ==
  ASSUME FlowInv, [LinkNext]_linkVars
  PROVE  FlowsTyped'
<1>0. FlowsTyped /\ output \in Seq(Parts) BY DEF FlowInv, LinkInv, OutputTyped
<1>1. CASE UNCHANGED <<input, posted, buffer, heard, answers, asked>> BY <1>0, <1>1 DEF FlowsTyped
<1>2. CASE SendRequest
  <2>1. asked + 1 \in Nat /\ Frame(asked + 1) \in Seq(Parts) BY <1>0 DEF FlowsTyped, Frame, Part, Parts
  <2> QED BY <1>0, <1>2, <2>1 DEF SendRequest, childSide, stdin, FlowsTyped
<1>3. CASE ReadReply
  <2>1. UNCHANGED answers \/ answers' = Append(answers, Len(answers) + 1) BY <1>3, FlowsOutRead
  <2>2. UNCHANGED <<input, posted, buffer, heard, asked>> BY <1>3 DEF ReadReply, childSide, stdin
  <2>3. answers' \in Seq(Nat)
    <3>1. answers \in Seq(Nat) /\ Len(answers) + 1 \in Nat BY <1>0 DEF FlowsTyped
    <3> QED BY <2>1, <3>1
  <2> QED BY <1>0, <2>2, <2>3 DEF FlowsTyped
<1>4. CASE PumpReads
  <2>1. End \in Parts BY DEF End, Part, Parts
  <2>2. \/ input # <<>> /\ posted' = Append(posted, Head(input)) /\ input' = Tail(input)
        \/ posted' = Append(posted, End) /\ input' = input
    BY <1>4 DEF PumpReads
  <2>3. posted' \in Seq(Parts) /\ input' \in Seq(Parts)
    <3>1. input \in Seq(Parts) /\ posted \in Seq(Parts) BY <1>0 DEF FlowsTyped
    <3>2. CASE input # <<>> /\ posted' = Append(posted, Head(input)) /\ input' = Tail(input)
      <4>1. Head(input) \in Parts /\ Tail(input) \in Seq(Parts) BY <3>1, <3>2
      <4> QED BY <3>1, <3>2, <4>1
    <3>3. CASE posted' = Append(posted, End) /\ input' = input BY <2>1, <3>1, <3>3
    <3> QED BY <2>2, <3>2, <3>3
  <2> QED BY <1>0, <1>4, <2>3 DEF PumpReads, parentSide, FlowsTyped
<1>5. CASE Feed BY <1>0, <1>5 DEF Feed, parentSide, FlowsTyped
<1>6. CASE HearHeader BY <1>0, <1>6 DEF HearHeader, Buffered, parentSide, FlowsTyped
<1>7. CASE HearPayload
  <2>1. heard' = Append(heard, Len(heard) + 1) BY <1>7, FlowsInHear
  <2> QED BY <1>0, <1>7, <2>1 DEF HearPayload, Buffered, parentSide, FlowsTyped
<1>8. CASE Supervision BY <1>1, <1>8 DEF Supervision, parentSide, stdin
<1>9. CASE SendDone \/ AwaitReply \/ \E o \in Operations : ParentFails(o)
  BY <1>1, <1>9 DEF SendDone, AwaitReply, ParentFails, parentSide, childSide, stdin
<1>10. CASE Discard \/ ParentDies \/ Writer \/ Dies \/ UNCHANGED linkVars
  BY <1>1, <1>10 DEF Discard, ParentDies, Writer, WriterWrites, WriterEnds, Dies, linkVars, parentSide, childSide, stdin
<1>11. CASE HearFails \/ Reply \/ HandlerEnds \/ Drain \/ DrainFails \/ CloseStdout \/ Leave
  BY <1>1, <1>11 DEF HearFails, Reply, HandlerEnds, Drain, DrainFails, CloseStdout, Leave, parentSide, stdin
<1> QED BY <1>2, <1>3, <1>4, <1>5, <1>6, <1>7, <1>8, <1>9, <1>10, <1>11 DEF LinkNext, ParentSteps, Program

\* Every step of the connection keeps the order of the frames.
LEMMA FlowStep == FlowInv /\ [LinkNext]_linkVars => FlowInv'
BY LinkInvStep, FlowsTypedStep, OrderlyStep, FlowsInStep, FlowsOutStep DEF FlowInv

\* What FrameLink calls sent and got.
LinkSent == [d \in {"in", "out"} |-> IF d = "in" THEN asked ELSE replied]
LinkGot == [d \in {"in", "out"} |-> IF d = "in" THEN heard ELSE answers]

\* A step of the connection sends a frame, or receives the next one, or neither.
LEMMA FlowPromised == FlowInv /\ [LinkNext]_linkVars => [Link!Next]_<<LinkSent, LinkGot>>
<1> SUFFICES ASSUME FlowInv, [LinkNext]_linkVars PROVE [Link!Next]_<<LinkSent, LinkGot>> OBVIOUS
<1> USE DEF LinkSent, LinkGot
<1>1. CASE UNCHANGED <<asked, replied, heard, answers>> BY <1>1
<1>2. CASE SendRequest
  <2>1. asked' = asked + 1 /\ UNCHANGED <<replied, heard, answers>> BY <1>2 DEF SendRequest, childSide
  <2>2. Link!Send("in") BY <2>1 DEF Link!Send
  <2> QED BY <2>2 DEF Link!Next
<1>3. CASE Reply
  <2>1. replied' = replied + 1 /\ UNCHANGED <<asked, heard, answers>> BY <1>3 DEF Reply, parentSide
  <2>2. Link!Send("out") BY <2>1 DEF Link!Send
  <2> QED BY <2>2 DEF Link!Next
<1>4. CASE HearPayload
  <2>1. Len(heard) < asked /\ heard' = Append(heard, Len(heard) + 1) BY <1>4, FlowsInHear
  <2>2. UNCHANGED <<asked, replied, answers>> BY <1>4 DEF HearPayload, parentSide
  <2>3. Link!Receive("in") BY <2>1, <2>2 DEF Link!Receive
  <2> QED BY <2>3 DEF Link!Next
<1>5. CASE ReadReply
  <2>1. UNCHANGED answers \/ (Len(answers) < replied /\ answers' = Append(answers, Len(answers) + 1)) BY <1>5, FlowsOutRead
  <2>2. UNCHANGED <<asked, replied, heard>> BY <1>5 DEF ReadReply, childSide
  <2>3. CASE UNCHANGED answers BY <1>1, <2>2, <2>3
  <2>4. CASE Len(answers) < replied /\ answers' = Append(answers, Len(answers) + 1)
    <3>1. Link!Receive("out") BY <2>2, <2>4 DEF Link!Receive
    <3> QED BY <3>1 DEF Link!Next
  <2> QED BY <2>1, <2>3, <2>4
<1>6. CASE Supervision BY <1>1, <1>6 DEF Supervision, parentSide
<1>7. CASE SendDone \/ AwaitReply \/ \E o \in Operations : ParentFails(o)
  BY <1>1, <1>7 DEF SendDone, AwaitReply, ParentFails, parentSide, childSide
<1>8. CASE Discard \/ ParentDies \/ PumpReads \/ Feed \/ Writer \/ Dies \/ UNCHANGED linkVars
  BY <1>1, <1>8 DEF Discard, ParentDies, PumpReads, Feed, Writer, WriterWrites, WriterEnds, Dies, linkVars, parentSide, childSide
<1>9. CASE HearHeader \/ HearFails \/ HandlerEnds \/ Drain \/ DrainFails \/ CloseStdout \/ Leave
  BY <1>1, <1>9 DEF HearHeader, HearFails, HandlerEnds, Drain, DrainFails, CloseStdout, Leave, parentSide
<1> QED BY <1>2, <1>3, <1>4, <1>5, <1>6, <1>7, <1>8, <1>9 DEF LinkNext, ParentSteps, Program

\* For any sizes of the pipes and any number of frames, whoever crashes or gives
\* up: the connection is a FrameLink in both directions.
THEOREM StdioIsFrameLink == LinkSpec => FramesArrive
<1>1. LinkInit => Link!Init BY DEF LinkInit, Link!Init
<1> QED BY <1>1, FlowInit, FlowStep, FlowPromised, PTL DEF LinkSpec, FramesArrive, Link!Spec, LinkSent, LinkGot

----------------------------------------------------------------------------
(***************************************************************************)
(* The thread channel.  Every message is in one place, in order: with the   *)
(* receiver, in the inbox, or on its way to it.  Nothing follows what an    *)
(* end puts there when it closes, since it sends nothing after that; so an  *)
(* open end that comes upon it has received everything.                     *)
(***************************************************************************)
Most == [e \in {"a", "b"} |-> IF e = "a" THEN FromA ELSE FromB]
Mail(line) == Kept(line, Nat \ {Thread!Closing})

\* The messages of a queue, without the marks of close().
LEMMA MailIsMessages == \A line : Thread!Messages(line) = Mail(line)
BY DEF Mail, Thread!Messages, Thread!Kept, Thread!KeptSoFar, Kept, KeptSoFar

\* How far the owner of an end is with opening and closing it.
Owned(e) ==
  /\ closed[e] <=> owner[e] \in {"closing", "own inbox", "peer inbox", "closed"}
  /\ owner[e] = "new" => ~hasInbox[e]
  /\ owner[e] \in {"new", "inbox"} => threadLoop[e] = "none"
  /\ owner[e] \notin {"new", "inbox"} => (hasInbox[e] => threadLoop[e] # "none")

\* A send that goes on has a message left to send, and one that hands over found
\* its end open and the peer with a loop.
Pledged(e) ==
  /\ sender[e] \in {"waiting", "checked", "posting"} => Len(sent[e]) < Most[e]
  /\ sender[e] = "posting" => threadLoop[Thread!Peer(e)] # "none" /\ ~closed[e]

\* Until an end is closed itself, what closes it is the last that comes from the
\* other, which has closed.
LastFrom(e, line) == \A i \in 1..Len(line) : line[i] = Thread!Closing => i = Len(line) /\ owner[Thread!Peer(e)] = "closed"

EndLast(e) ==
  ~closed[e] =>
    /\ LastFrom(e, inbox[e]) /\ LastFrom(e, callbacks[e])
    /\ Thread!Closing \in Items(inbox[e]) => callbacks[e] = <<>>
    /\ receiver[e] = "failed" => closed[Thread!Peer(e)] /\ received[e] = sent[Thread!Peer(e)]

Arrives(e) == sent[Thread!Peer(e)] = received[e] \o Mail(inbox[e]) \o Mail(callbacks[e])

ChannelInv == Thread!TypeOK /\ \A e \in Thread!Ends : Owned(e) /\ Pledged(e) /\ EndLast(e) /\ Arrives(e)

\* The ends of a pair and the messages each may send.
LEMMA EndsFacts ==
  /\ Most \in [Thread!Ends -> Nat]
  /\ \A e \in Thread!Ends : Thread!Peer(e) \in Thread!Ends /\ Thread!Peer(e) # e /\ Thread!Peer(Thread!Peer(e)) = e
  /\ \A e, f \in Thread!Ends : f = e \/ f = Thread!Peer(e)
  /\ \A e \in Thread!Ends : \A n \in 0..Most[e] : n \in Thread!Item
  /\ Thread!Item \subseteq Nat
<1>1. Most \in [Thread!Ends -> Nat] BY ChannelAssumption DEF Thread!BoundsAssumption, Most, Thread!Ends
<1>2. \A e \in Thread!Ends : 0..Most[e] \subseteq Nat BY <1>1
<1>3. \A e \in Thread!Ends : \A n \in 0..Most[e] : n \in Thread!Item BY DEF Thread!Item, Most
<1>4. Thread!Item \subseteq Nat BY <1>2 DEF Thread!Item, Most
<1> QED BY <1>1, <1>3, <1>4 DEF Thread!Ends, Thread!Peer

\* The messages of a queue are numbers.
LEMMA MailType ==
  ASSUME NEW s \in Seq(Thread!Item)
  PROVE  Mail(s) \in Seq(Thread!Item) /\ Mail(<<>>) = <<>>
BY KeptItems, KeptEmpty DEF Mail

\* A message that is appended is the last one; a mark of close() is none.
LEMMA MailAppend ==
  ASSUME NEW s \in Seq(Thread!Item), NEW x \in Thread!Item
  PROVE  Mail(Append(s, x)) = IF x # Thread!Closing THEN Append(Mail(s), x) ELSE Mail(s)
<1>1. x \in Nat \ {Thread!Closing} <=> x # Thread!Closing BY EndsFacts
<1> QED BY <1>1, KeptAppend DEF Mail

\* What recv() takes: the first message or a mark.
LEMMA MailHead ==
  ASSUME NEW s \in Seq(Thread!Item), s # <<>>
  PROVE  /\ Head(s) \in Thread!Item /\ Tail(s) \in Seq(Thread!Item)
         /\ Len(Tail(s)) = Len(s) - 1 /\ Len(s) \in Nat \ {0} /\ Head(s) = s[1]
         /\ \A i \in 1..Len(Tail(s)) : Tail(s)[i] = s[i + 1] /\ i + 1 \in 1..Len(s)
         /\ Mail(s) = (IF Head(s) # Thread!Closing THEN <<Head(s)>> ELSE <<>>) \o Mail(Tail(s))
<1>1. Head(s) \in Thread!Item /\ Tail(s) \in Seq(Thread!Item) BY HeadAndTail
<1>2. Mail(s) = (IF Head(s) \in Nat \ {Thread!Closing} THEN <<Head(s)>> ELSE <<>>) \o Mail(Tail(s))
  BY KeptHead DEF Mail
<1>3. Head(s) \in Nat \ {Thread!Closing} <=> Head(s) # Thread!Closing BY <1>1, EndsFacts
<1>4. Len(Tail(s)) = Len(s) - 1 /\ Len(s) \in Nat \ {0} /\ Head(s) = s[1] OBVIOUS
<1>5. \A i \in 1..Len(Tail(s)) : Tail(s)[i] = s[i + 1] /\ i + 1 \in 1..Len(s) BY <1>4
<1> QED BY <1>1, <1>2, <1>3, <1>4, <1>5

\* The invariant of the pair holds before connect().
LEMMA ChannelInit == Thread!Init => ChannelInv
<1> SUFFICES ASSUME Thread!Init PROVE ChannelInv OBVIOUS
<1>1. <<>> \in Seq(Thread!Item) OBVIOUS
<1>2. Thread!TypeOK BY <1>1 DEF Thread!Init, Thread!TypeOK, Thread!Owner, Thread!Sender
<1>3. Mail(<<>>) = <<>> BY <1>1, MailType
<1>4. ASSUME NEW e \in Thread!Ends PROVE Owned(e) /\ Pledged(e) /\ EndLast(e) /\ Arrives(e)
  <2>1. Thread!Peer(e) \in Thread!Ends BY EndsFacts
  <2>2. sent[Thread!Peer(e)] = <<>> /\ received[e] = <<>> /\ inbox[e] = <<>> /\ callbacks[e] = <<>> BY <2>1 DEF Thread!Init
  <2>3. Arrives(e) BY <1>3, <2>2 DEF Arrives
  <2>4. Owned(e) /\ Pledged(e) /\ EndLast(e) BY <2>1, <2>2 DEF Thread!Init, Owned, Pledged, EndLast, LastFrom, Items
  <2> QED BY <2>3, <2>4
<1> QED BY <1>2, <1>4 DEF ChannelInv

----------------------------------------------------------------------------
\* The steps of the task that connects and closes an end.
LEMMA OwnedStep ==
  ASSUME ChannelInv, NEW e \in Thread!Ends, Thread!Lifecycle(e), NEW f \in Thread!Ends
  PROVE  Owned(f)'
<1>1. Thread!TypeOK /\ Owned(f) /\ Owned(e) BY DEF ChannelInv
<1>2. CASE f # e
  BY <1>1, <1>2 DEF Thread!TypeOK, Owned, Thread!Lifecycle, Thread!ConnectInbox, Thread!ConnectLoop, Thread!ConnectReady, Thread!CloseStart, Thread!CloseReady,
                Thread!CloseOwnInbox, Thread!ClosePeerInbox, Thread!LoopCloses, Thread!Goes
<1>3. CASE f = e /\ (Thread!ConnectInbox(e) \/ Thread!ConnectLoop(e) \/ Thread!ConnectReady(e) \/ Thread!CloseStart(e))
  BY <1>1, <1>3 DEF Thread!TypeOK, Owned, Thread!ConnectInbox, Thread!ConnectLoop, Thread!ConnectReady, Thread!CloseStart, Thread!Goes
<1>4. CASE f = e /\ (Thread!CloseReady(e) \/ Thread!CloseOwnInbox(e) \/ Thread!ClosePeerInbox(e) \/ Thread!LoopCloses(e))
  BY <1>1, <1>4 DEF Thread!TypeOK, Owned, Thread!CloseReady, Thread!CloseOwnInbox, Thread!ClosePeerInbox, Thread!LoopCloses, Thread!Goes
<1> QED BY <1>2, <1>3, <1>4 DEF Thread!Lifecycle

\* An end whose lifecycle no step touches is owned by who owned it.
LEMMA OtherOwned ==
  ASSUME ChannelInv, NEW f \in Thread!Ends, UNCHANGED Thread!lifecycle
  PROVE  Owned(f)'
BY DEF ChannelInv, Owned, Thread!lifecycle

\* A send() that passed its checks is under way until it posts: nothing else can put a message on
\* its way.
LEMMA PledgedStep ==
  ASSUME ChannelInv, Thread!Next, NEW f \in Thread!Ends
  PROVE  Pledged(f)'
<1>1. PICK e \in Thread!Ends :
        \/ Thread!Lifecycle(e)
        \/ Thread!SendStart(e) \/ Thread!SendWoken(e) \/ Thread!SendTimesOut(e) \/ Thread!SendOffer(e) \/ Thread!SendPost(e)
        \/ Thread!Deliver(e) \/ Thread!RecvStart(e) \/ Thread!Recv(e)
  BY DEF Thread!Next
<1>2. Thread!TypeOK /\ Pledged(f) /\ Owned(f) /\ Thread!Peer(f) \in Thread!Ends /\ Thread!Peer(e) \in Thread!Ends BY EndsFacts DEF ChannelInv
<1>3. CASE Thread!Lifecycle(e)
  <2>1. sender' = sender /\ sent' = sent
    BY <1>3 DEF Thread!Lifecycle, Thread!ConnectInbox, Thread!ConnectLoop, Thread!ConnectReady, Thread!CloseStart, Thread!CloseReady,
                Thread!CloseOwnInbox, Thread!ClosePeerInbox, Thread!LoopCloses
  <2>2. threadLoop[Thread!Peer(f)] # "none" => threadLoop'[Thread!Peer(f)] # "none"
    BY <1>2, <1>3 DEF Thread!TypeOK, Thread!Lifecycle, Thread!ConnectInbox, Thread!ConnectLoop, Thread!ConnectReady, Thread!CloseStart, Thread!CloseReady,
                Thread!CloseOwnInbox, Thread!ClosePeerInbox, Thread!LoopCloses
  <2>3. sender[f] = "posting" => closed'[f] = closed[f]
    BY <1>2, <1>3 DEF Thread!TypeOK, Thread!Lifecycle, Thread!ConnectInbox, Thread!ConnectLoop, Thread!ConnectReady, Thread!CloseStart, Thread!CloseReady,
                Thread!CloseOwnInbox, Thread!ClosePeerInbox, Thread!LoopCloses, Thread!Suspended
  <2> QED BY <1>2, <2>1, <2>2, <2>3 DEF Pledged
<1>4. CASE Thread!SendStart(e) \/ Thread!SendWoken(e) \/ Thread!SendTimesOut(e) \/ Thread!SendOffer(e)
  <2>1. UNCHANGED Thread!lifecycle /\ sent' = sent BY <1>4 DEF Thread!SendStart, Thread!SendWoken, Thread!SendTimesOut, Thread!SendOffer
  <2>2. CASE f # e
    <3>1. sender'[f] = sender[f] BY <1>2, <1>4, <2>2 DEF Thread!TypeOK, Thread!SendStart, Thread!SendWoken, Thread!SendTimesOut, Thread!SendOffer
    <3> QED BY <1>2, <2>1, <3>1 DEF Pledged, Thread!lifecycle
  <2>3. CASE f = e
    <3>1. sender'[f] \in {"waiting", "checked", "posting"} => Len(sent[f]) < Most[f]
      BY <1>2, <1>4, <2>3 DEF Thread!TypeOK, Pledged, Most, Thread!SendStart, Thread!SendWoken, Thread!SendTimesOut, Thread!SendOffer
    <3>2. sender'[f] = "posting" => threadLoop[Thread!Peer(f)] # "none" /\ ~closed[f]
      BY <1>2, <1>4, <2>3 DEF Thread!TypeOK, Thread!SendStart, Thread!SendWoken, Thread!SendTimesOut, Thread!SendOffer
    <3> QED BY <2>1, <3>1, <3>2 DEF Pledged, Thread!lifecycle
  <2> QED BY <2>2, <2>3
<1>5. CASE Thread!SendPost(e)
  <2>1. UNCHANGED Thread!lifecycle BY <1>5 DEF Thread!SendPost
  <2>2. CASE f # e
    <3>1. sender'[f] = sender[f] /\ sent'[f] = sent[f] BY <1>2, <1>5, <2>2 DEF Thread!TypeOK, Thread!SendPost
    <3> QED BY <1>2, <2>1, <3>1 DEF Pledged, Thread!lifecycle
  <2>3. CASE f = e
    <3>1. sender'[f] \in {"failed", "idle"} BY <1>2, <1>5, <2>3 DEF Thread!TypeOK, Thread!SendPost
    <3> QED BY <3>1 DEF Pledged
  <2> QED BY <2>2, <2>3
<1>6. CASE Thread!Deliver(e) \/ Thread!RecvStart(e) \/ Thread!Recv(e)
  <2>1. UNCHANGED <<Thread!lifecycle, sender, sent>> BY <1>6 DEF Thread!Deliver, Thread!RecvStart, Thread!Recv
  <2> QED BY <1>2, <2>1 DEF Pledged, Thread!lifecycle
<1> QED BY <1>1, <1>3, <1>4, <1>5, <1>6

----------------------------------------------------------------------------
\* What the lifecycle puts into the lines of an end.
LEMMA LifecycleLines ==
  ASSUME ChannelInv, NEW e \in Thread!Ends, Thread!Lifecycle(e), NEW f \in Thread!Ends
  PROVE  /\ UNCHANGED <<sent, received, receiver, sender>>
         /\ inbox' \in [Thread!Ends -> Seq(Thread!Item)] /\ callbacks' \in [Thread!Ends -> Seq(Thread!Item)]
         /\ \/ inbox'[f] = inbox[f]
            \/ closed[f] /\ threadLoop[f] # "none" /\ inbox'[f] = Append(inbox[f], Thread!Closing)
         /\ \/ callbacks'[f] = callbacks[f]
            \/ /\ Thread!Peer(f) = e /\ threadLoop[f] # "none" /\ callbacks'[f] = Append(callbacks[f], Thread!Closing)
               /\ owner[e] = "peer inbox" /\ owner'[e] = "closed"
         /\ threadLoop'[f] = "none" => threadLoop[f] = "none"
         /\ closed[f] => closed'[f]
         /\ owner[f] = "closed" => owner'[f] = "closed"
<1>1. Thread!TypeOK /\ Owned(e) /\ Thread!Peer(e) \in Thread!Ends /\ Thread!Peer(e) # e BY EndsFacts DEF ChannelInv
<1>2. inbox \in [Thread!Ends -> Seq(Thread!Item)] /\ callbacks \in [Thread!Ends -> Seq(Thread!Item)] BY <1>1 DEF Thread!TypeOK
<1>3. Thread!Closing \in Thread!Item
  <2>1. 0 \in 0..Most[e] BY EndsFacts
  <2> QED BY <2>1, EndsFacts DEF Thread!Closing
<1>4. UNCHANGED <<sent, received, receiver, sender>>
  BY DEF Thread!Lifecycle, Thread!ConnectInbox, Thread!ConnectLoop, Thread!ConnectReady, Thread!CloseStart, Thread!CloseReady,
         Thread!CloseOwnInbox, Thread!ClosePeerInbox, Thread!LoopCloses
<1>5. /\ threadLoop'[f] = "none" => threadLoop[f] = "none"
      /\ closed[f] => closed'[f]
      /\ owner[f] = "closed" => owner'[f] = "closed"
  BY <1>1 DEF Thread!TypeOK, Thread!Lifecycle, Thread!ConnectInbox, Thread!ConnectLoop, Thread!ConnectReady, Thread!CloseStart, Thread!CloseReady,
         Thread!CloseOwnInbox, Thread!ClosePeerInbox, Thread!LoopCloses, Thread!Goes
<1>6. CASE Thread!CloseOwnInbox(e)
  <2>1. callbacks' = callbacks BY <1>6 DEF Thread!CloseOwnInbox
  <2>2. closed[e] /\ (hasInbox[e] => threadLoop[e] # "none") BY <1>1, <1>6 DEF Owned, Thread!CloseOwnInbox, Thread!Goes
  <2>3. inbox' \in [Thread!Ends -> Seq(Thread!Item)]
    <3>1. Append(inbox[e], Thread!Closing) \in Seq(Thread!Item) BY <1>2, <1>3
    <3> QED BY <1>2, <1>6, <3>1 DEF Thread!CloseOwnInbox
  <2>4. inbox'[f] = inbox[f] \/ (f = e /\ hasInbox[e] /\ inbox'[f] = Append(inbox[f], Thread!Closing))
    BY <1>2, <1>6 DEF Thread!CloseOwnInbox
  <2> QED BY <1>2, <1>4, <1>5, <2>1, <2>2, <2>3, <2>4
<1>7. CASE Thread!ClosePeerInbox(e)
  <2>1. inbox' = inbox BY <1>7 DEF Thread!ClosePeerInbox
  <2>2. callbacks' \in [Thread!Ends -> Seq(Thread!Item)]
    <3>1. Append(callbacks[Thread!Peer(e)], Thread!Closing) \in Seq(Thread!Item) BY <1>1, <1>2, <1>3
    <3> QED BY <1>2, <1>7, <3>1 DEF Thread!ClosePeerInbox
  <2>3. \/ callbacks'[f] = callbacks[f]
        \/ Thread!Peer(f) = e /\ threadLoop[f] # "none" /\ callbacks'[f] = Append(callbacks[f], Thread!Closing)
    <3>1. Thread!Peer(Thread!Peer(e)) = e BY EndsFacts
    <3> QED BY <1>1, <1>2, <1>7, <3>1 DEF Thread!ClosePeerInbox
  <2>4. owner[e] = "peer inbox" /\ owner'[e] = "closed" BY <1>1, <1>7 DEF Thread!ClosePeerInbox, Thread!Goes, Thread!TypeOK
  <2> QED BY <1>2, <1>4, <1>5, <2>1, <2>2, <2>3, <2>4
<1>8. CASE ~Thread!CloseOwnInbox(e) /\ ~Thread!ClosePeerInbox(e)
  <2>1. inbox' = inbox /\ callbacks' = callbacks
    BY <1>8 DEF Thread!Lifecycle, Thread!ConnectInbox, Thread!ConnectLoop, Thread!ConnectReady, Thread!CloseStart, Thread!CloseReady, Thread!LoopCloses
  <2> QED BY <1>2, <1>4, <1>5, <2>1
<1> QED BY <1>6, <1>7, <1>8

\* connect() and close(), at each read and write the other thread can see.
LEMMA LifecycleStep ==
  ASSUME ChannelInv, NEW e \in Thread!Ends, Thread!Lifecycle(e)
  PROVE  ChannelInv'
<1>1. Thread!TypeOK BY DEF ChannelInv
<1>2. Thread!TypeOK'
  <2>1. /\ owner' \in [Thread!Ends -> Thread!Owner] /\ hasInbox' \in [Thread!Ends -> BOOLEAN]
        /\ threadLoop' \in [Thread!Ends -> {"none", "running", "closed"}] /\ ready' \in [Thread!Ends -> BOOLEAN]
        /\ closed' \in [Thread!Ends -> BOOLEAN]
    BY <1>1 DEF Thread!TypeOK, Thread!Lifecycle, Thread!ConnectInbox, Thread!ConnectLoop, Thread!ConnectReady, Thread!CloseStart, Thread!CloseReady,
         Thread!CloseOwnInbox, Thread!ClosePeerInbox, Thread!LoopCloses, Thread!Goes, Thread!Owner
  <2>2. UNCHANGED <<sent, received, receiver, sender>>
        /\ inbox' \in [Thread!Ends -> Seq(Thread!Item)] /\ callbacks' \in [Thread!Ends -> Seq(Thread!Item)]
    BY LifecycleLines
  <2>3. ASSUME NEW f \in Thread!Ends, threadLoop'[f] = "none" PROVE callbacks'[f] = <<>> /\ inbox'[f] = <<>>
    <3>1. threadLoop[f] = "none" /\ inbox'[f] = inbox[f] /\ callbacks'[f] = callbacks[f] BY <2>3, LifecycleLines
    <3> QED BY <1>1, <3>1 DEF Thread!TypeOK
  <2> QED BY <1>1, <2>1, <2>2, <2>3 DEF Thread!TypeOK
<1>3. ASSUME NEW f \in Thread!Ends PROVE Owned(f)' /\ Pledged(f)' BY <1>3, OwnedStep, PledgedStep DEF Thread!Next
<1>4. ASSUME NEW f \in Thread!Ends PROVE Arrives(f)'
  <2>1. inbox[f] \in Seq(Thread!Item) /\ callbacks[f] \in Seq(Thread!Item) /\ inbox'[f] \in Seq(Thread!Item) /\ callbacks'[f] \in Seq(Thread!Item)
    BY <1>1, <1>2 DEF Thread!TypeOK
  <2>2. Thread!Closing \in Thread!Item
    <3>1. 0 \in 0..Most[f] BY EndsFacts
    <3> QED BY <3>1, EndsFacts DEF Thread!Closing
  <2>3. Mail(inbox'[f]) = Mail(inbox[f])
    <3>1. inbox'[f] = inbox[f] \/ inbox'[f] = Append(inbox[f], Thread!Closing) BY LifecycleLines
    <3>2. Mail(Append(inbox[f], Thread!Closing)) = Mail(inbox[f]) BY <2>1, <2>2, MailAppend
    <3> QED BY <3>1, <3>2
  <2>4. Mail(callbacks'[f]) = Mail(callbacks[f])
    <3>1. callbacks'[f] = callbacks[f] \/ callbacks'[f] = Append(callbacks[f], Thread!Closing) BY LifecycleLines
    <3>2. Mail(Append(callbacks[f], Thread!Closing)) = Mail(callbacks[f]) BY <2>1, <2>2, MailAppend
    <3> QED BY <3>1, <3>2
  <2>5. sent' = sent /\ received' = received BY LifecycleLines
  <2> QED BY <2>3, <2>4, <2>5 DEF ChannelInv, Arrives
<1>5. ASSUME NEW f \in Thread!Ends PROVE EndLast(f)'
  <2> SUFFICES ASSUME ~closed'[f]
               PROVE  /\ LastFrom(f, inbox[f])' /\ LastFrom(f, callbacks[f])'
                      /\ Thread!Closing \in Items(inbox'[f]) => callbacks'[f] = <<>>
                      /\ receiver'[f] = "failed" => closed'[Thread!Peer(f)] /\ received'[f] = sent'[Thread!Peer(f)]
    BY DEF EndLast
  <2>0. Thread!Peer(f) \in Thread!Ends /\ Thread!Peer(Thread!Peer(f)) = f BY EndsFacts
  <2>1. ~closed[f] /\ inbox'[f] = inbox[f] BY LifecycleLines
  <2>2. /\ LastFrom(f, inbox[f]) /\ LastFrom(f, callbacks[f])
        /\ Thread!Closing \in Items(inbox[f]) => callbacks[f] = <<>>
        /\ receiver[f] = "failed" => closed[Thread!Peer(f)] /\ received[f] = sent[Thread!Peer(f)]
    BY <2>1 DEF ChannelInv, EndLast
  <2>3. receiver'[f] = "failed" => closed'[Thread!Peer(f)] /\ received'[f] = sent'[Thread!Peer(f)]
    BY <2>0, <2>2, LifecycleLines
  <2>4. owner[Thread!Peer(f)] = "closed" => owner'[Thread!Peer(f)] = "closed" BY <2>0, LifecycleLines
  <2>5. LastFrom(f, inbox[f])' BY <2>1, <2>2, <2>4 DEF LastFrom
  <2>6. CASE callbacks'[f] = callbacks[f]
    <3>1. LastFrom(f, callbacks[f])' BY <2>2, <2>4, <2>6 DEF LastFrom
    <3> QED BY <2>1, <2>2, <2>3, <2>5, <2>6, <3>1
  <2>7. CASE callbacks'[f] # callbacks[f]
    <3>1. callbacks'[f] = Append(callbacks[f], Thread!Closing) /\ owner[Thread!Peer(f)] = "peer inbox" /\ owner'[Thread!Peer(f)] = "closed"
      <4>1. Thread!Peer(f) = e /\ callbacks'[f] = Append(callbacks[f], Thread!Closing) /\ owner[e] = "peer inbox" /\ owner'[e] = "closed"
        BY <2>7, LifecycleLines, Zenon
      <4> QED BY <4>1
    <3>2. Thread!Closing \notin Items(inbox[f]) BY <2>2, <3>1 DEF LastFrom, Items
    <3>3. callbacks[f] \in Seq(Thread!Item) BY <1>1 DEF Thread!TypeOK
    <3>4. \A i \in 1..Len(callbacks[f]) : callbacks[f][i] # Thread!Closing BY <2>2, <3>1 DEF LastFrom
    <3>5. \A i \in 1..Len(callbacks'[f]) : callbacks'[f][i] = Thread!Closing => i = Len(callbacks'[f])
      <4> DEFINE u == callbacks[f]
                 v == callbacks'[f]
      <4>0. u \in Seq(Thread!Item) /\ v = Append(u, Thread!Closing) /\ Thread!Closing \in Thread!Item
        <5>1. 0 \in 0..Most[f] BY EndsFacts
        <5>2. Thread!Closing \in Thread!Item BY <5>1, EndsFacts DEF Thread!Closing
        <5> QED BY <3>1, <3>3, <5>2
      <4> HIDE DEF u, v
      <4>1. Len(v) = Len(u) + 1 /\ Len(u) \in Nat BY <4>0, AppendShape
      <4>2. \A i \in 1..Len(u) : v[i] = u[i] BY <4>0, AppendShape
      <4>3. \A i \in 1..Len(u) : u[i] # Thread!Closing BY <3>4 DEF u
      <4>4. \A i \in 1..Len(v) : v[i] = Thread!Closing => i = Len(v) BY <4>1, <4>2, <4>3
      <4> QED BY <4>4 DEF v
    <3>6. LastFrom(f, callbacks[f])' BY <3>1, <3>5 DEF LastFrom
    <3> QED BY <2>1, <2>3, <2>5, <3>2, <3>6
  <2> QED BY <2>6, <2>7
<1> QED BY <1>2, <1>3, <1>4, <1>5 DEF ChannelInv

----------------------------------------------------------------------------
\* The steps of the tasks that send and receive, and of the loop.
LEMMA SenderStep ==
  ASSUME ChannelInv, NEW e \in Thread!Ends, Thread!SendStart(e) \/ Thread!SendWoken(e) \/ Thread!SendTimesOut(e) \/ Thread!SendOffer(e)
  PROVE  ChannelInv'
<1>1. UNCHANGED <<Thread!lifecycle, callbacks, inbox, receiver, sent, received>> /\ sender' \in [Thread!Ends -> Thread!Sender]
  BY DEF Thread!SendStart, Thread!SendWoken, Thread!SendTimesOut, Thread!SendOffer, ChannelInv, Thread!TypeOK, Thread!Sender
<1>2. Thread!TypeOK' BY <1>1 DEF ChannelInv, Thread!TypeOK, Thread!lifecycle
<1>3. ASSUME NEW f \in Thread!Ends PROVE Owned(f)' /\ Pledged(f)' /\ EndLast(f)' /\ Arrives(f)'
  <2>1. Pledged(f)' /\ Owned(f)' BY <1>1, PledgedStep, OtherOwned DEF Thread!Next
  <2>2. Arrives(f)' BY <1>1 DEF ChannelInv, Arrives
  <2>3. EndLast(f)' BY <1>1 DEF ChannelInv, EndLast, LastFrom, Thread!lifecycle
  <2> QED BY <2>1, <2>2, <2>3
<1> QED BY <1>2, <1>3 DEF ChannelInv

\* call_soon_threadsafe: the message joins the callbacks of the peer's loop.
LEMMA PostStep ==
  ASSUME ChannelInv, NEW e \in Thread!Ends, Thread!SendPost(e)
  PROVE  ChannelInv'
<1> DEFINE g == Thread!Peer(e)
           x == Len(sent[e]) + 1
<1>0. g \in Thread!Ends /\ g # e /\ Thread!Peer(g) = e /\ (\A f \in Thread!Ends : f = e \/ f = g) BY EndsFacts
<1>1. Thread!TypeOK /\ Pledged(e) /\ UNCHANGED <<Thread!lifecycle, inbox, receiver, received>> BY DEF ChannelInv, Thread!SendPost
<1>2. sent[e] \in Seq(Thread!Item) /\ callbacks[g] \in Seq(Thread!Item) /\ inbox[g] \in Seq(Thread!Item) /\ received[g] \in Seq(Thread!Item)
  BY <1>0, <1>1 DEF Thread!TypeOK
<1>3. threadLoop[g] # "none" /\ ~closed[e] /\ x \in Thread!Item /\ x # Thread!Closing
  <2>1. sender[e] = "posting" BY DEF Thread!SendPost
  <2>2. Len(sent[e]) < Most[e] /\ Len(sent[e]) \in Nat /\ Most[e] \in Nat BY <1>1, <1>2, <2>1, EndsFacts DEF Pledged
  <2>3. x \in 0..Most[e] /\ x # 0 BY <2>2
  <2> QED BY <1>1, <2>1, <2>3, EndsFacts DEF Pledged, Thread!Closing
<1>4. ASSUME NEW f \in Thread!Ends PROVE Owned(f)' /\ Pledged(f)' BY <1>1, PledgedStep, OtherOwned DEF Thread!Next
<1>5. CASE UNCHANGED <<callbacks, sent>>
  <2>1. sender' \in [Thread!Ends -> Thread!Sender] BY <1>1 DEF Thread!SendPost, Thread!TypeOK, Thread!Sender
  <2>2. Thread!TypeOK' BY <1>1, <1>5, <2>1 DEF Thread!TypeOK, Thread!lifecycle
  <2>3. ASSUME NEW f \in Thread!Ends PROVE EndLast(f)' /\ Arrives(f)'
    BY <1>1, <1>5 DEF ChannelInv, Arrives, EndLast, LastFrom, Thread!lifecycle
  <2> QED BY <1>4, <2>2, <2>3 DEF ChannelInv
<1>6. CASE /\ sender' = [sender EXCEPT ![e] = "idle"]
           /\ sent' = [sent EXCEPT ![e] = Append(@, x)]
           /\ callbacks' = [callbacks EXCEPT ![g] = Append(@, x)]
  <2> HIDE DEF x
  <2>1. sent'[e] = Append(sent[e], x) /\ sent'[g] = sent[g] /\ callbacks'[g] = Append(callbacks[g], x) /\ callbacks'[e] = callbacks[e]
    BY <1>0, <1>1, <1>6 DEF Thread!TypeOK
  <2>2. Thread!TypeOK'
    <3>1. Append(sent[e], x) \in Seq(Thread!Item) /\ Append(callbacks[g], x) \in Seq(Thread!Item) BY <1>2, <1>3
    <3>2. sent' \in [Thread!Ends -> Seq(Thread!Item)] /\ callbacks' \in [Thread!Ends -> Seq(Thread!Item)] /\ sender' \in [Thread!Ends -> Thread!Sender]
      BY <1>0, <1>1, <1>6, <3>1 DEF Thread!TypeOK, Thread!Sender
    <3>3. ASSUME NEW f \in Thread!Ends, threadLoop'[f] = "none" PROVE callbacks'[f] = <<>> /\ inbox'[f] = <<>>
      <4>1. f = e BY <1>0, <1>1, <1>3, <3>3 DEF Thread!lifecycle
      <4> QED BY <1>1, <2>1, <3>3, <4>1 DEF Thread!TypeOK, Thread!lifecycle
    <3> QED BY <1>1, <3>2, <3>3 DEF Thread!TypeOK, Thread!lifecycle
  <2>3. Arrives(g)'
    <3>1. Mail(callbacks'[g]) = Append(Mail(callbacks[g]), x) BY <1>2, <1>3, <2>1, MailAppend
    <3>2. Mail(callbacks[g]) \in Seq(Thread!Item) /\ Mail(inbox[g]) \in Seq(Thread!Item) BY <1>2, MailType
    <3> DEFINE a == received[g] \o Mail(inbox[g])
    <3>3. a \in Seq(Thread!Item) BY <1>2, <3>2
    <3>4. sent[e] = a \o Mail(callbacks[g]) BY <1>0 DEF ChannelInv, Arrives
    <3> HIDE DEF a
    <3>5. a \o Append(Mail(callbacks[g]), x) = Append(a \o Mail(callbacks[g]), x) BY <1>3, <3>2, <3>3, ConcatAppend
    <3>6. sent'[e] = a \o Mail(callbacks'[g]) BY <2>1, <3>1, <3>4, <3>5
    <3> QED BY <1>0, <1>1, <3>6 DEF Arrives, a
  <2>4. Arrives(e)' BY <1>0, <1>1, <2>1 DEF ChannelInv, Arrives
  <2>5. EndLast(e)' BY <1>0, <1>1, <2>1 DEF ChannelInv, EndLast, LastFrom, Thread!lifecycle
  <2>6. EndLast(g)'
    <3> SUFFICES ASSUME ~closed[g] PROVE EndLast(g)' BY <1>1 DEF EndLast, Thread!lifecycle
    <3>1. owner[e] # "closed" BY <1>3 DEF ChannelInv, Owned
    <3>2. EndLast(g) /\ LastFrom(g, inbox[g]) /\ LastFrom(g, callbacks[g]) BY <1>0 DEF ChannelInv, EndLast
    <3>3. Thread!Closing \notin Items(inbox[g]) BY <1>0, <3>1, <3>2 DEF LastFrom, Items
    <3>4. \A i \in 1..Len(callbacks'[g]) : callbacks'[g][i] # Thread!Closing
      <4>1. \A i \in 1..Len(callbacks[g]) : callbacks[g][i] # Thread!Closing BY <1>0, <3>1, <3>2 DEF LastFrom
      <4>2. /\ Len(callbacks'[g]) = Len(callbacks[g]) + 1 /\ Len(callbacks[g]) \in Nat
            /\ callbacks'[g][Len(callbacks[g]) + 1] = x
            /\ \A i \in 1..Len(callbacks[g]) : callbacks'[g][i] = callbacks[g][i]
        BY <1>2, <2>1
      <4> QED BY <1>3, <4>1, <4>2
    <3>5. receiver[g] # "failed" BY <1>0, <1>3, <3>2 DEF EndLast
    <3> QED BY <1>1, <3>2, <3>3, <3>4, <3>5 DEF EndLast, LastFrom, Thread!lifecycle
  <2> QED BY <1>0, <1>4, <2>2, <2>3, <2>4, <2>5, <2>6 DEF ChannelInv
<1> QED BY <1>5, <1>6 DEF Thread!SendPost

\* The peer's loop runs the callback: the message moves to its inbox.
LEMMA DeliverStep ==
  ASSUME ChannelInv, NEW e \in Thread!Ends, Thread!Deliver(e)
  PROVE  ChannelInv'
<1> DEFINE x == Head(callbacks[e])
           rest == Tail(callbacks[e])
<1>1. Thread!TypeOK /\ UNCHANGED <<Thread!lifecycle, sender, receiver, sent, received>> BY DEF ChannelInv, Thread!Deliver
<1>2. callbacks[e] \in Seq(Thread!Item) /\ inbox[e] \in Seq(Thread!Item) /\ received[e] \in Seq(Thread!Item) /\ callbacks[e] # <<>>
  BY <1>1 DEF Thread!TypeOK, Thread!Deliver
<1>3. /\ x \in Thread!Item /\ rest \in Seq(Thread!Item) /\ Len(rest) = Len(callbacks[e]) - 1 /\ Len(callbacks[e]) \in Nat \ {0}
      /\ x = callbacks[e][1] /\ \A i \in 1..Len(rest) : rest[i] = callbacks[e][i + 1]
      /\ Mail(callbacks[e]) = (IF x # Thread!Closing THEN <<x>> ELSE <<>>) \o Mail(rest)
  BY <1>2, MailHead
<1>4. /\ inbox' = [inbox EXCEPT ![e] = Append(@, x)]
      /\ callbacks' = [callbacks EXCEPT ![e] = rest]
  BY DEF Thread!Deliver
<1> HIDE DEF x, rest
<1>5. inbox'[e] = Append(inbox[e], x) /\ callbacks'[e] = rest
      /\ \A f \in Thread!Ends : f # e => inbox'[f] = inbox[f] /\ callbacks'[f] = callbacks[f]
  BY <1>1, <1>4 DEF Thread!TypeOK
<1>6. Thread!TypeOK'
  <2>1. Append(inbox[e], x) \in Seq(Thread!Item) BY <1>2, <1>3
  <2>2. inbox' \in [Thread!Ends -> Seq(Thread!Item)] /\ callbacks' \in [Thread!Ends -> Seq(Thread!Item)] BY <1>1, <1>3, <1>4, <2>1 DEF Thread!TypeOK
  <2>3. threadLoop[e] # "none" BY DEF Thread!Deliver
  <2>4. ASSUME NEW f \in Thread!Ends, threadLoop'[f] = "none" PROVE callbacks'[f] = <<>> /\ inbox'[f] = <<>>
    <3>1. f # e /\ threadLoop[f] = "none" BY <1>1, <2>3, <2>4 DEF Thread!lifecycle
    <3> QED BY <1>1, <1>5, <3>1 DEF Thread!TypeOK
  <2> QED BY <1>1, <2>2, <2>4 DEF Thread!TypeOK, Thread!lifecycle
<1>7. ASSUME NEW f \in Thread!Ends PROVE Owned(f)' /\ Pledged(f)' BY <1>1, PledgedStep, OtherOwned DEF Thread!Next
<1>8. ASSUME NEW f \in Thread!Ends, f # e PROVE Arrives(f)' /\ EndLast(f)'
  <2>1. Arrives(f) /\ EndLast(f) BY DEF ChannelInv
  <2>2. inbox'[f] = inbox[f] /\ callbacks'[f] = callbacks[f] /\ received'[f] = received[f] /\ receiver'[f] = receiver[f]
    BY <1>1, <1>5, <1>8
  <2>3. Arrives(f)' BY <1>1, <2>1, <2>2 DEF Arrives
  <2>4. EndLast(f)' BY <1>1, <2>1, <2>2 DEF EndLast, LastFrom, Thread!lifecycle
  <2> QED BY <2>3, <2>4
<1>9. Arrives(e)'
  <2> DEFINE a == Mail(inbox[e])
             b == Mail(rest)
             r == received[e]
  <2>1. a \in Seq(Thread!Item) /\ b \in Seq(Thread!Item) /\ r \in Seq(Thread!Item) BY <1>2, <1>3, MailType
  <2>2. sent[Thread!Peer(e)] = (r \o a) \o Mail(callbacks[e]) BY DEF ChannelInv, Arrives
  <2>3. Mail(inbox'[e]) = IF x # Thread!Closing THEN Append(a, x) ELSE a BY <1>2, <1>3, <1>5, MailAppend
  <2> HIDE DEF a, b, r
  <2>4. CASE x # Thread!Closing
    <3>1. Mail(callbacks[e]) = <<x>> \o b /\ Mail(inbox'[e]) = Append(a, x) BY <1>3, <2>3, <2>4 DEF b
    <3>2. Append(r \o a, x) = (r \o a) \o <<x>> /\ r \o Append(a, x) = Append(r \o a, x) /\ r \o a \in Seq(Thread!Item) /\ <<x>> \in Seq(Thread!Item)
      <4>1. r \o Append(a, x) = Append(r \o a, x) /\ r \o a \in Seq(Thread!Item) BY <1>3, <2>1, ConcatAppend
      <4> DEFINE d == r \o a
      <4>2. d \in Seq(Thread!Item) BY <4>1
      <4> HIDE DEF d
      <4>3. Append(d, x) = d \o <<x>> BY <1>3, <4>2, AppendIsConcat
      <4>4. <<x>> \in Seq(Thread!Item) BY <1>3
      <4> QED BY <4>1, <4>3, <4>4 DEF d
    <3>3. ((r \o a) \o <<x>>) \o b = (r \o a) \o (<<x>> \o b)
      <4> DEFINE c == <<x>>
                 d == r \o a
      <4>1. c \in Seq(Thread!Item) /\ d \in Seq(Thread!Item) BY <3>2
      <4> HIDE DEF c, d
      <4>3. b \in Seq(Thread!Item) BY <2>1
      <4>2. (d \o c) \o b = d \o (c \o b) BY <4>1, <4>3, ConcatAssociative
      <4> QED BY <4>2 DEF c, d
    <3>4. sent[Thread!Peer(e)] = (r \o Append(a, x)) \o b BY <2>2, <3>1, <3>2, <3>3
    <3> QED BY <1>1, <1>5, <3>1, <3>4 DEF Arrives, b, r
  <2>5. CASE x = Thread!Closing
    <3>1. Mail(callbacks[e]) = b /\ Mail(inbox'[e]) = a BY <1>3, <2>1, <2>3, <2>5 DEF b
    <3> QED BY <1>1, <1>5, <2>2, <3>1 DEF Arrives, a, b, r
  <2> QED BY <2>4, <2>5
<1>10. EndLast(e)'
  <2> SUFFICES ASSUME ~closed[e] PROVE EndLast(e)' BY <1>1 DEF EndLast, Thread!lifecycle
  <2>1. /\ LastFrom(e, inbox[e]) /\ LastFrom(e, callbacks[e])
        /\ Thread!Closing \notin Items(inbox[e])
        /\ receiver[e] = "failed" => closed[Thread!Peer(e)] /\ received[e] = sent[Thread!Peer(e)]
    BY <1>2 DEF ChannelInv, EndLast
  <2>2. x = Thread!Closing => Len(callbacks[e]) = 1 /\ owner[Thread!Peer(e)] = "closed"
    <3>1. 1 \in 1..Len(callbacks[e]) BY <1>3
    <3> QED BY <1>3, <2>1, <3>1 DEF LastFrom
  <2>3. /\ Len(inbox'[e]) = Len(inbox[e]) + 1 /\ Len(inbox[e]) \in Nat
        /\ inbox'[e][Len(inbox[e]) + 1] = x
        /\ \A i \in 1..Len(inbox[e]) : inbox'[e][i] = inbox[e][i]
    BY <1>2, <1>3, <1>5
  <2>4. \A i \in 1..Len(inbox[e]) : inbox[e][i] # Thread!Closing BY <2>1 DEF Items
  <2>5. \A i \in 1..Len(inbox'[e]) : inbox'[e][i] = Thread!Closing => i = Len(inbox'[e]) /\ x = Thread!Closing BY <2>3, <2>4
  <2>6. LastFrom(e, inbox[e])' BY <1>1, <2>2, <2>5 DEF LastFrom, Thread!lifecycle
  <2>7. \A i \in 1..Len(rest) : rest[i] = Thread!Closing => i = Len(rest) /\ owner[Thread!Peer(e)] = "closed"
    <3> SUFFICES ASSUME NEW i \in 1..Len(rest), rest[i] = Thread!Closing PROVE i = Len(rest) /\ owner[Thread!Peer(e)] = "closed" OBVIOUS
    <3>1. i + 1 \in 1..Len(callbacks[e]) /\ callbacks[e][i + 1] = Thread!Closing BY <1>3
    <3>2. i + 1 = Len(callbacks[e]) /\ owner[Thread!Peer(e)] = "closed" BY <2>1, <3>1 DEF LastFrom
    <3> QED BY <1>3, <3>2
  <2>8. LastFrom(e, callbacks[e])' BY <1>1, <1>5, <2>7 DEF LastFrom, Thread!lifecycle
  <2>9. Thread!Closing \in Items(inbox'[e]) => callbacks'[e] = <<>>
    <3> SUFFICES ASSUME Thread!Closing \in Items(inbox'[e]) PROVE rest = <<>> BY <1>5
    <3>1. x = Thread!Closing BY <2>5 DEF Items
    <3>2. Len(rest) = 0 BY <1>3, <2>2, <3>1
    <3> QED BY <1>3, <3>2
  <2> QED BY <1>1, <2>1, <2>6, <2>8, <2>9 DEF EndLast, Thread!lifecycle
<1> QED BY <1>6, <1>7, <1>8, <1>9, <1>10 DEF ChannelInv

\* recv() takes an item of the inbox.
LEMMA RecvStep ==
  ASSUME ChannelInv, NEW e \in Thread!Ends, Thread!Recv(e)
  PROVE  ChannelInv'
<1> DEFINE x == Head(inbox[e])
           rest == Tail(inbox[e])
<1>1. Thread!TypeOK /\ UNCHANGED <<Thread!lifecycle, callbacks, sender, sent>> BY DEF ChannelInv, Thread!Recv
<1>2. callbacks[e] \in Seq(Thread!Item) /\ inbox[e] \in Seq(Thread!Item) /\ received[e] \in Seq(Thread!Item) /\ inbox[e] # <<>>
  BY <1>1 DEF Thread!TypeOK, Thread!Recv
<1>3. /\ x \in Thread!Item /\ rest \in Seq(Thread!Item) /\ Len(rest) = Len(inbox[e]) - 1 /\ Len(inbox[e]) \in Nat \ {0}
      /\ x = inbox[e][1] /\ \A i \in 1..Len(rest) : rest[i] = inbox[e][i + 1]
      /\ Mail(inbox[e]) = (IF x # Thread!Closing THEN <<x>> ELSE <<>>) \o Mail(rest)
  BY <1>2, MailHead
<1>4. /\ inbox' = [inbox EXCEPT ![e] = rest] /\ receiver[e] = "waiting"
      /\ \/ x = Thread!Closing /\ receiver' = [receiver EXCEPT ![e] = "failed"] /\ received' = received
         \/ /\ x # Thread!Closing /\ receiver' = [receiver EXCEPT ![e] = "idle"]
            /\ received' = [received EXCEPT ![e] = Append(@, x)]
  BY DEF Thread!Recv
<1> HIDE DEF x, rest
<1>5. inbox'[e] = rest /\ \A f \in Thread!Ends : f # e => inbox'[f] = inbox[f] /\ received'[f] = received[f] /\ receiver'[f] = receiver[f]
  BY <1>1, <1>4 DEF Thread!TypeOK
<1>6. Thread!TypeOK'
  <2>1. Append(received[e], x) \in Seq(Thread!Item) BY <1>2, <1>3
  <2>2. inbox' \in [Thread!Ends -> Seq(Thread!Item)] /\ received' \in [Thread!Ends -> Seq(Thread!Item)] /\ receiver' \in [Thread!Ends -> {"idle", "waiting", "failed"}]
    BY <1>1, <1>3, <1>4, <2>1 DEF Thread!TypeOK
  <2>4. ASSUME NEW f \in Thread!Ends, threadLoop'[f] = "none" PROVE callbacks'[f] = <<>> /\ inbox'[f] = <<>>
    <3>1. threadLoop[f] = "none" /\ inbox[f] = <<>> BY <1>1, <2>4 DEF Thread!TypeOK, Thread!lifecycle
    <3>2. f # e BY <1>2, <3>1
    <3> QED BY <1>1, <1>5, <3>1, <3>2 DEF Thread!TypeOK
  <2> QED BY <1>1, <2>2, <2>4 DEF Thread!TypeOK, Thread!lifecycle
<1>7. ASSUME NEW f \in Thread!Ends PROVE Owned(f)' /\ Pledged(f)' BY <1>1, PledgedStep, OtherOwned DEF Thread!Next
<1>8. ASSUME NEW f \in Thread!Ends, f # e PROVE Arrives(f)' /\ EndLast(f)'
  <2>1. Arrives(f) /\ EndLast(f) BY DEF ChannelInv
  <2>2. inbox'[f] = inbox[f] /\ callbacks'[f] = callbacks[f] /\ received'[f] = received[f] /\ receiver'[f] = receiver[f]
    BY <1>1, <1>5, <1>8
  <2>3. Arrives(f)' BY <1>1, <2>1, <2>2 DEF Arrives
  <2>4. EndLast(f)' BY <1>1, <2>1, <2>2 DEF EndLast, LastFrom, Thread!lifecycle
  <2> QED BY <2>3, <2>4
<1> DEFINE b == Mail(rest)
           c == Mail(callbacks[e])
           r == received[e]
<1>9. b \in Seq(Thread!Item) /\ c \in Seq(Thread!Item) /\ r \in Seq(Thread!Item) BY <1>2, <1>3, MailType
<1>10. sent[Thread!Peer(e)] = (r \o Mail(inbox[e])) \o c BY DEF ChannelInv, Arrives
<1>11. Arrives(e)'
  <2> HIDE DEF b, c, r
  <2>1. CASE x # Thread!Closing
    <3>1. Mail(inbox[e]) = <<x>> \o b BY <1>3, <2>1 DEF b
    <3>2. received'[e] = Append(r, x) BY <1>1, <1>4, <2>1 DEF r, Thread!TypeOK
    <3>3. r \o (<<x>> \o b) = Append(r, x) \o b
      <4> DEFINE d == <<x>>
      <4>1. d \in Seq(Thread!Item) /\ Append(r, x) = r \o d BY <1>3, <1>9, AppendIsConcat
      <4> HIDE DEF d
      <4>2. (r \o d) \o b = r \o (d \o b) BY <1>9, <4>1, ConcatAssociative
      <4> QED BY <4>1, <4>2 DEF d
    <3>4. sent[Thread!Peer(e)] = (Append(r, x) \o b) \o c BY <1>10, <3>1, <3>3
    <3> QED BY <1>1, <1>5, <3>2, <3>4 DEF Arrives, b, c
  <2>2. CASE x = Thread!Closing
    <3>1. Mail(inbox[e]) = b /\ received'[e] = r BY <1>3, <1>4, <1>9, <2>2 DEF b, r
    <3> QED BY <1>1, <1>5, <1>10, <3>1 DEF Arrives, b, c, r
  <2> QED BY <2>1, <2>2
<1>12. EndLast(e)'
  <2> SUFFICES ASSUME ~closed[e] PROVE EndLast(e)' BY <1>1 DEF EndLast, Thread!lifecycle
  <2>1. /\ LastFrom(e, inbox[e]) /\ LastFrom(e, callbacks[e])
        /\ Thread!Closing \in Items(inbox[e]) => callbacks[e] = <<>>
    BY DEF ChannelInv, EndLast
  <2>2. \A i \in 1..Len(rest) : i + 1 \in 1..Len(inbox[e]) /\ rest[i] = inbox[e][i + 1] BY <1>3
  <2>3. LastFrom(e, inbox[e])'
    <3>1. ASSUME NEW i \in 1..Len(rest), rest[i] = Thread!Closing PROVE i = Len(rest) /\ owner[Thread!Peer(e)] = "closed"
      <4>1. i + 1 = Len(inbox[e]) /\ owner[Thread!Peer(e)] = "closed" BY <2>1, <2>2, <3>1 DEF LastFrom
      <4> QED BY <1>3, <4>1
    <3> QED BY <1>1, <1>5, <3>1 DEF LastFrom, Thread!lifecycle
  <2>4. LastFrom(e, callbacks[e])' BY <1>1, <2>1 DEF LastFrom, Thread!lifecycle
  <2>5. Thread!Closing \in Items(inbox'[e]) => callbacks'[e] = <<>>
    <3>1. Items(rest) \subseteq Items(inbox[e]) BY <2>2 DEF Items
    <3> QED BY <1>1, <1>5, <2>1, <3>1
  <2>6. receiver'[e] = "failed" => closed'[Thread!Peer(e)] /\ received'[e] = sent'[Thread!Peer(e)]
    <3> SUFFICES ASSUME receiver'[e] = "failed" PROVE closed[Thread!Peer(e)] /\ received'[e] = sent[Thread!Peer(e)] BY <1>1 DEF Thread!lifecycle
    <3>1. x = Thread!Closing /\ received'[e] = r BY <1>1, <1>4 DEF Thread!TypeOK
    <3>0. 1 \in 1..Len(inbox[e]) /\ inbox[e][1] = Thread!Closing BY <1>3, <3>1
    <3>2. Len(inbox[e]) = 1 /\ owner[Thread!Peer(e)] = "closed" BY <2>1, <3>0 DEF LastFrom
    <3>3. Thread!Closing \in Items(inbox[e]) BY <3>0 DEF Items
    <3>4. callbacks[e] = <<>> /\ rest = <<>> BY <1>3, <2>1, <3>2, <3>3
    <3>5. b = <<>> /\ c = <<>> BY <1>2, <3>4, MailType
    <3>6. Mail(inbox[e]) = b BY <1>3, <1>9, <3>1
    <3> HIDE DEF b, c, r
    <3>7. sent[Thread!Peer(e)] = r BY <1>9, <1>10, <3>5, <3>6
    <3>8. closed[Thread!Peer(e)] BY <3>2, EndsFacts DEF ChannelInv, Owned
    <3> QED BY <3>1, <3>7, <3>8
  <2> QED BY <1>1, <2>3, <2>4, <2>5, <2>6 DEF EndLast, Thread!lifecycle
<1> QED BY <1>6, <1>7, <1>8, <1>11, <1>12 DEF ChannelInv

\* recv() starts to wait.
LEMMA RecvStartStep ==
  ASSUME ChannelInv, NEW e \in Thread!Ends, Thread!RecvStart(e)
  PROVE  ChannelInv'
<1>1. UNCHANGED <<Thread!lifecycle, callbacks, inbox, sender, sent, received>>
      /\ receiver' \in [Thread!Ends -> {"idle", "waiting", "failed"}]
  BY DEF Thread!RecvStart, ChannelInv, Thread!TypeOK
<1>2. Thread!TypeOK' BY <1>1 DEF ChannelInv, Thread!TypeOK, Thread!lifecycle
<1>3. ASSUME NEW f \in Thread!Ends PROVE Owned(f)' /\ Pledged(f)' /\ EndLast(f)' /\ Arrives(f)'
  <2>1. Pledged(f)' /\ Owned(f)' BY <1>1, PledgedStep, OtherOwned DEF Thread!Next
  <2>2. Arrives(f)' BY <1>1 DEF ChannelInv, Arrives
  <2>3. receiver'[f] = "failed" => receiver[f] = "failed" \/ closed[f] BY DEF Thread!RecvStart, ChannelInv, Thread!TypeOK
  <2>4. EndLast(f)' BY <1>1, <2>3 DEF ChannelInv, EndLast, LastFrom, Thread!lifecycle
  <2> QED BY <2>1, <2>2, <2>4
<1> QED BY <1>2, <1>3 DEF ChannelInv

\* Every step of the pair keeps the invariant.
LEMMA ChannelStep == ChannelInv /\ [Thread!Next]_(Thread!vars) => ChannelInv'
<1> SUFFICES ASSUME ChannelInv, [Thread!Next]_(Thread!vars) PROVE ChannelInv' OBVIOUS
<1>1. CASE Thread!Next
  BY <1>1, LifecycleStep, SenderStep, PostStep, DeliverStep, RecvStep, RecvStartStep DEF Thread!Next
<1>2. CASE UNCHANGED Thread!vars
  <2>1. Thread!TypeOK' BY <1>2 DEF Thread!vars, Thread!lifecycle, ChannelInv, Thread!TypeOK
  <2>2. ASSUME NEW e \in Thread!Ends PROVE Owned(e)' /\ Pledged(e)' BY <1>2 DEF Thread!vars, Thread!lifecycle, ChannelInv, Owned, Pledged
  <2>3. ASSUME NEW e \in Thread!Ends PROVE EndLast(e)' BY <1>2 DEF Thread!vars, Thread!lifecycle, ChannelInv, EndLast, LastFrom
  <2>4. ASSUME NEW e \in Thread!Ends PROVE Arrives(e)' BY <1>2 DEF Thread!vars, ChannelInv, Arrives
  <2> QED BY <2>1, <2>2, <2>3, <2>4 DEF ChannelInv
<1> QED BY <1>1, <1>2

\* The invariant says that what arrived is what was sent, in order.
LEMMA ChannelMeans == ChannelInv => Thread!Delivery
<1> SUFFICES ASSUME ChannelInv PROVE Thread!Delivery OBVIOUS
<1>1. Thread!InOrder
  <2>1. ASSUME NEW e \in Thread!Ends
        PROVE  sent[e] = received[Thread!Peer(e)] \o Thread!Messages(inbox[Thread!Peer(e)]) \o Thread!Messages(callbacks[Thread!Peer(e)])
    <3>1. Thread!Peer(e) \in Thread!Ends /\ Thread!Peer(Thread!Peer(e)) = e BY EndsFacts
    <3> QED BY <3>1, MailIsMessages DEF ChannelInv, Arrives
  <2> QED BY <2>1 DEF Thread!InOrder
<1>2. Thread!ClosedAfterMessages BY DEF ChannelInv, EndLast, Thread!ClosedAfterMessages
<1> QED BY <1>1, <1>2 DEF Thread!Delivery, ChannelInv

\* The invariant lets no end that closed send.
LEMMA ChannelQuiet == ChannelInv /\ [Thread!Next]_(Thread!vars) => [\A e \in Thread!Ends : closed[e] => sent'[e] = sent[e]]_(Thread!vars)
<1> SUFFICES ASSUME ChannelInv, Thread!Next, NEW f \in Thread!Ends, closed[f] PROVE sent'[f] = sent[f] OBVIOUS
<1>1. PICK e \in Thread!Ends :
        \/ Thread!Lifecycle(e)
        \/ Thread!SendStart(e) \/ Thread!SendWoken(e) \/ Thread!SendTimesOut(e) \/ Thread!SendOffer(e) \/ Thread!SendPost(e)
        \/ Thread!Deliver(e) \/ Thread!RecvStart(e) \/ Thread!Recv(e)
  BY DEF Thread!Next
<1>2. CASE Thread!SendPost(e)
  <2>1. f # e BY <1>2 DEF ChannelInv, Pledged, Thread!SendPost
  <2> QED BY <1>2, <2>1 DEF Thread!SendPost, ChannelInv, Thread!TypeOK
<1>3. CASE Thread!Lifecycle(e) BY <1>3, LifecycleLines
<1> QED BY <1>1, <1>2, <1>3 DEF Thread!SendStart, Thread!SendWoken, Thread!SendTimesOut, Thread!SendOffer, Thread!Deliver, Thread!RecvStart, Thread!Recv

\* Between two threads, whatever the order of their steps: the messages of each
\* end arrive once and in order, an open end is told of the other's close after
\* the last of them, and a closed end sends no more.
LocalSpec == LocalInit /\ [][LocalNext]_LocalVars

\* A step of the composed system is one of the pair or leaves it alone.
LEMMA ChannelMoves == [LocalNext]_LocalVars => [Thread!Next]_(Thread!vars)
BY DEF LocalNext, LocalVars, threadVars, Thread!vars, Thread!lifecycle

\* For any number of messages and any order of the two threads: an end receives what the other sent,
\* in order and once, and finds the end of the connection only after it.
THEOREM MessagesAreDelivered == LocalSpec => []Delivery
<1>1. LocalInit => ChannelInv BY ChannelInit DEF LocalInit
<1>2. ChannelInv /\ [LocalNext]_LocalVars => ChannelInv' BY ChannelMoves, ChannelStep
<1>3. ChannelInv => Delivery BY ChannelMeans DEF Delivery
<1> QED BY <1>1, <1>2, <1>3, PTL DEF LocalSpec

\* Of a closed end: it hands nothing over, not even by a send that had waited.
THEOREM NothingIsSentAfterClose == LocalSpec => NothingSentAfterClose
<1>1. LocalInit => ChannelInv BY ChannelInit DEF LocalInit
<1>2. ChannelInv /\ [LocalNext]_LocalVars => ChannelInv' BY ChannelMoves, ChannelStep
<1>3. ChannelInv /\ [LocalNext]_LocalVars => [\A e \in Thread!Ends : closed[e] => sent'[e] = sent[e]]_(Thread!vars)
  BY ChannelMoves, ChannelQuiet
<1> QED BY <1>1, <1>2, <1>3, PTL DEF LocalSpec, NothingSentAfterClose, Thread!NothingSentAfterClose
=============================================================================
