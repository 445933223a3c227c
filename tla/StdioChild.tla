----------------------------- MODULE StdioChild -----------------------------
(***************************************************************************)
(* StdIoTransport (transports/stdio.py), the parent's end: it launches a    *)
(* child process, has operations on its pipes, and close() stops the child, *)
(* escalating from closing its stdin to terminate() to kill().              *)
(*                                                                         *)
(* Every wait of close() may end by its timeout or by cancellation.  The    *)
(* child may exit on its own, on end of file and on SIGTERM, and need not;  *)
(* SIGKILL ends it.                                                         *)
(*                                                                         *)
(* close() waits for the tasks it has cancelled, not only for their         *)
(* operations, and holds `_close_lock` meanwhile: one whose own cleanup     *)
(* calls close() (`async with`, Client._abort) then waits for that lock.    *)
(***************************************************************************)
EXTENDS Integers, FiniteSets

CONSTANTS
  Closers,     (* the tasks that call close()                               *)
  Operations,  (* the tasks that call recv() or send()                      *)
  None

ASSUME NoneAssumption == None \notin Closers

VARIABLES
  connector,  (* where connect() is                                         *)
  child,      (* the child process                                          *)
  killed,     (* SIGKILL was sent                                           *)
  proc,       (* `proc`, `stdin`, `stdout` and `stderr` are set             *)
  eof,        (* the child's stdin is closed                                *)
  closing,    (* `_closing`                                                 *)
  holder,     (* the closer that holds `_close_lock`                        *)
  closer,     (* where each closer is                                       *)
  op          (* where each operation is, or the cleanup of its task        *)

process == <<connector, child, killed, proc, eof>>
vars == <<process, closing, holder, closer, op>>

Waits == {"eof wait", "terminate wait", "kill wait"}
\* A closer that holds the lock.
Gathers == {"operations", "abandoning"}
Inside == Waits \cup Gathers \cup {"kill", "last wait", "drains"}
Ended == {"done", "cancelled", "failed"}

Init ==
  /\ connector = "new" /\ child = "none"
  /\ killed = FALSE /\ proc = FALSE /\ eof = FALSE /\ closing = FALSE
  /\ holder = None
  /\ closer = [c \in Closers |-> "idle"]
  /\ op = [o \in Operations |-> "idle"]

At(c, phase) == closer[c] = phase
Goes(c, to) == closer' = [closer EXCEPT ![c] = to]
\* close() returns or raises, and releases the lock.
Leaves(c, how) == Goes(c, how) /\ holder' = None

----------------------------------------------------------------------------
Connect ==
  /\ connector = "new"
  /\ connector' = IF closing THEN "failed" ELSE "spawning"
  /\ UNCHANGED <<child, killed, proc, eof, closing, holder, closer, op>>

\* The process has been created; connect() goes on when the loop runs it.
Spawn ==
  /\ connector = "spawning" /\ child = "none"
  /\ child' = "running"
  /\ UNCHANGED <<connector, killed, proc, eof, closing, holder, closer, op>>

Connected ==
  /\ connector = "spawning" /\ child # "none"
  /\ connector' = "connected" /\ proc' = TRUE
  /\ UNCHANGED <<child, killed, eof, closing, holder, closer, op>>

ChildExits ==
  /\ child = "running"
  /\ child' = "exited"
  /\ UNCHANGED <<connector, killed, proc, eof, closing, holder, closer, op>>

----------------------------------------------------------------------------
\* recv() or send() with the pipes at hand.
Operate(o) ==
  /\ op[o] = "idle" /\ proc /\ ~closing
  /\ op' = [op EXCEPT ![o] = "pending"]
  /\ UNCHANGED <<process, closing, holder, closer>>

Operated(o) ==
  /\ op[o] = "pending"
  /\ op' = [op EXCEPT ![o] = "idle"]
  /\ UNCHANGED <<process, closing, holder, closer>>

\* It fails, is late or was cancelled by its caller.  The channel is closed
\* unless it was still waiting for its lock, or rejected the size of a message.
OperationFails(o) ==
  /\ op[o] = "pending"
  /\ op' = [op EXCEPT ![o] = "idle"]
  /\ eof' \in {eof, TRUE}
  /\ UNCHANGED <<connector, child, killed, proc, closing, holder, closer>>

\* close() has cancelled its task: the operation ends, and the task with it
\* unless its cleanup calls close().
OperationCancelled(o) ==
  /\ op[o] = "cancelled"
  /\ \E after \in {"idle", "cleanup"} : op' = [op EXCEPT ![o] = after]
  /\ eof' \in {eof, TRUE}
  /\ UNCHANGED <<connector, child, killed, proc, closing, holder, closer>>

\* That call gets no lock from who waits for it, but may have a deadline, as that
\* of a Client has (close_timeout), or be cancelled by somebody else.
CleanupEnds(o) ==
  /\ op[o] = "cleanup"
  /\ op' = [op EXCEPT ![o] = "idle"]
  /\ UNCHANGED <<process, closing, holder, closer>>

----------------------------------------------------------------------------
Close(c) ==
  /\ At(c, "idle") /\ Goes(c, "lock")
  /\ UNCHANGED <<process, closing, holder, op>>

\* With the lock: nothing to stop, or the operations are cancelled first.
CloseBegins(c) ==
  /\ At(c, "lock") /\ holder = None
  /\ closing' = TRUE
  /\ IF proc
       THEN /\ Goes(c, "operations") /\ holder' = c
            /\ op' = [o \in Operations |-> IF op[o] = "pending" THEN "cancelled" ELSE op[o]]
       ELSE Leaves(c, "done") /\ UNCHANGED op
  /\ UNCHANGED process

\* Mutant of CloseStdin: the operations are not waited for.
CloseStdinAtOnce(c) ==
  /\ At(c, "operations")
  /\ eof' = TRUE
  /\ Goes(c, "eof wait")
  /\ UNCHANGED <<connector, child, killed, proc, closing, holder, op>>

TasksEnded == \A o \in Operations : op[o] = "idle"

\* The tasks of the operations have ended: the child's stdin is closed.
CloseStdin(c) ==
  /\ At(c, "operations") /\ TasksEnded
  /\ eof' = TRUE
  /\ Goes(c, "eof wait")
  /\ UNCHANGED <<connector, child, killed, proc, closing, holder, op>>

\* The child has exited while close() waited for it.
Exited(c) ==
  /\ closer[c] \in Waits /\ child = "exited"
  /\ Goes(c, "drains")
  /\ UNCHANGED <<process, closing, holder, op>>

\* shutdown_timeout is over: SIGTERM.
Terminate(c) ==
  /\ At(c, "eof wait") /\ child = "running"
  /\ Goes(c, "terminate wait")
  /\ UNCHANGED <<process, closing, holder, op>>

\* kill_timeout is over: SIGKILL.
Kill(c) ==
  /\ At(c, "terminate wait") /\ child = "running"
  /\ Goes(c, "kill wait") /\ killed' = TRUE
  /\ UNCHANGED <<connector, child, proc, eof, closing, holder, op>>

\* The last wait times out, or close() is cancelled in one: the finally.
Interrupted(c) ==
  /\ closer[c] \in Waits
  /\ Goes(c, "kill")
  /\ UNCHANGED <<process, closing, holder, op>>

\* Mutant of Finally: a cancelled close() leaves the child to itself.
FinallyLeaves(c) ==
  /\ At(c, "kill")
  /\ Goes(c, "drains")
  /\ UNCHANGED <<process, closing, holder, op>>

\* A child that still runs is killed, and waited for again.
Finally(c) ==
  /\ At(c, "kill")
  /\ IF child = "running" THEN Goes(c, "last wait") /\ killed' = TRUE
                          ELSE Goes(c, "drains") /\ UNCHANGED killed
  /\ UNCHANGED <<connector, child, proc, eof, closing, holder, op>>

LastExited(c) ==
  /\ At(c, "last wait") /\ child = "exited"
  /\ Goes(c, "drains")
  /\ UNCHANGED <<process, closing, holder, op>>

\* Not even now in time, or cancelled again.
LastTimesOut(c) ==
  /\ At(c, "last wait")
  /\ Leaves(c, "failed")
  /\ UNCHANGED <<process, closing, op>>

\* The pipes are drained and released.
Drained(c) ==
  /\ At(c, "drains")
  /\ Leaves(c, "done")
  /\ proc' = FALSE
  /\ UNCHANGED <<connector, child, killed, eof, closing, op>>

\* close() is cancelled where no finally is in force, or again in it.
Cancelled(c) ==
  /\ closer[c] \in {"lock", "drains"}
  /\ Goes(c, "cancelled")
  /\ holder' = IF holder = c THEN None ELSE holder
  /\ UNCHANGED <<process, closing, op>>

\* It is cancelled while it waits for tasks: they are cancelled once more, which
\* ends a cleanup that waits for the lock, and it still waits for them.
Abandon(c) ==
  /\ closer[c] \in Gathers /\ ~TasksEnded
  /\ Goes(c, "abandoning")
  /\ op' = [o \in Operations |-> IF op[o] = "cleanup" THEN "idle" ELSE op[o]]
  /\ UNCHANGED <<process, closing, holder>>

\* Then it raises, and the child is left as it is.
Abandoned(c) ==
  /\ At(c, "abandoning") /\ TasksEnded
  /\ Leaves(c, "cancelled")
  /\ UNCHANGED <<process, closing, op>>

----------------------------------------------------------------------------
Progress(c) ==
  \/ CloseBegins(c) \/ CloseStdin(c) \/ Exited(c) \/ Terminate(c) \/ Kill(c) \/ Interrupted(c)
  \/ Finally(c) \/ LastExited(c) \/ LastTimesOut(c) \/ Drained(c) \/ Abandoned(c)

Next ==
  \/ Connect \/ Spawn \/ Connected \/ ChildExits
  \/ \E o \in Operations : Operate(o) \/ Operated(o) \/ OperationFails(o) \/ OperationCancelled(o) \/ CleanupEnds(o)
  \/ \E c \in Closers : Close(c) \/ Progress(c) \/ Cancelled(c) \/ Abandon(c)

Spec == Init /\ [][Next]_vars

\* Every wait of close() has a timeout, operations end when they are cancelled,
\* and a child that was killed exits.  It need not exit otherwise.
FairSpec ==
  /\ Spec
  /\ WF_vars(Spawn) /\ WF_vars(Connected) /\ WF_vars(killed /\ ChildExits)
  /\ \A o \in Operations : WF_vars(OperationCancelled(o))
  /\ \A c \in Closers : SF_vars(CloseBegins(c)) /\ WF_vars(Progress(c))

----------------------------------------------------------------------------
TypeOK ==
  /\ connector \in {"new", "spawning", "connected", "failed"}
  /\ child \in {"none", "running", "exited"}
  /\ killed \in BOOLEAN /\ proc \in BOOLEAN /\ eof \in BOOLEAN /\ closing \in BOOLEAN
  /\ holder \in Closers \cup {None}
  /\ closer \in [Closers -> {"idle", "lock"} \cup Inside \cup Ended]
  /\ op \in [Operations -> {"idle", "pending", "cancelled", "cleanup"}]
  /\ \A c \in Closers : closer[c] \in Inside <=> holder = c

\* The transport forgets a child only when it has exited: whatever timeouts and
\* cancellations close() met, no child is left that nobody can stop.
ForgottenChildExited == connector = "connected" /\ ~proc => child = "exited"

\* No read or write is under way on pipes that were released or whose stdin
\* close() has closed, and no task that close() has cancelled still runs then.
PipesOutliveOperations ==
  \A o \in Operations : op[o] # "idle" =>
    proc /\ \A c \in Closers : closer[c] \notin Inside \ Gathers

\* What close() cannot see to: a task it cancels calls close() in its cleanup with
\* a deadline, if at all (stdio.py:158-161).
CleanupsBounded == \A o \in Operations : WF_vars(CleanupEnds(o))

\* Then close() ends, whatever the child does.
CloseEnds ==
  CleanupsBounded => \A c \in Closers : closer[c] = "lock" ~> closer[c] \in Ended

\* A close() that was cancelled, or timed out, while it waited for the child has
\* killed it.
InterruptedCloseKills == \A c \in Closers : closer[c] \in Waits ~> child = "exited"

\* close() ends, unless a task it waits for waits for it, and leaves no child that
\* it has begun to wait for.
CloseStops == CloseEnds /\ InterruptedCloseKills

\* "Pending reads and writes are cancelled", then stdin is closed and the child
\* stopped "within about 9 seconds" (docs/transports/stdio.md:66-72): close() gets
\* past what it has cancelled.
CloseGetsOn == \A c \in Closers : closer[c] = "operations" ~> closer[c] # "operations"
=============================================================================
