----------------------------- MODULE Execution -----------------------------
(***************************************************************************)
(* `process` and `_process_one` of _execution.py: what the server does with *)
(* one message between receiving its bytes and sending the reply.  A        *)
(* message is one request or a batch; every message is handled by a task    *)
(* of its own, and the tasks of one app share its ExecutionStats.           *)
(*                                                                         *)
(* Bytes are abstracted to their lengths: a reply is the number of bytes it *)
(* encodes to, and an item of a batch is its kind with the length of the    *)
(* error that replaces its reply when the batch runs out of room.  A task   *)
(* switches only where the code awaits, inside a handler; the steps between *)
(* two awaits are local to the task.                                        *)
(***************************************************************************)
EXTENDS Integers, Sequences, FiniteSets

CONSTANTS
  Tasks,         (* the tasks running `process`, one per message            *)
  Messages,      (* the decodable messages that may arrive                  *)
  ReplyLengths,  (* the lengths an encoded reply may have                   *)
  MaxBatch,      (* max_batch_size                                          *)
  MaxResponse    (* max_response_size                                       *)

Kind == {"call", "notification", "invalid"}

\* An item of a message.  fallback is the length of `_fallback(codec, item)`,
\* 0 standing for None.
Item == [kind : Kind, fallback : Nat]

ASSUME LimitsAssumption ==
  /\ IsFiniteSet(Tasks)
  /\ MaxBatch \in Nat
  /\ MaxResponse \in Nat
  /\ ReplyLengths \subseteq Nat \ {0}

ASSUME MessagesAssumption ==
  \A m \in Messages :
    /\ m \in [batch : BOOLEAN, items : Seq(Item)]
    /\ m.batch \/ Len(m.items) = 1
    /\ \A k \in 1..Len(m.items) :
         m.items[k].fallback = 0 <=> m.items[k].kind = "notification"

VARIABLES
  pc,         (* where each task is                                         *)
  msg,        (* the decoded message of each task                           *)
  sums,       (* partial sums of the fallbacks' lengths                     *)
  at,         (* the item each task works on                                *)
  remaining,  (* bytes the batch reply may still take                       *)
  reserved,   (* bytes of these held back for the items not yet answered    *)
  replies,    (* the items answered so far, in the order of their replies   *)
  bytes,      (* bytes of the replies collected so far                      *)
  expired,    (* the message's deadline has passed                          *)
  log,        (* the task's access-log lines                                *)
  stats       (* ExecutionStats, shared by all tasks                        *)

budget == <<sums, remaining, reserved>>
vars == <<pc, msg, budget, at, replies, bytes, expired, log, stats>>

Final == {"answered", "silent", "refused", "cancelled"}
PC == {"new", "reserve", "next", "running", "waiting"} \cup Final
\* The counters of ExecutionStats; all but the gauge `active` only grow.
Counters == {"requests", "active", "completed", "failed", "timed_out", "invalid"}
ExecutionStats ==
  {s \in [Counters -> Int] : \A c \in Counters \ {"active"} : s[c] >= 0}

\* How a line of the access log came about; the log itself has "ok" or a code.
\* "declared" is the code of an error response that the dispatch returned
\* (unknown method, invalid params, a WireError of the handler), "error" that of
\* a busy peer, a refused access or any other exception that was raised.
Failures == {"timeout", "error"}
Completions == {"ok", "declared"}
Outcome == {"notification", "cancelled", "invalid", "refused", "unparseable"}
             \cup Failures \cup Completions

\* The bytes a batch of n replies needs besides the replies themselves.
Framing(n) == n + 8

Size(t) == Len(msg[t].items)
This(t) == msg[t].items[at[t]]
InHandler == {t \in Tasks : pc[t] \in {"running", "waiting"}}

Bump(counters) ==
  [c \in DOMAIN stats |-> IF c \in counters THEN stats[c] + 1 ELSE stats[c]]

\* `_access`: the line the access log gets for the item (or the message).
Access(t, outcome) ==
  log' = [log EXCEPT ![t] = Append(@, outcome)]

----------------------------------------------------------------------------
Init ==
  /\ pc = [t \in Tasks |-> "new"]
  /\ msg = [t \in Tasks |-> [batch |-> FALSE, items |-> <<>>]]
  /\ sums = [t \in Tasks |-> <<0>>]
  /\ at = [t \in Tasks |-> 1]
  /\ remaining = [t \in Tasks |-> 0]
  /\ reserved = [t \in Tasks |-> 0]
  /\ replies = [t \in Tasks |-> <<>>]
  /\ bytes = [t \in Tasks |-> 0]
  /\ expired = [t \in Tasks |-> FALSE]
  /\ log = [t \in Tasks |-> <<>>]
  /\ stats = [c \in Counters |-> 0]

\* The bytes do not decode: one -32700 answer.
Undecodable(t) ==
  /\ pc[t] = "new"
  /\ pc' = [pc EXCEPT ![t] = "refused"]
  /\ stats' = Bump({"requests", "invalid"})
  /\ Access(t, "unparseable")
  /\ UNCHANGED <<msg, budget, at, replies, bytes, expired>>

\* The bytes decode; the deadline of the whole message starts to run.
Receive(t) ==
  /\ pc[t] = "new"
  /\ \E m \in Messages :
       /\ msg' = [msg EXCEPT ![t] = m]
       /\ pc' = [pc EXCEPT ![t] = IF m.batch THEN "reserve" ELSE "next"]
  /\ stats' = Bump({"requests"})
  /\ UNCHANGED <<budget, at, replies, bytes, expired, log>>

Refusable(t) == Size(t) = 0 \/ Size(t) > MaxBatch
Summed(t) == Len(sums[t]) = Size(t) + 1

\* Mutant of Reserve: a notification, whose fallback is None, stops the sum.
ReserveStuck(t) ==
  /\ pc[t] = "reserve" /\ ~Refusable(t) /\ ~Summed(t)
  /\ LET k == Len(sums[t])
     IN  /\ msg[t].items[k].kind # "notification"
         /\ sums' = [sums EXCEPT ![t] = Append(@, @[k] + msg[t].items[k].fallback)]
  /\ UNCHANGED <<pc, msg, at, remaining, reserved, replies, bytes, expired, log,
                 stats>>

\* One more fallback encoded and added to `reserve`.
Reserve(t) ==
  /\ pc[t] = "reserve" /\ ~Refusable(t) /\ ~Summed(t)
  /\ LET k == Len(sums[t])
     IN  sums' = [sums EXCEPT ![t] = Append(@, @[k] + msg[t].items[k].fallback)]
  /\ UNCHANGED <<pc, msg, at, remaining, reserved, replies, bytes, expired, log,
                 stats>>

Needed(t) == sums[t][Size(t) + 1] + Framing(Size(t))

\* Even the fallbacks alone would not fit the reply.
TooLarge(t) == Summed(t) /\ Needed(t) > MaxResponse

\* `_refuse_batch`: empty, too long, or too large to answer.
RefuseBatch(t) ==
  /\ pc[t] = "reserve"
  /\ Refusable(t) \/ TooLarge(t)
  /\ pc' = [pc EXCEPT ![t] = "refused"]
  /\ stats' = Bump({"invalid"})
  /\ Access(t, "refused")
  /\ UNCHANGED <<msg, budget, at, replies, bytes, expired>>

Admit(t) ==
  /\ pc[t] = "reserve" /\ ~Refusable(t) /\ Summed(t) /\ ~TooLarge(t)
  /\ pc' = [pc EXCEPT ![t] = "next"]
  /\ remaining' = [remaining EXCEPT ![t] = MaxResponse - Framing(Size(t))]
  /\ reserved' = [reserved EXCEPT ![t] = sums[t][Size(t) + 1]]
  /\ UNCHANGED <<msg, sums, at, replies, bytes, expired, log, stats>>

----------------------------------------------------------------------------
\* What is still held back once the current item is answered.
Held(t) == reserved[t] - This(t).fallback

\* Mutant of Fitted: the items not yet answered keep no room.
FittedGreedy(t, reply) ==
  IF msg[t].batch /\ This(t).fallback # 0 /\ reply > remaining[t]
    THEN This(t).fallback ELSE reply

\* The length of the reply the batch keeps for the item: its own, or the
\* fallback's when its own would use the room held back for the items after it.
Fitted(t, reply) ==
  IF msg[t].batch /\ This(t).fallback # 0 /\ reply > remaining[t] - Held(t)
    THEN This(t).fallback ELSE reply

\* Mutant of Collect: a batch of calls keeps only the replies that fit as they are.
CollectFitting(t, reply) ==
  /\ reserved' = [reserved EXCEPT ![t] = IF msg[t].batch THEN Held(t) ELSE @]
  /\ remaining' = [remaining EXCEPT ![t] = IF msg[t].batch THEN @ - Fitted(t, reply) ELSE @]
  /\ bytes' = [bytes EXCEPT ![t] = @ + Fitted(t, reply)]
  /\ replies' = [replies EXCEPT ![t] =
                   IF reply # Fitted(t, reply) \/ reply = 0 THEN @ ELSE Append(@, at[t])]
  /\ at' = [at EXCEPT ![t] = @ + 1]

\* The loop of `process` takes the item's reply, 0 standing for None.
Collect(t, reply) ==
  /\ reserved' = [reserved EXCEPT ![t] = IF msg[t].batch THEN Held(t) ELSE @]
  /\ remaining' = [remaining EXCEPT ![t] = IF msg[t].batch THEN @ - Fitted(t, reply) ELSE @]
  /\ bytes' = [bytes EXCEPT ![t] = @ + Fitted(t, reply)]
  /\ replies' = [replies EXCEPT ![t] = IF reply = 0 THEN @ ELSE Append(@, at[t])]
  /\ at' = [at EXCEPT ![t] = @ + 1]

\* Mutant of Invalid: the `finally` that decrements `active` covers the validation.
InvalidLeaves(t) ==
  /\ pc[t] = "next" /\ at[t] <= Size(t) /\ This(t).kind = "invalid"
  /\ \E reply \in ReplyLengths : Collect(t, reply)
  /\ stats' = [Bump({"invalid"}) EXCEPT !.active = @ - 1]
  /\ Access(t, "invalid")
  /\ UNCHANGED <<pc, msg, sums, expired>>

\* An item that is no valid request is answered -32600 without running anything.
Invalid(t) ==
  /\ pc[t] = "next" /\ at[t] <= Size(t) /\ This(t).kind = "invalid"
  /\ \E reply \in ReplyLengths : Collect(t, reply)
  /\ stats' = Bump({"invalid"})
  /\ Access(t, "invalid")
  /\ UNCHANGED <<pc, msg, sums, expired>>

\* A valid item enters `timeout_at(deadline)` and its handler starts.
Enter(t) ==
  /\ pc[t] = "next" /\ at[t] <= Size(t) /\ This(t).kind # "invalid"
  /\ pc' = [pc EXCEPT ![t] = "running"]
  /\ stats' = Bump({"active"})
  /\ UNCHANGED <<msg, budget, at, replies, bytes, expired, log>>

\* The handler awaits something; the event loop may run other tasks.
Suspend(t) ==
  /\ pc[t] = "running"
  /\ pc' = [pc EXCEPT ![t] = "waiting"]
  /\ UNCHANGED <<msg, budget, at, replies, bytes, expired, log, stats>>

Resume(t) ==
  /\ pc[t] = "waiting"
  /\ pc' = [pc EXCEPT ![t] = "running"]
  /\ UNCHANGED <<msg, budget, at, replies, bytes, expired, log, stats>>


\* The end of `_process_one`, with the `finally` that decrements `active`.
Leave(t, next, counters) ==
  /\ pc' = [pc EXCEPT ![t] = next]
  /\ stats' = [Bump(counters) EXCEPT !.active = @ - 1]
  /\ UNCHANGED <<msg, sums, expired>>

\* The dispatched call returned a response that fits max_response_size, a
\* result or an error.
Complete(t) ==
  /\ pc[t] = "running" /\ This(t).kind = "call"
  /\ \E reply \in ReplyLengths : reply <= MaxResponse /\ Collect(t, reply)
  /\ \E outcome \in Completions : Access(t, outcome)
  /\ Leave(t, "next", {"completed"})

\* The dispatched notification returned.
CompleteNotification(t) ==
  /\ pc[t] = "running" /\ This(t).kind = "notification"
  /\ Collect(t, 0)
  /\ Access(t, "notification")
  /\ Leave(t, "next", {})

\* Mutant of Answer: a failed notification is logged but not counted.
AnswerUncounted(t, why) ==
  /\ IF This(t).kind = "notification"
       THEN Collect(t, 0)
       ELSE \E reply \in ReplyLengths : Collect(t, reply)
  /\ Access(t, why)
  /\ Leave(t, "next", CASE This(t).kind = "notification" -> {}
                        [] why = "timeout" -> {"failed", "timed_out"}
                        [] OTHER -> {"failed"})

\* An exception becomes an error reply, or nothing for a notification.
Answer(t, why) ==
  /\ IF This(t).kind = "notification"
       THEN Collect(t, 0)
       ELSE \E reply \in ReplyLengths : Collect(t, reply)
  /\ Access(t, why)
  /\ Leave(t, "next", IF why = "timeout" THEN {"failed", "timed_out"} ELSE {"failed"})

\* The dispatch raised; a result that cannot be encoded or is longer than
\* max_response_size counts as an internal error.
Fail(t) == pc[t] = "running" /\ \E why \in Failures : Answer(t, why)

\* The deadline interrupts a handler that is suspended.
TimeOut(t) == pc[t] = "waiting" /\ expired[t] /\ Answer(t, "timeout")

\* The task is cancelled while its handler is suspended; the message is dropped.
Cancel(t) ==
  /\ pc[t] = "waiting"
  /\ Access(t, "cancelled")
  /\ Leave(t, "cancelled", {})
  /\ UNCHANGED <<remaining, reserved, at, replies, bytes>>

\* Time passes the deadline.
Expire(t) ==
  /\ pc[t] \notin Final \cup {"new"} /\ ~expired[t]
  /\ expired' = [expired EXCEPT ![t] = TRUE]
  /\ UNCHANGED <<pc, msg, budget, at, replies, bytes, log, stats>>

\* Every item has its reply: the message is answered, or silent if none has one.
Reply(t) ==
  /\ pc[t] = "next" /\ at[t] > Size(t)
  /\ pc' = [pc EXCEPT ![t] = IF replies[t] = <<>> THEN "silent" ELSE "answered"]
  /\ UNCHANGED <<msg, budget, at, replies, bytes, expired, log, stats>>

Finish(t) == Complete(t) \/ CompleteNotification(t) \/ Fail(t)

Next ==
  \E t \in Tasks :
    \/ Undecodable(t) \/ Receive(t) \/ Reserve(t) \/ RefuseBatch(t) \/ Admit(t)
    \/ Invalid(t) \/ Enter(t) \/ Suspend(t) \/ Resume(t) \/ Finish(t)
    \/ TimeOut(t) \/ Cancel(t) \/ Expire(t) \/ Reply(t)

Spec == Init /\ [][Next]_vars

\* Synchronous code runs to its next await and the clock advances.  A handler
\* that keeps suspending cannot dodge the deadline: the event loop runs the
\* timers that are due between two steps of a task.
Fairness ==
  \A t \in Tasks :
    /\ WF_vars(Reserve(t) \/ RefuseBatch(t) \/ Admit(t) \/ Invalid(t) \/ Enter(t) \/ Reply(t))
    /\ WF_vars(Suspend(t) \/ Finish(t))
    /\ WF_vars(Expire(t))
    /\ SF_vars(TimeOut(t))

FairSpec == Spec /\ Fairness

----------------------------------------------------------------------------
\* The type of every variable but for the sign of `active`.
Shape ==
  /\ pc \in [Tasks -> PC]
  /\ msg \in [Tasks -> [batch : BOOLEAN, items : Seq(Item)]]
  /\ sums \in [Tasks -> Seq(Nat)]
  /\ at \in [Tasks -> Nat \ {0}]
  /\ remaining \in [Tasks -> Int]
  /\ reserved \in [Tasks -> Int]
  /\ replies \in [Tasks -> Seq(Nat)]
  /\ bytes \in [Tasks -> Nat]
  /\ expired \in [Tasks -> BOOLEAN]
  /\ log \in [Tasks -> Seq(Outcome)]
  /\ stats \in ExecutionStats

\* The type invariant; the gauge `active`, the one counter that is decremented,
\* never goes below zero.
TypeOK == Shape /\ stats.active >= 0

\* The bytes of a batch's reply: its replies, the commas between them and
\* the brackets around them.
BatchLength(t) == bytes[t] + Len(replies[t]) + 1

\* "The batch reply must fit in max_response_size" (docs/protocol.md:84): however
\* long the replies of the items turn out, the array `process` returns fits.
BatchFits ==
  \A t \in Tasks : msg[t].batch /\ pc[t] = "answered" => BatchLength(t) <= MaxResponse

\* Once a message has run, every item that is no notification has exactly one
\* reply, in the order of the items, and no notification has one: replacing a
\* reply by its fallback never drops it (docs/protocol.md:91).
EveryCallAnswered ==
  \A t \in Tasks : pc[t] \in {"answered", "silent"} =>
    /\ \A i, j \in 1..Len(replies[t]) : i < j => replies[t][i] < replies[t][j]
    /\ \A k \in 1..Size(t) :
         msg[t].items[k].kind # "notification"
           <=> \E i \in 1..Len(replies[t]) : replies[t][i] = k

\* `active` is the number of handlers running now, whichever way the others
\* ended: reply, error, timeout or cancellation of their task.
ActiveIsExact == stats.active = Cardinality(InHandler)

\* The places of the access log with such lines.
Logged(outcomes) ==
  UNION {{<<t, k>> : k \in {i \in 1..Len(log[t]) : log[t][i] \in outcomes}} : t \in Tasks}
Lines(outcomes) == Cardinality(Logged(outcomes))

\* The counters agree with the access log: every call is logged once and counted
\* once, under the counter its outcome belongs to.  An error response that was
\* returned completes its call, one that stands for an exception fails it
\* (docs/observability.md:158).
CountersMatchLog ==
  /\ stats.completed = Lines(Completions)
  /\ stats.failed = Lines(Failures)
  /\ stats.timed_out = Lines({"timeout"})
  /\ stats.invalid = Lines({"invalid", "refused", "unparseable"})

\* What `app.stats` reports is what is running and what has been logged; and the
\* state is typed.
StatsExact == TypeOK /\ ActiveIsExact /\ CountersMatchLog

\* A message that has arrived is answered, refused, found to need no answer or
\* cancelled: the shared deadline bounds the whole batch.
EveryMessageEnds == \A t \in Tasks : pc[t] # "new" ~> pc[t] \in Final
=============================================================================
