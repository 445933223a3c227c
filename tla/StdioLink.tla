----------------------------- MODULE StdioLink -----------------------------
(***************************************************************************)
(* The whole of a stdio connection (transports/stdio.py): the parent that   *)
(* supervises the child (StdioChild), the two pipes, and in the child the   *)
(* StdIoServerTransport with its two threads, one that reads stdin and one  *)
(* that writes stdout, under a program that answers a frame at a time.      *)
(*                                                                         *)
(* A frame is two parts, its length and its payload.  The parent may crash. *)
(* When the program is `patient` no wait times out, nobody cancels and no   *)
(* handler hangs: what happens then needs no deadline.                      *)
(***************************************************************************)
EXTENDS StdioChild, Sequences

CONSTANTS
  RecvTask, SendTask, (* the operation that receives and the one that sends    *)
  MaxFrames,         (* bound: the requests sent                              *)
  PipeSize,          (* the parts a pipe holds                                *)
  BufferSize         (* the parts after which the reader pauses its thread    *)

ASSUME OperationsAssumption == RecvTask # SendTask /\ Operations = {RecvTask, SendTask}
ASSUME SizesAssumption == MaxFrames \in Nat /\ {PipeSize, BufferSize} \subseteq Nat \ {0}

VARIABLES
  patient,   (* whether the program is patient                            *)
  alive,     (* the parent has not crashed                                *)
  asked,     (* how many frames the parent has sent                       *)
  answers,   (* the numbers of the frames its recv() returned             *)
  half,      (* it has read the length of the next one                    *)
  input,     (* what is in the child's stdin                              *)
  output,    (* what is in its stdout                                     *)
  pump,      (* the stdin thread                                          *)
  posted,    (* what the thread has handed to the loop                    *)
  buffer,    (* what the StreamReader of the child was fed                *)
  loop,      (* where the child's program is                              *)
  heard,     (* the numbers of the frames its recv() returned             *)
  replied,   (* how many frames it has sent                               *)
  queue,     (* the queue of the stdout thread                            *)
  shut,      (* the writer's `_closing`                                   *)
  broken,    (* `error` of the stdout thread: stdout has no reader        *)
  finished   (* `_finished`: the stdout thread has ended                  *)

parentSide == <<asked, answers, half>>
stdin == <<pump, posted, buffer>>
stdout == <<queue, shut, broken, finished>>
childSide == <<stdin, loop, heard, replied, stdout>>
linkVars == <<vars, patient, alive, parentSide, input, output, childSide>>

Part(kind, n) == [is |-> kind, n |-> n]
Frame(n) == <<Part("header", n), Part("payload", n)>>
End == Part("end", 0)  \* end of file, and the None that ends the stdout thread
InputEnded == eof \/ ~alive
Moves(to) == loop' = to

LinkInit ==
  /\ Init
  /\ patient \in BOOLEAN /\ alive = TRUE
  /\ asked = 0 /\ answers = <<>> /\ half = FALSE
  /\ input = <<>> /\ output = <<>>
  /\ pump = "reading" /\ posted = <<>> /\ buffer = <<>>
  /\ loop = "none" /\ heard = <<>> /\ replied = 0
  /\ queue = <<>> /\ shut = FALSE /\ broken = FALSE /\ finished = FALSE

----------------------------------------------------------------------------
\* The parent's recv() and send(), while stdin is open.
SendRequest ==
  /\ Operate(SendTask) /\ ~eof /\ asked < MaxFrames
  /\ asked' = asked + 1 /\ input' = input \o Frame(asked')
  /\ UNCHANGED <<patient, alive, answers, half, output, childSide>>

SendDone ==
  /\ Operated(SendTask) /\ Len(input) <= PipeSize
  /\ UNCHANGED <<patient, alive, parentSide, input, output, childSide>>

AwaitReply ==
  /\ Operate(RecvTask) /\ ~eof
  /\ UNCHANGED <<patient, alive, parentSide, input, output, childSide>>

ReadReply ==
  /\ op[RecvTask] = "pending" /\ output # <<>>
  /\ output' = Tail(output)
  /\ IF ~half /\ Head(output).is = "header"
       THEN half' = TRUE /\ UNCHANGED <<answers, vars>>
       ELSE /\ half' = FALSE /\ Operated(RecvTask)
            /\ answers' = Append(answers, IF half THEN Head(output).n ELSE 0)
  /\ UNCHANGED <<patient, alive, asked, input, childSide>>

Gone == child = "exited" /\ output = <<>>

\* Mutant of ParentFails: a read that fails leaves the channel open.
ParentStops(o) ==
  /\ OperationFails(o) \/ OperationCancelled(o)
  /\ patient /\ op[o] = "pending" => Gone
  /\ o = RecvTask => half' = FALSE
  /\ o = SendTask => half' = half
  /\ UNCHANGED <<patient, alive, asked, answers, input, output, childSide>>

\* An operation fails or is cancelled; where a read stopped is not known, and
\* stdin is closed, so that no other one begins.
ParentFails(o) ==
  /\ OperationFails(o) \/ OperationCancelled(o)
  /\ patient /\ op[o] = "pending" => Gone
  /\ o = RecvTask => eof' /\ half' = FALSE
  /\ o = SendTask => half' = half
  /\ UNCHANGED <<patient, alive, asked, answers, input, output, childSide>>

\* Mutant of Discard: what the child still writes is left in the pipe.
DiscardNothing == FALSE /\ UNCHANGED linkVars

\* While close() waits for the child it reads and drops what it writes.
Discard ==
  /\ alive /\ \E c \in Closers : closer[c] \in Waits \cup {"kill", "last wait"}
  /\ output # <<>> /\ output' = Tail(output)
  /\ UNCHANGED <<vars, patient, alive, parentSide, input, childSide>>

\* The parent crashes, but not in close(), when stdin is closed anyway.
ParentDies ==
  /\ alive /\ child # "none" /\ \A c \in Closers : closer[c] = "idle"
  /\ alive' = FALSE
  /\ UNCHANGED <<vars, patient, parentSide, input, output, childSide>>

----------------------------------------------------------------------------
\* Mutant of PumpReads: the end of stdin is not handed over.
PumpStops ==
  /\ child = "running" /\ pump = "reading" /\ Len(buffer) < BufferSize
  /\ IF input # <<>>
       THEN posted' = Append(posted, Head(input)) /\ input' = Tail(input) /\ UNCHANGED pump
       ELSE InputEnded /\ pump' = "ended" /\ UNCHANGED <<input, posted>>
  /\ UNCHANGED <<vars, patient, alive, parentSide, output, buffer, loop, heard, replied, stdout>>

\* The stdin thread reads unless the reader's buffer is full, hands over what
\* it has read, and the loop feeds it to the reader.
PumpReads ==
  /\ child = "running" /\ pump = "reading" /\ Len(buffer) < BufferSize
  /\ IF input # <<>>
       THEN posted' = Append(posted, Head(input)) /\ input' = Tail(input) /\ UNCHANGED pump
       ELSE InputEnded /\ posted' = Append(posted, End) /\ pump' = "ended" /\ UNCHANGED input
  /\ UNCHANGED <<vars, patient, alive, parentSide, output, buffer, loop, heard, replied, stdout>>

Feed ==
  /\ child = "running" /\ posted # <<>>
  /\ buffer' = Append(buffer, Head(posted)) /\ posted' = Tail(posted)
  /\ UNCHANGED <<vars, patient, alive, parentSide, input, output, pump, loop, heard, replied, stdout>>

Buffered == buffer # <<>> /\ Head(buffer) # End

HearHeader ==
  /\ loop = "recv" /\ Buffered
  /\ buffer' = Tail(buffer) /\ Moves("payload")
  /\ UNCHANGED <<vars, patient, alive, parentSide, input, output, pump, posted, heard, replied, stdout>>

HearPayload ==
  /\ loop = "payload" /\ Buffered
  /\ buffer' = Tail(buffer) /\ heard' = Append(heard, Head(buffer).n) /\ Moves("handling")
  /\ UNCHANGED <<vars, patient, alive, parentSide, input, output, pump, posted, replied, stdout>>

\* _StdoutWriter.close(): the thread ends after the writes that are queued.
Shuts ==
  /\ shut' = TRUE
  /\ queue' = IF shut THEN queue ELSE Append(queue, End)
  /\ UNCHANGED <<broken, finished>>

\* recv() meets the end of stdin, or is late or cancelled: stdout is closed.
HearFails ==
  /\ loop \in {"recv", "payload"}
  /\ ~patient \/ (buffer # <<>> /\ Head(buffer) = End)
  /\ Shuts /\ Moves("closing")
  /\ UNCHANGED <<vars, patient, alive, parentSide, input, output, stdin, heard, replied>>

\* The handler returns, with a reply or without; or it hangs.
Reply ==
  /\ loop = "handling" /\ ~shut
  /\ replied' = replied + 1 /\ queue' = queue \o Frame(replied') /\ Moves("draining")
  /\ UNCHANGED <<vars, patient, alive, parentSide, input, output, stdin, heard, shut, broken, finished>>

HandlerEnds ==
  /\ loop = "handling"
  /\ Moves("recv") \/ (~patient /\ Moves("hung"))
  /\ UNCHANGED <<vars, patient, alive, parentSide, input, output, stdin, heard, replied, stdout>>

\* drain(): the frame has reached the pipe, failed to, or takes too long.
Drain ==
  /\ loop = "draining" /\ queue = <<>> /\ ~broken
  /\ Moves("recv")
  /\ UNCHANGED <<vars, patient, alive, parentSide, input, output, stdin, heard, replied, stdout>>

DrainFails ==
  /\ loop = "draining"
  /\ \/ broken /\ queue = <<>> /\ shut' = TRUE /\ UNCHANGED <<queue, broken, finished>>
     \/ ~patient /\ Shuts
  /\ Moves("closing")
  /\ UNCHANGED <<vars, patient, alive, parentSide, input, output, stdin, heard, replied>>

\* close(): stdout is flushed and closed within write_timeout, and the process
\* ends, its threads with it.
CloseStdout ==
  /\ loop = "closing"
  /\ Shuts /\ Moves("flushing")
  /\ UNCHANGED <<vars, patient, alive, parentSide, input, output, stdin, heard, replied>>

Leave ==
  /\ loop = "flushing"
  /\ finished \/ ~patient
  /\ ChildExits /\ Moves("exited")
  /\ UNCHANGED <<patient, alive, parentSide, input, output, stdin, heard, replied, stdout>>

\* It is killed or crashes.
Dies ==
  /\ ~patient /\ ChildExits /\ Moves("exited")
  /\ UNCHANGED <<patient, alive, parentSide, input, output, stdin, heard, replied, stdout>>

\* The stdout thread: a part is written when the pipe has room, and nothing any
\* more once that has failed.
WriterWrites ==
  /\ child = "running" /\ queue # <<>> /\ Head(queue) # End
  /\ queue' = Tail(queue)
  /\ IF alive /\ ~broken THEN Len(output) < PipeSize /\ output' = Append(output, Head(queue)) /\ UNCHANGED broken
                         ELSE broken' = TRUE /\ UNCHANGED output
  /\ UNCHANGED <<vars, patient, alive, parentSide, input, stdin, loop, heard, replied, shut, finished>>

WriterEnds ==
  /\ child = "running" /\ queue # <<>> /\ Head(queue) = End
  /\ queue' = <<>> /\ finished' = TRUE
  /\ UNCHANGED <<vars, patient, alive, parentSide, input, output, stdin, loop, heard, replied, shut, broken>>

----------------------------------------------------------------------------
\* The steps of StdioChild that are no operation and not the child's end.
Supervision ==
  /\ alive
  /\ \/ Connect \/ Spawn \/ Connected
     \/ \E c \in Closers :
          \/ Close(c) \/ CloseBegins(c) \/ CloseStdin(c) \/ Exited(c) \/ Finally(c) \/ LastExited(c) \/ Drained(c)
          \/ Abandoned(c)
          \/ ~patient /\ (Terminate(c) \/ Kill(c) \/ Interrupted(c) \/ LastTimesOut(c) \/ Cancelled(c) \/ Abandon(c))
     \/ ~patient /\ \E o \in Operations : CleanupEnds(o)
  /\ loop' = IF child' = "running" /\ child = "none" THEN "recv" ELSE loop
  /\ UNCHANGED <<patient, alive, parentSide, input, output, stdin, heard, replied, stdout>>

ParentSteps == alive /\ (SendRequest \/ SendDone \/ AwaitReply \/ ReadReply \/ \E o \in Operations : ParentFails(o))
Program == HearHeader \/ HearPayload \/ HearFails \/ Reply \/ HandlerEnds \/ Drain \/ DrainFails \/ CloseStdout \/ Leave
Writer == WriterWrites \/ WriterEnds

LinkNext ==
  Supervision \/ ParentSteps \/ Discard \/ ParentDies \/ PumpReads \/ Feed \/ Program \/ Writer \/ Dies

LinkSpec == LinkInit /\ [][LinkNext]_linkVars

\* What StdioChild relies on, and in the child: both threads and the loop run,
\* and what is cancelled or signalled ends.  A handler that does not hang
\* returns.
LinkFairness ==
  /\ WF_linkVars(alive /\ (Spawn \/ Connected) /\ Supervision) /\ WF_linkVars(killed /\ Dies)
  /\ \A o \in Operations : WF_linkVars(alive /\ op[o] = "cancelled" /\ ParentFails(o))
  /\ \A c \in Closers :
       /\ SF_linkVars(CloseBegins(c) /\ Supervision)
       /\ WF_linkVars(Progress(c) /\ Supervision)
  /\ WF_linkVars(Discard) /\ WF_linkVars(PumpReads) /\ WF_linkVars(Feed)
  /\ WF_linkVars(Program) /\ WF_linkVars(Writer)

LinkFairSpec == LinkSpec /\ LinkFairness

----------------------------------------------------------------------------
LinkTypeOK ==
  /\ TypeOK
  /\ patient \in BOOLEAN /\ alive \in BOOLEAN /\ half \in BOOLEAN
  /\ pump \in {"reading", "ended"}
  /\ loop \in {"none", "recv", "payload", "handling", "hung", "draining", "closing", "flushing", "exited"}
  /\ shut \in BOOLEAN /\ broken \in BOOLEAN /\ finished \in BOOLEAN
  /\ Len(output) <= PipeSize
  /\ loop \in {"none", "exited"} <=> child # "running"

\* Whatever the pipes and the child's threads do, no child is forgotten that still
\* runs and no operation is under way on pipes that were released (StdioChild);
\* and the state is typed.
LinkSupervised == LinkTypeOK /\ ForgottenChildExited /\ PipesOutliveOperations

\* In both directions the frames arrive in order, once and whole, through two
\* pipes, two threads and their queues: whoever gives up in the middle of a
\* frame closes the channel.
Link == INSTANCE FrameLink WITH
  Directions <- {"in", "out"},
  sent <- [d \in {"in", "out"} |-> IF d = "in" THEN asked ELSE replied],
  got <- [d \in {"in", "out"} |-> IF d = "in" THEN heard ELSE answers]
FramesArrive == Link!Spec

\* A child whose parent has crashed ends by itself: the end of its stdin gets
\* through thread and loop to the program, without any deadline.  Only a handler
\* that hangs may keep it and, without deadlines, a write that failed (see
\* CloseClosesFile).
OrphanEnds == ~alive ~> child = "exited" \/ loop = "hung" \/ (patient /\ broken)

\* "`close` flushes queued writes, then closes `file`" (stdio.py:311-312): what
\* tells the thread to do so is in its queue when close() waits for it.
CloseClosesFile ==
  loop = "flushing" => finished \/ \E i \in 1..Len(queue) : queue[i] = End
=============================================================================
