---------------------------- MODULE AiohttpProofs ----------------------------
(***************************************************************************)
(* Proofs about the servers that aiohttp runs.                              *)
(*                                                                         *)
(* HttpServer and its client, for any number of requests, bodies and        *)
(* limits: places and bytes are accounted on every way out of a request,    *)
(* App, the transport and the handlers stay in step, and what recv()        *)
(* returns is the answer to what was sent last.                             *)
(*                                                                         *)
(* WsServer, for any number of upgrade requests, senders, connections and   *)
(* queued messages: slots, entries, sockets and messages follow the handler *)
(* they belong to, and the single-client server serves one session.         *)
(***************************************************************************)
EXTENDS HttpLink, MCWsServer, SubsequencesProofs, FiniteSetTheorems

\* The places that are counted are those of finitely many handlers.
Places == PlacesExact /\ IsFiniteSet(pending)

\* The bytes that are counted are those of the queue.
Sums == bytes = Total(queue, Size) /\ bytes <= MaxBytes

\* A request is queued once, and its handler waits for it or has given it up.
Entries ==
  /\ Distinct(queue)
  /\ \A r \in Items(queue) : handler[r] = "waiting" \/ (handler[r] = "cancelled" /\ Done(r))

\* What the future and the answer of a request may be at each stage of its handler.
Stages(r) ==
  /\ handler[r] \in {"verifying", "reading"} => future[r] \in {"unset", "failed"}
  /\ handler[r] = "waiting" => future[r] \in {"unset", "reply", "no content", "failed"}
  /\ handler[r] = "cancelled" => future[r] # "none"
  /\ handler[r] # "done" => status[r] = "none"
  /\ status[r] = "200" => future[r] = "reply"

\* Between two messages no request is active, and an active one was queued.
Turns ==
  /\ app \in {"free", "recv"} => active = None
  /\ active # None => handler[active] \notin {"none", "verifying", "reading"}

\* The invariant of the server.
ServerInv ==
  /\ TypeOK /\ Places /\ Sums /\ Entries /\ Turns
  /\ NeverMisused /\ AnswersItsOwn /\ NobodyWaitsAfterClose
  /\ \A r \in Requests : Stages(r)

\* The limits and the bodies of HttpServer.
LEMMA ServerLimits == MaxPending \in Nat \ {0} /\ MaxBytes \in Nat \ {0} /\ Size \in [Requests -> Nat] /\ None \notin Requests
BY LimitsAssumption, SizeAssumption, RequestsAssumption

\* The invariant holds of a server that was just made.
LEMMA ServerInit == Init => ServerInv
<1> SUFFICES ASSUME Init PROVE ServerInv OBVIOUS
<1>1. TypeOK
  <2>1. queue \in Seq(Requests) BY DEF Init
  <2>2. handler \in [Requests -> Handling \cup {"none", "done"}] /\ future \in [Requests -> Future] /\ status \in [Requests -> Statuses]
    BY DEF Init, Future, Statuses
  <2> QED BY <2>1, <2>2 DEF Init, TypeOK
<1>2. Places
  <2>1. pending = {} /\ Cardinality({}) = 0 /\ IsFiniteSet({}) BY FS_EmptySet DEF Init
  <2>2. {r \in Requests : handler[r] \in Handling} = {} BY DEF Init, Handling
  <2> QED BY <2>1, <2>2, ServerLimits DEF Places, PlacesExact
<1>3. Sums /\ Entries
  <2>1. Total(<<>>, Size) = 0 BY TotalEmpty
  <2> QED BY <2>1, ServerLimits DEF Init, Sums, Entries, Items, Distinct
<1>4. NeverMisused /\ AnswersItsOwn /\ NobodyWaitsAfterClose BY DEF Init, NeverMisused, AnswersItsOwn, NobodyWaitsAfterClose
<1>5. Turns /\ \A r \in Requests : Stages(r) BY DEF Init, Turns, Stages
<1> QED BY <1>1, <1>2, <1>3, <1>4, <1>5 DEF ServerInv

----------------------------------------------------------------------------
\* What a handler that leaves does to the places and the queue.
LEMMA LeaveStep ==
  ASSUME ServerInv, NEW r \in Requests, NEW code \in Statuses, handler[r] \in Handling, Leave(r, code),
         UNCHANGED <<active, closing, app, message>>,
         code = "200" => future[r] = "reply"
  PROVE  ServerInv'
<1>1. TypeOK /\ PlacesExact /\ IsFiniteSet(pending) /\ Entries /\ Turns BY DEF ServerInv, Places
<1>2. /\ handler' = [handler EXCEPT ![r] = "done"] /\ status' = [status EXCEPT ![r] = code] /\ pending' = pending \ {r}
      /\ future' = [future EXCEPT ![r] = IF @ = "unset" THEN "cancelled" ELSE @]
  BY DEF Leave
<1>3. queue \in Seq(Requests) /\ bytes \in Nat BY <1>1 DEF TypeOK
<1>4. /\ queue' \in Seq(Requests) /\ Items(queue') = Items(queue) \ {r} /\ Distinct(queue')
      /\ bytes' = Total(queue', Size) /\ bytes' <= MaxBytes /\ bytes' \in Nat
  <2>1. bytes = Total(queue, Size) /\ bytes <= MaxBytes /\ Distinct(queue) BY DEF ServerInv, Sums, Entries
  <2>2. CASE ~InQueue(r)
    <3>1. queue' = queue /\ bytes' = bytes BY <2>2 DEF Leave
    <3> QED BY <1>3, <2>1, <2>2, <3>1 DEF InQueue
  <2>3. CASE InQueue(r)
    <3> DEFINE kept == Kept(queue, Requests \ {r})
               gone == Kept(queue, {r})
    <3>1. queue' = kept /\ bytes' = bytes - Size[r] BY <2>3 DEF Leave
    <3>2. kept \in Seq(Requests) /\ Items(kept) = Items(queue) \cap (Requests \ {r}) /\ Distinct(kept) BY <1>3, <2>1, KeptItems
    <3>3. gone \in Seq(Requests) /\ Items(gone) = Items(queue) \cap {r} /\ Distinct(gone) BY <1>3, <2>1, KeptItems
    <3>4. Total(gone, Size) + Total(kept, Size) = Total(queue, Size)
      <4>1. Requests \subseteq {r} \cup (Requests \ {r}) /\ {r} \cap (Requests \ {r}) = {} OBVIOUS
      <4> QED BY <1>3, <4>1, ServerLimits, KeptTotals
    <3>5. Items(queue) \subseteq Requests BY <1>3 DEF Items
    <3> HIDE DEF kept, gone
    <3>6. Total(gone, Size) = Size[r]
      <4>1. Items(gone) = {r} BY <2>3, <3>3 DEF InQueue
      <4>2. gone # <<>> BY <4>1 DEF Items
      <4>3. Head(gone) \in Requests /\ Tail(gone) \in Seq(Requests) /\ Items(gone) = {Head(gone)} \cup Items(Tail(gone))
            /\ Head(gone) \notin Items(Tail(gone))
        BY <3>3, <4>2, HeadAndTail
      <4>4. Head(gone) = r /\ Items(Tail(gone)) = {} BY <4>1, <4>3
      <4>5. Tail(gone) = <<>> BY <4>3, <4>4, NoItems
      <4>6. Total(gone, Size) = Size[Head(gone)] + Total(Tail(gone), Size) BY <3>3, <4>2, ServerLimits, TotalHead
      <4>7. Size[r] \in Nat BY ServerLimits
      <4>8. Total(Tail(gone), Size) = 0 BY <4>5, TotalEmpty
        <4> QED BY <4>4, <4>6, <4>7, <4>8
    <3>7. Total(kept, Size) \in Nat BY <3>2, ServerLimits, TotalType
    <3>8. Size[r] \in Nat BY ServerLimits
    <3>9. bytes' = Total(kept, Size) /\ Total(kept, Size) <= bytes BY <2>1, <3>1, <3>4, <3>6, <3>7, <3>8, <1>3
    <3>10. bytes' <= MaxBytes BY <1>3, <2>1, <3>7, <3>9, ServerLimits
    <3> QED BY <3>1, <3>2, <3>5, <3>7, <3>9, <3>10
  <2> QED BY <2>2, <2>3
<1>5. TypeOK'
  <2>1. handler' \in [Requests -> Handling \cup {"none", "done"}] /\ status' \in [Requests -> Statuses]
    BY <1>1, <1>2 DEF TypeOK
  <2>2. future' \in [Requests -> Future] BY <1>1, <1>2 DEF TypeOK, Future
  <2> QED BY <1>1, <1>2, <1>4, <2>1, <2>2 DEF TypeOK
<1>6. Places'
  <2>1. pending' = {q \in Requests : handler'[q] \in Handling} BY <1>1, <1>2 DEF TypeOK, PlacesExact, Handling
  <2>2. IsFiniteSet(pending) /\ r \in pending /\ Cardinality(pending) <= MaxPending BY <1>1 DEF PlacesExact
  <2>3. IsFiniteSet(pending') /\ Cardinality(pending') = Cardinality(pending) - 1 BY <1>2, <2>2, FS_RemoveElement
  <2>4. Cardinality(pending) \in Nat BY <2>2, FS_CardinalityType
  <2>5. Cardinality(pending') <= MaxPending BY <2>2, <2>3, <2>4, ServerLimits
  <2> QED BY <2>1, <2>3, <2>5 DEF Places, PlacesExact
<1>7. Entries' /\ Sums'
  <2>1. Items(queue) \subseteq Requests BY <1>3 DEF Items
  <2>2. \A q \in Items(queue') : q \in Items(queue) /\ q # r /\ q \in Requests BY <1>4, <2>1
  <2>3. \A q \in Items(queue') : handler'[q] = handler[q] /\ future'[q] = future[q] BY <1>1, <1>2, <2>2 DEF TypeOK
  <2> QED BY <1>1, <1>4, <2>2, <2>3 DEF Entries, Done, Sums
<1>8. ASSUME NEW q \in Requests PROVE Stages(q)'
  <2>1. Stages(q) BY DEF ServerInv
  <2>2. CASE q # r BY <1>1, <1>2, <2>1, <2>2 DEF TypeOK, Stages
  <2>3. CASE q = r BY <1>1, <1>2, <2>1, <2>3 DEF TypeOK, Stages
  <2> QED BY <2>2, <2>3
<1>9. Turns' BY <1>1, <1>2 DEF Turns, TypeOK
<1>10. NeverMisused' /\ AnswersItsOwn' BY DEF ServerInv, NeverMisused, AnswersItsOwn
<1>11. NobodyWaitsAfterClose'
  <2>1. NobodyWaitsAfterClose BY DEF ServerInv
  <2> QED BY <1>1, <1>2, <2>1 DEF TypeOK, NobodyWaitsAfterClose, Done
<1> QED BY <1>5, <1>6, <1>7, <1>8, <1>9, <1>10, <1>11 DEF ServerInv
----------------------------------------------------------------------------
\* The pieces, as the steps use them.
LEMMA Pieces ==
  ASSUME ServerInv
  PROVE  /\ TypeOK /\ Sums /\ Entries /\ Turns /\ NeverMisused /\ AnswersItsOwn /\ NobodyWaitsAfterClose
         /\ pending = {r \in Requests : handler[r] \in Handling} /\ Cardinality(pending) <= MaxPending
         /\ IsFiniteSet(pending) /\ Cardinality(pending) \in Nat
         /\ Items(queue) \subseteq Requests
         /\ \A r \in Requests : Stages(r)
<1>1. IsFiniteSet(pending) BY DEF ServerInv, Places
<1>2. Cardinality(pending) \in Nat BY <1>1, FS_CardinalityType
<1>3. Items(queue) \subseteq Requests BY DEF ServerInv, TypeOK, Items
<1> QED BY <1>1, <1>2, <1>3 DEF ServerInv, Places, PlacesExact

\* A step that moves one handler and leaves the queue alone.
LEMMA HandlerStep ==
  ASSUME ServerInv, NEW r \in Requests, NEW to \in Handling \cup {"none", "done"},
         handler' = [handler EXCEPT ![r] = to], UNCHANGED <<queue, bytes, active, closing, app, message>>,
         TypeOK', Places', Stages(r)',
         \A q \in Requests : q # r => future'[q] = future[q] /\ status'[q] = status[q],
         r \in Items(queue) => to = "cancelled" /\ Done(r)',
         active = r => to \notin {"none", "verifying", "reading"},
         closing /\ to = "waiting" => Done(r)'
  PROVE  ServerInv'
<1>0. /\ TypeOK /\ Sums /\ Entries /\ Turns /\ NeverMisused /\ AnswersItsOwn /\ NobodyWaitsAfterClose
      /\ Items(queue) \subseteq Requests /\ \A q \in Requests : Stages(q)
  BY Pieces
<1>1. handler \in [Requests -> Handling \cup {"none", "done"}] BY <1>0 DEF TypeOK
<1>2. handler'[r] = to /\ \A q \in Requests : q # r => handler'[q] = handler[q] BY <1>1
<1>3. Sums' BY <1>0 DEF Sums
<1>4. Entries'
  <2>1. ASSUME NEW q \in Items(queue) PROVE handler'[q] = "waiting" \/ (handler'[q] = "cancelled" /\ Done(q)')
    <3>1. CASE q = r BY <1>2, <3>1
    <3>2. CASE q # r BY <1>0, <1>2, <3>2 DEF Entries, Done
    <3> QED BY <3>1, <3>2
  <2> QED BY <1>0, <2>1 DEF Entries, Done
<1>5. Turns' BY <1>0, <1>2 DEF Turns, TypeOK
<1>6. NeverMisused' /\ AnswersItsOwn' BY <1>0 DEF NeverMisused, AnswersItsOwn
<1>7. NobodyWaitsAfterClose'
  <2>1. ASSUME closing', NEW q \in Requests, handler'[q] = "waiting" PROVE Done(q)'
    <3>1. CASE q = r BY <1>2, <2>1, <3>1
    <3>2. CASE q # r BY <1>0, <1>2, <2>1, <3>2 DEF NobodyWaitsAfterClose, Done
    <3> QED BY <3>1, <3>2
  <2> QED BY <2>1 DEF NobodyWaitsAfterClose
<1>8. ASSUME NEW q \in Requests PROVE Stages(q)'
  <2>1. CASE q = r BY <2>1
  <2>2. CASE q # r BY <1>0, <1>2, <2>2 DEF Stages
  <2> QED BY <2>1, <2>2
<1> QED BY <1>3, <1>4, <1>5, <1>6, <1>7, <1>8 DEF ServerInv

\* Admission takes a place before the first await.
LEMMA AdmitStep == ASSUME ServerInv, NEW r \in Requests, Admit(r) PROVE ServerInv'
<1>0. /\ TypeOK /\ Entries /\ Turns
      /\ pending = {q \in Requests : handler[q] \in Handling} /\ Cardinality(pending) <= MaxPending
      /\ IsFiniteSet(pending) /\ Cardinality(pending) \in Nat
      /\ Items(queue) \subseteq Requests /\ Stages(r)
  BY Pieces
<1>1. /\ handler[r] = "none" /\ ~closing /\ Cardinality(pending) < MaxPending
      /\ handler' = [handler EXCEPT ![r] = "verifying"] /\ future' = [future EXCEPT ![r] = "unset"]
      /\ pending' = pending \cup {r} /\ UNCHANGED <<status, queue, bytes, active, closing, app, message>>
  BY DEF Admit
<1>2. TypeOK'
  <2>1. future' \in [Requests -> Future] BY <1>0, <1>1 DEF TypeOK, Future
  <2>2. handler' \in [Requests -> Handling \cup {"none", "done"}] BY <1>0, <1>1 DEF TypeOK, Handling
  <2> QED BY <1>0, <1>1, <2>1, <2>2 DEF TypeOK
<1>3. Places'
  <2>1. r \notin pending BY <1>0, <1>1 DEF Handling
  <2>2. IsFiniteSet(pending') /\ Cardinality(pending') = Cardinality(pending) + 1 BY <1>0, <1>1, <2>1, FS_AddElement
  <2>3. pending' = {q \in Requests : handler'[q] \in Handling} BY <1>0, <1>1 DEF TypeOK, Handling
  <2>4. Cardinality(pending') <= MaxPending BY <1>0, <1>1, <2>2, ServerLimits
  <2> QED BY <2>2, <2>3, <2>4 DEF Places, PlacesExact
<1>4. Stages(r)' BY <1>0, <1>1 DEF Stages, TypeOK
<1>5. r \notin Items(queue) /\ active # r BY <1>0, <1>1, ServerLimits DEF Entries, Turns
<1>6. \A q \in Requests : q # r => future'[q] = future[q] /\ status'[q] = status[q] BY <1>0, <1>1 DEF TypeOK
<1>7. "verifying" \in Handling \cup {"none", "done"} BY DEF Handling
<1> QED BY <1>1, <1>2, <1>3, <1>4, <1>5, <1>6, <1>7, HandlerStep

\* The places when a handler goes from one stage to another within them, or stays out.
LEMMA SamePlaces ==
  ASSUME ServerInv, NEW r \in Requests, NEW to, handler' = [handler EXCEPT ![r] = to], handler[r] \in Handling <=> to \in Handling,
         pending' = pending
  PROVE  Places'
<1>1. TypeOK /\ pending = {q \in Requests : handler[q] \in Handling} /\ Cardinality(pending) <= MaxPending /\ IsFiniteSet(pending) BY Pieces
<1>2. handler'[r] = to /\ \A q \in Requests : q # r => handler'[q] = handler[q] BY <1>1 DEF TypeOK
<1>3. pending' = {q \in Requests : handler'[q] \in Handling} BY <1>1, <1>2
<1> QED BY <1>1, <1>3 DEF Places, PlacesExact

\* A refused request takes none.
LEMMA RefuseStep == ASSUME ServerInv, NEW r \in Requests, Refuse(r) PROVE ServerInv'
<1>0. TypeOK /\ Entries /\ Turns /\ Items(queue) \subseteq Requests /\ Stages(r) BY Pieces
<1>1. /\ handler[r] = "none" /\ handler' = [handler EXCEPT ![r] = "done"] /\ status' = [status EXCEPT ![r] = "503"]
      /\ UNCHANGED <<future, pending, queue, bytes, active, closing, app, message>>
  BY DEF Refuse
<1>2. TypeOK'
  <2>1. status' \in [Requests -> Statuses] BY <1>0, <1>1 DEF TypeOK, Statuses
  <2>2. handler' \in [Requests -> Handling \cup {"none", "done"}] BY <1>0, <1>1 DEF TypeOK
  <2> QED BY <1>0, <1>1, <2>1, <2>2 DEF TypeOK
<1>3. Places' BY <1>1, SamePlaces DEF Handling
<1>4. Stages(r)' BY <1>0, <1>1 DEF Stages, TypeOK
<1>5. r \notin Items(queue) /\ active # r BY <1>0, <1>1, ServerLimits DEF Entries, Turns
<1>6. \A q \in Requests : q # r => future'[q] = future[q] /\ status'[q] = status[q] BY <1>0, <1>1 DEF TypeOK
<1> QED BY <1>1, <1>2, <1>3, <1>4, <1>5, <1>6, HandlerStep

\* The credentials are accepted.
LEMMA VerifiedStep == ASSUME ServerInv, NEW r \in Requests, Verified(r) PROVE ServerInv'
<1>0. TypeOK /\ Entries /\ Turns /\ Items(queue) \subseteq Requests /\ Stages(r) BY Pieces
<1>1. /\ handler[r] = "verifying" /\ handler' = [handler EXCEPT ![r] = "reading"]
      /\ UNCHANGED <<future, status, pending, queue, bytes, active, closing, app, message>>
  BY DEF Verified
<1>2. TypeOK'
  <2>1. handler' \in [Requests -> Handling \cup {"none", "done"}] BY <1>0, <1>1 DEF TypeOK, Handling
  <2> QED BY <1>0, <1>1, <2>1 DEF TypeOK
<1>3. Places' BY <1>1, SamePlaces DEF Handling
<1>4. Stages(r)' BY <1>0, <1>1 DEF Stages, TypeOK
<1>5. r \notin Items(queue) /\ active # r BY <1>0, <1>1, ServerLimits DEF Entries, Turns
<1>6. "reading" \in Handling \cup {"none", "done"} BY DEF Handling
<1> QED BY <1>1, <1>2, <1>3, <1>4, <1>5, <1>6, HandlerStep

\* A deadline or a disconnection: what is queued is done from then on.
LEMMA CancelStep == ASSUME ServerInv, NEW r \in Requests, Cancel(r) PROVE ServerInv'
<1>0. TypeOK /\ Entries /\ Turns /\ Items(queue) \subseteq Requests /\ Stages(r) BY Pieces
<1>1. /\ handler[r] \in {"verifying", "reading", "waiting"} /\ handler' = [handler EXCEPT ![r] = "cancelled"]
      /\ future' = [future EXCEPT ![r] = IF handler[r] = "waiting" /\ @ = "unset" THEN "cancelled" ELSE @]
      /\ UNCHANGED <<status, pending, queue, bytes, active, closing, app, message>>
  BY DEF Cancel
<1>2. TypeOK'
  <2>1. handler' \in [Requests -> Handling \cup {"none", "done"}] BY <1>0, <1>1 DEF TypeOK, Handling
  <2>2. future' \in [Requests -> Future] BY <1>0, <1>1 DEF TypeOK, Future
  <2> QED BY <1>0, <1>1, <2>1, <2>2 DEF TypeOK
<1>3. Places' BY <1>1, SamePlaces DEF Handling
<1>4. Stages(r)' BY <1>0, <1>1 DEF Stages, TypeOK
<1>5. r \in Items(queue) => Done(r)' BY <1>0, <1>1 DEF Entries, Stages, Done, TypeOK
<1>6. "cancelled" \in Handling \cup {"none", "done"} BY DEF Handling
<1>7. \A q \in Requests : q # r => future'[q] = future[q] /\ status'[q] = status[q] BY <1>0, <1>1 DEF TypeOK
<1> QED BY <1>1, <1>2, <1>3, <1>4, <1>5, <1>6, <1>7, HandlerStep

\* The body joins the queue within the bytes that are left.
LEMMA EnqueueStep == ASSUME ServerInv, NEW r \in Requests, Enqueue(r) PROVE ServerInv'
<1>0. /\ TypeOK /\ Sums /\ Entries /\ Turns /\ NeverMisused /\ AnswersItsOwn /\ NobodyWaitsAfterClose
      /\ Items(queue) \subseteq Requests /\ \A q \in Requests : Stages(q)
  BY Pieces
<1>1. /\ handler[r] = "reading" /\ ~closing /\ bytes + Size[r] <= MaxBytes
      /\ handler' = [handler EXCEPT ![r] = "waiting"] /\ queue' = Append(queue, r) /\ bytes' = bytes + Size[r]
      /\ UNCHANGED <<future, status, pending, active, closing, app, message>>
  BY DEF Enqueue
<1>2. queue \in Seq(Requests) /\ bytes \in Nat /\ Size[r] \in Nat BY <1>0, ServerLimits DEF TypeOK
<1>3. TypeOK'
  <2>1. handler' \in [Requests -> Handling \cup {"none", "done"}] BY <1>0, <1>1 DEF TypeOK, Handling
  <2>2. queue' \in Seq(Requests) /\ bytes' \in Nat BY <1>1, <1>2
  <2> QED BY <1>0, <1>1, <2>1, <2>2 DEF TypeOK
<1>4. Places' BY <1>1, SamePlaces DEF Handling
<1>5. Sums' BY <1>0, <1>1, <1>2, TotalAppend DEF Sums
<1>6. handler'[r] = "waiting" /\ \A q \in Requests : q # r => handler'[q] = handler[q] BY <1>0, <1>1 DEF TypeOK
<1>7. Entries'
  <2>1. r \notin Items(queue) BY <1>0, <1>1 DEF Entries
  <2>2. Items(queue') = Items(queue) \cup {r} /\ Distinct(queue') BY <1>0, <1>1, <1>2, <2>1, AppendItems DEF Entries
  <2>3. \A q \in Items(queue) : handler'[q] = handler[q] BY <1>0, <1>6, <2>1
  <2> QED BY <1>0, <1>1, <1>6, <2>2, <2>3 DEF Entries, Done
<1>8. Turns' BY <1>0, <1>1, <1>6 DEF Turns, TypeOK
<1>9. NeverMisused' /\ AnswersItsOwn' /\ NobodyWaitsAfterClose' BY <1>0, <1>1 DEF NeverMisused, AnswersItsOwn, NobodyWaitsAfterClose
<1>10. ASSUME NEW q \in Requests PROVE Stages(q)' BY <1>0, <1>1, <1>6 DEF Stages
<1> QED BY <1>3, <1>4, <1>5, <1>7, <1>8, <1>9, <1>10 DEF ServerInv

\* The ways out of `_handle`.
LEMMA LeavingSteps ==
  ASSUME ServerInv, NEW r \in Requests, Unauthorized(r) \/ NoRoom(r) \/ Respond(r) \/ Unwind(r)
  PROVE  ServerInv'
<1>0. TypeOK /\ Stages(r) BY Pieces
<1>1. CASE Unauthorized(r)
  <2>1. PICK code \in {"401", "503"} : Leave(r, code) BY <1>1 DEF Unauthorized
  <2>2. handler[r] \in Handling /\ code \in Statuses /\ code # "200" BY <1>1 DEF Unauthorized, Handling, Statuses
  <2>3. UNCHANGED <<active, closing, app, message>> BY <1>1 DEF Unauthorized
  <2> QED BY <2>1, <2>2, <2>3, LeaveStep
<1>2. CASE NoRoom(r)
  <2>1. handler[r] \in Handling /\ "503" \in Statuses BY <1>2 DEF NoRoom, Handling, Statuses
  <2> QED BY <1>2, <2>1, LeaveStep DEF NoRoom
<1>3. CASE Unwind(r)
  <2>1. handler[r] \in Handling /\ "504" \in Statuses BY <1>3 DEF Unwind, Handling, Statuses
  <2> QED BY <1>3, <2>1, LeaveStep DEF Unwind
<1>4. CASE Respond(r)
  <2>1. handler[r] = "waiting" /\ future[r] \in {"reply", "no content", "failed"} BY <1>0, <1>4 DEF Respond, Stages, Done
  <2>2. \E code \in Statuses : Leave(r, code) /\ (code = "200" => future[r] = "reply")
    <3>1. CASE future[r] = "reply" BY <1>4, <3>1 DEF Respond, Statuses
    <3>2. CASE future[r] = "no content" BY <1>4, <3>2 DEF Respond, Statuses
    <3>3. CASE future[r] = "failed" BY <1>4, <3>3 DEF Respond, Statuses
    <3> QED BY <2>1, <3>1, <3>2, <3>3
  <2>3. UNCHANGED <<active, closing, app, message>> /\ handler[r] \in Handling BY <1>4, <2>1 DEF Respond, Handling
  <2> QED BY <2>2, <2>3, LeaveStep
<1> QED BY <1>1, <1>2, <1>3, <1>4

----------------------------------------------------------------------------
\* App and the transport.

\* A step that leaves the handlers alone and no future less done.
LEMMA AppStep ==
  ASSUME ServerInv, UNCHANGED <<handler, status, pending>>, TypeOK',
         Sums', Distinct(queue)', Items(queue') \subseteq Items(queue), Turns', NeverMisused', AnswersItsOwn',
         \A q \in Requests : Stages(q)',
         \A q \in Requests : Done(q) => Done(q)',
         closing' => closing \/ \A q \in pending : Done(q)'
  PROVE  ServerInv'
<1>0. TypeOK /\ Entries /\ NobodyWaitsAfterClose /\ pending = {q \in Requests : handler[q] \in Handling} /\ Items(queue) \subseteq Requests BY Pieces
<1>1. Places' BY DEF ServerInv, Places, PlacesExact
<1>2. Entries' BY <1>0 DEF Entries
<1>3. NobodyWaitsAfterClose' BY <1>0 DEF NobodyWaitsAfterClose, Handling
<1> QED BY <1>1, <1>2, <1>3 DEF ServerInv

\* What it leaves of the queue when it takes the first of it.
LEMMA TakenQueue ==
  ASSUME NEW i \in 1..Len(queue), TypeOK, Sums, Entries,
         queue' = SubSeq(queue, i + 1, Len(queue)), bytes' = bytes - Total(SubSeq(queue, 1, i), Size)
  PROVE  /\ queue' \in Seq(Requests) /\ Items(queue') \subseteq Items(queue) /\ Distinct(queue')
         /\ bytes' \in Nat /\ Sums'
<1> DEFINE front == SubSeq(queue, 1, i)
           rest == SubSeq(queue, i + 1, Len(queue))
<1>1. queue \in Seq(Requests) /\ Len(queue) \in Nat /\ i \in Nat /\ bytes \in Nat BY DEF TypeOK
<1>2. rest \in Seq(Requests) /\ Len(rest) = Len(queue) - i /\ \A j \in 1..Len(rest) : i + j \in 1..Len(queue) /\ rest[j] = queue[i + j]
  BY <1>1
<1>3. front \in Seq(Requests) /\ queue = front \o rest BY <1>1
<1> HIDE DEF front, rest
<1>4. Total(queue, Size) = Total(front, Size) + Total(rest, Size)
  <2>1. front \in Seq(Requests) /\ rest \in Seq(Requests) /\ Size \in [Requests -> Nat] BY <1>2, <1>3, ServerLimits
  <2>2. Total(front \o rest, Size) = Total(front, Size) + Total(rest, Size) BY <2>1, TotalConcat
  <2> QED BY <1>3, <2>2
<1>5. Total(front, Size) \in Nat /\ Total(rest, Size) \in Nat BY <1>2, <1>3, ServerLimits, TotalType
<1>6. queue' = rest /\ bytes' = bytes - Total(front, Size) BY DEF front, rest
<1>7. bytes = Total(queue, Size) /\ bytes <= MaxBytes /\ Distinct(queue) BY DEF Sums, Entries
<1>8. bytes' = Total(rest, Size) /\ bytes' <= MaxBytes BY <1>1, <1>4, <1>5, <1>6, <1>7, ServerLimits
<1>9. Items(rest) \subseteq Items(queue) BY <1>2 DEF Items
<1>10. Distinct(rest)
  <2>1. ASSUME NEW j \in 1..Len(rest), NEW k \in 1..Len(rest), rest[j] = rest[k] PROVE j = k
    <3>1. i + j = i + k BY <1>2, <1>7, <2>1 DEF Distinct
    <3>2. Len(rest) \in Nat BY <1>2
    <3>3. j \in Nat /\ k \in Nat BY <3>2
    <3> QED BY <1>1, <3>1, <3>3
  <2> QED BY <2>1 DEF Distinct
<1> QED BY <1>2, <1>5, <1>6, <1>8, <1>9, <1>10 DEF Sums

\* recv() takes the first request that still waits; its handler waits too.
LEMMA TakeStep == ASSUME ServerInv, Take PROVE ServerInv'
<1>0. TypeOK /\ Sums /\ Entries /\ Turns /\ Items(queue) \subseteq Requests /\ \A q \in Requests : Stages(q) BY Pieces
<1>1. PICK i \in 1..Len(queue) :
        /\ ~Done(queue[i]) /\ queue' = SubSeq(queue, i + 1, Len(queue)) /\ bytes' = bytes - Total(SubSeq(queue, 1, i), Size)
        /\ active' = queue[i] /\ message' = queue[i]
  BY DEF Take
<1>2. app' = "working" /\ ~closing /\ UNCHANGED <<handler, future, status, pending, closing>> BY DEF Take, requestVars
<1>3. /\ queue' \in Seq(Requests) /\ Items(queue') \subseteq Items(queue) /\ Distinct(queue')
      /\ bytes' \in Nat /\ Sums'
  BY <1>0, <1>1, TakenQueue
<1>4. queue[i] \in Items(queue) /\ queue[i] \in Requests BY <1>0 DEF Items
<1>5. TypeOK' BY <1>0, <1>1, <1>2, <1>3, <1>4 DEF TypeOK
<1>6. handler[queue[i]] = "waiting" BY <1>0, <1>1, <1>4 DEF Entries
<1>7. Turns' BY <1>1, <1>2, <1>6 DEF Turns
<1>8. NeverMisused' /\ AnswersItsOwn' BY <1>1, <1>2, <1>4, ServerLimits DEF NeverMisused, AnswersItsOwn
<1>9. (\A q \in Requests : Stages(q)') /\ \A q \in Requests : Done(q) => Done(q)' BY <1>0, <1>2 DEF Stages, Done
<1>10. Distinct(queue)' BY <1>3 DEF Distinct
<1> QED BY <1>2, <1>3, <1>5, <1>7, <1>8, <1>9, <1>10, AppStep

\* An empty queue.
LEMMA EmptyQueue ==
  ASSUME queue' = <<>>, bytes' = 0
  PROVE  queue' \in Seq(Requests) /\ bytes' \in Nat /\ Sums' /\ Distinct(queue)' /\ Items(queue') = {}
<1>1. Total(queue', Size) = 0 BY TotalEmpty
<1> QED BY <1>1, ServerLimits DEF Sums, Distinct, Items

\* recv() drops a queue of requests that have given up.
LEMMA SkipStep == ASSUME ServerInv, Skip PROVE ServerInv'
<1>0. TypeOK /\ Sums /\ Turns /\ AnswersItsOwn /\ NeverMisused /\ \A q \in Requests : Stages(q) BY Pieces
<1>1. queue' = <<>> /\ bytes' = bytes - Total(queue, Size) /\ UNCHANGED <<handler, future, status, pending, active, closing, app, message>>
  BY DEF Skip, requestVars
<1>2. bytes' = 0 BY <1>0, <1>1 DEF Sums, TypeOK
<1>3. queue' \in Seq(Requests) /\ bytes' \in Nat /\ Sums' /\ Distinct(queue)' /\ Items(queue') = {} BY <1>1, <1>2, EmptyQueue
<1>4. TypeOK' BY <1>0, <1>1, <1>3 DEF TypeOK
<1>5. Turns' /\ NeverMisused' /\ AnswersItsOwn' BY <1>0, <1>1 DEF Turns, NeverMisused, AnswersItsOwn
<1>6. (\A q \in Requests : Stages(q)') /\ \A q \in Requests : Done(q) => Done(q)' BY <1>0, <1>1 DEF Stages, Done
<1> QED BY <1>1, <1>3, <1>4, <1>5, <1>6, AppStep

\* A step that leaves the queue alone too.
LEMMA FutureStep ==
  ASSUME ServerInv, UNCHANGED <<handler, status, pending, queue, bytes, closing>>, TypeOK', Turns', NeverMisused', AnswersItsOwn',
         \A q \in Requests : Stages(q)', \A q \in Requests : Done(q) => Done(q)'
  PROVE  ServerInv'
<1>1. Sums' /\ Distinct(queue)' /\ Items(queue') \subseteq Items(queue) BY DEF ServerInv, Sums, Entries, Distinct, Items
<1> QED BY <1>1, AppStep

\* App receives, or ends.
LEMMA QuietAppSteps == ASSUME ServerInv, Recv \/ RecvRaises \/ SendRaises \/ Stop PROVE ServerInv'
<1>0. TypeOK /\ Turns /\ AnswersItsOwn /\ NeverMisused /\ \A q \in Requests : Stages(q) BY Pieces
<1>1. UNCHANGED <<handler, future, status, pending, queue, bytes, active, closing>>
  BY DEF Recv, RecvRaises, SendRaises, Stop, requestVars
<1>2. (\A q \in Requests : Stages(q)') /\ \A q \in Requests : Done(q) => Done(q)' BY <1>0, <1>1 DEF Stages, Done
<1>3. app' \in {"recv", "ended"} /\ (app' = "recv" => active = None) /\ message' \in Requests \cup {None}
  BY <1>0 DEF Recv, RecvRaises, SendRaises, Stop, Turns, TypeOK
<1>4. TypeOK' BY <1>0, <1>1, <1>3 DEF TypeOK
<1>5. Turns' BY <1>0, <1>1, <1>3 DEF Turns
<1>6. NeverMisused' /\ AnswersItsOwn' BY <1>3 DEF NeverMisused, AnswersItsOwn
<1> QED BY <1>1, <1>2, <1>4, <1>5, <1>6, FutureStep

\* The active request is given an answer, unless it has one.
LEMMA AnswerStep ==
  ASSUME ServerInv, NEW answer \in {"reply", "no content"},
         UNCHANGED <<handler, status, pending, queue, bytes, closing>>, active' = None, message' = None, app' = "free",
         future' = [q \in Requests |-> IF q = active /\ ~Done(q) THEN answer ELSE future[q]]
  PROVE  ServerInv'
<1>0. TypeOK /\ Turns /\ \A q \in Requests : Stages(q) BY Pieces
<1>1. TypeOK' BY <1>0 DEF TypeOK, Future
<1>2. Turns' BY ServerLimits DEF Turns
<1>3. NeverMisused' /\ AnswersItsOwn' BY DEF NeverMisused, AnswersItsOwn
<1>4. ASSUME NEW q \in Requests PROVE Stages(q)' /\ (Done(q) => Done(q)')
  <2>1. CASE q = active /\ ~Done(q)
    <3>1. handler[q] \notin {"none", "verifying", "reading"} BY <2>1, ServerLimits, <1>0 DEF Turns
    <3> QED BY <1>0, <2>1, <3>1 DEF Stages, Done
  <2>2. CASE ~(q = active /\ ~Done(q)) BY <1>0, <2>2 DEF Stages, Done
  <2> QED BY <2>1, <2>2
<1> QED BY <1>1, <1>2, <1>3, <1>4, FutureStep

\* A reply, or a notification that is finished: there is an active request to answer.
LEMMA AnsweringSteps == ASSUME ServerInv, Send \/ FinishNotification PROVE ServerInv'
<1>0. TypeOK /\ AnswersItsOwn BY Pieces
<1>1. CASE Send
  <2>1. active # None /\ active \in Requests BY <1>0, <1>1 DEF Send, AnswersItsOwn, TypeOK
  <2>2. future' = [q \in Requests |-> IF q = active /\ ~Done(q) THEN "reply" ELSE future[q]]
    BY <1>0, <1>1, <2>1 DEF Send, TypeOK
  <2> QED BY <1>1, <2>1, <2>2, AnswerStep DEF Send
<1>2. CASE FinishNotification BY <1>2, AnswerStep DEF FinishNotification
<1> QED BY <1>1, <1>2

\* close() fails every future that is not done.
LEMMA CloseStep == ASSUME ServerInv, Close PROVE ServerInv'
<1>0. /\ TypeOK /\ Turns /\ NeverMisused /\ pending = {q \in Requests : handler[q] \in Handling} /\ \A q \in Requests : Stages(q)
  BY Pieces
<1>1. /\ closing' = TRUE /\ future' = [r \in Requests |-> IF r \in pending /\ ~Done(r) THEN "failed" ELSE future[r]]
      /\ queue' = <<>> /\ bytes' = 0 /\ active' = None /\ UNCHANGED <<handler, status, pending, app, message>>
  BY DEF Close
<1>2. queue' \in Seq(Requests) /\ bytes' \in Nat /\ Sums' /\ Distinct(queue)' /\ Items(queue') = {} BY <1>1, EmptyQueue
<1>3. TypeOK'
  <2>1. future' \in [Requests -> Future] BY <1>0, <1>1 DEF TypeOK, Future
  <2> QED BY <1>0, <1>1, <1>2, <2>1 DEF TypeOK
<1>4. Turns' /\ NeverMisused' /\ AnswersItsOwn' BY <1>0, <1>1 DEF Turns, NeverMisused, AnswersItsOwn
<1>5. ASSUME NEW q \in Requests PROVE Stages(q)' /\ (Done(q) => Done(q)')
  <2>1. CASE q \in pending /\ ~Done(q)
    <3>1. handler[q] \in Handling BY <1>0, <2>1
    <3> QED BY <1>0, <1>1, <2>1, <3>1 DEF Stages, Done, Handling
  <2>2. CASE ~(q \in pending /\ ~Done(q)) BY <1>0, <1>1, <2>2 DEF Stages, Done
  <2> QED BY <2>1, <2>2
<1>6. \A q \in pending : Done(q)' BY <1>0, <1>1 DEF Done
<1> QED BY <1>1, <1>2, <1>3, <1>4, <1>5, <1>6, AppStep

\* Every step of the server keeps its invariant.
LEMMA ServerStep == ServerInv /\ [Next]_vars => ServerInv'
<1> SUFFICES ASSUME ServerInv, [Next]_vars PROVE ServerInv' OBVIOUS
<1>1. CASE UNCHANGED vars
  <2>1. UNCHANGED <<handler, status, pending, queue, bytes, closing, future, active, app, message>> BY <1>1 DEF vars, requestVars
  <2>2. TypeOK' BY <2>1 DEF ServerInv, TypeOK
  <2>3. Turns' /\ NeverMisused' /\ AnswersItsOwn' BY <2>1 DEF ServerInv, Turns, NeverMisused, AnswersItsOwn
  <2>4. (\A q \in Requests : Stages(q)') /\ \A q \in Requests : Done(q) => Done(q)' BY <2>1 DEF ServerInv, Stages, Done
  <2> QED BY <2>1, <2>2, <2>3, <2>4, FutureStep
<1>2. ASSUME NEW r \in Requests, Handle(r) PROVE ServerInv'
  BY <1>2, AdmitStep, RefuseStep, VerifiedStep, EnqueueStep, CancelStep, LeavingSteps DEF Handle
<1>3. CASE Next BY <1>2, <1>3, QuietAppSteps, TakeStep, SkipStep, AnsweringSteps, CloseStep DEF Next
<1> QED BY <1>1, <1>3

\* The invariant implies what the run checks.
LEMMA ServerMeans == ServerInv => ServerAccounted
<1> SUFFICES ASSUME ServerInv PROVE ServerAccounted OBVIOUS
<1>1. BytesExact
  <2>1. \A i \in 1..Len(queue) : queue[i] \in Items(queue) BY DEF Items
  <2> QED BY <2>1 DEF ServerInv, Sums, Entries, BytesExact
<1> QED BY <1>1 DEF ServerInv, Places, ServerAccounted

\* App is given only messages whose handler waits for the answer.
LEMMA GivenToWork ==
  ServerInv /\ [Next]_vars =>
    [\A r \in Requests : message # r /\ message' = r => handler[r] = "waiting" /\ future[r] = "unset"]_vars
<1> SUFFICES ASSUME ServerInv, Next, NEW r \in Requests, message # r, message' = r PROVE handler[r] = "waiting" /\ future[r] = "unset" OBVIOUS
<1>0. TypeOK /\ Entries /\ Items(queue) \subseteq Requests /\ \A q \in Requests : Stages(q) BY Pieces
<1>1. r # None BY ServerLimits
<1>2. Take
  BY <1>1 DEF Next, Handle, Recv, Skip, RecvRaises, Send, SendRaises, FinishNotification, Stop, Close, Admit, Refuse, Verified,
     Unauthorized, Enqueue, NoRoom, Respond, Cancel, Unwind
<1>3. PICK i \in 1..Len(queue) : ~Done(queue[i]) /\ message' = queue[i] BY <1>2 DEF Take
<1>4. r \in Items(queue) /\ ~Done(r) BY <1>3 DEF Items
<1> QED BY <1>0, <1>4 DEF Entries, Stages, Done

\* A reply that was answered stays what it is.
LEMMA RepliesStay ==
  ServerInv /\ [Next]_vars => \A r \in Requests : future[r] = "reply" /\ status[r] = "200" => future'[r] = "reply" /\ status'[r] = "200"
<1> SUFFICES ASSUME ServerInv, [Next]_vars, NEW r \in Requests, future[r] = "reply", status[r] = "200"
             PROVE  future'[r] = "reply" /\ status'[r] = "200"
  OBVIOUS
<1>0. TypeOK /\ Stages(r) /\ handler[r] = "done" BY Pieces DEF Stages
<1>1. CASE UNCHANGED vars BY <1>1 DEF vars, requestVars
<1>2. ASSUME NEW q \in Requests, Handle(q) PROVE future'[r] = "reply" /\ status'[r] = "200"
  <2>1. q # r BY <1>0, <1>2 DEF Handle, Admit, Refuse, Verified, Unauthorized, Enqueue, NoRoom, Respond, Cancel, Unwind
  <2>2. ASSUME NEW code, Leave(q, code) PROVE future'[r] = "reply" /\ status'[r] = "200"
    BY <1>0, <2>1, <2>2 DEF Leave, TypeOK
  <2> QED BY <1>0, <1>2, <2>1, <2>2 DEF Handle, Admit, Refuse, Verified, Unauthorized, Enqueue, NoRoom, Respond, Cancel, Unwind, TypeOK
<1>3. CASE Send BY <1>0, <1>3 DEF Send, Done, TypeOK
<1>4. CASE FinishNotification \/ Close BY <1>0, <1>4 DEF FinishNotification, Close, Done, TypeOK
<1> QED BY <1>1, <1>2, <1>3, <1>4 DEF Next, Recv, Take, Skip, RecvRaises, SendRaises, Stop, requestVars

----------------------------------------------------------------------------
\* The client and its server.
LinkInv == ServerInv /\ RepliesMatch

\* The requests of the client are requests of the server.
LEMMA OwnFacts == Own \in Seq(Requests) /\ Len(Own) \in Nat /\ Owned \subseteq Requests
BY OwnAssumption DEF Owned, Items

\* The invariant holds before connect().
LEMMA LinkInitInv == LinkInit => LinkInv
<1> SUFFICES ASSUME LinkInit PROVE LinkInv OBVIOUS
<1>1. ServerInv BY ServerInit DEF LinkInit
<1>2. LinkTypeOK
  <2>1. 0 \in 0..Len(Own) BY OwnFacts
  <2> QED BY <2>1 DEF LinkInit, LinkTypeOK
<1> QED BY <1>1, <1>2 DEF LinkInit, LinkInv, RepliesMatch

\* Every step of the client or of the server keeps the invariant.
LEMMA LinkStep == LinkInv /\ [LinkNext]_linkVars => LinkInv'
<1> SUFFICES ASSUME LinkInv, [LinkNext]_linkVars PROVE LinkInv' OBVIOUS
<1>0. ServerInv /\ RepliesMatch /\ LinkTypeOK BY DEF LinkInv, RepliesMatch
<1>1. [Next]_vars BY DEF LinkNext, linkVars, Serve, ClientStep, ClientConnect, ClientSend, ClientAnswered, ClientSendFails, ClientRecv, ClientReceived, ClientClose
<1>2. ServerInv' BY <1>0, <1>1, ServerStep
<1>3. \A r \in Requests : future[r] = "reply" /\ status[r] = "200" => future'[r] = "reply" /\ status'[r] = "200" BY <1>0, <1>1, RepliesStay
<1>4. {posting, held, reading, asked} \subseteq Requests \cup {None} BY <1>0, OwnFacts DEF LinkTypeOK
<1>5. CASE UNCHANGED clientVars
  <2>1. LinkTypeOK' BY <1>0, <1>5 DEF clientVars, LinkTypeOK, Owned
  <2> QED BY <1>0, <1>2, <1>3, <1>4, <1>5, <2>1 DEF clientVars, LinkInv, RepliesMatch
<1>6. CASE ClientSend
  <2>1. sent + 1 \in 1..Len(Own) /\ sent' = sent + 1 BY <1>0, <1>6, OwnFacts DEF ClientSend, LinkTypeOK
  <2>2. posting' \in Owned BY <1>6, <2>1 DEF ClientSend, Owned, Items
  <2>3. LinkTypeOK' BY <1>0, <1>6, <2>1, <2>2, OwnFacts DEF ClientSend, LinkTypeOK, Owned
  <2> QED BY <1>0, <1>2, <1>3, <1>4, <1>6, <2>3 DEF ClientSend, LinkInv, RepliesMatch
<1>7. CASE ClientAnswered
  <2>1. posting \in Requests /\ (status[posting] = "200" => future[posting] = "reply")
    BY <1>0, <1>4, <1>7, Pieces DEF ClientAnswered, Stages
  <2>2. LinkTypeOK' BY <1>0, <1>7 DEF ClientAnswered, LinkTypeOK, Owned
  <2>3. held = None /\ reading = None BY <1>0, <1>7 DEF ClientAnswered, RepliesMatch
  <2>4. UNCHANGED <<future, status>> /\ posting' = None /\ reading' = reading BY <1>7 DEF ClientAnswered, vars, requestVars
  <2>5. \/ held' = posting /\ asked' = posting /\ status[posting] = "200"
        \/ held' = None
    BY <1>7, <2>3 DEF ClientAnswered
  <2> QED BY <1>0, <1>2, <2>1, <2>2, <2>3, <2>4, <2>5 DEF LinkInv, RepliesMatch
<1>8. CASE ClientConnect \/ ClientSendFails \/ ClientRecv \/ ClientReceived \/ ClientClose
  <2>1. LinkTypeOK' BY <1>0, <1>8 DEF ClientConnect, ClientSendFails, ClientRecv, ClientReceived, ClientClose, LinkTypeOK, Owned
  <2>2. UNCHANGED <<future, status, asked>> /\ posting' \in {posting, None} /\ held' \in {held, None} /\ reading' \in {held, reading, None}
    BY <1>8 DEF ClientConnect, ClientSendFails, ClientRecv, ClientReceived, ClientClose, vars, requestVars
  <2> QED BY <1>0, <1>2, <2>1, <2>2 DEF LinkInv, RepliesMatch
<1> QED BY <1>5, <1>6, <1>7, <1>8 DEF LinkNext, linkVars, Serve, ClientStep

\* For any number of requests, clients, bodies and limits: the places and the bytes that admission
\* control counts are exact on every way out of a request, and App, the transport and the handlers
\* stay in step through deadlines, disconnections and close() (http.py:204-205, 268-270).
THEOREM HttpServerAccounts == LinkSpec => []ServerAccounted
<1>1. LinkInv => ServerAccounted BY ServerMeans DEF LinkInv
<1> QED BY <1>1, LinkInitInv, LinkStep, PTL DEF LinkSpec

\* For any requests of a client and of others: what its recv() returns is what App answered to the
\* request it sent last, whatever was late, cancelled or closed.
THEOREM HttpRepliesMatch == LinkSpec => []RepliesMatch
<1>1. LinkInv => RepliesMatch BY DEF LinkInv
<1> QED BY <1>1, LinkInitInv, LinkStep, PTL DEF LinkSpec

\* App is not given the message of a request whose handler has given up.
THEOREM HttpNoWorkForTheGone == LinkSpec => NoWorkForTheGone
<1>1. LinkInv /\ [LinkNext]_linkVars =>
        [\A r \in Requests : message # r /\ message' = r => handler[r] = "waiting" /\ future[r] = "unset"]_vars
  <2> SUFFICES ASSUME LinkInv, [LinkNext]_linkVars
               PROVE  [\A r \in Requests : message # r /\ message' = r => handler[r] = "waiting" /\ future[r] = "unset"]_vars
    OBVIOUS
  <2>1. [Next]_vars BY DEF LinkNext, linkVars, Serve, ClientStep, ClientConnect, ClientSend, ClientAnswered, ClientSendFails, ClientRecv, ClientReceived, ClientClose
  <2> QED BY <2>1, GivenToWork DEF LinkInv
<1> QED BY <1>1, LinkInitInv, LinkStep, PTL DEF LinkSpec, NoWorkForTheGone


-----------------------------------------------------------------------------
\* WsServer.
Holders == {c \in Upgrades : Ws!Handling(c)}
Connected(c) == upgrade[c] \in {"reading", "put"}
Entering(c) == upgrade[c] \in {"verify", "prepare"}

\* A socket is open, a client registered and a message queued only while the
\* handler reads; an open socket is one that close() will find.
Followed ==
  /\ \A c \in clients : Connected(c)
  /\ open \subseteq clients /\ clients \subseteq principals
  /\ \A c \in Upgrades : Connected(c) \/ queued[c] = 0
  /\ shutting => open = {}
  /\ closed => shutting /\ clients = {} /\ principals = {}

\* A socket that a send closes stays closed: its handler is past the handshake.
SendsPast ==
  \A s \in Senders : ~Ws!Sending(s, "idle") =>
    /\ upgrade[sends[s].to] \notin {"none", "refused"} /\ ~Entering(sends[s].to)
    /\ Ws!Sending(s, "closing") => sends[s].to \notin open

\* Once the session is taken nobody is on the way to another; before, there is none.
SessionTaken ==
  multicast \/ IF used THEN Cardinality(sessions) <= 1 /\ \A c \in Upgrades : ~Entering(c)
                       ELSE sessions = {}

WsInv == Ws!TypeOK /\ Ws!SlotsExact /\ Followed /\ SendsPast /\ SessionTaken

----------------------------------------------------------------------------
\* Counting, as WsServer sees it.
LEMMA SameCounts ==
  (\A S : Ws!Cardinality(S) = Cardinality(S)) /\ \A S : Ws!IsFiniteSet(S) <=> IsFiniteSet(S)
BY DEF Ws!Cardinality, Cardinality, Ws!IsFiniteSet, IsFiniteSet

\* Slots.
LEMMA HoldersFinite == IsFiniteSet(Holders) /\ Cardinality(Holders) \in Nat
<1>1. Holders \subseteq Upgrades BY DEF Holders
<1>. QED BY <1>1, WsAssumption, FS_Subset, FS_CardinalityType, SameCounts DEF Ws!RequestsAssumption

\* There is at least one slot.
LEMMA LimitTyped == Ws!TypeOK => Ws!Limit \in Nat \ {0}
BY WsAssumption DEF Ws!Limit, Ws!LimitsAssumption

\* Two handlers that hold a slot are more than the one session has.
LEMMA OneHolder ==
  ASSUME Ws!TypeOK, Ws!SlotsExact, ~multicast, NEW c \in Upgrades, NEW d \in Upgrades,
         Ws!Handling(c), Ws!Handling(d)
  PROVE  c = d
<1>1. Cardinality(Holders) <= 1
  BY SameCounts DEF Ws!SlotsExact, Holders, Ws!TypeOK, Ws!Limit
<1>. SUFFICES ASSUME c # d PROVE FALSE OBVIOUS
<1>2. {c, d} \subseteq Holders BY DEF Holders
<1>3. Cardinality({c, d}) <= Cardinality(Holders) /\ IsFiniteSet({c, d})
  BY <1>2, HoldersFinite, FS_Subset
<1>4. Cardinality({c}) = 1 /\ IsFiniteSet({c}) BY FS_Singleton
<1>5. Cardinality({c} \cup {d}) = Cardinality({c}) + 1 BY <1>4, FS_AddElement
<1>6. {c} \cup {d} = {c, d} OBVIOUS
<1>. QED BY <1>1, <1>3, <1>4, <1>5, <1>6, HoldersFinite

\* A handler that moves on within its slot, takes one or returns it.
LEMMA MoveWithin ==
  ASSUME Ws!TypeOK, Ws!SlotsExact, NEW c \in Upgrades, NEW to,
         upgrade' = [upgrade EXCEPT ![c] = to], multicast' = multicast, taken' = taken,
         Ws!Handling(c) <=> to \in {"verify", "prepare", "reading", "put", "closing"}
  PROVE  Ws!SlotsExact' /\ taken' \in 0..Ws!Limit'
<1>1. \A d \in Upgrades : Ws!Handling(d)' <=> Ws!Handling(d) BY DEF Ws!TypeOK, Ws!Handling
<1>2. {d \in Upgrades : Ws!Handling(d)}' = {d \in Upgrades : Ws!Handling(d)} BY <1>1
<1>. QED BY <1>2, SameCounts DEF Ws!SlotsExact, Ws!TypeOK, Ws!Limit

\* A handler that is admitted takes a slot.
LEMMA TakesSlot ==
  ASSUME Ws!TypeOK, Ws!SlotsExact, NEW c \in Upgrades, ~Ws!Handling(c), taken < Ws!Limit,
         upgrade' = [upgrade EXCEPT ![c] = "verify"], multicast' = multicast, taken' = taken + 1
  PROVE  Ws!SlotsExact' /\ taken' \in 0..Ws!Limit'
<1>1. \A d \in Upgrades : Ws!Handling(d)' <=> Ws!Handling(d) \/ d = c BY DEF Ws!TypeOK, Ws!Handling
<1>2. Holders' = Holders \cup {c} BY <1>1 DEF Holders
<1>3. c \notin Holders BY DEF Holders
<1>4. Cardinality(Holders \cup {c}) = Cardinality(Holders) + 1 BY <1>3, HoldersFinite, FS_AddElement
<1>5. taken = Cardinality(Holders) BY SameCounts DEF Ws!SlotsExact, Holders
<1>6. taken' = Cardinality(Holders') BY <1>2, <1>4, <1>5
<1>7. taken' \in 0..Ws!Limit' BY LimitTyped DEF Ws!TypeOK, Ws!Limit
<1>. QED BY <1>6, <1>7, SameCounts DEF Ws!SlotsExact, Holders

\* A handler that ends returns its slot.
LEMMA ReturnsSlot ==
  ASSUME Ws!TypeOK, Ws!SlotsExact, NEW c \in Upgrades, Ws!Handling(c),
         upgrade' = [upgrade EXCEPT ![c] = "gone"], multicast' = multicast, taken' = taken - 1
  PROVE  Ws!SlotsExact' /\ taken' \in 0..Ws!Limit'
<1>1. \A d \in Upgrades : Ws!Handling(d)' <=> Ws!Handling(d) /\ d # c BY DEF Ws!TypeOK, Ws!Handling
<1>2. Holders' = Holders \ {c} BY <1>1 DEF Holders
<1>3. c \in Holders BY DEF Holders
<1>4. Cardinality(Holders \ {c}) = Cardinality(Holders) - 1 BY <1>3, HoldersFinite, FS_RemoveElement
<1>5. taken = Cardinality(Holders) BY SameCounts DEF Ws!SlotsExact, Holders
<1>6. taken' = Cardinality(Holders') BY <1>2, <1>4, <1>5
<1>7. Cardinality(Holders \ {c}) \in Nat
  <2>1. IsFiniteSet(Holders \ {c}) BY HoldersFinite, FS_Subset
  <2>. QED BY <2>1, FS_CardinalityType
<1>8. taken' \in Nat BY <1>2, <1>6, <1>7
<1>9. taken' \in 0..Ws!Limit' BY <1>8, LimitTyped DEF Ws!TypeOK, Ws!Limit
<1>. QED BY <1>6, <1>9, SameCounts DEF Ws!SlotsExact, Holders

\* The slots, when no handler moves.
LEMMA SlotsKept ==
  ASSUME Ws!TypeOK, Ws!SlotsExact, UNCHANGED <<upgrade, multicast, taken>>
  PROVE  Ws!SlotsExact' /\ taken' \in 0..Ws!Limit'
<1>1. {d \in Upgrades : Ws!Handling(d)}' = {d \in Upgrades : Ws!Handling(d)} BY DEF Ws!Handling
<1>. QED BY <1>1, SameCounts DEF Ws!SlotsExact, Ws!TypeOK, Ws!Limit

----------------------------------------------------------------------------
\* The invariant holds of a server that was just made.
LEMMA WsInvInit == Ws!Init => WsInv
<1>. SUFFICES ASSUME Ws!Init PROVE WsInv OBVIOUS
<1>1. Ws!TypeOK
  <2>1. Ws!Limit \in Nat \ {0} BY WsAssumption DEF Ws!Limit, Ws!LimitsAssumption
  <2>2. taken \in 0..Ws!Limit BY <2>1 DEF Ws!Init
  <2>3. queued \in [Upgrades -> Nat] BY DEF Ws!Init, Ws!Emptied
  <2>4. sends \in [Senders -> {Ws!NotSending}] BY DEF Ws!Init
  <2>. QED BY <2>2, <2>3, <2>4 DEF Ws!Init, Ws!TypeOK
<1>2. Ws!SlotsExact
  <2>1. {c \in Upgrades : Ws!Handling(c)} = {} BY DEF Ws!Init, Ws!Handling
  <2>. QED BY <2>1, FS_EmptySet, SameCounts DEF Ws!SlotsExact, Ws!Init
<1>3. Followed BY DEF Ws!Init, Followed, Ws!Emptied
<1>4. SendsPast BY DEF Ws!Init, SendsPast, Ws!Sending, Ws!NotSending
<1>5. SessionTaken BY DEF Ws!Init, SessionTaken
<1>. QED BY <1>1, <1>2, <1>3, <1>4, <1>5 DEF WsInv

\* Before it is registered a handler only moves on, takes its slot or returns it.
LEMMA EnteringSteps ==
  ASSUME WsInv, NEW c \in Upgrades, Ws!Admit(c) \/ Ws!Unauthorized(c) \/ Ws!Verified(c) \/ Ws!PrepareFails(c)
  PROVE  WsInv'
<1>. DEFINE rest == <<used, Ws!entries, open, queued, sessions, sends, Ws!flags>>
<1>0. Ws!TypeOK /\ Ws!SlotsExact /\ Followed /\ SendsPast /\ SessionTaken BY DEF WsInv
<1>1. PICK to \in {"refused", "verify", "prepare", "gone"} :
        /\ upgrade[c] \in {"none", "verify", "prepare"} /\ UNCHANGED rest
        /\ upgrade' = [upgrade EXCEPT ![c] = to]
        /\ to \in {"verify", "prepare"} => multicast \/ ~used \/ upgrade[c] # "none"
        /\ Ws!SlotsExact' /\ taken' \in 0..Ws!Limit'
  <2>1. CASE Ws!Admit(c)
    <3>1. upgrade[c] = "none" /\ UNCHANGED rest /\ multicast' = multicast BY <2>1 DEF Ws!Admit, Ws!flags
    <3>2. ~Ws!Handling(c) BY <3>1 DEF Ws!Handling
    <3>3. CASE shutting \/ (~multicast /\ used) \/ taken >= Ws!Limit
      <4>1. upgrade' = [upgrade EXCEPT ![c] = "refused"] /\ taken' = taken BY <2>1, <3>3 DEF Ws!Admit, Ws!Moves
      <4>2. Ws!SlotsExact' /\ taken' \in 0..Ws!Limit' BY <1>0, <3>1, <3>2, <4>1, MoveWithin
      <4>. QED BY <3>1, <4>1, <4>2
    <3>4. CASE ~(shutting \/ (~multicast /\ used) \/ taken >= Ws!Limit)
      <4>1. upgrade' = [upgrade EXCEPT ![c] = "verify"] /\ taken' = taken + 1 BY <2>1, <3>4 DEF Ws!Admit, Ws!Moves
      <4>2. taken < Ws!Limit BY <1>0, <3>4, LimitTyped DEF Ws!TypeOK
      <4>3. Ws!SlotsExact' /\ taken' \in 0..Ws!Limit' BY <1>0, <3>1, <3>2, <4>1, <4>2, TakesSlot
      <4>. QED BY <3>1, <3>4, <4>1, <4>3
    <3>. QED BY <3>3, <3>4
  <2>2. CASE Ws!Unauthorized(c) \/ Ws!PrepareFails(c)
    <3>1. /\ upgrade[c] \in {"verify", "prepare"} /\ UNCHANGED rest /\ multicast' = multicast
          /\ upgrade' = [upgrade EXCEPT ![c] = "gone"] /\ taken' = taken - 1
      BY <2>2 DEF Ws!Unauthorized, Ws!PrepareFails, Ws!Moves, Ws!flags
    <3>2. Ws!Handling(c) BY <3>1 DEF Ws!Handling
    <3>3. Ws!SlotsExact' /\ taken' \in 0..Ws!Limit' BY <1>0, <3>1, <3>2, ReturnsSlot
    <3>. QED BY <3>1, <3>3
  <2>3. CASE Ws!Verified(c)
    <3>1. /\ upgrade[c] = "verify" /\ UNCHANGED rest /\ multicast' = multicast
          /\ upgrade' = [upgrade EXCEPT ![c] = "prepare"] /\ taken' = taken
      BY <2>3 DEF Ws!Verified, Ws!Moves, Ws!flags
    <3>2. Ws!Handling(c) BY <3>1 DEF Ws!Handling
    <3>3. Ws!SlotsExact' /\ taken' \in 0..Ws!Limit' BY <1>0, <3>1, <3>2, MoveWithin
    <3>. QED BY <3>1, <3>3
  <2>. QED BY <2>1, <2>2, <2>3
<1>2. UNCHANGED <<used, clients, principals, open, queued, sessions, sends, multicast, shutting, queueClosed, closed>>
  BY <1>1 DEF Ws!entries, Ws!flags
<1>3. /\ upgrade' \in [Upgrades -> {"none", "refused", "verify", "prepare", "reading", "put", "closing", "gone"}]
      /\ \A d \in Upgrades : upgrade'[d] = IF d = c THEN to ELSE upgrade[d]
  BY <1>0, <1>1 DEF Ws!TypeOK
<1>4. Ws!TypeOK' BY <1>0, <1>1, <1>2, <1>3 DEF Ws!TypeOK
<1>5. Followed'
  <2>1. c \notin clients /\ \A d \in clients : d \in Upgrades BY <1>0, <1>1 DEF Followed, Connected, Ws!TypeOK
  <2>2. \A d \in Upgrades : Connected(d) => Connected(d)' BY <1>1, <1>3 DEF Connected
  <2>. QED BY <1>0, <1>2, <2>1, <2>2 DEF Followed
<1>6. SendsPast'
  <2>1. ASSUME NEW s \in Senders, ~Ws!Sending(s, "idle")
        PROVE  sends[s].to \in Upgrades /\ sends[s].to # c
    BY <1>0, <1>1, <2>1 DEF Ws!TypeOK, SendsPast, Ws!Sending, Entering, Ws!NotSending
  <2>. QED BY <1>0, <1>2, <1>3, <2>1 DEF SendsPast, Ws!Sending, Entering
<1>7. SessionTaken'
  <2>1. used /\ ~multicast => \A d \in Upgrades : ~Entering(d)'
    BY <1>0, <1>1, <1>3 DEF SessionTaken, Entering
  <2>. QED BY <1>0, <1>2, <2>1 DEF SessionTaken
<1>. QED BY <1>1, <1>4, <1>5, <1>6, <1>7 DEF WsInv

\* The handshake is over: the client is registered, unless close() began.
LEMMA PreparedStep ==
  ASSUME WsInv, NEW c \in Upgrades, Ws!Prepared(c)
  PROVE  WsInv'
<1>0. Ws!TypeOK /\ Ws!SlotsExact /\ Followed /\ SendsPast /\ SessionTaken BY DEF WsInv
<1>1. /\ upgrade[c] = "prepare" /\ Ws!Handling(c) /\ c \notin clients
      /\ UNCHANGED <<taken, queued, sends, multicast, shutting, queueClosed, closed>>
  BY <1>0 DEF Ws!Prepared, Ws!flags, Ws!Handling, Followed, Connected
<1>2. ASSUME NEW s \in Senders, ~Ws!Sending(s, "idle")
      PROVE  sends[s].to \in Upgrades /\ sends[s].to # c
  BY <1>0, <1>1, <1>2 DEF Ws!TypeOK, SendsPast, Ws!Sending, Entering, Ws!NotSending
<1>3. CASE shutting
  <2>1. upgrade' = [upgrade EXCEPT ![c] = "closing"] /\ UNCHANGED <<open, clients, principals, sessions, used>>
    BY <1>3 DEF Ws!Prepared, Ws!Moves, Ws!entries
  <2>2. \A d \in Upgrades : upgrade'[d] = IF d = c THEN "closing" ELSE upgrade[d] BY <1>0, <2>1 DEF Ws!TypeOK
  <2>3. Ws!SlotsExact' /\ taken' \in 0..Ws!Limit' BY <1>0, <1>1, <2>1, MoveWithin
  <2>4. Ws!TypeOK' BY <1>0, <1>1, <2>1, <2>3 DEF Ws!TypeOK
  <2>5. Followed'
    <3>1. \A d \in Upgrades : Connected(d) => Connected(d)' BY <1>1, <2>2 DEF Connected
    <3>2. \A d \in clients : d \in Upgrades BY <1>0 DEF Ws!TypeOK
    <3>. QED BY <1>0, <1>1, <2>1, <3>1, <3>2 DEF Followed
  <2>6. SendsPast' BY <1>0, <1>1, <1>2, <2>1, <2>2 DEF SendsPast, Ws!Sending, Entering
  <2>7. SessionTaken' BY <1>0, <1>1, <2>1, <2>2 DEF SessionTaken, Entering
  <2>. QED BY <2>3, <2>4, <2>5, <2>6, <2>7 DEF WsInv
<1>4. CASE ~shutting
  <2>1. /\ upgrade' = [upgrade EXCEPT ![c] = "reading"] /\ open' = open \cup {c}
        /\ clients' = clients \cup {c} /\ principals' = principals \cup {c}
        /\ sessions' = sessions \cup {c} /\ used' = ~multicast
    BY <1>4 DEF Ws!Prepared, Ws!Moves
  <2>2. \A d \in Upgrades : upgrade'[d] = IF d = c THEN "reading" ELSE upgrade[d] BY <1>0, <2>1 DEF Ws!TypeOK
  <2>3. Ws!SlotsExact' /\ taken' \in 0..Ws!Limit' BY <1>0, <1>1, <2>1, MoveWithin
  <2>4. Ws!TypeOK'
    <3>1. multicast \in BOOLEAN BY <1>0, WsAssumption DEF Ws!TypeOK, Ws!ModesAssumption
    <3>2. used' \in BOOLEAN BY <2>1, <3>1
    <3>. QED BY <1>0, <1>1, <2>1, <2>3, <3>2 DEF Ws!TypeOK
  <2>5. Followed'
    <3>1. \A d \in Upgrades : Connected(d) => Connected(d)' BY <1>1, <2>2 DEF Connected
    <3>2. Connected(c)' BY <2>2 DEF Connected
    <3>3. \A d \in clients : d \in Upgrades BY <1>0 DEF Ws!TypeOK
    <3>. QED BY <1>0, <1>1, <1>4, <2>1, <3>1, <3>2, <3>3 DEF Followed
  <2>6. SendsPast' BY <1>0, <1>1, <1>2, <2>1, <2>2 DEF SendsPast, Ws!Sending, Entering
  <2>7. SessionTaken'
    <3>. SUFFICES ASSUME ~multicast PROVE SessionTaken' BY <1>1 DEF SessionTaken
    <3>1. sessions = {} BY <1>0, <1>1 DEF SessionTaken, Entering
    <3>2. Cardinality(sessions') = 1 BY <2>1, <3>1, FS_Singleton
    <3>3. ASSUME NEW d \in Upgrades PROVE ~Entering(d)'
      <4>1. Entering(d) => d = c BY <1>0, <1>1, OneHolder DEF Entering, Ws!Handling
      <4>. QED BY <2>2, <4>1 DEF Entering
    <3>4. multicast' = multicast /\ used' = TRUE
      <4>1. multicast = FALSE BY <1>0, WsAssumption DEF Ws!TypeOK, Ws!ModesAssumption
      <4>. QED BY <1>1, <2>1, <4>1
    <3>. QED BY <3>2, <3>3, <3>4 DEF SessionTaken
  <2>. QED BY <2>3, <2>4, <2>5, <2>6, <2>7 DEF WsInv
<1>. QED BY <1>3, <1>4

\* A step that leaves the handlers and slots alone.
LEMMA QuietStep ==
  ASSUME WsInv, UNCHANGED <<upgrade, taken, used, sessions, multicast>>, Ws!TypeOK', Followed', SendsPast'
  PROVE  WsInv'
<1>1. Ws!SlotsExact' BY SlotsKept DEF WsInv
<1>2. SessionTaken' BY DEF WsInv, SessionTaken, Entering
<1>. QED BY <1>1, <1>2 DEF WsInv

\* A handler that is past the handshake moves on to `to`.
LEMMA LaterStep ==
  ASSUME WsInv, NEW c \in Upgrades, NEW to \in {"reading", "put", "closing"},
         upgrade[c] \in {"reading", "put"}, upgrade' = [upgrade EXCEPT ![c] = to],
         open' \subseteq open, UNCHANGED <<taken, used, sessions, multicast, sends>>,
         clients' \subseteq clients, principals' \subseteq principals, queued' \in [Upgrades -> Nat],
         {queueClosed', shutting', closed'} \subseteq BOOLEAN, Followed'
  PROVE  WsInv'
<1>0. Ws!TypeOK /\ Ws!SlotsExact /\ SendsPast /\ SessionTaken BY DEF WsInv
<1>1. \A d \in Upgrades : upgrade'[d] = IF d = c THEN to ELSE upgrade[d] BY <1>0 DEF Ws!TypeOK
<1>2. Ws!Handling(c) BY DEF Ws!Handling
<1>3. Ws!SlotsExact' /\ taken' \in 0..Ws!Limit' BY <1>0, <1>2, MoveWithin
<1>4. Ws!TypeOK' BY <1>0, <1>3 DEF Ws!TypeOK
<1>5. SendsPast'
  <2>1. ASSUME NEW s \in Senders, ~Ws!Sending(s, "idle") PROVE sends[s].to \in Upgrades
    BY <1>0, <2>1 DEF Ws!TypeOK, Ws!Sending, Ws!NotSending
  <2>. QED BY <1>0, <1>1, <2>1 DEF SendsPast, Ws!Sending, Entering
<1>6. SessionTaken' BY <1>0, <1>1 DEF SessionTaken, Entering
<1>. QED BY <1>3, <1>4, <1>5, <1>6 DEF WsInv

\* A message is queued, waits for room, or is received.
LEMMA MessageSteps ==
  ASSUME WsInv, NEW c \in Upgrades, Ws!Message(c) \/ Ws!Put(c) \/ Ws!Recv(c)
  PROVE  WsInv'
<1>0. Ws!TypeOK /\ Followed /\ SendsPast BY DEF WsInv
<1>1. UNCHANGED <<taken, used, clients, principals, open, sessions, sends, multicast, shutting, queueClosed, closed>>
  BY DEF Ws!Message, Ws!Put, Ws!Recv, Ws!entries, Ws!flags
<1>2. ASSUME NEW to \in {"reading", "put"}, upgrade[c] \in {"reading", "put"},
             upgrade' = [upgrade EXCEPT ![c] = to], queued' \in [Upgrades -> Nat],
             \A d \in Upgrades \ {c} : queued'[d] = queued[d]
      PROVE  WsInv'
  <2>1. \A d \in Upgrades : Connected(d)' <=> Connected(d) BY <1>0, <1>2 DEF Ws!TypeOK, Connected
  <2>2. Followed' BY <1>0, <1>1, <1>2, <2>1 DEF Followed, Ws!TypeOK, Connected
  <2>. QED BY <1>0, <1>1, <1>2, <2>2, LaterStep DEF Ws!TypeOK
<1>3. CASE Ws!Message(c) \/ Ws!Put(c)
  <2>1. \/ upgrade' = upgrade /\ upgrade[c] = "reading" /\ queued' = [queued EXCEPT ![c] = @ + 1]
        \/ upgrade' = [upgrade EXCEPT ![c] = "put"] /\ upgrade[c] = "reading" /\ queued' = queued
        \/ upgrade' = [upgrade EXCEPT ![c] = "reading"] /\ upgrade[c] = "put" /\ queued' = [queued EXCEPT ![c] = @ + 1]
    BY <1>3 DEF Ws!Message, Ws!Put, Ws!Moves
  <2>2. upgrade = [upgrade EXCEPT ![c] = upgrade[c]] BY <1>0 DEF Ws!TypeOK
  <2>3. queued' \in [Upgrades -> Nat] /\ \A d \in Upgrades \ {c} : queued'[d] = queued[d]
    BY <1>0, <2>1 DEF Ws!TypeOK
  <2>. QED BY <1>2, <2>1, <2>2, <2>3
<1>4. CASE Ws!Recv(c)
  <2>1. upgrade' = upgrade /\ queued[c] > 0 /\ queued' = [queued EXCEPT ![c] = @ - 1] BY <1>4 DEF Ws!Recv
  <2>2. upgrade = [upgrade EXCEPT ![c] = upgrade[c]] BY <1>0 DEF Ws!TypeOK
  <2>3. upgrade[c] \in {"reading", "put"} BY <1>0, <2>1 DEF Followed, Connected, Ws!TypeOK
  <2>4. queued' \in [Upgrades -> Nat] /\ \A d \in Upgrades \ {c} : queued'[d] = queued[d]
    BY <1>0, <2>1 DEF Ws!TypeOK
  <2>. QED BY <1>2, <2>1, <2>2, <2>3, <2>4
<1>. QED BY <1>3, <1>4

\* A handler that leaves takes its entries, its messages and its socket along.
LEMMA LeaveSteps ==
  ASSUME WsInv, NEW c \in Upgrades, Ws!HangUp(c) \/ Ws!ReaderEnds(c)
  PROVE  WsInv'
<1>0. Ws!TypeOK /\ Followed BY DEF WsInv
<1>1. /\ upgrade[c] \in {"reading", "put"} /\ upgrade' = [upgrade EXCEPT ![c] = "closing"]
      /\ UNCHANGED <<taken, used, sessions, sends, multicast, shutting, closed>>
      /\ open' = open \ {c} /\ clients' = clients \ {c}
      /\ principals' = IF c \in clients THEN principals \ {c} ELSE principals
      /\ queued' = IF multicast THEN [queued EXCEPT ![c] = 0] ELSE Ws!Emptied
      /\ queueClosed' = (queueClosed \/ ~multicast)
  BY DEF Ws!HangUp, Ws!ReaderEnds, Ws!Leave, Ws!Moves, Ws!entries
<1>2. multicast \in BOOLEAN BY <1>0, WsAssumption DEF Ws!TypeOK, Ws!ModesAssumption
<1>3. queueClosed' \in BOOLEAN BY <1>0, <1>1, <1>2 DEF Ws!TypeOK
<1>4. queued' \in [Upgrades -> Nat] /\ queued'[c] = 0
  BY <1>0, <1>1 DEF Ws!TypeOK, Ws!Emptied
<1>5. \A d \in Upgrades : queued'[d] = queued[d] \/ queued'[d] = 0 BY <1>0, <1>1 DEF Ws!TypeOK, Ws!Emptied
<1>6. \A d \in Upgrades \ {c} : Connected(d)' <=> Connected(d) BY <1>0, <1>1 DEF Ws!TypeOK, Connected
<1>7. Followed'
  <2>1. \A d \in clients' : Connected(d)' BY <1>0, <1>1, <1>6 DEF Followed, Ws!TypeOK
  <2>2. open' \subseteq clients' /\ clients' \subseteq principals' BY <1>0, <1>1 DEF Followed
  <2>3. \A d \in Upgrades : Connected(d)' \/ queued'[d] = 0 BY <1>0, <1>4, <1>5, <1>6 DEF Followed
  <2>4. shutting' => open' = {} BY <1>0, <1>1 DEF Followed
  <2>5. closed' => shutting' /\ clients' = {} /\ principals' = {} BY <1>0, <1>1 DEF Followed
  <2>. QED BY <2>1, <2>2, <2>3, <2>4, <2>5 DEF Followed
<1>8. principals' \subseteq principals /\ {queueClosed', shutting', closed'} \subseteq BOOLEAN
  BY <1>0, <1>1, <1>3 DEF Ws!TypeOK
<1>. QED BY <1>1, <1>4, <1>7, <1>8, LaterStep

\* The socket is closed and the slot is free.
LEMMA EndedStep ==
  ASSUME WsInv, NEW c \in Upgrades, Ws!Ended(c)
  PROVE  WsInv'
<1>0. Ws!TypeOK /\ Ws!SlotsExact /\ Followed /\ SendsPast /\ SessionTaken BY DEF WsInv
<1>1. /\ upgrade[c] = "closing" /\ Ws!Handling(c) /\ upgrade' = [upgrade EXCEPT ![c] = "gone"] /\ taken' = taken - 1
      /\ UNCHANGED <<used, clients, principals, open, queued, sessions, sends, multicast, shutting, queueClosed, closed>>
  BY DEF Ws!Ended, Ws!Moves, Ws!entries, Ws!flags, Ws!Handling
<1>2. \A d \in Upgrades : upgrade'[d] = IF d = c THEN "gone" ELSE upgrade[d] BY <1>0, <1>1 DEF Ws!TypeOK
<1>3. Ws!SlotsExact' /\ taken' \in 0..Ws!Limit' BY <1>0, <1>1, ReturnsSlot
<1>4. Ws!TypeOK' BY <1>0, <1>1, <1>3 DEF Ws!TypeOK
<1>5. Followed'
  <2>1. \A d \in Upgrades : Connected(d)' <=> Connected(d) BY <1>1, <1>2 DEF Connected
  <2>2. \A d \in clients : d \in Upgrades BY <1>0 DEF Ws!TypeOK
  <2>. QED BY <1>0, <1>1, <2>1, <2>2 DEF Followed
<1>6. SendsPast'
  <2>1. ASSUME NEW s \in Senders, ~Ws!Sending(s, "idle") PROVE sends[s].to \in Upgrades
    BY <1>0, <2>1 DEF Ws!TypeOK, Ws!Sending, Ws!NotSending
  <2>. QED BY <1>0, <1>1, <1>2, <2>1 DEF SendsPast, Ws!Sending, Entering
<1>7. SessionTaken' BY <1>0, <1>1, <1>2 DEF SessionTaken, Entering
<1>. QED BY <1>3, <1>4, <1>5, <1>6, <1>7 DEF WsInv

\* A send touches neither handlers nor slots.
LEMMA SendSteps ==
  ASSUME WsInv, NEW s \in Senders,
         (\E c \in Upgrades : Ws!SendStart(s, c)) \/ Ws!SendDone(s) \/ Ws!SendFails(s) \/ Ws!SendClosed(s)
  PROVE  WsInv'
<1>0. Ws!TypeOK /\ Followed /\ SendsPast BY DEF WsInv
<1>1. ASSUME NEW c \in Upgrades, Ws!SendStart(s, c) PROVE WsInv'
  <2>1. PICK kind \in {"send", "broadcast"} : sends' = [sends EXCEPT ![s] = [at |-> "writing", to |-> c, kind |-> kind]]
    BY <1>1 DEF Ws!SendStart
  <2>2. /\ c \in clients
        /\ UNCHANGED <<upgrade, taken, used, clients, principals, open, queued, sessions, multicast, shutting, queueClosed, closed>>
    BY <1>1 DEF Ws!SendStart, Ws!entries, Ws!flags
  <2>3. Connected(c) BY <1>0, <2>2 DEF Followed
  <2>4. Ws!TypeOK' BY <1>0, <2>1, <2>2 DEF Ws!TypeOK, Ws!Limit
  <2>5. Followed' BY <1>0, <2>2 DEF Followed, Connected
  <2>6. SendsPast' BY <1>0, <2>1, <2>2, <2>3 DEF SendsPast, Ws!Sending, Entering, Connected, Ws!TypeOK
  <2>. QED BY <2>2, <2>4, <2>5, <2>6, QuietStep
<1>2. CASE Ws!SendDone(s)
  <2>1. /\ sends' = [sends EXCEPT ![s] = Ws!NotSending]
        /\ UNCHANGED <<upgrade, taken, used, clients, principals, open, queued, sessions, multicast, shutting, queueClosed, closed>>
    BY <1>2 DEF Ws!SendDone, Ws!entries, Ws!flags
  <2>2. Ws!TypeOK' BY <1>0, <2>1 DEF Ws!TypeOK, Ws!Limit
  <2>3. Followed' BY <1>0, <2>1 DEF Followed, Connected
  <2>4. SendsPast' BY <1>0, <2>1 DEF SendsPast, Ws!Sending, Entering, Ws!NotSending, Ws!TypeOK
  <2>. QED BY <2>1, <2>2, <2>3, <2>4, QuietStep
<1>3. CASE Ws!SendFails(s)
  <2>1. /\ sends[s].at = "writing" /\ sends' = [sends EXCEPT ![s].at = "closing"] /\ open' = open \ {sends[s].to}
        /\ UNCHANGED <<upgrade, taken, used, clients, principals, queued, sessions, multicast, shutting, queueClosed, closed>>
    BY <1>3 DEF Ws!SendFails, Ws!Sending, Ws!entries, Ws!flags
  <2>2. sends[s] \in [at : {"writing", "closing"}, to : Upgrades, kind : {"send", "broadcast"}]
    BY <1>0, <2>1 DEF Ws!TypeOK, Ws!NotSending
  <2>3. Ws!TypeOK' BY <1>0, <2>1, <2>2 DEF Ws!TypeOK, Ws!Limit
  <2>4. Followed' BY <1>0, <2>1 DEF Followed, Connected
  <2>5. SendsPast'
    <3>1. sends'[s] = [sends[s] EXCEPT !.at = "closing"] /\ \A t \in Senders \ {s} : sends'[t] = sends[t]
      BY <1>0, <2>1 DEF Ws!TypeOK
    <3>2. sends'[s].at = "closing" /\ sends'[s].to = sends[s].to BY <2>2, <3>1
    <3>. QED BY <1>0, <2>1, <3>1, <3>2 DEF SendsPast, Ws!Sending, Entering
  <2>. QED BY <2>1, <2>3, <2>4, <2>5, QuietStep
<1>4. CASE Ws!SendClosed(s)
  <2>1. /\ sends[s].at = "closing" /\ sends' = [sends EXCEPT ![s] = Ws!NotSending]
        /\ clients' = IF sends[s].kind = "broadcast" THEN clients \ {sends[s].to} ELSE clients
        /\ UNCHANGED <<upgrade, taken, used, principals, open, queued, sessions, multicast, shutting, queueClosed, closed>>
    BY <1>4 DEF Ws!SendClosed, Ws!Sending, Ws!flags
  <2>2. sends[s].to \notin open BY <1>0, <2>1 DEF SendsPast, Ws!Sending
  <2>3. Ws!TypeOK' BY <1>0, <2>1 DEF Ws!TypeOK, Ws!Limit
  <2>4. Followed' BY <1>0, <2>1, <2>2 DEF Followed, Connected
  <2>5. SendsPast' BY <1>0, <2>1 DEF SendsPast, Ws!Sending, Entering, Ws!NotSending, Ws!TypeOK
  <2>. QED BY <2>1, <2>3, <2>4, <2>5, QuietStep
<1>. QED BY <1>1, <1>2, <1>3, <1>4

\* Revocation and close() close sockets, and close() clears the entries.
LEMMA CloseSteps ==
  ASSUME WsInv, (\E c \in Upgrades : Ws!Revoke(c)) \/ Ws!Close \/ Ws!CloseClears
  PROVE  WsInv'
<1>0. Ws!TypeOK /\ Followed /\ SendsPast BY DEF WsInv
<1>1. /\ UNCHANGED <<upgrade, taken, used, sessions, sends, multicast>> /\ open' \subseteq open
      /\ clients' \subseteq clients /\ principals' \subseteq principals
      /\ queued' \in [Upgrades -> Nat] /\ \A d \in Upgrades : queued'[d] = queued[d] \/ queued'[d] = 0
      /\ {queueClosed', shutting', closed'} \subseteq BOOLEAN
  <2>1. Ws!Emptied \in [Upgrades -> Nat] /\ \A d \in Upgrades : Ws!Emptied[d] = 0 BY DEF Ws!Emptied
  <2>2. CASE \E c \in Upgrades : Ws!Revoke(c) BY <1>0, <2>2 DEF Ws!Revoke, Ws!entries, Ws!flags, Ws!TypeOK
  <2>3. CASE Ws!Close BY <1>0, <2>1, <2>3 DEF Ws!Close, Ws!entries, Ws!TypeOK
  <2>4. CASE Ws!CloseClears BY <1>0, <2>4 DEF Ws!CloseClears, Ws!TypeOK
  <2>. QED BY <2>2, <2>3, <2>4
<1>2. Ws!TypeOK' BY <1>0, <1>1 DEF Ws!TypeOK, Ws!Limit
<1>3. SendsPast' BY <1>0, <1>1 DEF SendsPast, Ws!Sending, Entering
<1>4. \A c \in Upgrades : Connected(c)' <=> Connected(c) BY <1>1 DEF Connected
<1>5. Followed'
  <2>1. \A d \in clients' : Connected(d)' BY <1>0, <1>1, <1>4 DEF Followed, Ws!TypeOK
  <2>2. \A d \in Upgrades : Connected(d)' \/ queued'[d] = 0 BY <1>0, <1>1, <1>4 DEF Followed
  <2>3. CASE \E c \in Upgrades : Ws!Revoke(c)
    <3>1. UNCHANGED <<clients, principals, shutting, closed>> BY <2>3 DEF Ws!Revoke, Ws!entries, Ws!flags
    <3>. QED BY <1>0, <1>1, <2>1, <2>2, <3>1 DEF Followed
  <2>4. CASE Ws!Close
    <3>1. open' = open \ clients /\ shutting' = TRUE /\ ~shutting /\ UNCHANGED <<clients, principals, closed>>
      BY <2>4 DEF Ws!Close, Ws!entries
    <3>2. open' = {} BY <1>0, <3>1 DEF Followed
    <3>. QED BY <1>0, <2>1, <2>2, <3>1, <3>2 DEF Followed
  <2>5. CASE Ws!CloseClears
    <3>1. shutting /\ shutting' = shutting /\ open' = open /\ clients' = {} /\ principals' = {} BY <2>5 DEF Ws!CloseClears
    <3>. QED BY <1>0, <2>1, <2>2, <3>1 DEF Followed
  <2>. QED BY <2>3, <2>4, <2>5
<1>. QED BY <1>1, <1>2, <1>3, <1>5, QuietStep

\* Every step keeps the invariant.
LEMMA WsInvStep == WsInv /\ [Ws!Next]_(Ws!vars) => WsInv'
<1>. SUFFICES ASSUME WsInv, [Ws!Next]_(Ws!vars) PROVE WsInv' OBVIOUS
<1>1. CASE UNCHANGED Ws!vars
  <2>1. UNCHANGED <<upgrade, taken, used, clients, principals, open, queued, sessions, sends, multicast, shutting, queueClosed, closed>>
    BY <1>1 DEF Ws!vars, Ws!entries, Ws!flags
  <2>2. Ws!TypeOK' BY <2>1 DEF WsInv, Ws!TypeOK, Ws!Limit
  <2>3. Followed' /\ SendsPast' BY <2>1 DEF WsInv, Followed, Connected, SendsPast, Ws!Sending, Entering
  <2>. QED BY <2>1, <2>2, <2>3, QuietStep
<1>2. ASSUME NEW c \in Upgrades, Ws!Handler(c) PROVE WsInv'
  BY <1>2, EnteringSteps, PreparedStep, MessageSteps, LeaveSteps, EndedStep, CloseSteps DEF Ws!Handler
<1>. QED BY <1>1, <1>2, SendSteps, MessageSteps, CloseSteps DEF Ws!Next

\* For any number of requests, senders, connections and places of the queue: every
\* slot is held by one handler, entries, sockets and messages go with the handler
\* they belong to, close() leaves nothing registered, and the single-client
\* server serves one session (websocket.py:187, 207-217).
THEOREM ConnectionsFollowHandlers == WsSpec => []ConnectionsAccounted
<1>1. WsInv => ConnectionsAccounted
  <2>. SUFFICES ASSUME WsInv PROVE ConnectionsAccounted OBVIOUS
  <2>0. Ws!TypeOK /\ Ws!SlotsExact /\ Followed /\ SessionTaken BY DEF WsInv
  <2>1. Ws!PrincipalsKnown BY <2>0 DEF Followed, Ws!PrincipalsKnown
  <2>2. Ws!GoneLeavesNothing BY <2>0 DEF Followed, Ws!GoneLeavesNothing, Connected
  <2>3. Ws!ClosedStaysEmpty BY <2>0 DEF Followed, Ws!ClosedStaysEmpty
  <2>4. Ws!OneSession BY <2>0, FS_EmptySet, SameCounts DEF SessionTaken, Ws!OneSession
  <2>. QED BY <2>0, <2>1, <2>2, <2>3, <2>4 DEF ConnectionsAccounted, Ws!ConnectionsAccounted
<1>. QED BY <1>1, WsInvInit, WsInvStep, PTL DEF WsSpec
=============================================================================
