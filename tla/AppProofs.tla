----------------------------- MODULE AppProofs -----------------------------
(***************************************************************************)
(* What App.tla promises, for any number of callers of serve(), messages    *)
(* and cancellations; and what AuthenticatedApp adds to it, for any         *)
(* dependencies and any number of logins.                                   *)
(***************************************************************************)
EXTENDS AuthenticatedApp, FiniteSetTheorems, SequenceTheorems, TLAPS

Idle == {"idle", "refused"}

\* What the phase of the one active run says of everything else.
Accounts(r) ==
  /\ running <=> Active(r)
  /\ dependencies <=> (phase[r] \in Started \cup {"startup hook", "undoing"})
  /\ context <=> (phase[r] \in Started)
  /\ open <=> (phase[r] \in Serving \cup {"closing"})
  /\ current # None <=> (phase[r] \in Serving \ {"recv"})
  /\ phase[r] \in {"shutdown hook", "undoing", "ended"} => stopping
  /\ abandoned # None => phase[r] \in {"closing", "shutdown hook", "undoing", "ended"}

\* No run was admitted yet, or exactly one was and it accounts for the rest.
Fresh ==
  /\ \A r \in Runs : phase[r] \in Idle
  /\ ~running /\ ~dependencies /\ ~context /\ ~open /\ current = None /\ abandoned = None

Admitted(r) ==
  /\ phase[r] \notin Idle
  /\ \A s \in Runs \ {r} : phase[s] \in Idle
  /\ Accounts(r)

OneRun == Fresh \/ \E r \in Runs : Admitted(r)

MessagesApart ==
  /\ abandoned # None => abandoned # current
  /\ Executing \cap handled = {}

IInv == TypeOK /\ OneRun /\ MessagesApart

\* The invariant holds before run().
LEMMA InitIInv == Init => IInv
<1> SUFFICES ASSUME Init PROVE IInv
  OBVIOUS
<1>1. TypeOK
  <2>1. phase \in [Runs -> Phase] BY DEF Init, Phase
  <2>2. cancels \in 0..MaxCancels BY CancelsAssumption DEF Init
  <2>3. \A r \in Runs : phase[r] \notin Serving BY DEF Init, Serving
  <2> QED BY <2>1, <2>2, <2>3 DEF Init, TypeOK
<1>2. OneRun BY DEF Init, OneRun, Fresh, Idle
<1>3. MessagesApart BY DEF Init, MessagesApart, Executing
<1> QED BY <1>1, <1>2, <1>3 DEF IInv

\* Only the run that was admitted has steps besides Serve.
Steps(r) == Receive(r) \/ LeaveLoop(r) \/ Step(r) \/ Cancel(r)

\* Only the run that was admitted moves on; the others were refused at the door.
LEMMA StepOfAdmitted ==
  ASSUME IInv, NEW r \in Runs, Steps(r)
  PROVE  Admitted(r)
BY DEF IInv, OneRun, Fresh, Admitted, Idle, Steps, Receive, LeaveLoop, Step, Cancel, Go,
       DependenciesStarted, HookStarted, Opened, FailStartup, Drain, Processed, Abandon,
       Reap, Sent, Escape, Closed, HookEnded, DependenciesEnded, Started, Serving

\* A step changes the phase of its own run only, and keeps its accounts.
LEMMA StepKeepsAccounts ==
  ASSUME TypeOK, NEW r \in Runs, Steps(r), Admitted(r)
  PROVE  Admitted(r)'
<1> USE NamesAssumption DEF Admitted, Accounts, Active, Idle, Started, Serving, TypeOK, Go, NextMessage, Unseen, None
<1>1. CASE Receive(r) BY <1>1 DEF Receive, flags, made
<1>2. CASE LeaveLoop(r) BY <1>2 DEF LeaveLoop, flags, made
<1>3. CASE DependenciesStarted(r) BY <1>3 DEF DependenciesStarted, flags, messages
<1>4. CASE HookStarted(r) BY <1>4 DEF HookStarted, flags, messages
<1>5. CASE Opened(r) BY <1>5 DEF Opened, flags, messages
<1>6. CASE FailStartup(r) BY <1>6 DEF FailStartup, made, messages
<1>7. CASE Drain(r) BY <1>7 DEF Drain, flags, made, messages
<1>8. CASE Processed(r) BY <1>8 DEF Processed, flags, made, messages
<1>9. CASE Abandon(r) BY <1>9 DEF Abandon, flags, made, messages
<1>10. CASE Reap(r) BY <1>10 DEF Reap, flags, made
<1>11. CASE Sent(r) BY <1>11 DEF Sent, flags, made
<1>12. CASE Escape(r) BY <1>12 DEF Escape, flags, made
<1>13. CASE Closed(r) BY <1>13 DEF Closed, messages
<1>14. CASE HookEnded(r) BY <1>14 DEF HookEnded, flags, messages
<1>15. CASE DependenciesEnded(r) BY <1>15 DEF DependenciesEnded, messages
<1>16. CASE Cancel(r) BY <1>16 DEF Cancel, Interrupted
<1> QED BY <1>1, <1>2, <1>3, <1>4, <1>5, <1>6, <1>7, <1>8, <1>9, <1>10, <1>11, <1>12,
           <1>13, <1>14, <1>15, <1>16 DEF Steps, Step

\* A step of the admitted run keeps the types and the messages apart.
LEMMA StepKeepsTypes ==
  ASSUME TypeOK, MessagesApart, NEW r \in Runs, Steps(r), Admitted(r)
  PROVE  TypeOK' /\ MessagesApart'
<1> USE NamesAssumption, CancelsAssumption
    DEF Admitted, Accounts, Idle, Started, Serving, Phase, TypeOK, MessagesApart, Executing, Go, NextMessage, Unseen, None
<1>1. CASE Receive(r)
  <2>1. PICK m \in Unseen : current' = m BY <1>1 DEF Receive
  <2>2. /\ phase' = [phase EXCEPT ![r] = "processing"]
        /\ UNCHANGED <<running, stopping, dependencies, context, open, abandoned, handled, lost, cancels>>
    BY <1>1 DEF Receive, flags, made
  <2>3. m \in Requests /\ m \notin Executing \cup handled BY <2>1 DEF Unseen
  <2>4. TypeOK' BY <2>1, <2>2, <2>3
  <2>5. MessagesApart' BY <2>1, <2>2, <2>3
  <2> QED BY <2>4, <2>5
<1>2. CASE LeaveLoop(r) BY <1>2 DEF LeaveLoop, flags, made
<1>3. CASE DependenciesStarted(r) BY <1>3 DEF DependenciesStarted, flags, messages
<1>4. CASE HookStarted(r) BY <1>4 DEF HookStarted, flags, messages
<1>5. CASE Opened(r) BY <1>5 DEF Opened, flags, messages
<1>6. CASE FailStartup(r) BY <1>6 DEF FailStartup, made, messages
<1>7. CASE Drain(r) BY <1>7 DEF Drain, flags, made, messages
<1>8. CASE Processed(r) BY <1>8 DEF Processed, flags, made, messages
<1>9. CASE Abandon(r) BY <1>9 DEF Abandon, flags, made, messages
<1>10. CASE Reap(r) BY <1>10 DEF Reap, flags, made
<1>11. CASE Sent(r) BY <1>11 DEF Sent, flags, made
<1>12. CASE Escape(r) BY <1>12 DEF Escape, flags, made
<1>13. CASE Closed(r) BY <1>13 DEF Closed, messages
<1>14. CASE HookEnded(r) BY <1>14 DEF HookEnded, flags, messages
<1>15. CASE DependenciesEnded(r) BY <1>15 DEF DependenciesEnded, messages
<1>16. CASE Cancel(r)
  <2>1. /\ phase' = [phase EXCEPT ![r] = Interrupted(phase[r])]
        /\ phase[r] \in {"startup", "startup hook", "undoing"} \cup Started
        /\ cancels' \in 0..MaxCancels
        /\ running' \in BOOLEAN /\ stopping' \in BOOLEAN /\ dependencies' \in BOOLEAN
        /\ context' \in BOOLEAN /\ open' \in BOOLEAN /\ lost' = lost
    <3>1. phase' = [phase EXCEPT ![r] = Interrupted(phase[r])] BY <1>16 DEF Cancel
    <3>2. phase[r] \in {"startup", "startup hook", "undoing"} \cup Started BY <1>16 DEF Cancel
    <3>3. cancels' \in 0..MaxCancels
      <4>1. cancels < MaxCancels /\ cancels' = cancels + 1 BY <1>16 DEF Cancel
      <4>2. cancels \in 0..MaxCancels OBVIOUS
      <4> HIDE DEF Admitted, Accounts, TypeOK, MessagesApart, Started, Serving
      <4> QED BY <4>1, <4>2
    <3>4. running' \in BOOLEAN /\ lost' = lost BY <1>16 DEF Cancel
    <3>5. stopping' \in BOOLEAN BY <1>16 DEF Cancel
    <3>6. dependencies' \in BOOLEAN BY <1>16 DEF Cancel
    <3>7. context' \in BOOLEAN BY <1>16 DEF Cancel
    <3>8. open' \in BOOLEAN BY <1>16 DEF Cancel
    <3> QED BY <3>1, <3>2, <3>3, <3>4, <3>5, <3>6, <3>7, <3>8
  <2>2. CASE phase[r] = "sending"
    <3>1. current' = None /\ handled' = handled \cup {current} /\ abandoned' = abandoned
      BY <1>16, <2>2 DEF Cancel
    <3>2. phase' = [phase EXCEPT ![r] = "closing"] BY <2>1, <2>2 DEF Interrupted
    <3>3. TypeOK' BY <2>1, <2>2, <3>1, <3>2
    <3>4. MessagesApart' BY <2>2, <3>1
    <3> QED BY <3>3, <3>4
  <2>3. CASE phase[r] = "reaping"
    <3>1. current' = None /\ abandoned' = current /\ handled' = handled
      BY <1>16, <2>3 DEF Cancel
    <3>2. phase' = [phase EXCEPT ![r] = "closing"] BY <2>1, <2>3 DEF Interrupted
    <3>3. TypeOK' BY <2>1, <2>3, <3>1, <3>2
    <3>4. MessagesApart' BY <2>3, <3>1
    <3> QED BY <3>3, <3>4
  <2>4. CASE phase[r] \notin {"sending", "reaping"}
    <3>1. UNCHANGED <<current, abandoned, handled>> BY <1>16, <2>4 DEF Cancel
    <3>2. Interrupted(phase[r]) \in Phase BY <2>1, <2>4 DEF Interrupted
    <3>3. Interrupted(phase[r]) \in Serving \ {"recv"} <=> phase[r] \in Serving \ {"recv"}
      BY <2>1, <2>4 DEF Interrupted
    <3>4. \A q \in Runs : phase'[q] \in Serving \ {"recv"} <=> phase[q] \in Serving \ {"recv"}
      BY <2>1, <3>3
    <3>6. current' # None <=> \E q \in Runs : phase'[q] \in Serving \ {"recv"}
      BY <3>1, <3>4
    <3>7. phase' \in [Runs -> Phase] BY <2>1, <3>2
    <3>8. TypeOK' BY <2>1, <3>1, <3>6, <3>7
    <3>5. MessagesApart' BY <3>1
    <3> QED BY <3>5, <3>8
  <2> QED BY <2>2, <2>3, <2>4
<1> QED BY <1>1, <1>2, <1>3, <1>4, <1>5, <1>6, <1>7, <1>8, <1>9, <1>10, <1>11, <1>12,
           <1>13, <1>14, <1>15, <1>16 DEF Steps, Step

\* Every step keeps the invariant.
LEMMA NextIInv == IInv /\ [Next]_vars => IInv'
<1> SUFFICES ASSUME IInv, [Next]_vars PROVE IInv'
  OBVIOUS
<1>1. CASE UNCHANGED vars
  BY <1>1 DEF IInv, TypeOK, OneRun, Fresh, Admitted, Accounts, Active, MessagesApart, Executing,
              vars, flags, made, messages
<1>2. CASE Stop
  BY <1>2 DEF Stop, IInv, TypeOK, OneRun, Fresh, Admitted, Accounts, Active, MessagesApart, Executing,
              made, messages
<1>3. CASE OrphanEnds
  BY <1>3, NamesAssumption
     DEF OrphanEnds, IInv, TypeOK, OneRun, Fresh, Admitted, Accounts, Active, MessagesApart, Executing,
         flags, made
<1>4. ASSUME NEW r \in Runs, Serve(r) PROVE IInv'
  <2>1. TypeOK' /\ MessagesApart'
    BY <1>4 DEF Serve, Go, IInv, TypeOK, MessagesApart, Executing, Phase, Serving, made, messages
  <2>2. CASE running \/ stopping
    <3>1. phase' = [phase EXCEPT ![r] = "refused"] /\ phase[r] = "idle" /\ UNCHANGED <<flags, made, messages>>
      BY <1>4, <2>2 DEF Serve, Go, flags
    <3>2. CASE Fresh BY <2>1, <3>1, <3>2 DEF IInv, TypeOK, OneRun, Fresh, Idle, flags, made, messages
    <3>3. ASSUME NEW s \in Runs, Admitted(s) PROVE Admitted(s)'
      BY <3>1, <3>3 DEF IInv, TypeOK, Admitted, Accounts, Active, Idle, flags, made, messages
    <3> QED BY <2>1, <3>2, <3>3 DEF IInv, OneRun
  <2>3. CASE ~running /\ ~stopping
    <3>1. phase' = [phase EXCEPT ![r] = "startup"] /\ running' /\ UNCHANGED <<stopping, made, messages>>
      BY <1>4, <2>3 DEF Serve, Go
    <3>2. Fresh
      BY <2>3 DEF IInv, OneRun, Admitted, Accounts, Active, Idle
    <3>3. Admitted(r)'
      BY <3>1, <3>2 DEF IInv, TypeOK, Fresh, Admitted, Accounts, Active, Idle, Started, Serving, made, messages
    <3> QED BY <2>1, <3>3 DEF IInv, OneRun
  <2> QED BY <2>2, <2>3
<1>5. ASSUME NEW r \in Runs, Steps(r) PROVE IInv'
  BY <1>5, StepOfAdmitted, StepKeepsAccounts, StepKeepsTypes DEF IInv, OneRun
<1> QED BY <1>1, <1>2, <1>3, <1>4, <1>5 DEF Next, Steps

\* The invariant always holds.
LEMMA Invariance == Spec => []IInv
BY InitIInv, NextIInv, PTL DEF Spec

----------------------------------------------------------------------------
\* Type correctness: a message is at hand exactly while some run is past receiving
\* it and has not answered it.
THEOREM TypeCorrect == Spec => []TypeOK
<1>1. IInv => TypeOK BY DEF IInv
<1> QED BY <1>1, Invariance, PTL

\* A handler and its cleanup run with the context, the open transport and what
\* the transport depends on (app.py:253-338).
THEOREM ContextOutlivesHandlers == Spec => []HandlersHaveContext
<1>1. IInv => HandlersHaveContext
  BY DEF IInv, OneRun, Fresh, Admitted, Accounts, HandlersHaveContext, Started, Serving
<1> QED BY <1>1, Invariance, PTL

\* An app runs once: no two runs, one after the other included, of any number
\* of callers of serve() (app.py:313), and what was started is undone when the
\* run ends, wherever it was ended (app.py:326-338).
THEOREM RunIsAccountedFor == Spec => []RunAccounted
<1>1. IInv => RunsOnce BY DEF IInv, OneRun, Fresh, Admitted, RunsOnce, Active, Idle
<1>2. IInv => NothingLeaks
  BY DEF IInv, OneRun, Fresh, Admitted, Accounts, NothingLeaks, Active, Idle, Started, Serving
<1>3. IInv => RunAccounted BY <1>1, <1>2 DEF IInv, RunAccounted
<1> QED BY <1>3, Invariance, PTL

----------------------------------------------------------------------------
\* App implements PeerService with one request at a time.
LEMMA ServiceCardinality == \A S : Service!Cardinality(S) = Cardinality(S)
BY DEF Service!Cardinality, Cardinality

\* An app that was just made executes nothing.
LEMMA ServiceInit == Init => Service!Init
BY DEF Init, Service!Init, Executing

\* What the service sees of a step: a message begins, ends or neither.
Begins(m) ==
  /\ m \in Requests /\ m \notin handled
  /\ Executing = {} /\ Executing' = {m} /\ handled' = handled

Ends(m) ==
  /\ m \in Requests /\ m \in Executing
  /\ Executing' = Executing \ {m} /\ handled' = handled \cup {m}

Neither == Executing' = Executing /\ handled' = handled

\* A message that begins is an Execute of the promise.
LEMMA BeginsExecutes ==
  ASSUME NEW m, Begins(m)
  PROVE  m \in Requests /\ Service!Execute(m)
<1>1. Service!Cardinality(Service!Active) < 1
  BY ServiceCardinality, FS_EmptySet DEF Begins, Service!Active
<1>2. Service!Active = {} BY DEF Begins, Service!Active
<1>3. Service!Admissible(m) BY <1>1, <1>2 DEF Begins, Service!Admissible
<1> QED BY <1>2, <1>3 DEF Begins, Service!Execute, Service!ActiveOf

\* A message that ends is a Finish of the promise.
LEMMA EndsFinishes ==
  ASSUME NEW m, Ends(m)
  PROVE  m \in Requests /\ Service!Finish(m)
BY DEF Ends, Service!Finish, Service!Active

\* Every step of the app is one of the promise or shows nothing.
LEMMA SeenByService ==
  ASSUME IInv, [Next]_vars
  PROVE  Neither \/ \E m \in Requests : Begins(m) \/ Ends(m)
<1> USE NamesAssumption DEF None
<1>1. CASE UNCHANGED vars BY <1>1 DEF vars, messages, Neither, Executing
<1>2. CASE Stop BY <1>2 DEF Stop, messages, Neither, Executing
<1>3. CASE OrphanEnds
  <2>1. Ends(abandoned) BY <1>3 DEF OrphanEnds, IInv, TypeOK, MessagesApart, Ends, Executing
  <2> QED BY <2>1 DEF Ends
<1>4. ASSUME NEW r \in Runs, Serve(r) PROVE Neither
  BY <1>4 DEF Serve, messages, Neither, Executing
<1>5. ASSUME NEW r \in Runs, Receive(r) PROVE \E m \in Requests : Begins(m)
  <2>1. Admitted(r) BY <1>5, StepOfAdmitted DEF Steps
  <2>2. current = None /\ abandoned = None
    BY <2>1, <1>5 DEF Receive, Go, Admitted, Accounts, Serving
  <2>3. PICK m \in Unseen : current' = m BY <1>5 DEF Receive
  <2>4. UNCHANGED <<abandoned, handled>> BY <1>5 DEF Receive
  <2>5. Begins(m) BY <2>2, <2>3, <2>4 DEF Begins, Unseen, Executing
  <2> QED BY <2>3, <2>5 DEF Unseen
<1>6. ASSUME NEW r \in Runs, Reap(r) \/ Sent(r) \/ Escape(r) PROVE Ends(current)
  <2>1. Admitted(r) BY <1>6, StepOfAdmitted DEF Steps, Step
  <2>2. current # None /\ abandoned = None
    BY <2>1, <1>6 DEF Reap, Sent, Escape, Go, Admitted, Accounts, Serving
  <2>3. current' = None /\ handled' = handled \cup {current} /\ abandoned' = abandoned
    BY <1>6 DEF Reap, Sent, Escape
  <2> QED BY <2>2, <2>3 DEF IInv, TypeOK, Ends, Executing
<1>7. ASSUME NEW r \in Runs, Cancel(r) PROVE Neither \/ Ends(current)
  <2>1. Admitted(r) BY <1>7, StepOfAdmitted DEF Steps
  <2>2. CASE phase[r] = "sending"
    <3>1. current # None /\ abandoned = None
      BY <2>1, <2>2 DEF Admitted, Accounts, Serving
    <3>2. current' = None /\ handled' = handled \cup {current} /\ abandoned' = abandoned
      BY <1>7, <2>2 DEF Cancel
    <3> QED BY <3>1, <3>2 DEF IInv, TypeOK, Ends, Executing
  <2>3. CASE phase[r] = "reaping"
    <3>1. abandoned = None BY <2>1, <2>3 DEF Admitted, Accounts
    <3>2. current' = None /\ abandoned' = current /\ handled' = handled
      BY <1>7, <2>3 DEF Cancel
    <3> QED BY <3>1, <3>2 DEF Neither, Executing
  <2>4. CASE phase[r] \notin {"sending", "reaping"}
    BY <1>7, <2>4 DEF Cancel, Neither, Executing
  <2> QED BY <2>2, <2>3, <2>4
<1>8. ASSUME NEW r \in Runs,
             \/ LeaveLoop(r) \/ DependenciesStarted(r) \/ HookStarted(r) \/ Opened(r)
             \/ FailStartup(r) \/ Drain(r) \/ Processed(r) \/ Abandon(r) \/ Closed(r)
             \/ HookEnded(r) \/ DependenciesEnded(r)
      PROVE  Neither
  BY <1>8 DEF LeaveLoop, DependenciesStarted, HookStarted, Opened, FailStartup, Drain, Processed,
              Abandon, Closed, HookEnded, DependenciesEnded, messages, Neither, Executing
<1>9. \A m : Ends(m) => m \in Requests BY DEF Ends
<1> QED BY <1>1, <1>2, <1>3, <1>4, <1>5, <1>6, <1>7, <1>8, <1>9 DEF Next, Step

\* App executes one message at a time, each at most once, and never refuses
\* one: PeerService with MaxConcurrency 1 (app.py:253-282).
THEOREM AppImplementsService == Spec => ServiceSpec
<1>1. IInv /\ [Next]_vars => [Service!Next]_(Service!vars)
  <2> SUFFICES ASSUME IInv, [Next]_vars PROVE [Service!Next]_(Service!vars)
    OBVIOUS
  <2>1. Neither => UNCHANGED Service!vars BY DEF Neither, Service!vars
  <2>2. (\E m \in Requests : Begins(m) \/ Ends(m)) => Service!Next
    BY BeginsExecutes, EndsFinishes DEF Service!Next
  <2> QED BY <2>1, <2>2, SeenByService
<1> QED BY <1>1, ServiceInit, Invariance, PTL DEF Spec, ServiceSpec, Service!Spec

----------------------------------------------------------------------------
\* AuthenticatedApp is an App: each of its steps is one of App or none of App's.
LEMMA AuthStepIsAppStep == AuthNext => [Next]_vars
<1> SUFFICES ASSUME AuthNext PROVE [Next]_vars
  OBVIOUS
<1>1. ASSUME NEW r \in Runs, Backend(r) PROVE [Next]_vars
  BY <1>1 DEF Backend, DependencyStarted, AllStarted, StartupFails, DependencyEnds, ShutdownCut,
              StartupUndone, AllEnded, Next, Step
<1>2. ASSUME NEW r \in Runs, AppStep(r) PROVE Next
  BY <1>2 DEF AppStep, AppRuns, Next, Step
<1>3. ASSUME NEW r \in Runs, AppCancelled(r) \/ UndoingCancelled(r) PROVE Next
  BY <1>3 DEF AppCancelled, UndoingCancelled, Next
<1>4. ASSUME NEW l \in Logins, Client(l) PROVE UNCHANGED vars
  BY <1>4 DEF Client, Post, Submit, LookupFails, LookedUp, Checked, Created, Logout, LoggedOut,
              StoreFails, LoginCancelled, ThreadEnds
<1>5. CASE Stopped BY <1>5 DEF Stopped, Next
<1> QED BY <1>1, <1>2, <1>3, <1>4, <1>5 DEF AuthNext

\* The authenticated app is the app of App.tla: what is proved of that holds of it
\* too.
THEOREM AuthImplementsApp == AuthSpec => Spec
<1>1. AuthInit => Init BY DEF AuthInit
<1>2. [AuthNext]_allVars => [Next]_vars BY AuthStepIsAppStep DEF allVars
<1> QED BY <1>1, <1>2, PTL DEF AuthSpec, Spec

\* The app's invariant, when it holds its authentication as a dependency.
LEMMA AuthInvariance == AuthSpec => []IInv
BY AuthImplementsApp, Invariance, PTL

----------------------------------------------------------------------------
\* The elements of a sequence when one is appended.
LEMMA ElementsAppend ==
  ASSUME NEW S, NEW s \in Seq(S), NEW d \in S
  PROVE  /\ Append(s, d) \in Seq(S)
         /\ Elements(Append(s, d)) = Elements(s) \cup {d}
<1>1. Append(s, d) \in Seq(S) /\ Len(Append(s, d)) = Len(s) + 1 /\ Append(s, d)[Len(s) + 1] = d
  OBVIOUS
<1>2. \A i \in 1..Len(s) : Append(s, d)[i] = s[i]
  OBVIOUS
<1>3. 1..(Len(s) + 1) = (1..Len(s)) \cup {Len(s) + 1}
  OBVIOUS
<1> QED BY <1>1, <1>2, <1>3 DEF Elements

\* What is left of a sequence without its last element.
Front(s) == SubSeq(s, 1, Len(s) - 1)

\* The front of a sequence: one shorter, and the same up to there.
LEMMA FrontFacts ==
  ASSUME NEW S, NEW s \in Seq(S), s # <<>>
  PROVE  /\ Front(s) \in Seq(S)
         /\ Len(Front(s)) = Len(s) - 1
         /\ \A i \in 1..(Len(s) - 1) : Front(s)[i] = s[i]
<1>1. Len(s) \in Nat /\ Len(s) # 0 BY EmptySeq
<1>2. \A i \in 1..(Len(s) - 1) : s[i] \in S BY <1>1, ElementOfSeq
<1>3. Front(s) = [i \in 1..(Len(s) - 1) |-> s[i]] BY <1>1, <1>2 DEF Front
<1> QED BY <1>1, <1>2, <1>3

\* The elements of the front of a sequence without repetitions.
LEMMA ElementsFront ==
  ASSUME NEW S, NEW s \in Seq(S), s # <<>>,
         \A a, b \in 1..Len(s) : s[a] = s[b] => a = b
  PROVE  Elements(Front(s)) = Elements(s) \ {s[Len(s)]}
<1>1. Len(s) \in Nat \ {0} OBVIOUS
<1>2. 1..Len(s) = (1..(Len(s) - 1)) \cup {Len(s)} BY <1>1
<1>3. \A i \in 1..(Len(s) - 1) : i \in 1..Len(s) /\ i # Len(s) BY <1>1
<1>4. Len(Front(s)) = Len(s) - 1 /\ \A i \in 1..(Len(s) - 1) : Front(s)[i] = s[i] BY FrontFacts
<1>5. Elements(Front(s)) = {s[i] : i \in 1..(Len(s) - 1)} BY <1>4 DEF Elements
<1>6. Elements(s) = {s[i] : i \in 1..(Len(s) - 1)} \cup {s[Len(s)]} BY <1>2 DEF Elements
<1>7. Len(s) \in 1..Len(s) BY <1>1
<1>8. s[Len(s)] \notin {s[i] : i \in 1..(Len(s) - 1)} BY <1>3, <1>7
<1> QED BY <1>5, <1>6, <1>8

\* The dependencies are a finite sequence without repetitions.
LEMMA DependencyTypes ==
  /\ Dependencies \in Seq(Elements(Dependencies)) /\ Len(Dependencies) \in Nat
  /\ \A i \in 1..Len(Dependencies) : Dependencies[i] \in Elements(Dependencies)
<1>1. DOMAIN Dependencies = 1..Len(Dependencies) BY DependenciesAssumption
<1> QED BY <1>1, DependenciesAssumption DEF Elements

----------------------------------------------------------------------------
\* The phases in which everything the transport depends on has been made.
Made == {"startup hook"} \cup Started
Open == Serving \cup {"closing"}

\* What the phase of the run says of the dependencies.
LifecycleFollows ==
  \A r \in Runs :
    /\ phase[r] \in Made \cup {"undoing", "ended"} \/ cut => lifecycle # "starting"
    /\ phase[r] \in Made => Elements(Dependencies) \subseteq Elements(started)
    /\ phase[r] = "ended" => started = <<>>

\* Each dependency is started once, after those that were given before it.
InOrder ==
  /\ \A a, b \in 1..Len(started) : started[a] = started[b] => a = b
  /\ \A a \in 1..Len(started) :
       \E i \in 1..Len(Dependencies) :
         /\ Dependencies[i] = started[a]
         /\ \A k \in 1..(i - 1) : \E b \in 1..(a - 1) : Dependencies[k] = started[b]
  /\ lifecycle = "starting" => \A i \in 1..position : Dependencies[i] \in Elements(started)

UpIsStarted == up = Elements(started) \/ (cut /\ started = <<>>)

\* The second part of BackendsUndone.
UpInOrder ==
  \A i, j \in 1..Len(Dependencies) :
    /\ i < j /\ Dependencies[j] \in up
    /\ \A k \in 1..(j - 1) : Dependencies[k] # Dependencies[j]
    => Dependencies[i] \in up

\* A login under way is one of a server that is open.
Watched == Handling # {} /\ ~cut => \E r \in Runs : phase[r] \in Open

BackendInv == LifecycleFollows /\ InOrder /\ UpIsStarted /\ UpInOrder /\ Watched

\* What a login has passed.
Passed ==
  /\ \A l \in threads : login[l] \in {"verifying", "cancelled"}
  /\ \A l \in Logins : login[l] \in {"creating", "in", "leaving"} => l \in Right

LoginInv == SlotsExact /\ Passed

AInv == IInv /\ AuthTypeOK /\ BackendInv /\ LoginInv

\* No backend is started before run().
LEMMA InitAInv == AuthInit => AInv
<1> SUFFICES ASSUME AuthInit PROVE AInv
  OBVIOUS
<1>1. IInv BY InitIInv DEF AuthInit
<1>2. AuthTypeOK
  <2>1. Len(Dependencies) \in Nat /\ position \in 0..Len(Dependencies) BY DependencyTypes DEF AuthInit
  <2>2. started \in Seq(Elements(Dependencies)) BY EmptySeq DEF AuthInit
  <2> QED BY <2>1, <2>2 DEF AuthInit, AuthTypeOK
<1>3. BackendInv
  <2>1. Elements(started) = {} BY DEF AuthInit, Elements
  <2>2. Handling = {} BY DEF AuthInit, Handling, InProgress
  <2>3. LifecycleFollows BY DEF AuthInit, Init, LifecycleFollows, Made, Started, Serving
  <2>4. InOrder BY DEF AuthInit, InOrder
  <2>5. UpInOrder BY DEF AuthInit, UpInOrder
  <2> QED BY <2>1, <2>2, <2>3, <2>4, <2>5 DEF AuthInit, BackendInv, UpIsStarted, Watched
<1>4. LoginInv
  <2>1. {l \in Logins : login[l] = "verifying"} = {} /\ {l \in Logins : login[l] = "lookup"} = {}
    BY DEF AuthInit
  <2>2. threads \cup {l \in Logins : login[l] = "lookup"} = {} BY <2>1 DEF AuthInit
  <2>3. active = 0 /\ 0 <= MaxVerifying BY PlacesAssumption DEF AuthInit
  <2>4. SlotsExact BY <2>1, <2>2, <2>3, FS_EmptySet DEF SlotsExact
  <2> QED BY <2>4 DEF AuthInit, LoginInv, Passed
<1> QED BY <1>1, <1>2, <1>3, <1>4 DEF AInv

----------------------------------------------------------------------------
\* The run beside which all others are idle.
LEMMA OthersIdle ==
  ASSUME IInv, NEW r \in Runs, phase[r] \notin Idle
  PROVE  \A s \in Runs \ {r} : phase[s] \in Idle
BY DEF IInv, OneRun, Fresh, Admitted

\* What is started last is the last in the order.
LEMMA OrderOfUp ==
  InOrder /\ up = Elements(started) /\ started \in Seq(Elements(Dependencies)) => UpInOrder
<1> SUFFICES ASSUME InOrder, up = Elements(started), started \in Seq(Elements(Dependencies)),
                    NEW i \in 1..Len(Dependencies), NEW j \in 1..Len(Dependencies),
                    i < j, Dependencies[j] \in up,
                    \A k \in 1..(j - 1) : Dependencies[k] # Dependencies[j]
             PROVE  Dependencies[i] \in up
  BY DEF UpInOrder
<1>1. PICK a \in 1..Len(started) : started[a] = Dependencies[j] BY DEF Elements
<1>2. PICK m \in 1..Len(Dependencies) :
        /\ Dependencies[m] = started[a]
        /\ \A k \in 1..(m - 1) : \E b \in 1..(a - 1) : Dependencies[k] = started[b]
  BY DEF InOrder
<1>3. Len(Dependencies) \in Nat /\ Len(started) \in Nat BY DependencyTypes
<1>4. m >= j BY <1>1, <1>2, <1>3
<1>5. i \in 1..(m - 1) BY <1>3, <1>4
<1>6. PICK b \in 1..(a - 1) : Dependencies[i] = started[b] BY <1>2, <1>5
<1>7. b \in 1..Len(started) BY <1>3, <1>6
<1> QED BY <1>6, <1>7 DEF Elements

\* The steps of App that leave the dependencies alone.
LEMMA RunMoves ==
  ASSUME TypeOK, NEW r \in Runs, AppStep(r) \/ AppCancelled(r)
  PROVE  \E q \in Phase :
           /\ phase' = [phase EXCEPT ![r] = q]
           /\ phase[r] # "undoing"
           /\ q \in Made \cup {"undoing"} => phase[r] \in Made
           /\ q # "ended"
           /\ phase[r] \in Open => q \in Open \/ Handling = {} \/ (cut' /\ phase[r] = "closing")
<1> USE DEF TypeOK, Go, Made, Open, Started, Serving, Phase
<1>1. CASE AppCancelled(r)
  <2>1. /\ phase[r] \in {"startup hook"} \cup Started
        /\ phase' = [phase EXCEPT ![r] = Interrupted(phase[r])]
        /\ cut' = (cut \/ (phase[r] = "closing" /\ Handling # {}))
    BY <1>1 DEF AppCancelled, Cancel
  <2>2. Interrupted(phase[r]) \in Phase BY <2>1 DEF Interrupted
  <2>3. Interrupted(phase[r]) # "ended" BY <2>1 DEF Interrupted
  <2>4. phase[r] \in Open => Interrupted(phase[r]) \in Open \/ phase[r] = "closing" BY <2>1 DEF Interrupted
  <2> QED BY <2>1, <2>2, <2>3, <2>4
<1>2. CASE AppStep(r)
  <2>1. CASE Serve(r) BY <2>1 DEF Serve
  <2>2. CASE Receive(r) \/ LeaveLoop(r) BY <2>2 DEF Receive, LeaveLoop
  <2>3. CASE HookStarted(r) \/ Opened(r) BY <2>3 DEF HookStarted, Opened, NextMessage
  <2>4. CASE Drain(r) \/ Processed(r) \/ Abandon(r) BY <2>4 DEF Drain, Processed, Abandon
  <2>5. CASE Reap(r) \/ Sent(r) \/ Escape(r) BY <2>5 DEF Reap, Sent, Escape, NextMessage
  <2>6. CASE HookEnded(r) BY <2>6 DEF HookEnded
  <2>7. CASE phase[r] # "startup" /\ FailStartup(r) BY <2>7 DEF FailStartup
  <2>8. CASE Handling = {} /\ Closed(r) BY <2>8 DEF Closed
  <2> QED BY <1>2, <2>1, <2>2, <2>3, <2>4, <2>5, <2>6, <2>7, <2>8 DEF AppStep, AppRuns
<1> QED BY <1>1, <1>2

\* A step that touches neither the run nor the backends keeps the accounts of the backends.
LEMMA BackendsUnchanged ==
  ASSUME UNCHANGED <<phase, backends, cut>>
  PROVE  /\ LifecycleFollows => LifecycleFollows'
         /\ InOrder => InOrder'
         /\ UpIsStarted => UpIsStarted'
         /\ UpInOrder => UpInOrder'
<1>1. LifecycleFollows => LifecycleFollows' BY DEF LifecycleFollows, Elements, backends
<1>2. InOrder => InOrder' BY DEF InOrder, Elements, backends
<1>3. UpIsStarted => UpIsStarted' BY DEF UpIsStarted, Elements, backends
<1>4. UpInOrder => UpInOrder' BY DEF UpInOrder, backends
<1> QED BY <1>1, <1>2, <1>3, <1>4

\* A step of a run keeps the accounts of the backends: startup in order, shutdown in reverse, the
\* rest also when one fails.
LEMMA RunKeepsBackends ==
  ASSUME AInv, NEW r \in Runs, AppStep(r) \/ AppCancelled(r)
  PROVE  BackendInv'
<1> USE DEF AInv, BackendInv
<1>1. PICK q \in Phase :
           /\ phase' = [phase EXCEPT ![r] = q]
           /\ phase[r] # "undoing"
           /\ q \in Made \cup {"undoing"} => phase[r] \in Made
           /\ q # "ended"
           /\ phase[r] \in Open => q \in Open \/ Handling = {} \/ (cut' /\ phase[r] = "closing")
  BY RunMoves DEF IInv
<1>2. UNCHANGED <<backends, logins>> BY DEF AppStep, AppCancelled
<1>3. cut \in BOOLEAN /\ (cut' = cut \/ (cut' = TRUE /\ phase[r] = "closing"))
  BY DEF AppStep, AppCancelled, AuthTypeOK
<1>4. phase \in [Runs -> Phase] BY DEF IInv, TypeOK
<1>5. LifecycleFollows'
  BY <1>1, <1>2, <1>3, <1>4 DEF LifecycleFollows, backends, Elements, Made, Started
<1>6. InOrder' /\ UpIsStarted' /\ UpInOrder'
  BY <1>2, <1>3 DEF InOrder, UpIsStarted, UpInOrder, backends, Elements
<1>7. Watched'
  BY <1>1, <1>2, <1>3, <1>4 DEF Watched, logins, Handling, Open, Serving
<1> QED BY <1>5, <1>6, <1>7

\* The steps of DependencyLifecycle.
LEMMA LifecycleKeepsBackends ==
  ASSUME AInv, NEW r \in Runs, Backend(r) \/ UndoingCancelled(r)
  PROVE  BackendInv' /\ AuthTypeOK'
<1> USE DEF AInv, BackendInv
<1>1. phase[r] \notin Made \cup Open \cup Idle \cup {"ended"}
  BY DEF Backend, UndoingCancelled, DependencyStarted, AllStarted, StartupFails, DependencyEnds,
         ShutdownCut, StartupUndone, AllEnded, ShuttingDown, DependenciesStarted, DependenciesEnded,
         FailStartup, Go, Made, Open, Started, Serving, Idle
<1>2. \A s \in Runs : phase[s] \notin Made \cup Open \cup {"ended"}
  BY <1>1, OthersIdle DEF Idle, Made, Open, Started, Serving
<1>3. Handling = {} \/ cut BY <1>2 DEF Watched
<1>4. started \in Seq(Elements(Dependencies)) /\ Len(started) \in Nat /\ cut \in BOOLEAN
      /\ phase \in [Runs -> Phase] /\ position \in 0..Len(Dependencies) /\ up \subseteq Elements(Dependencies)
  BY DEF AuthTypeOK, IInv, TypeOK
<1>5. Len(Dependencies) \in Nat /\ \A i \in 1..Len(Dependencies) : Dependencies[i] \in Elements(Dependencies)
  BY DependencyTypes
<1>6. UNCHANGED logins
  BY DEF Backend, UndoingCancelled, DependencyStarted, AllStarted, StartupFails, DependencyEnds,
         ShutdownCut, StartupUndone, AllEnded
<1>7. cut => cut'
  BY DEF Backend, UndoingCancelled, DependencyStarted, AllStarted, StartupFails, DependencyEnds,
         ShutdownCut, StartupUndone, AllEnded
<1>8. Watched' BY <1>3, <1>6, <1>7 DEF Watched, Handling, logins
<1>9. CASE DependencyStarted(r)
  <2> DEFINE d == Dependencies[position + 1]
  <2>1. /\ lifecycle = "starting" /\ position + 1 \in 1..Len(Dependencies)
        /\ UNCHANGED <<phase, lifecycle, cut>>
        /\ position' = position + 1 /\ up' = up \cup {d}
        /\ started' = IF d \in Elements(started) THEN started ELSE Append(started, d)
    BY <1>4, <1>5, <1>9 DEF DependencyStarted, vars
  <2>2. d \in Elements(Dependencies) BY <1>5, <2>1
  <2> HIDE DEF d
  <2>3. Elements(started') = Elements(started) \cup {d} /\ started' \in Seq(Elements(Dependencies))
    BY <1>4, <2>1, <2>2, ElementsAppend DEF Elements
  <2>4. \A i \in 1..(position + 1) : Dependencies[i] \in Elements(started')
    BY <1>4, <2>1, <2>3 DEF InOrder, d
  <2>5. ~cut BY <2>1, <1>9 DEF LifecycleFollows
  <2>6. InOrder'
    <3>1. CASE d \in Elements(started)
      BY <2>1, <2>4, <3>1 DEF InOrder, Elements
    <3>2. CASE d \notin Elements(started)
      <4>1. /\ Len(started') = Len(started) + 1 /\ started'[Len(started) + 1] = d
            /\ \A i \in 1..Len(started) : started'[i] = started[i]
        BY <1>4, <2>1, <2>2, <3>2
      <4>2. \A i \in 1..Len(started) : started[i] # d BY <3>2 DEF Elements
      <4>3. \A a, b \in 1..Len(started') : started'[a] = started'[b] => a = b
        <5> SUFFICES ASSUME NEW a \in 1..Len(started'), NEW b \in 1..Len(started'), started'[a] = started'[b]
                     PROVE  a = b
          OBVIOUS
        <5>1. a \in 1..Len(started) \/ a = Len(started) + 1 BY <1>4, <4>1
        <5>2. b \in 1..Len(started) \/ b = Len(started) + 1 BY <1>4, <4>1
        <5> QED BY <4>1, <4>2, <5>1, <5>2 DEF InOrder
      <4>4. ASSUME NEW a \in 1..Len(started')
            PROVE \E i \in 1..Len(Dependencies) :
                    /\ Dependencies[i] = started'[a]
                    /\ \A k \in 1..(i - 1) : \E b \in 1..(a - 1) : Dependencies[k] = started'[b]
        <5>1. CASE a \in 1..Len(started)
          <6>1. \A b \in 1..(a - 1) : started'[b] = started[b] BY <1>4, <4>1, <5>1
          <6>2. PICK i \in 1..Len(Dependencies) :
                  /\ Dependencies[i] = started[a]
                  /\ \A k \in 1..(i - 1) : \E b \in 1..(a - 1) : Dependencies[k] = started[b]
            BY <5>1 DEF InOrder
          <6>3. \A k \in 1..(i - 1) : \E b \in 1..(a - 1) : Dependencies[k] = started'[b]
            BY <6>1, <6>2
          <6> QED BY <4>1, <5>1, <6>2, <6>3
        <5>2. CASE a = Len(started) + 1
          <6>1. \A k \in 1..position : \E b \in 1..Len(started) : Dependencies[k] = started[b]
            BY <2>1 DEF InOrder, Elements
          <6>2. a - 1 = Len(started) /\ (position + 1) - 1 = position BY <1>4, <5>2
          <6>3. started'[a] = Dependencies[position + 1] BY <4>1, <5>2 DEF d
          <6>4. \A k \in 1..((position + 1) - 1) : \E b \in 1..(a - 1) : Dependencies[k] = started'[b]
            BY <4>1, <6>1, <6>2
          <6> QED BY <2>1, <6>3, <6>4
        <5> QED BY <1>4, <4>1, <5>1, <5>2
      <4> QED BY <2>1, <2>4, <4>3, <4>4 DEF InOrder, Elements
    <3> QED BY <3>1, <3>2
  <2>7. up' = Elements(started') BY <2>1, <2>3, <2>5 DEF UpIsStarted
  <2>8. UpInOrder'
    <3>1. (InOrder /\ up = Elements(started) /\ started \in Seq(Elements(Dependencies)))' BY <2>3, <2>6, <2>7
    <3> QED BY <3>1, OrderOfUp, PTL
  <2>9. LifecycleFollows' BY <1>2, <2>1, <2>5 DEF LifecycleFollows
  <2>10. AuthTypeOK' BY <1>4, <1>6, <2>1, <2>2, <2>3 DEF AuthTypeOK, logins
  <2> QED BY <1>8, <2>6, <2>7, <2>8, <2>9, <2>10 DEF UpIsStarted
<1>10. CASE AllStarted(r)
  <2>1. /\ lifecycle = "starting" /\ position = Len(Dependencies) /\ lifecycle' = "started"
        /\ phase' = [phase EXCEPT ![r] = "startup hook"]
        /\ UNCHANGED <<position, started, up, cut>>
    BY <1>10 DEF AllStarted, DependenciesStarted, Go
  <2>2. Elements(Dependencies) \subseteq Elements(started)
    <3>1. \A i \in 1..Len(Dependencies) : Dependencies[i] \in Elements(started) BY <2>1 DEF InOrder
    <3>2. Elements(Dependencies) = {Dependencies[i] : i \in 1..Len(Dependencies)} BY DEF Elements
    <3> QED BY <3>1, <3>2
  <2>3. LifecycleFollows'
    BY <1>2, <1>4, <2>1, <2>2 DEF LifecycleFollows, Elements, Made
  <2>4. InOrder' BY <2>1 DEF InOrder
  <2>5. UpIsStarted' /\ UpInOrder' BY <2>1 DEF UpIsStarted, UpInOrder, Elements
  <2>6. AuthTypeOK' BY <1>4, <1>6, <2>1 DEF AuthTypeOK, logins
  <2> QED BY <1>8, <2>3, <2>4, <2>5, <2>6
<1>11. CASE StartupFails(r)
  <2>1. lifecycle' = "undoing" /\ UNCHANGED <<phase, position, started, up, cut>>
    BY <1>11 DEF StartupFails, vars
  <2>2. LifecycleFollows' BY <2>1 DEF LifecycleFollows, Elements
  <2>3. InOrder' BY <2>1 DEF InOrder
  <2>4. UpIsStarted' /\ UpInOrder' BY <2>1 DEF UpIsStarted, UpInOrder, Elements
  <2>5. AuthTypeOK' BY <1>6, <2>1 DEF AuthTypeOK, logins
  <2> QED BY <1>8, <2>2, <2>3, <2>4, <2>5
<1>12. CASE DependencyEnds(r)
  <2>1. /\ started # <<>> /\ started' = Front(started) /\ up' = up \ {started[Len(started)]}
        /\ UNCHANGED <<phase, lifecycle, position, cut>>
        /\ lifecycle = "undoing" \/ phase[r] = "undoing"
    BY <1>12 DEF DependencyEnds, ShuttingDown, Front, vars
  <2>2. lifecycle # "starting" BY <2>1 DEF LifecycleFollows
  <2>3. /\ started' \in Seq(Elements(Dependencies)) /\ Len(started') = Len(started) - 1
        /\ \A i \in 1..(Len(started) - 1) : started'[i] = started[i]
    BY <1>4, <2>1, FrontFacts
  <2>4. Elements(started') = Elements(started) \ {started[Len(started)]}
    <3>1. \A a, b \in 1..Len(started) : started[a] = started[b] => a = b BY DEF InOrder
    <3>2. Elements(Front(started)) = Elements(started) \ {started[Len(started)]}
      BY <1>4, <2>1, <3>1, ElementsFront
    <3> QED BY <2>1, <3>2 DEF Elements
  <2>5. InOrder'
    <3>1. \A a \in 1..Len(started') : a \in 1..Len(started) /\ a \in 1..(Len(started) - 1) BY <1>4, <2>3
    <3>2. \A a \in 1..Len(started') : \A b \in 1..(a - 1) : b \in 1..(Len(started) - 1) BY <1>4, <2>3
    <3>3. \A a, b \in 1..Len(started') : started'[a] = started'[b] => a = b
      BY <2>3, <3>1 DEF InOrder
    <3>4. ASSUME NEW a \in 1..Len(started')
          PROVE \E i \in 1..Len(Dependencies) :
                  /\ Dependencies[i] = started'[a]
                  /\ \A k \in 1..(i - 1) : \E b \in 1..(a - 1) : Dependencies[k] = started'[b]
      <4>1. PICK i \in 1..Len(Dependencies) :
              /\ Dependencies[i] = started[a]
              /\ \A k \in 1..(i - 1) : \E b \in 1..(a - 1) : Dependencies[k] = started[b]
        BY <3>1 DEF InOrder
      <4>2. \A k \in 1..(i - 1) : \E b \in 1..(a - 1) : Dependencies[k] = started'[b]
        BY <2>3, <3>2, <4>1
      <4> QED BY <2>3, <3>1, <4>1, <4>2
    <3> QED BY <2>1, <2>2, <3>3, <3>4 DEF InOrder
  <2>6. up' = Elements(started') BY <2>1, <2>4 DEF UpIsStarted
  <2>7. UpInOrder'
    <3>1. (InOrder /\ up = Elements(started) /\ started \in Seq(Elements(Dependencies)))' BY <2>3, <2>5, <2>6
    <3> QED BY <3>1, OrderOfUp, PTL
  <2>8. LifecycleFollows' BY <1>2, <2>1, <2>2 DEF LifecycleFollows
  <2>9. AuthTypeOK' BY <1>4, <1>6, <2>1, <2>3 DEF AuthTypeOK, logins
  <2> QED BY <1>8, <2>5, <2>6, <2>7, <2>8, <2>9 DEF UpIsStarted
<1>13. CASE ShutdownCut(r)
  <2>1. /\ started' = <<>> /\ cut' = TRUE /\ UNCHANGED <<phase, lifecycle, position, up>>
        /\ lifecycle = "undoing" \/ phase[r] = "undoing"
    BY <1>13 DEF ShutdownCut, ShuttingDown, vars
  <2>2. lifecycle # "starting" BY <2>1 DEF LifecycleFollows
  <2>3. LifecycleFollows' BY <1>2, <2>1, <2>2 DEF LifecycleFollows
  <2>4. InOrder' BY <2>1, <2>2 DEF InOrder
  <2>5. UpIsStarted' /\ UpInOrder' BY <2>1 DEF UpIsStarted, UpInOrder
  <2>6. started' \in Seq(Elements(Dependencies)) BY <2>1, EmptySeq
  <2>7. AuthTypeOK' BY <1>4, <1>6, <2>1, <2>6 DEF AuthTypeOK, logins
  <2> QED BY <1>8, <2>3, <2>4, <2>5, <2>7
<1>14. CASE StartupUndone(r) \/ AllEnded(r) \/ UndoingCancelled(r)
  <2>1. /\ phase' = [phase EXCEPT ![r] = "ended"] /\ lifecycle' = "ended"
        /\ started' = <<>> /\ UNCHANGED <<position, up>>
        /\ cut' = (cut \/ started # <<>>)
    <3>1. CASE StartupUndone(r) BY <1>4, <3>1 DEF StartupUndone, FailStartup, Go
    <3>2. CASE AllEnded(r) BY <1>4, <3>2 DEF AllEnded, DependenciesEnded, Go
    <3>3. CASE UndoingCancelled(r) BY <1>4, <3>3 DEF UndoingCancelled, Cancel, Interrupted
    <3> QED BY <1>14, <3>1, <3>2, <3>3
  <2>2. LifecycleFollows' BY <1>2, <1>4, <2>1 DEF LifecycleFollows, Made, Started, Serving
  <2>3. InOrder' BY <2>1 DEF InOrder
  <2>4. UpIsStarted' /\ UpInOrder' BY <2>1 DEF UpIsStarted, UpInOrder
  <2>5. started' \in Seq(Elements(Dependencies)) BY <2>1, EmptySeq
  <2>6. AuthTypeOK' BY <1>4, <1>6, <2>1, <2>5 DEF AuthTypeOK, logins
  <2> QED BY <1>8, <2>2, <2>3, <2>4, <2>6
<1> QED BY <1>9, <1>10, <1>11, <1>12, <1>13, <1>14 DEF Backend

----------------------------------------------------------------------------
\* The places of the validator that are taken.
Taken == threads \cup {l \in Logins : login[l] = "lookup"}

\* What a step of a client does to them.
LEMMA ClientSteps ==
  ASSUME AInv, NEW l \in Logins, Client(l)
  PROVE  /\ UNCHANGED <<vars, backends, cut>>
         /\ \E to \in {"in", "out", "refused", "unavailable", "cancelled"} \cup InProgress :
              /\ login' = [login EXCEPT ![l] = to]
              /\ to \in InProgress => login[l] \in InProgress \/ Listening
              /\ to \in {"creating", "in", "leaving"} => l \in Right
              /\ l \in threads' <=> to = "verifying" \/ (to = "cancelled" /\ l \in threads')
              /\ \A m \in Logins \ {l} : m \in threads' <=> m \in threads
              /\ \/ active' = active /\ (l \in Taken <=> l \in threads' \/ to = "lookup")
                 \/ active' = active + 1 /\ active < MaxVerifying /\ l \notin Taken /\ (l \in threads' \/ to = "lookup")
                 \/ active' = active - 1 /\ l \in Taken /\ ~(l \in threads' \/ to = "lookup")
         /\ threads' \subseteq Logins /\ sessions' \subseteq Right
<1> USE DEF AInv, LoginInv, AuthTypeOK, Moves, InProgress, Taken
<1>0. /\ \A m \in threads : login[m] \in {"verifying", "cancelled"}
      /\ \A m \in Logins : login[m] \in {"creating", "in", "leaving"} => m \in Right
      /\ \A m \in Logins : login[m] = "verifying" => m \in threads
  BY DEF Passed, SlotsExact
<1> HIDE DEF AInv, LoginInv
<1>a. AuthTypeOK BY DEF AInv
<1>1. CASE Post(l)
  <2>1. /\ login[l] = "idle" /\ Listening /\ UNCHANGED <<vars, backends, cut, active, threads, sessions>>
        /\ \E to \in {"body", "unavailable"} : login' = [login EXCEPT ![l] = to]
    BY <1>1 DEF Post
  <2>2. l \notin threads BY <1>0, <2>1
  <2> QED BY <1>a, <2>1, <2>2
<1>2. CASE Submit(l) BY <1>0, <1>a, <1>2 DEF Submit, Validates
<1>3. CASE LookupFails(l) BY <1>0, <1>a, <1>3 DEF LookupFails
<1>4. CASE LookedUp(l) BY <1>0, <1>a, <1>4 DEF LookedUp
<1>5. CASE Checked(l) BY <1>0, <1>a, <1>5 DEF Checked
<1>6. CASE Created(l) BY <1>0, <1>a, <1>6 DEF Created
<1>7. CASE Logout(l) BY <1>0, <1>a, <1>7 DEF Logout
<1>8. CASE LoggedOut(l) BY <1>0, <1>a, <1>8 DEF LoggedOut
<1>9. CASE StoreFails(l) BY <1>0, <1>a, <1>9 DEF StoreFails
<1>10. CASE LoginCancelled(l) BY <1>0, <1>a, <1>10 DEF LoginCancelled
<1>11. CASE ThreadEnds(l) BY <1>0, <1>a, <1>11 DEF ThreadEnds
<1> QED BY <1>1, <1>2, <1>3, <1>4, <1>5, <1>6, <1>7, <1>8, <1>9, <1>10, <1>11 DEF Client

\* A login keeps the accounts of the backends and of the slots.
LEMMA ClientKeeps ==
  ASSUME AInv, NEW l \in Logins, Client(l)
  PROVE  AuthTypeOK' /\ LoginInv' /\ BackendInv'
<1>1. PICK to \in {"in", "out", "refused", "unavailable", "cancelled"} \cup InProgress :
        /\ login' = [login EXCEPT ![l] = to]
        /\ to \in InProgress => login[l] \in InProgress \/ Listening
        /\ to \in {"creating", "in", "leaving"} => l \in Right
        /\ l \in threads' <=> to = "verifying" \/ (to = "cancelled" /\ l \in threads')
        /\ \A m \in Logins \ {l} : m \in threads' <=> m \in threads
        /\ \/ active' = active /\ (l \in Taken <=> l \in threads' \/ to = "lookup")
           \/ active' = active + 1 /\ active < MaxVerifying /\ l \notin Taken /\ (l \in threads' \/ to = "lookup")
           \/ active' = active - 1 /\ l \in Taken /\ ~(l \in threads' \/ to = "lookup")
  BY ClientSteps
<1>2. UNCHANGED <<vars, backends, cut>> /\ threads' \subseteq Logins /\ sessions' \subseteq Right
  BY ClientSteps
<1>3. /\ login \in [Logins -> {"idle", "in", "out", "refused", "unavailable", "cancelled"} \cup InProgress]
      /\ active \in Nat /\ threads \subseteq Logins
      /\ active = Cardinality(Taken) /\ active <= MaxVerifying /\ MaxVerifying \in Nat
  BY PlacesAssumption DEF AInv, AuthTypeOK, LoginInv, SlotsExact, Taken
<1>4. IsFiniteSet(Taken) /\ Taken \subseteq Logins
  <2>1. Taken \subseteq Logins BY <1>3 DEF Taken
  <2> QED BY <2>1, LoginsAssumption, FS_Subset
<1>5. /\ login'[l] = to /\ \A m \in Logins \ {l} : login'[m] = login[m]
      /\ login' \in [Logins -> {"idle", "in", "out", "refused", "unavailable", "cancelled"} \cup InProgress]
  BY <1>1, <1>3
<1>6. l \in Taken' <=> l \in threads' \/ to = "lookup" BY <1>5 DEF Taken
<1>7. \A m \in Logins \ {l} : m \in Taken' <=> m \in Taken BY <1>1, <1>5 DEF Taken
<1>8. Taken' \subseteq Logins BY <1>2 DEF Taken
<1>9. active' \in Nat /\ active' = Cardinality(Taken') /\ active' <= MaxVerifying
  <2>1. CASE active' = active /\ (l \in Taken <=> l \in Taken')
    <3>1. Taken' = Taken BY <1>4, <1>7, <1>8, <2>1
    <3> QED BY <1>3, <2>1, <3>1
  <2>2. CASE active' = active + 1 /\ active < MaxVerifying /\ l \notin Taken /\ l \in Taken'
    <3>1. Taken' = Taken \cup {l} BY <1>4, <1>7, <1>8, <2>2
    <3>2. Cardinality(Taken \cup {l}) = Cardinality(Taken) + 1 BY <1>4, <2>2, FS_AddElement
    <3> QED BY <1>3, <2>2, <3>1, <3>2
  <2>3. CASE active' = active - 1 /\ l \in Taken /\ l \notin Taken'
    <3>1. Taken' = Taken \ {l} BY <1>4, <1>7, <1>8, <2>3
    <3>2. Cardinality(Taken \ {l}) = Cardinality(Taken) - 1 /\ Cardinality(Taken \ {l}) \in Nat
      BY <1>4, <2>3, FS_RemoveElement, FS_CardinalityType
    <3> QED BY <1>3, <2>3, <3>1, <3>2
  <2> QED BY <1>1, <1>6, <2>1, <2>2, <2>3
<1>10. AuthTypeOK'
  BY <1>2, <1>5, <1>9 DEF AInv, AuthTypeOK, backends
<1>11. SlotsExact'
  <2>1. /\ \A m \in Logins : login[m] = "verifying" => m \in threads
        /\ \A m \in Logins : login[m] = "lookup" => m \notin threads
    BY DEF AInv, LoginInv, SlotsExact
  <2>2. \A m \in Logins : login'[m] = "verifying" => m \in threads' BY <1>1, <1>5, <2>1
  <2>3. \A m \in Logins : login'[m] = "lookup" => m \notin threads' BY <1>1, <1>5, <2>1
  <2> QED BY <1>9, <2>2, <2>3 DEF SlotsExact, Taken
<1>12. Passed'
  <2>1. \A m \in threads' : login'[m] \in {"verifying", "cancelled"}
    BY <1>1, <1>2, <1>5 DEF AInv, LoginInv, Passed
  <2>2. \A m \in Logins : login'[m] \in {"creating", "in", "leaving"} => m \in Right
    BY <1>1, <1>5 DEF AInv, LoginInv, Passed
  <2> QED BY <2>1, <2>2 DEF Passed
<1>13. Watched'
  <2>1. Handling' # {} => Handling # {} \/ Listening BY <1>1, <1>5 DEF Handling
  <2>2. Listening => \E r \in Runs : phase[r] \in Open BY DEF Listening, Open
  <2>3. phase' = phase /\ cut' = cut BY <1>2 DEF vars
  <2> QED BY <2>1, <2>2, <2>3 DEF AInv, BackendInv, Watched
<1>14. (LifecycleFollows /\ InOrder /\ UpIsStarted /\ UpInOrder)'
  BY <1>2, BackendsUnchanged DEF AInv, BackendInv, vars
<1> QED BY <1>10, <1>11, <1>12, <1>13, <1>14 DEF LoginInv, BackendInv

\* Every step keeps the invariant of the composed app.
LEMMA NextAInv == AInv /\ [AuthNext]_allVars => AInv'
<1> SUFFICES ASSUME AInv, [AuthNext]_allVars PROVE AInv'
  OBVIOUS
<1>1. IInv'
  <2>1. [Next]_vars BY AuthStepIsAppStep DEF allVars
  <2> QED BY <2>1, NextIInv DEF AInv
<1>2. CASE UNCHANGED <<phase, backends, cut, logins>>
  <2>1. BackendInv' BY <1>2, BackendsUnchanged DEF AInv, BackendInv, Watched, Handling, logins
  <2>2. AuthTypeOK' BY <1>2 DEF AInv, AuthTypeOK, backends, logins
  <2>3. LoginInv' BY <1>2 DEF AInv, LoginInv, SlotsExact, Passed, logins
  <2> QED BY <1>1, <2>1, <2>2, <2>3 DEF AInv
<1>3. ASSUME NEW r \in Runs, AppStep(r) \/ AppCancelled(r) PROVE AInv'
  <2>1. BackendInv' BY <1>3, RunKeepsBackends
  <2>2. UNCHANGED <<backends, logins>> /\ cut' \in BOOLEAN
    BY <1>3 DEF AppStep, AppCancelled, AInv, AuthTypeOK
  <2>3. AuthTypeOK' BY <2>2 DEF AInv, AuthTypeOK, backends, logins
  <2>4. LoginInv' BY <2>2 DEF AInv, LoginInv, SlotsExact, Passed, logins
  <2> QED BY <1>1, <2>1, <2>3, <2>4 DEF AInv
<1>4. ASSUME NEW r \in Runs, Backend(r) \/ UndoingCancelled(r) PROVE AInv'
  <2>1. BackendInv' /\ AuthTypeOK' BY <1>4, LifecycleKeepsBackends
  <2>2. UNCHANGED logins
    BY <1>4 DEF Backend, UndoingCancelled, DependencyStarted, AllStarted, StartupFails, DependencyEnds,
                ShutdownCut, StartupUndone, AllEnded
  <2>3. LoginInv' BY <2>2 DEF AInv, LoginInv, SlotsExact, Passed, logins
  <2> QED BY <1>1, <2>1, <2>3 DEF AInv
<1>5. ASSUME NEW l \in Logins, Client(l) PROVE AInv'
  BY <1>1, <1>5, ClientKeeps DEF AInv
<1>6. CASE Stopped BY <1>2, <1>6 DEF Stopped, Stop, OrphanEnds, flags
<1> QED BY <1>2, <1>3, <1>4, <1>5, <1>6 DEF AuthNext, allVars, vars

\* What the authenticator depends on is up for every login and logout, is shut down
\* in reverse order and down when the run has ended, wherever that was ended
\* (auth/_util.py:55-79); and the validator's places are the lookups and threads
\* there are (validators.py:86-133).
THEOREM BackendsAreAccountedFor == AuthSpec => []BackendsAccounted
<1>1. AInv => BackendsAccounted
  <2> SUFFICES ASSUME AInv PROVE BackendsAccounted
    OBVIOUS
  <2> USE DEF AInv, BackendInv
  <2>1. LoginsFindBackends
    <3> SUFFICES ASSUME Handling # {}, ~cut PROVE Elements(Dependencies) \subseteq up
      BY DEF LoginsFindBackends
    <3>1. PICK r \in Runs : phase[r] \in Open BY DEF Watched
    <3>2. phase[r] \in Made BY <3>1 DEF Open, Made, Started
    <3> QED BY <3>2 DEF LifecycleFollows, UpIsStarted
  <2>2. (\E r \in Runs : phase[r] = "ended") /\ ~cut => up = {}
    <3>1. Elements(<<>>) = {} BY DEF Elements
    <3> QED BY <3>1 DEF LifecycleFollows, UpIsStarted
  <2>3. BackendsUndone BY <2>2 DEF BackendsUndone, UpInOrder
  <2> QED BY <2>1, <2>3 DEF BackendsAccounted, LoginInv
<1> QED BY <1>1, InitAInv, NextAInv, PTL DEF AuthSpec
=============================================================================
