------------------------ MODULE EventLoopStopProofs ------------------------
(***************************************************************************)
(* Proofs about an EventLoop that one thread at most shuts down: stop()    *)
(* finishes what is left, a finished task is complete, and the loop        *)
(* implements RequestContract.  With two threads in stop() these do not    *)
(* hold: the second one does not join the loop thread (StopFindsNoHandle), *)
(* disposes of tasks that are being stepped, and returns while the first   *)
(* still waits.                                                            *)
(***************************************************************************)
EXTENDS EventLoopEndProofs

\* One thread at most calls stop().
OneStopper == \A s, u \in Stoppers : s = u

\* The registry is drained on a closed loop only.
StopperInv ==
    /\ \A s \in Stoppers :
           stopper[s] \in {"draining", "disposing", "done"} => ~Alive
    /\ ~thread => \E s \in Stoppers :
           stopper[s] \in {"joining", "draining", "disposing", "done"}
    /\ \A s \in Stoppers :
           closing[s] # NoTask => /\ stopper[s] = "disposing"
                                  /\ closing[s] \in work[s]

\* The coroutine states that need no more unwinding.
Unwound == {"none", "closed", "abandoned"}

\* Nobody finishes a task under the feet of its step, and nothing is left
\* suspended in a task that is finished or about to be.
StepOf(t) ==
    /\ running = t => ~Finished(t)
    /\ coroutine[t] = "running" => running = t
    /\ Finished(t) => coroutine[t] \in Unwound /\ ~waiting_on[t]
    /\ \A s \in Stoppers : closing[s] = t => coroutine[t] \in Unwound

StepInv == \A t \in Tasks : StepOf(t)

\* The stopping thread can still reach every request it must finish.
LeftoverOf(t) ==
    /\ request[t] = "inserted" /\ Alive => t \in live_tasks
    /\ Accepted(t) /\ ~Finished(t) =>
           \/ /\ t \in live_tasks
              /\ \A s \in Stoppers : stopper[s] \notin {"disposing", "done"}
           \/ \E s \in Stoppers : stopper[s] = "disposing" /\ t \in work[s]

LeftoverInv == \A t \in Tasks : LeftoverOf(t)

-----------------------------------------------------------------------------
(***************************************************************************)
(* The stopping thread                                                     *)
(***************************************************************************)

\* A closed loop stays closed.
LEMMA ClosedStays ==
    ASSUME Next
    PROVE  Alive' => Alive
<1> USE DEF loopVars, Alive
<1>1. ASSUME NEW t \in Tasks, TakeTurn(t) \/ EndStep(t) \/ UserCall(t)
      PROVE  UNCHANGED loop
  BY <1>1 DEF TakeTurn, SpuriousWake, CancelledBeforeStart, StartFails,
     EnterFails, BeginStep, EndStep, StepReturned, StepRaised,
     StepYieldsNone, StepBadYield, StepParks, StepParksOnDone, StepAborts,
     UserCall, CancelCall, Uncancel, AddDoneCallback, RemoveDoneCallback
<1>2. ASSUME NEW t \in Tasks,
             \/ RunCancel(t) \/ RunDoneCallback(t) \/ FutureResolves(t)
             \/ ServerTask(t)
      PROVE  UNCHANGED loop
  BY <1>2 DEF RunCancel, RunDoneCallback, FutureResolves, FutureDone,
     ServerTask, ScheduleFails, ScheduleInsert, ScheduleFirstStep,
     ScheduleRefused, Response, DropRequest, DropCancels
<1>3. ASSUME NEW s \in Stoppers, CancelSnapshot(s) \/ CallsStop(s)
      PROVE  UNCHANGED loop
  BY <1>3 DEF CancelSnapshot, CallsStop, CancelOne, DisposeCloses,
     DisposeFinishes, StopTakesHandle, StopFindsNoHandle, StopJoins,
     StopDrains, StopReturns
<1>4. CASE RunStop \/ LoopExits \/ LoopFails
  BY <1>4 DEF RunStop, LoopExits, LoopFails, CloseLoop
<1> QED BY <1>1, <1>2, <1>3, <1>4 DEF Next, LoopThread

\* Only a stopping thread changes what stop() keeps.
LEMMA StopActors ==
    ASSUME Next
    PROVE  \/ UNCHANGED stopVars
           \/ \E s \in Stoppers : CancelSnapshot(s) \/ CallsStop(s)
<1>1. ASSUME NEW t \in Tasks,
             \/ RunCancel(t) \/ RunDoneCallback(t) \/ FutureResolves(t)
             \/ ServerTask(t)
      PROVE  UNCHANGED stopVars
  BY <1>1 DEF RunCancel, RunDoneCallback, FutureResolves, FutureDone,
     ServerTask, ScheduleFails, ScheduleInsert, ScheduleFirstStep,
     ScheduleRefused, Response, DropRequest, DropCancels
<1>2. CASE RunStop \/ LoopExits \/ LoopFails
  BY <1>2 DEF RunStop, LoopExits, LoopFails, CloseLoop
<1> QED BY <1>1, <1>2 DEF Next, LoopThread

\* Every step keeps the invariant of the stopping thread.
LEMMA StopperStep ==
    ASSUME OneStopper, TypeOK, StopperInv, Next
    PROVE  StopperInv'
<1>0. /\ stopper \in [Stoppers -> {"idle", "cancelling", "joining",
                                   "draining", "disposing", "done"}]
      /\ work \in [Stoppers -> SUBSET Tasks]
      /\ closing \in [Stoppers -> Tasks \cup {NoTask}]
  BY DEF TypeOK
<1>1. CASE UNCHANGED stopVars
  BY <1>1, ClosedStays DEF StopperInv, stopVars
<1>2. ASSUME NEW s \in Stoppers, CancelSnapshot(s) \/ CallsStop(s)
      PROVE  StopperInv'
  <2>1. /\ \A u \in Stoppers : u = s
        /\ Alive' => Alive
    BY ClosedStays DEF OneStopper
  <2> DEFINE Kept ==
          /\ stopper'[s] \in {"draining", "disposing", "done"} => ~Alive'
          /\ ~thread' => stopper'[s] \in {"joining", "draining",
                                          "disposing", "done"}
          /\ closing'[s] # NoTask => /\ stopper'[s] = "disposing"
                                     /\ closing'[s] \in work'[s]
  <2>2. SUFFICES Kept
    BY <2>1 DEF StopperInv, Alive
  <2>3. /\ stopper[s] \in {"draining", "disposing", "done"} => ~Alive
        /\ ~thread => stopper[s] \in {"joining", "draining", "disposing",
                                      "done"}
        /\ closing[s] # NoTask => /\ stopper[s] = "disposing"
                                  /\ closing[s] \in work[s]
    BY <2>1 DEF StopperInv
  <2>4. CASE CancelSnapshot(s)
    BY <1>0, <2>1, <2>3, <2>4 DEF CancelSnapshot
  <2>5. ASSUME NEW t \in Tasks, CancelOne(s, t)
        PROVE  Kept
    BY <1>0, <2>1, <2>3, <2>5 DEF CancelOne
  <2>6. ASSUME NEW t \in Tasks, DisposeCloses(s, t) \/ DisposeFinishes(s, t)
        PROVE  Kept
    BY <1>0, <2>1, <2>3, <2>6 DEF DisposeCloses, DisposeFinishes
  <2>7. CASE StopTakesHandle(s) \/ StopFindsNoHandle(s) \/ StopJoins(s)
    BY <1>0, <2>1, <2>3, <2>7
       DEF StopTakesHandle, StopFindsNoHandle, StopJoins, AtStop
  <2>8. CASE StopDrains(s) \/ StopReturns(s)
    BY <1>0, <2>1, <2>3, <2>8 DEF StopDrains, StopReturns
  <2> QED BY <1>2, <2>4, <2>5, <2>6, <2>7, <2>8 DEF CallsStop
<1> QED BY <1>1, <1>2, StopActors

\* The loop is closed whenever a task is being disposed of.
LEMMA StopperCorrect == ASSUME OneStopper PROVE Spec => []StopperInv
<1>1. ASSUME Init
      PROVE  StopperInv
  BY <1>1 DEF Init, StopperInv
<1>2. ASSUME StopperInv, UNCHANGED vars
      PROVE  StopperInv'
  BY <1>2 DEF vars, loopVars, stopVars, StopperInv, Alive
<1> QED BY <1>1, <1>2, StopperStep, TypeCorrect, PTL DEF Spec

-----------------------------------------------------------------------------
(***************************************************************************)
(* What a finished task leaves behind                                      *)
(***************************************************************************)

\* What finish does to the state a step works on.
LEMMA FinishSteps ==
    ASSUME TypeOK, StepInv, NEW t \in Tasks,
           NEW completion \in Outcomes \ {"pending"}, NEW response, NEW q,
           Finish(t, completion, response, q)
    PROVE  /\ ~waiting_on'[t]
           /\ \A u \in Tasks \ {t} : /\ Finished(u)' <=> Finished(u)
                                     /\ waiting_on'[u] = waiting_on[u]
<1>0. /\ waiting_on \in [Tasks -> BOOLEAN]
      /\ outcome \in [Tasks -> Outcomes]
  BY DEF TypeOK, TaskTypeOK
<1>1. CASE Finished(t)
  BY <1>1 DEF Finish, Finished, StepInv, StepOf
<1>2. CASE ~Finished(t)
  <2>1. /\ waiting_on' = [waiting_on EXCEPT ![t] = FALSE]
        /\ outcome' = [outcome EXCEPT ![t] = completion]
    BY <1>2 DEF Finish
  <2> QED BY <1>0, <2>1 DEF Finished
<1> QED BY <1>1, <1>2

\* A step that leaves alone what the invariant is about.
LEMMA StepUnchanged ==
    ASSUME StepInv, UNCHANGED <<running, coroutine, outcome, waiting_on,
                                closing>>
    PROVE  StepInv'
BY DEF StepInv, StepOf, Finished

\* finish in the turn or the step of its task, with the coroutine unwound.
LEMMA StepEnds ==
    ASSUME TypeOK, StepInv, NEW t \in Tasks,
           NEW completion \in Outcomes \ {"pending"}, NEW response, NEW q,
           Finish(t, completion, response, q),
           running \in {t, NoTask}, running' = NoTask,
           NEW c \in Unwound, coroutine' = [coroutine EXCEPT ![t] = c],
           \A s \in Stoppers : closing'[s] \in {closing[s], NoTask}
    PROVE  StepInv'
<1>0. coroutine \in [Tasks -> {"none", "suspended", "running", "closed",
                               "abandoned"}]
  BY DEF TypeOK, TaskTypeOK
<1>1. SUFFICES ASSUME NEW u \in Tasks PROVE StepOf(u)'
  BY DEF StepInv
<1>2. StepOf(u) /\ u # NoTask
  BY NoTaskAssumption DEF StepInv
<1>3. CASE u = t
  <2>1. coroutine'[u] = c /\ ~waiting_on'[u]
    BY <1>0, <1>3, FinishSteps
  <2> QED BY <1>2, <2>1 DEF StepOf, Unwound
<1>4. CASE u # t
  <2>1. /\ coroutine'[u] = coroutine[u]
        /\ Finished(u)' <=> Finished(u)
        /\ waiting_on'[u] = waiting_on[u]
    BY <1>0, <1>4, FinishSteps
  <2> QED BY <1>2, <1>4, <2>1 DEF StepOf
<1> QED BY <1>3, <1>4

\* A step that begins, or that ends with the coroutine suspended.
LEMMA StepGoesOn ==
    ASSUME TypeOK, StepInv, NEW t \in Tasks, ~Finished(t),
           \A s \in Stoppers : closing[s] # t,
           \/ running = NoTask /\ running' = t
           \/ running = t /\ running' = NoTask,
           NEW c, coroutine' = [coroutine EXCEPT ![t] = c],
           c = "running" => running' = t,
           \A u \in Tasks \ {t} : waiting_on'[u] = waiting_on[u],
           UNCHANGED <<outcome, closing>>
    PROVE  StepInv'
<1>0. coroutine \in [Tasks -> {"none", "suspended", "running", "closed",
                               "abandoned"}]
  BY DEF TypeOK, TaskTypeOK
<1>1. SUFFICES ASSUME NEW u \in Tasks PROVE StepOf(u)'
  BY DEF StepInv
<1>2. StepOf(u) /\ u # NoTask /\ (Finished(u)' <=> Finished(u))
  BY NoTaskAssumption DEF StepInv, Finished
<1>3. CASE u = t
  <2>1. coroutine'[u] = c
    BY <1>0, <1>3
  <2> QED BY <1>2, <1>3, <2>1 DEF StepOf
<1>4. CASE u # t
  <2>1. coroutine'[u] = coroutine[u] /\ waiting_on'[u] = waiting_on[u]
    BY <1>0, <1>4
  <2> QED BY <1>2, <1>4, <2>1 DEF StepOf
<1> QED BY <1>3, <1>4

\* Every step keeps the invariant.
LEMMA StepStep ==
    ASSUME TypeOK, ResumeInv, StopperInv, StepInv, Next
    PROVE  StepInv'
<1> USE DEF loopVars, taskVars, stepVars, cancelVars, finishVars, channelVars,
            serverVars, stopVars
<1>0. /\ coroutine \in [Tasks -> {"none", "suspended", "running", "closed",
                                  "abandoned"}]
      /\ waiting_on \in [Tasks -> BOOLEAN]
      /\ closing \in [Stoppers -> Tasks \cup {NoTask}]
      /\ running \in Tasks \cup {NoTask}
  BY DEF TypeOK, TaskTypeOK
\* As long as the loop lives no task is being disposed of; when it is
\* closed none is being stepped.
<1>a. Alive => \A s \in Stoppers : closing[s] = NoTask
  BY DEF StopperInv
<1>b. ~Alive => running = NoTask
  BY <1>0 DEF ResumeInv, ResumeOf
<1>1. ASSUME NEW t \in Tasks, TakeTurn(t), UNCHANGED <<serverVars, stopVars>>
      PROVE  StepInv'
  <2>0. PICK arg \in WakeArgs : \/ SpuriousWake(t, arg)
                                \/ CancelledBeforeStart(t, arg)
                                \/ StartFails(t, arg)
                                \/ EnterFails(t, arg)
                                \/ BeginStep(t, arg)
    BY <1>1 DEF TakeTurn
  <2>1. Alive /\ running = NoTask
    BY <2>0 DEF SpuriousWake, CancelledBeforeStart, StartFails, EnterFails,
       BeginStep, Turn
  <2>2. coroutine[t] # "running" /\ t # NoTask
    BY <2>1, NoTaskAssumption DEF StepInv, StepOf
  <2>3. CASE SpuriousWake(t, arg)
    BY <1>1, <2>3, StepUnchanged DEF SpuriousWake
  <2>4. CASE CancelledBeforeStart(t, arg) \/ StartFails(t, arg)
    <3>1. \E completion \in Outcomes \ {"pending"} :
              Finish(t, completion, "error", Tail(ready))
      BY <2>4 DEF CancelledBeforeStart, StartFails, Outcomes
    <3>2. /\ coroutine[t] = "none"
          /\ UNCHANGED <<running, coroutine>>
      BY <2>4 DEF CancelledBeforeStart, StartFails
    <3>3. coroutine' = [coroutine EXCEPT ![t] = "none"] /\ "none" \in Unwound
      BY <1>0, <3>2 DEF Unwound
    <3> QED BY <1>1, <2>1, <3>1, <3>2, <3>3, StepEnds
  <2>5. CASE EnterFails(t, arg)
    <3>1. Finish(t, "aborted", "error", Tail(ready)) /\ UNCHANGED running
      BY <2>5 DEF EnterFails
    <3>2. PICK c \in Unwound : coroutine' = [coroutine EXCEPT ![t] = c]
      BY <1>0, <2>2, <2>5 DEF EnterFails, CloseResults, Unwound
    <3> QED BY <1>1, <2>1, <3>1, <3>2, StepEnds DEF Outcomes
  <2>6. CASE BeginStep(t, arg)
    <3>1. /\ ~Finished(t)
          /\ running' = t
          /\ coroutine' = [coroutine EXCEPT
                               ![t] = IF @ = "closed" THEN @ ELSE "running"]
          /\ UNCHANGED outcome
      BY <2>6 DEF BeginStep, CanStep
    <3>2. \A u \in Tasks \ {t} : waiting_on'[u] = waiting_on[u]
      BY <1>0, <2>6 DEF BeginStep
    <3>3. \A s \in Stoppers : closing[s] # t
      BY <1>a, <2>1, <2>2
    <3> QED BY <1>1, <2>1, <3>1, <3>2, <3>3, StepGoesOn
  <2> QED BY <2>0, <2>3, <2>4, <2>5, <2>6
<1>2. ASSUME NEW t \in Tasks, EndStep(t), UNCHANGED <<serverVars, stopVars>>
      PROVE  StepInv'
  <2>0. running = t /\ t # NoTask
    BY <1>2, NoTaskAssumption DEF EndStep, StepReturned, StepRaised,
       StepYieldsNone, StepBadYield, StepParks, StepParksOnDone, StepAborts,
       LeaveStep, Yields
  <2>1. Alive /\ ~Finished(t) /\ \A s \in Stoppers : closing[s] # t
    BY <1>a, <1>b, <2>0 DEF StepInv, StepOf
  <2>2. CASE StepReturned(t) \/ StepRaised(t) \/ StepAborts(t)
    <3>1. \E completion \in Outcomes \ {"pending"},
             response \in {"handler", "error"} :
              Finish(t, completion, response, ready)
      BY <2>2 DEF StepReturned, StepRaised, StepAborts, Outcomes
    <3>2. PICK c \in Unwound : LeaveStep(t, c)
      BY <2>2 DEF StepReturned, StepRaised, StepAborts, CloseResults, Unwound
    <3> QED BY <1>2, <3>1, <3>2, StepEnds DEF LeaveStep
  <2>3. CASE \/ StepYieldsNone(t) \/ StepBadYield(t) \/ StepParks(t)
             \/ StepParksOnDone(t)
    <3>1. LeaveStep(t, "suspended") /\ UNCHANGED outcome
      BY <2>3 DEF StepYieldsNone, StepBadYield, StepParks, StepParksOnDone
    <3>2. \A u \in Tasks \ {t} : waiting_on'[u] = waiting_on[u]
      BY <1>0, <2>3 DEF StepYieldsNone, StepBadYield, StepParks,
         StepParksOnDone
    <3> QED BY <1>2, <2>0, <2>1, <3>1, <3>2, StepGoesOn DEF LeaveStep
  <2> QED BY <1>2, <2>2, <2>3 DEF EndStep
<1>3. ASSUME NEW t \in Tasks,
             \/ UserCall(t) /\ UNCHANGED <<serverVars, stopVars>>
             \/ RunCancel(t) \/ RunDoneCallback(t) \/ FutureResolves(t)
             \/ ServerTask(t)
      PROVE  StepInv'
  <2>1. UNCHANGED <<running, coroutine, outcome, waiting_on, closing>>
    BY <1>3 DEF UserCall, CancelCall, Uncancel, AddDoneCallback,
       RemoveDoneCallback, RunCancel, RunDoneCallback, FutureResolves,
       ServerTask, ScheduleFails, ScheduleInsert, ScheduleFirstStep,
       ScheduleRefused, Response, DropRequest, DropCancels
  <2> QED BY <2>1, StepUnchanged
<1>4. CASE RunStop \/ LoopExits \/ LoopFails
  BY <1>4, StepUnchanged DEF RunStop, LoopExits, LoopFails, CloseLoop
<1>5. ASSUME NEW s \in Stoppers, CancelSnapshot(s) \/ CallsStop(s)
      PROVE  StepInv'
  <2>1. ASSUME NEW t \in Tasks, DisposeCloses(s, t)
        PROVE  StepInv'
    <3>1. ~Alive /\ running = NoTask
      BY <1>b, <2>1 DEF DisposeCloses, StopperInv
    <3>2. t # NoTask /\ coroutine[t] # "running"
      BY <3>1, NoTaskAssumption DEF StepInv, StepOf
    <3>3. PICK c \in Unwound : coroutine' = [coroutine EXCEPT ![t] = c]
      BY <1>0, <2>1, <3>2 DEF DisposeCloses, CloseResults, Unwound
    <3>4. /\ \A u \in Tasks : coroutine'[u] = IF u = t THEN c ELSE coroutine[u]
          /\ \A z \in Stoppers : closing'[z] \in {closing[z], t}
          /\ UNCHANGED <<running, outcome, waiting_on>>
      BY <1>0, <2>1, <3>3 DEF DisposeCloses
    <3>5. ASSUME NEW u \in Tasks
          PROVE  StepOf(u)'
      <4>1. StepOf(u)
        BY DEF StepInv
      <4> QED BY <3>4, <4>1 DEF StepOf, Finished, Unwound
    <3> QED BY <3>5 DEF StepInv
  <2>2. ASSUME NEW t \in Tasks, DisposeFinishes(s, t)
        PROVE  StepInv'
    <3>1. /\ Finish(t, "aborted", "error", ready)
          /\ closing[s] = t
          /\ closing' = [closing EXCEPT ![s] = NoTask]
          /\ UNCHANGED <<running, coroutine>>
      BY <2>2 DEF DisposeFinishes
    <3>2. running = NoTask
      BY <1>a, <1>b, <3>1, NoTaskAssumption
    <3>3. coroutine[t] \in Unwound
      BY <3>1 DEF StepInv, StepOf
    <3>4. /\ coroutine' = [coroutine EXCEPT ![t] = coroutine[t]]
          /\ \A z \in Stoppers : closing'[z] \in {closing[z], NoTask}
      BY <1>0, <3>1
    <3> QED BY <3>1, <3>2, <3>3, <3>4, StepEnds DEF Outcomes
  <2>3. CASE \/ CancelSnapshot(s) \/ StopTakesHandle(s)
             \/ StopFindsNoHandle(s) \/ StopJoins(s) \/ StopDrains(s)
             \/ StopReturns(s) \/ \E t \in Tasks : CancelOne(s, t)
    BY <2>3, StepUnchanged DEF CancelSnapshot, StopTakesHandle,
       StopFindsNoHandle, StopJoins, StopDrains, StopReturns, CancelOne
  <2> QED BY <1>5, <2>1, <2>2, <2>3 DEF CallsStop
<1> QED BY <1>1, <1>2, <1>3, <1>4, <1>5 DEF Next, LoopThread

\* The invariant holds of every loop that one thread at most stops.
LEMMA StepCorrect == ASSUME OneStopper PROVE Spec => []StepInv
<1>1. ASSUME Init
      PROVE  StepInv
  BY <1>1, NoTaskAssumption DEF Init, TaskInit, StepInv, StepOf, Finished
<1>2. ASSUME StepInv, UNCHANGED vars
      PROVE  StepInv'
  BY <1>2, StepUnchanged DEF vars, taskVars, stepVars, finishVars, stopVars
<1> QED BY <1>1, <1>2, StepStep, StopperCorrect, TypeCorrect, ResumeCorrect,
        PTL DEF Spec

\* A finished task has left every registry, has sent its response, and holds
\* neither a future nor a done callback.
THEOREM FinishCompletes == ASSUME OneStopper PROVE Spec => []FinishedIsComplete
<1>1. ChannelInv /\ StepInv => FinishedIsComplete
  BY DEF ChannelInv, ChannelOf, StepInv, StepOf, FinishedIsComplete
<1> QED BY <1>1, ChannelCorrect, StepCorrect, PTL

\* No coroutine is left suspended in a finished task: its `finally` blocks
\* ran, or its close() failed and that was logged.
THEOREM FinishUnwinds == ASSUME OneStopper PROVE Spec => []CoroutineUnwound
<1>1. StepInv => CoroutineUnwound
  BY DEF StepInv, StepOf, Unwound, CoroutineUnwound
<1> QED BY <1>1, StepCorrect, PTL

-----------------------------------------------------------------------------
(***************************************************************************)
(* What stop() leaves behind                                               *)
(***************************************************************************)

\* Every step keeps the invariant.
LEMMA LeftoverStep ==
    ASSUME OneStopper, TypeOK, ResumeInv, ChannelInv, StopperInv,
           LeftoverInv, Next
    PROVE  LeftoverInv'
<1>0. /\ request \in [Tasks -> Requests]
      /\ stopper \in [Stoppers -> {"idle", "cancelling", "joining",
                                   "draining", "disposing", "done"}]
      /\ work \in [Stoppers -> SUBSET Tasks]
      /\ live_tasks \in SUBSET Tasks
      /\ Alive' => Alive
  BY ClosedStays DEF TypeOK, TaskTypeOK
<1>1. SUFFICES ASSUME NEW u \in Tasks PROVE LeftoverOf(u)'
  BY DEF LeftoverInv
<1>2. LeftoverOf(u)
  BY DEF LeftoverInv
<1>3. CASE UNCHANGED stopVars
  <2>0. UNCHANGED <<stopper, work>>
    BY <1>3 DEF stopVars
  <2>1. \A s \in Stoppers : ~StopReturns(s) /\ ~StopDrains(s)
    BY <1>0, <2>0 DEF StopReturns, StopDrains
  <2>2. CASE Quiet
    <3>1. UNCHANGED <<live_tasks, outcome>>
      BY <2>1, <2>2 DEF Quiet
    <3>2. \/ request'[u] = request[u]
          \/ Accepted(u) /\ Accepted(u)'
      BY <2>2 DEF Quiet, QuietRequests
    <3> QED BY <1>0, <1>2, <2>0, <3>1, <3>2
            DEF LeftoverOf, Accepted, Finished
  <2>3. ASSUME NEW t \in Tasks, Settles(t)
        PROVE  LeftoverOf(u)'
    <3> USE DEF loopVars, finishVars, channelVars, taskVars
    <3>1. CASE ScheduleFails(t) \/ ScheduleInsert(t) \/ ScheduleRefused(t)
      BY <1>0, <1>2, <2>0, <3>1 DEF ScheduleFails, ScheduleInsert,
         ScheduleRefused, LeftoverOf, Accepted, Finished, Alive
    <3>2. CASE ScheduleFirstStep(t)
      <4>1. \A s \in Stoppers : stopper[s] \notin {"disposing", "done"}
        BY <3>2 DEF ScheduleFirstStep, StopperInv
      <4> QED BY <1>0, <1>2, <2>0, <3>2, <4>1
              DEF ScheduleFirstStep, LeftoverOf, Accepted, Finished, Alive
    <3>3. CASE Ends(t)
      <4>1. /\ Finished(t)'
            /\ live_tasks' = live_tasks \ {t}
            /\ \A v \in Tasks \ {t} : outcome'[v] = outcome[v]
        BY <3>3, EndsKnown, FinishEnds DEF Ends, ChannelInv
      <4>2. request' = request
        BY <3>3 DEF Ends
      <4>3. Alive => request[t] # "inserted"
        BY <3>3, NoTaskAssumption DEF Ends, Accepted, StopperInv
      <4> QED BY <1>0, <1>2, <2>0, <4>1, <4>2, <4>3
              DEF LeftoverOf, Accepted, Finished
    <3> QED BY <2>3, <3>1, <3>2, <3>3 DEF Settles
  <2> QED BY <2>1, <2>2, <2>3, Shapes
<1>4. ASSUME NEW s \in Stoppers, CancelSnapshot(s) \/ CallsStop(s)
      PROVE  LeftoverOf(u)'
  <2>0. \A z \in Stoppers : z = s
    BY DEF OneStopper
  <2> DEFINE Reached(l, p, w) == \/ u \in l /\ p \notin {"disposing", "done"}
                                 \/ p = "disposing" /\ u \in w
  <2>1. SUFFICES /\ request'[u] = "inserted" /\ Alive' => u \in live_tasks'
                 /\ Accepted(u)' /\ ~Finished(u)'
                        => Reached(live_tasks', stopper'[s], work'[s])
    BY <2>0 DEF LeftoverOf
  <2>2. /\ request[u] = "inserted" /\ Alive => u \in live_tasks
        /\ Accepted(u) /\ ~Finished(u)
               => Reached(live_tasks, stopper[s], work[s])
    BY <1>2, <2>0 DEF LeftoverOf
  <2> USE DEF loopVars, finishVars, channelVars, taskVars, serverVars
  <2>3. ASSUME NEW t \in Tasks, CancelOne(s, t) \/ DisposeCloses(s, t)
        PROVE  /\ UNCHANGED <<request, live_tasks, outcome>>
               /\ Reached(live_tasks, stopper[s], work[s])
                      => Reached(live_tasks', stopper'[s], work'[s])
    BY <1>0, <2>3 DEF CancelOne, DisposeCloses
  <2>4. ASSUME NEW t \in Tasks, DisposeFinishes(s, t)
        PROVE  /\ request'[u] = "inserted" /\ Alive' => u \in live_tasks'
               /\ Accepted(u)' /\ ~Finished(u)'
                      => Reached(live_tasks', stopper'[s], work'[s])
    <3>1. Finish(t, "aborted", "error", ready) /\ closing[s] = t
      BY <2>4 DEF DisposeFinishes
    <3>2. Alive => FALSE
      BY <3>1, NoTaskAssumption DEF StopperInv
    <3>3. Ends(t)
      BY <2>4, <3>1 DEF Ends, DisposeFinishes, Outcomes, TypeOK, LoopTypeOK
    <3>4. /\ Finished(t)'
          /\ live_tasks' = live_tasks \ {t}
          /\ \A v \in Tasks \ {t} : outcome'[v] = outcome[v]
      BY <3>3, EndsKnown, FinishEnds DEF Ends, ChannelInv
    <3>5. UNCHANGED <<request, stopper>> /\ work'[s] = work[s] \ {t}
      BY <1>0, <2>4 DEF DisposeFinishes
    <3> QED BY <1>0, <2>2, <3>2, <3>4, <3>5 DEF Accepted, Finished
  <2>5. CASE \/ CancelSnapshot(s) \/ StopTakesHandle(s)
             \/ StopFindsNoHandle(s) \/ StopJoins(s)
    <3>1. UNCHANGED <<request, live_tasks, outcome>>
      BY <2>5 DEF CancelSnapshot, StopTakesHandle, StopFindsNoHandle,
         StopJoins
    <3>2. Reached(live_tasks, stopper[s], work[s])
              => Reached(live_tasks', stopper'[s], work'[s])
      BY <1>0, <2>5 DEF CancelSnapshot, StopTakesHandle, StopFindsNoHandle,
         StopJoins, AtStop
    <3> QED BY <1>0, <2>2, <3>1, <3>2 DEF Accepted, Finished
  <2>6. CASE StopDrains(s)
    <3>1. ~Alive /\ stopper[s] = "draining"
      BY <2>6 DEF StopDrains, StopperInv
    <3>2. /\ UNCHANGED <<request, outcome>>
          /\ stopper'[s] = "disposing"
          /\ work'[s] = live_tasks
      BY <1>0, <2>6 DEF StopDrains
    <3> QED BY <1>0, <2>2, <3>1, <3>2 DEF Accepted, Finished
  <2>7. CASE StopReturns(s)
    <3>1. /\ UNCHANGED <<request, live_tasks, outcome>>
          /\ stopper[s] = "disposing" /\ work[s] = {}
      BY <2>7 DEF StopReturns
    <3> QED BY <1>0, <2>2, <3>1 DEF Accepted, Finished
  <2>8. ASSUME NEW t \in Tasks, CancelOne(s, t) \/ DisposeCloses(s, t)
        PROVE  /\ request'[u] = "inserted" /\ Alive' => u \in live_tasks'
               /\ Accepted(u)' /\ ~Finished(u)'
                      => Reached(live_tasks', stopper'[s], work'[s])
    BY <1>0, <2>2, <2>3, <2>8 DEF Accepted, Finished
  <2> HIDE DEF Reached
  <2> QED BY <1>4, <2>4, <2>5, <2>6, <2>7, <2>8 DEF CallsStop
<1> QED BY <1>3, <1>4, StopActors

\* The invariant holds of every loop that one thread at most stops.
LEMMA LeftoverCorrect == ASSUME OneStopper PROVE Spec => []LeftoverInv
<1>1. ASSUME Init
      PROVE  LeftoverInv
  BY <1>1 DEF Init, LeftoverInv, LeftoverOf, Accepted
<1>2. ASSUME LeftoverInv, UNCHANGED vars
      PROVE  LeftoverInv'
  BY <1>2 DEF vars, loopVars, taskVars, finishVars, serverVars, stopVars,
     LeftoverInv, LeftoverOf, Accepted, Finished, Alive
<1> QED BY <1>1, <1>2, LeftoverStep, StopperCorrect, TypeCorrect,
        ResumeCorrect, ChannelCorrect, PTL DEF Spec

\* When stop() has returned every accepted request is finished, even one
\* whose first step came in while the loop was being stopped.
THEOREM StopFinishesAll ==
    ASSUME OneStopper PROVE Spec => []StoppedMeansFinished
<1>1. LeftoverInv => StoppedMeansFinished
  BY DEF OneStopper, LeftoverInv, LeftoverOf, StoppedMeansFinished
<1> QED BY <1>1, LeftoverCorrect, PTL

-----------------------------------------------------------------------------
(***************************************************************************)
(* The contract with the server                                            *)
(***************************************************************************)

\* The variables of the contract, under the refinement mapping.
Stopped == \E s \in Stoppers : stopper[s] = "done"
Answers == [t \in Tasks |-> AnswerOf(t)]

\* A step that changes the answer of one request only is a step of the
\* contract, by what the answer was and is.
LEMMA ContractMoves ==
    ASSUME NEW t \in Tasks, Stopped' <=> Stopped,
           \A u \in Tasks \ {t} : AnswerOf(u)' = AnswerOf(u)
    PROVE  /\ /\ AnswerOf(t) = "none" /\ ~Stopped
              /\ AnswerOf(t)' = "pending"
              => Contract!Accept(t)
           /\ /\ AnswerOf(t) = "none"
              /\ AnswerOf(t)' \in {"error", "dropped"}
              => Contract!Refuse(t)
           /\ /\ AnswerOf(t) = "pending"
              /\ AnswerOf(t)' \in {"handler", "error"}
              => Contract!Answer(t)
           /\ AnswerOf(t)' = AnswerOf(t) => UNCHANGED <<Answers, Stopped>>
<1>1. Answers' = [Answers EXCEPT ![t] = AnswerOf(t)']
  BY DEF Answers
<1>2. Stopped' = Stopped
  BY DEF Stopped
<1>3. Answers[t] = AnswerOf(t)
  BY DEF Answers
<1>4. AnswerOf(t)' = AnswerOf(t) => UNCHANGED Answers
  BY DEF Answers
<1> QED BY <1>1, <1>2, <1>3, <1>4
        DEF Contract!Accept, Contract!Refuse, Contract!Answer, Stopped,
            Answers

\* Every step of the loop is a step of the contract, or none.
LEMMA ContractStep ==
    ASSUME OneStopper, TypeOK, ResumeInv, ChannelInv, StopperInv,
           LeftoverInv, Next
    PROVE  Contract!Next \/ UNCHANGED <<Answers, Stopped>>
<1>0. /\ request \in [Tasks -> Requests]
      /\ channel \in [Tasks -> {"unused", "open", "handler", "error",
                                "dropped"}]
      /\ stopper \in [Stoppers -> {"idle", "cancelling", "joining",
                                   "draining", "disposing", "done"}]
  BY DEF TypeOK, TaskTypeOK
<1> USE DEF loopVars, finishVars, channelVars, taskVars, serverVars, stopVars
<1>1. CASE Quiet
  <2>1. \A t \in Tasks : AnswerOf(t)' = AnswerOf(t)
    BY <1>1 DEF Quiet, QuietRequests, AnswerOf, Accepted
  <2>2. Stopped' = Stopped
    BY <1>1 DEF Quiet, QuietStops, Stopped
  <2> QED BY <2>1, <2>2 DEF Answers
<1>2. ASSUME NEW t \in Tasks, Settles(t)
      PROVE  Contract!Next \/ UNCHANGED <<Answers, Stopped>>
  <2> DEFINE Moves == \/ Contract!Accept(t) \/ Contract!Refuse(t)
                      \/ Contract!Answer(t) \/ UNCHANGED <<Answers, Stopped>>
  <2>1. SUFFICES Moves
    BY DEF Contract!Next
  <2>2. Stopped' <=> Stopped
    BY <1>2 DEF Settles, ScheduleFails, ScheduleInsert, ScheduleRefused,
       ScheduleFirstStep, Ends, Stopped
  <2>3. CASE ScheduleFails(t)
    <3>1. \A u \in Tasks \ {t} : AnswerOf(u)' = AnswerOf(u)
      BY <1>0, <2>3 DEF ScheduleFails, AnswerOf
    <3>2. AnswerOf(t) = "none" /\ AnswerOf(t)' = "dropped"
      BY <1>0, <2>3 DEF ScheduleFails, AnswerOf
    <3> QED BY <2>2, <3>1, <3>2, ContractMoves
  <2>4. CASE ScheduleInsert(t)
    <3>1. \A u \in Tasks \ {t} : AnswerOf(u)' = AnswerOf(u)
      BY <1>0, <2>4 DEF ScheduleInsert, AnswerOf
    <3>2. AnswerOf(t) = "none" /\ AnswerOf(t)' = "none"
      BY <1>0, <2>4 DEF ScheduleInsert, AnswerOf
    <3> QED BY <2>2, <3>1, <3>2, ContractMoves
  <2>5. CASE ScheduleFirstStep(t)
    <3>1. \A u \in Tasks \ {t} : AnswerOf(u)' = AnswerOf(u)
      BY <1>0, <2>5 DEF ScheduleFirstStep, AnswerOf
    <3>2. \/ AnswerOf(t) = "none" /\ AnswerOf(t)' = "pending"
          \/ AnswerOf(t)' = AnswerOf(t)
      BY <1>0, <2>5 DEF ScheduleFirstStep, AnswerOf
    <3>3. ~Stopped
      BY <2>5 DEF ScheduleFirstStep, StopperInv, Stopped
    <3> QED BY <2>2, <3>1, <3>2, <3>3, ContractMoves
  <2>6. CASE ScheduleRefused(t)
    <3>1. \A u \in Tasks \ {t} : AnswerOf(u)' = AnswerOf(u)
      BY <1>0, <2>6 DEF ScheduleRefused, Send, AnswerOf
    <3>2. \/ AnswerOf(t) = "none" /\ AnswerOf(t)' = "error"
          \/ AnswerOf(t)' = AnswerOf(t)
      BY <1>0, <2>6 DEF ScheduleRefused, Send, AnswerOf
    <3> QED BY <2>2, <3>1, <3>2, ContractMoves
  <2>7. CASE Ends(t)
    <3>0. PICK response \in {"handler", "error"} :
              /\ Send(t, response)
              /\ Accepted(t) \/ response = "error"
      BY <2>7 DEF Ends, Finish
    <3>1. request' = request /\ channel[t] \in {"open", "handler", "error"}
      BY <2>7, EndsKnown DEF Ends
    <3>2. \A u \in Tasks \ {t} : AnswerOf(u)' = AnswerOf(u)
      BY <1>0, <3>0, <3>1 DEF Send, AnswerOf
    <3>3. CASE channel[t] = "open"
      <4>1. channel'[t] = response
        BY <1>0, <3>0, <3>3 DEF Send
      <4>2. request[t] \notin {"none", "failed"}
        BY <3>3 DEF ChannelInv, ChannelOf
      <4>3. CASE Accepted(t)
        BY <2>2, <3>1, <3>2, <3>3, <4>1, <4>3, ContractMoves
           DEF AnswerOf, Accepted
      <4>4. CASE ~Accepted(t)
        <5>1. request[t] = "inserted"
          BY <1>0, <4>2, <4>4 DEF Accepted, Requests
        <5>2. AnswerOf(t) = "none" /\ AnswerOf(t)' = "error"
          BY <3>0, <3>1, <3>3, <4>1, <4>4, <5>1 DEF AnswerOf
        <5> QED BY <2>2, <3>2, <5>2, ContractMoves
      <4> QED BY <4>3, <4>4
    <3>4. CASE channel[t] # "open"
      <4>1. channel'[t] = channel[t]
        BY <1>0, <3>0, <3>4 DEF Send
      <4>2. AnswerOf(t)' = AnswerOf(t)
        BY <3>1, <3>4, <4>1 DEF AnswerOf
      <4> QED BY <2>2, <3>2, <4>2, ContractMoves
    <3> QED BY <3>3, <3>4
  <2> HIDE DEF Moves
  <2> QED BY <1>2, <2>3, <2>4, <2>5, <2>6, <2>7 DEF Settles
<1>3. ASSUME NEW s \in Stoppers, StopReturns(s)
      PROVE  Contract!Stop
  <2>1. /\ stopper[s] = "disposing" /\ work[s] = {}
        /\ stopper'[s] = "done"
        /\ UNCHANGED <<request, channel>>
        /\ \A z \in Stoppers : z = s
    BY <1>0, <1>3 DEF StopReturns, OneStopper
  <2>2. ~Stopped /\ Stopped'
    BY <2>1 DEF Stopped
  <2>3. ASSUME NEW t \in Tasks
        PROVE  AnswerOf(t) # "pending" /\ AnswerOf(t)' = AnswerOf(t)
    <3>1. Accepted(t) => Finished(t)
      BY <2>1 DEF LeftoverInv, LeftoverOf
    <3>2. Accepted(t) => channel[t] # "open"
      BY <3>1 DEF ChannelInv, ChannelOf
    <3>3. request[t] \notin {"none", "inserted"} => channel[t] # "open"
      BY <1>0, <3>2 DEF ChannelInv, ChannelOf, Accepted, Requests
    <3>4. AnswerOf(t)' = AnswerOf(t)
      BY <2>1 DEF AnswerOf
    <3>5. channel[t] # "pending"
      BY <1>0
    <3> QED BY <3>3, <3>4, <3>5 DEF AnswerOf
  <2> QED BY <2>2, <2>3 DEF Contract!Stop, Stopped
<1> QED BY <1>1, <1>2, <1>3, Shapes DEF Contract!Next

\* With one thread stopping it, the loop implements RequestContract: every
\* accepted request is answered exactly once, by a response and not by a
\* dropped sender, and stop() returns only when none is outstanding.
THEOREM LoopImplementsContract ==
    ASSUME OneStopper PROVE Spec => ImplementsContract
<1>1. ASSUME Init
      PROVE  Contract!Init
  BY <1>1 DEF Init, TaskInit, AnswerOf, Contract!Init
<1>2. ASSUME TypeOK, ResumeInv, ChannelInv, StopperInv, LeftoverInv,
             [Next]_vars
      PROVE  [Contract!Next]_<<[t \in Tasks |-> AnswerOf(t)],
                               \E s \in Stoppers : stopper[s] = "done">>
  <2>1. CASE Next
    BY <1>2, <2>1, ContractStep DEF Answers, Stopped
  <2>2. CASE UNCHANGED vars
    BY <2>2 DEF vars, taskVars, finishVars, channelVars, serverVars,
       stopVars, AnswerOf
  <2> QED BY <1>2, <2>1, <2>2
<1> QED BY <1>1, <1>2, TypeCorrect, ResumeCorrect, ChannelCorrect,
        StopperCorrect, LeftoverCorrect, PTL
        DEF Spec, ImplementsContract, Contract!Spec
=============================================================================
