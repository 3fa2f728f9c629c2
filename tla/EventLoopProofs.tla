-------------------------- MODULE EventLoopProofs --------------------------
(***************************************************************************)
(* Proofs about EventLoop, for every set of requests, every bound and      *)
(* every number of threads that stop the loop.                             *)
(***************************************************************************)
EXTENDS EventLoop, TLAPS

-----------------------------------------------------------------------------
(***************************************************************************)
(* The queue of callbacks                                                  *)
(***************************************************************************)

\* The entries the code queues are entries.
LEMMA EntryTypes ==
    /\ \A t \in Tasks, arg \in WakeArgs : StepEntry(t, arg) \in Entries
    /\ \A t \in Tasks : CancelEntry(t) \in Entries /\ DoneEntry(t) \in Entries
    /\ StopEntry \in Entries
BY DEF Entries, StepEntry, CancelEntry, DoneEntry, StopEntry, WakeArgs

\* No step is queued on an empty queue.
LEMMA EmptyQueue == \A t : ~Queued(<<>>, t) /\ QueuedOnce(<<>>, t)
BY DEF Queued, QueuedOnce

\* Appending an entry queues a step of t exactly when it is one, and keeps a
\* step unique unless t had one already.
LEMMA PushQueue ==
    ASSUME NEW q \in Seq(Entries), NEW e \in Entries
    PROVE  /\ Append(q, e) \in Seq(Entries)
           /\ \A t : Queued(Append(q, e), t)
                        <=> Queued(q, t) \/ (e.kind = "step" /\ e.task = t)
           /\ \A t : /\ QueuedOnce(q, t)
                     /\ ~(Queued(q, t) /\ e.kind = "step" /\ e.task = t)
                     => QueuedOnce(Append(q, e), t)
<1> DEFINE p == Append(q, e)
<1>1. /\ p \in Seq(Entries)
      /\ Len(p) = Len(q) + 1
      /\ DOMAIN p = 1..(Len(q) + 1)
      /\ DOMAIN q = 1..Len(q)
      /\ Len(q) \in Nat
      /\ \A i \in 1..Len(q) : p[i] = q[i]
      /\ p[Len(q) + 1] = e
  OBVIOUS
<1> HIDE DEF p
<1>2. \A t : Queued(p, t) <=> Queued(q, t) \/ (e.kind = "step" /\ e.task = t)
  BY <1>1 DEF Queued, StepAt
<1>3. \A t : /\ QueuedOnce(q, t)
             /\ ~(Queued(q, t) /\ e.kind = "step" /\ e.task = t)
             => QueuedOnce(p, t)
  BY <1>1 DEF Queued, QueuedOnce, StepAt
<1> QED BY <1>1, <1>2, <1>3 DEF p

\* Taking the first entry takes the step of t exactly when it is one.
LEMMA PopQueue ==
    ASSUME NEW q \in Seq(Entries), q # <<>>
    PROVE  /\ Tail(q) \in Seq(Entries)
           /\ Head(q) \in Entries
           /\ \A t : Head(q).kind = "step" /\ Head(q).task = t
                        => Queued(q, t)
           /\ \A t : QueuedOnce(q, t)
                        => /\ QueuedOnce(Tail(q), t)
                           /\ Queued(Tail(q), t)
                                 <=> /\ Queued(q, t)
                                     /\ ~(/\ Head(q).kind = "step"
                                          /\ Head(q).task = t)
<1> DEFINE p == Tail(q)
<1>1. /\ p \in Seq(Entries)
      /\ Head(q) \in Entries
      /\ Len(q) \in Nat \ {0}
      /\ DOMAIN p = 1..(Len(q) - 1)
      /\ DOMAIN q = 1..Len(q)
      /\ \A i \in 1..(Len(q) - 1) : p[i] = q[i + 1]
      /\ Head(q) = q[1]
  OBVIOUS
<1> HIDE DEF p
<1>2. ASSUME NEW t, Head(q).kind = "step", Head(q).task = t
      PROVE  Queued(q, t)
  BY <1>1, <1>2 DEF Queued, StepAt
<1>3. ASSUME NEW t, QueuedOnce(q, t)
      PROVE  /\ QueuedOnce(p, t)
             /\ Queued(p, t) <=> /\ Queued(q, t)
                                 /\ ~(/\ Head(q).kind = "step"
                                      /\ Head(q).task = t)
  <2>1. \A i \in DOMAIN p :
            i + 1 \in DOMAIN q /\ StepAt(p, i, t) = StepAt(q, i + 1, t)
    BY <1>1 DEF StepAt
  <2>2. QueuedOnce(p, t)
    BY <1>1, <1>3, <2>1 DEF QueuedOnce
  <2>3. ASSUME Queued(p, t)
        PROVE  Queued(q, t) /\ ~(Head(q).kind = "step" /\ Head(q).task = t)
    BY <1>1, <1>3, <2>1, <2>3 DEF Queued, QueuedOnce, StepAt
  <2>4. ASSUME Queued(q, t), ~(Head(q).kind = "step" /\ Head(q).task = t)
        PROVE  Queued(p, t)
    <3>1. PICK i \in DOMAIN q : StepAt(q, i, t)
      BY <2>4 DEF Queued
    <3>2. i # 1
      BY <1>1, <2>4, <3>1 DEF StepAt
    <3>3. i - 1 \in DOMAIN p /\ p[i - 1] = q[i]
      BY <1>1, <3>2
    <3> QED BY <3>1, <3>3 DEF Queued, StepAt
  <2> QED BY <2>2, <2>3, <2>4
<1> QED BY <1>1, <1>2, <1>3 DEF p

-----------------------------------------------------------------------------
(***************************************************************************)
(* Type correctness                                                        *)
(***************************************************************************)

Responses == {"handler", "error", "dropped"}

\* finish keeps the types of all it writes.
LEMMA FinishTypes ==
    ASSUME TypeOK, NEW t \in Tasks, NEW completion \in Outcomes,
           NEW response \in Responses, NEW q \in Seq(Entries),
           Finish(t, completion, response, q)
    PROVE  /\ ready' \in Seq(Entries)
           /\ waiting_on' \in [Tasks -> BOOLEAN]
           /\ deferred_throw' \in [Tasks -> BOOLEAN]
           /\ registered' \in [Tasks -> BOOLEAN]
           /\ outcome' \in [Tasks -> Outcomes]
           /\ done_callback' \in [Tasks -> {"none", "added", "scheduled",
                                            "ran", "lost"}]
           /\ channel' \in [Tasks -> {"unused", "open", "handler", "error",
                                      "dropped"}]
           /\ in_flight' \in Int
           /\ live_tasks' \in SUBSET Tasks
<1>1. ready' \in Seq(Entries)
  <2>1. DoneEntry(t) \in Entries
    BY EntryTypes
  <2>2. Append(q, DoneEntry(t)) \in Seq(Entries)
    BY <2>1, PushQueue
  <2> QED BY <2>2 DEF Finish, FireDoneCallbacks
<1>2. /\ channel' \in [Tasks -> {"unused", "open", "handler", "error",
                                 "dropped"}]
      /\ in_flight' \in Int
  BY DEF Finish, Send, TypeOK, TaskTypeOK, Responses
<1>3. CASE Finished(t)
  BY <1>1, <1>2, <1>3 DEF Finish, TypeOK, TaskTypeOK
<1>4. CASE ~Finished(t)
  <2>1. /\ waiting_on' = [waiting_on EXCEPT ![t] = FALSE]
        /\ deferred_throw' = [deferred_throw EXCEPT ![t] = FALSE]
        /\ registered' = [registered EXCEPT ![t] = FALSE]
        /\ outcome' = [outcome EXCEPT ![t] = completion]
        /\ live_tasks' = live_tasks \ {t}
    BY <1>4 DEF Finish
  <2>2. \E c \in {done_callback[t], "scheduled", "lost"} :
            done_callback' = [done_callback EXCEPT ![t] = c]
    BY <1>4 DEF Finish, FireDoneCallbacks
  <2>3. /\ waiting_on \in [Tasks -> BOOLEAN]
        /\ deferred_throw \in [Tasks -> BOOLEAN]
        /\ registered \in [Tasks -> BOOLEAN]
        /\ outcome \in [Tasks -> Outcomes]
        /\ live_tasks \in SUBSET Tasks
        /\ done_callback \in [Tasks -> {"none", "added", "scheduled", "ran",
                                        "lost"}]
    BY DEF TypeOK, TaskTypeOK
  <2>4. done_callback' \in [Tasks -> {"none", "added", "scheduled", "ran",
                                      "lost"}]
    BY <2>2, <2>3
  <2>5. /\ waiting_on' \in [Tasks -> BOOLEAN]
        /\ deferred_throw' \in [Tasks -> BOOLEAN]
        /\ registered' \in [Tasks -> BOOLEAN]
        /\ outcome' \in [Tasks -> Outcomes]
        /\ live_tasks' \in SUBSET Tasks
    BY <2>1, <2>3
  <2> QED BY <1>1, <1>2, <2>4, <2>5
<1> QED BY <1>1, <1>2, <1>3, <1>4

\* A future's cancel() keeps the types of the queue and of the futures.
LEMMA CancelFutureTypes ==
    ASSUME NEW t \in Tasks, NEW q \in Seq(Entries), NEW accepted \in BOOLEAN,
           NEW f \in [Tasks -> {"none", "pending", "cancelling"}],
           CancelFuture(t, f, q, accepted)
    PROVE  /\ ready' \in Seq(Entries)
           /\ future' \in [Tasks -> {"none", "pending", "cancelling"}]
<1>1. StepEntry(t, "cancelled") \in Entries
  BY EntryTypes DEF WakeArgs, WakeResults
<1>2. Append(q, StepEntry(t, "cancelled")) \in Seq(Entries)
  BY <1>1, PushQueue
<1> QED BY <1>2 DEF CancelFuture

\* cancel() keeps the types of all it writes.
LEMMA CancelTypes ==
    ASSUME TypeOK, NEW t \in Tasks, NEW q \in Seq(Entries), Cancel(t, q)
    PROVE  /\ ready' \in Seq(Entries)
           /\ future' \in [Tasks -> {"none", "pending", "cancelling"}]
           /\ must_cancel' \in [Tasks -> BOOLEAN]
           /\ cancel_requests' \in [Tasks -> Nat]
<1>1. CASE Finished(t)
  BY <1>1 DEF Cancel, cancelVars, TypeOK, LoopTypeOK, TaskTypeOK
<1>2. CASE ~Finished(t)
  <2>1. PICK accepted \in BOOLEAN :
            /\ CancelFuture(t, future, q, accepted)
            /\ must_cancel' = [must_cancel EXCEPT ![t] = @ \/ ~accepted]
    BY <1>2 DEF Cancel
  <2>2. /\ ready' \in Seq(Entries)
        /\ future' \in [Tasks -> {"none", "pending", "cancelling"}]
    BY <2>1, CancelFutureTypes DEF TypeOK, LoopTypeOK
  <2>3. must_cancel' \in [Tasks -> BOOLEAN]
    BY <2>1 DEF TypeOK, TaskTypeOK
  <2>4. cancel_requests' \in [Tasks -> Nat]
    <3>1. cancel_requests' = [cancel_requests EXCEPT ![t] = @ + 1]
      BY <1>2 DEF Cancel
    <3>2. cancel_requests \in [Tasks -> Nat]
      BY DEF TypeOK, TaskTypeOK
    <3> QED BY <3>1, <3>2
  <2> QED BY <2>2, <2>3, <2>4
<1> QED BY <1>1, <1>2

\* Every action keeps the types.
LEMMA TypeStep ==
    ASSUME TypeOK, Next
    PROVE  TypeOK'
<1> USE DEF loopVars, taskVars, stepVars, cancelVars, finishVars, channelVars,
            serverVars, stopVars
<1>0. ready \in Seq(Entries)
  BY DEF TypeOK, LoopTypeOK
<1>1. ASSUME NEW t \in Tasks, TakeTurn(t), UNCHANGED <<serverVars, stopVars>>
      PROVE  TypeOK'
  <2>0. PICK arg \in WakeArgs : \/ SpuriousWake(t, arg)
                                \/ CancelledBeforeStart(t, arg)
                                \/ StartFails(t, arg)
                                \/ EnterFails(t, arg)
                                \/ BeginStep(t, arg)
    BY <1>1 DEF TakeTurn
  <2>1. Tail(ready) \in Seq(Entries)
    BY <1>0, <2>0, PopQueue DEF SpuriousWake, CancelledBeforeStart,
       StartFails, EnterFails, BeginStep, Turn
  <2>2. CASE SpuriousWake(t, arg)
    BY <1>1, <2>1, <2>2 DEF SpuriousWake, TypeOK, LoopTypeOK, TaskTypeOK
  <2>3. CASE CancelledBeforeStart(t, arg)
    <3>1. Finish(t, "cancelled", "error", Tail(ready))
      BY <2>3 DEF CancelledBeforeStart
    <3>2. must_cancel' \in [Tasks -> BOOLEAN]
      BY <2>3 DEF CancelledBeforeStart, TypeOK, TaskTypeOK
    <3> QED BY <1>1, <2>1, <2>3, <3>1, <3>2, FinishTypes
            DEF CancelledBeforeStart, TypeOK, LoopTypeOK, TaskTypeOK,
                Outcomes, Responses
  <2>4. CASE StartFails(t, arg)
    <3>1. PICK completion \in {"raised", "aborted"} :
              Finish(t, completion, "error", Tail(ready))
      BY <2>4 DEF StartFails
    <3>2. completion \in Outcomes /\ "error" \in Responses
      BY DEF Outcomes, Responses
    <3>3. UNCHANGED <<loop, future, stepVars, cancelVars, serverVars,
                      stopVars>>
      BY <1>1, <2>4 DEF StartFails
    <3> QED BY <2>1, <3>1, <3>2, <3>3, FinishTypes
            DEF TypeOK, LoopTypeOK, TaskTypeOK
  <2>5. CASE EnterFails(t, arg)
    <3>1. Finish(t, "aborted", "error", Tail(ready))
      BY <2>5 DEF EnterFails
    <3>2. must_cancel' \in [Tasks -> BOOLEAN]
      BY <2>5 DEF EnterFails, TypeOK, TaskTypeOK
    <3>3. coroutine' \in [Tasks -> {"none", "suspended", "running", "closed",
                                    "abandoned"}]
      <4>1. \E c \in {"none", "suspended", "running", "closed", "abandoned"} :
                coroutine' = [coroutine EXCEPT ![t] = c]
        BY <2>5 DEF EnterFails, CloseResults, TypeOK, TaskTypeOK
      <4> QED BY <4>1 DEF TypeOK, TaskTypeOK
    <3> QED BY <1>1, <2>1, <2>5, <3>1, <3>2, <3>3, FinishTypes
            DEF EnterFails, TypeOK, LoopTypeOK, TaskTypeOK,
                Outcomes, Responses
  <2>6. CASE BeginStep(t, arg)
    <3>1. /\ running' = t
          /\ pending_throw' \in Throws
      BY <2>6 DEF BeginStep, PendingThrow, Throws
    <3>2. /\ waiting_on' \in [Tasks -> BOOLEAN]
          /\ must_cancel' \in [Tasks -> BOOLEAN]
          /\ deferred_throw' \in [Tasks -> BOOLEAN]
      BY <2>6 DEF BeginStep, TypeOK, TaskTypeOK
    <3>3. coroutine' \in [Tasks -> {"none", "suspended", "running", "closed",
                                    "abandoned"}]
      BY <2>6 DEF BeginStep, TypeOK, TaskTypeOK
    <3>4. registered' \in [Tasks -> BOOLEAN]
      <4>1. registered \in [Tasks -> BOOLEAN]
        BY DEF TypeOK, TaskTypeOK
      <4>2. PICK v \in IF coroutine[t] = "none" THEN BOOLEAN
                       ELSE {registered[t]} :
                registered' = [registered EXCEPT ![t] = v]
        BY <2>6 DEF BeginStep
      <4>3. v \in BOOLEAN
        BY <4>1, <4>2
      <4> QED BY <4>1, <4>2, <4>3
    <3>5. /\ ready' = Tail(ready)
          /\ UNCHANGED <<loop, future, cancel_requests, outcome,
                         done_callback, live_tasks, channelVars, serverVars,
                         stopVars>>
      BY <1>1, <2>6 DEF BeginStep
    <3> QED BY <2>1, <3>1, <3>2, <3>3, <3>4, <3>5
            DEF TypeOK, LoopTypeOK, TaskTypeOK
  <2> QED BY <2>0, <2>2, <2>3, <2>4, <2>5, <2>6
<1>2. ASSUME NEW t \in Tasks, EndStep(t), UNCHANGED <<serverVars, stopVars>>
      PROVE  TypeOK'
  <2>0. \A arg \in WakeArgs :
            Append(ready, StepEntry(t, arg)) \in Seq(Entries)
    BY <1>0, EntryTypes, PushQueue
  <2>1. ASSUME NEW c \in {"suspended", "closed", "abandoned"}, LeaveStep(t, c)
        PROVE  /\ running' \in Tasks \cup {NoTask}
               /\ pending_throw' \in Throws
               /\ coroutine' \in [Tasks -> {"none", "suspended", "running",
                                            "closed", "abandoned"}]
    BY <2>1 DEF LeaveStep, Throws, TypeOK, TaskTypeOK
  <2>2. CASE StepReturned(t)
    <3>1. PICK response \in {"handler", "error"} :
              Finish(t, "returned", response, ready)
      BY <2>2 DEF StepReturned
    <3> QED BY <1>0, <1>2, <2>1, <2>2, <3>1, FinishTypes
            DEF StepReturned, TypeOK, LoopTypeOK, TaskTypeOK, Outcomes,
                Responses
  <2>3. CASE StepRaised(t)
    <3>1. PICK completion \in {"raised", "cancelled"} :
              Finish(t, completion, "error", ready)
      BY <2>3 DEF StepRaised
    <3> QED BY <1>0, <1>2, <2>1, <2>3, <3>1, FinishTypes
            DEF StepRaised, TypeOK, LoopTypeOK, TaskTypeOK, Outcomes,
                Responses
  <2>4. CASE StepYieldsNone(t)
    BY <1>2, <2>0, <2>1, <2>4 DEF StepYieldsNone, TypeOK, LoopTypeOK,
       TaskTypeOK, WakeArgs
  <2>5. CASE StepBadYield(t)
    <3>1. deferred_throw' \in [Tasks -> BOOLEAN]
      BY <2>5 DEF StepBadYield, TypeOK, TaskTypeOK
    <3> QED BY <1>2, <2>0, <2>1, <2>5, <3>1 DEF StepBadYield, TypeOK,
            LoopTypeOK, TaskTypeOK, WakeArgs
  <2>6. CASE StepParks(t)
    <3>1. PICK accepted \in BOOLEAN :
              /\ CancelFuture(t, [future EXCEPT ![t] = "pending"], ready,
                              accepted)
              /\ must_cancel' = [must_cancel EXCEPT ![t] = @ /\ ~accepted]
      BY <2>6 DEF StepParks, ApplyCancelRequestedMidStep
    <3>2. [future EXCEPT ![t] = "pending"]
              \in [Tasks -> {"none", "pending", "cancelling"}]
      BY DEF TypeOK, LoopTypeOK
    <3>3. /\ ready' \in Seq(Entries)
          /\ future' \in [Tasks -> {"none", "pending", "cancelling"}]
      BY <1>0, <3>1, <3>2, CancelFutureTypes
    <3>4. must_cancel' \in [Tasks -> BOOLEAN]
      BY <3>1 DEF TypeOK, TaskTypeOK
    <3>5. waiting_on' \in [Tasks -> BOOLEAN]
      BY <2>6 DEF StepParks, TypeOK, TaskTypeOK
    <3> QED BY <1>2, <2>1, <2>6, <3>3, <3>4, <3>5 DEF StepParks, TypeOK,
            LoopTypeOK, TaskTypeOK
  <2>7. CASE StepParksOnDone(t)
    <3>1. ready' \in Seq(Entries)
      BY <2>0, <2>7 DEF StepParksOnDone, WakeArgs
    <3>2. waiting_on' \in [Tasks -> BOOLEAN]
      BY <2>7 DEF StepParksOnDone, TypeOK, TaskTypeOK
    <3> QED BY <1>2, <2>1, <2>7, <3>1, <3>2 DEF StepParksOnDone, TypeOK,
            LoopTypeOK, TaskTypeOK
  <2>8. CASE StepAborts(t)
    <3>1. Finish(t, "aborted", "error", ready)
      BY <2>8 DEF StepAborts
    <3>2. PICK c \in {"closed", "abandoned"} : LeaveStep(t, c)
      BY <2>8 DEF StepAborts, CloseResults
    <3> QED BY <1>0, <1>2, <2>1, <2>8, <3>1, <3>2, FinishTypes
            DEF StepAborts, TypeOK, LoopTypeOK, TaskTypeOK, Outcomes,
                Responses
  <2> QED BY <1>2, <2>2, <2>3, <2>4, <2>5, <2>6, <2>7, <2>8 DEF EndStep
<1>3. ASSUME NEW t \in Tasks, UserCall(t), UNCHANGED <<serverVars, stopVars>>
      PROVE  TypeOK'
  <2>1. CASE CancelCall(t)
    <3>1. Cancel(t, ready)
      BY <2>1 DEF CancelCall
    <3> QED BY <1>0, <1>3, <2>1, <3>1, CancelTypes DEF CancelCall, TypeOK,
            LoopTypeOK, TaskTypeOK
  <2>2. CASE Uncancel(t)
    <3>1. must_cancel' \in [Tasks -> BOOLEAN]
      BY <2>2 DEF Uncancel, TypeOK, TaskTypeOK
    <3>2. cancel_requests' \in [Tasks -> Nat]
      <4>1. cancel_requests' = [cancel_requests EXCEPT
                                   ![t] = IF @ > 0 THEN @ - 1 ELSE 0]
        BY <2>2 DEF Uncancel
      <4>2. cancel_requests \in [Tasks -> Nat]
        BY DEF TypeOK, TaskTypeOK
      <4> QED BY <4>1, <4>2
    <3> QED BY <1>3, <2>2, <3>1, <3>2 DEF Uncancel, TypeOK, LoopTypeOK,
            TaskTypeOK
  <2>3. CASE AddDoneCallback(t)
    <3>1. Append(ready, DoneEntry(t)) \in Seq(Entries)
      BY <1>0, EntryTypes, PushQueue
    <3>2. ready' \in Seq(Entries)
      BY <1>0, <2>3, <3>1 DEF AddDoneCallback
    <3>3. done_callback' \in [Tasks -> {"none", "added", "scheduled", "ran",
                                        "lost"}]
      <4>1. \/ done_callback' = [done_callback EXCEPT ![t] = "scheduled"]
            \/ done_callback' = [done_callback EXCEPT ![t] = "added"]
        BY <2>3 DEF AddDoneCallback
      <4> QED BY <4>1 DEF TypeOK, TaskTypeOK
    <3>4. UNCHANGED <<loop, future, stepVars, cancelVars, waiting_on,
                      deferred_throw, registered, outcome, live_tasks,
                      channelVars, serverVars, stopVars>>
      BY <1>3, <2>3 DEF AddDoneCallback
    <3> QED BY <3>2, <3>3, <3>4 DEF TypeOK, LoopTypeOK, TaskTypeOK
  <2>4. CASE RemoveDoneCallback(t)
    BY <1>3, <2>4 DEF RemoveDoneCallback, TypeOK, LoopTypeOK, TaskTypeOK
  <2> QED BY <1>3, <2>1, <2>2, <2>3, <2>4 DEF UserCall
<1>4. ASSUME NEW t \in Tasks, RunCancel(t)
      PROVE  TypeOK'
  <2>1. Tail(ready) \in Seq(Entries) /\ Cancel(t, Tail(ready))
    BY <1>0, <1>4, PopQueue DEF RunCancel
  <2> QED BY <1>4, <2>1, CancelTypes DEF RunCancel, TypeOK, LoopTypeOK,
          TaskTypeOK
<1>5. ASSUME NEW t \in Tasks, RunDoneCallback(t)
      PROVE  TypeOK'
  <2>1. Tail(ready) \in Seq(Entries)
    BY <1>0, <1>5, PopQueue DEF RunDoneCallback
  <2> QED BY <1>5, <2>1 DEF RunDoneCallback, TypeOK, LoopTypeOK, TaskTypeOK
<1>6. CASE RunStop
  <2>1. Tail(ready) \in Seq(Entries)
    BY <1>0, <1>6, PopQueue DEF RunStop
  <2> QED BY <1>6, <2>1 DEF RunStop, TypeOK, LoopTypeOK, TaskTypeOK
<1>7. CASE LoopExits \/ LoopFails
  <2>1. CloseLoop
    BY <1>7 DEF LoopExits, LoopFails
  <2>2. done_callback' \in [Tasks -> {"none", "added", "scheduled", "ran",
                                      "lost"}]
    BY <2>1 DEF CloseLoop, TypeOK, TaskTypeOK
  <2> QED BY <2>1, <2>2 DEF CloseLoop, TypeOK, LoopTypeOK, TaskTypeOK
<1>8. ASSUME NEW t \in Tasks, FutureResolves(t)
      PROVE  TypeOK'
  <2>1. \A arg \in WakeArgs :
            Append(ready, StepEntry(t, arg)) \in Seq(Entries)
    BY <1>0, EntryTypes, PushQueue
  <2>2. ready' \in Seq(Entries)
    BY <1>8, <2>1 DEF FutureResolves, FutureDone, WakeArgs
  <2> QED BY <1>8, <2>2 DEF FutureResolves, FutureDone, TypeOK, LoopTypeOK,
          TaskTypeOK
<1>9. ASSUME NEW t \in Tasks, ServerTask(t)
      PROVE  TypeOK'
  <2>1. CASE ScheduleFails(t)
    BY <2>1 DEF ScheduleFails, TypeOK, LoopTypeOK, TaskTypeOK, Requests
  <2>2. CASE ScheduleInsert(t)
    BY <2>2 DEF ScheduleInsert, TypeOK, LoopTypeOK, TaskTypeOK, Requests
  <2>3. CASE ScheduleFirstStep(t)
    <3>1. Append(ready, StepEntry(t, "none")) \in Seq(Entries)
      BY <1>0, EntryTypes, PushQueue DEF WakeArgs
    <3> QED BY <2>3, <3>1 DEF ScheduleFirstStep, TypeOK, LoopTypeOK,
            TaskTypeOK, Requests
  <2>4. CASE ScheduleRefused(t)
    BY <2>4 DEF ScheduleRefused, Send, TypeOK, LoopTypeOK, TaskTypeOK,
       Requests
  <2>5. CASE Response(t) \/ DropRequest(t)
    <3>1. request' \in [Tasks -> Requests]
      BY <2>5 DEF Response, DropRequest, TypeOK, Requests
    <3>2. UNCHANGED <<loopVars, taskVars, stopVars>>
      BY <2>5 DEF Response, DropRequest
    <3> QED BY <3>1, <3>2 DEF TypeOK, LoopTypeOK, TaskTypeOK
  <2>6. CASE DropCancels(t)
    <3>1. Append(ready, CancelEntry(t)) \in Seq(Entries)
      BY <1>0, EntryTypes, PushQueue
    <3> QED BY <1>0, <2>6, <3>1 DEF DropCancels, TryCallSoon, TypeOK,
            LoopTypeOK, TaskTypeOK, Requests
  <2> QED BY <1>9, <2>1, <2>2, <2>3, <2>4, <2>5, <2>6 DEF ServerTask
<1>10. ASSUME NEW s \in Stoppers, CancelSnapshot(s) \/ CallsStop(s)
       PROVE  TypeOK'
  <2>1. ASSUME NEW t \in Tasks, CancelOne(s, t)
        PROVE  TypeOK'
    <3>1. Append(ready, CancelEntry(t)) \in Seq(Entries)
      BY <1>0, EntryTypes, PushQueue
    <3> QED BY <1>0, <2>1, <3>1 DEF CancelOne, TryCallSoon, TypeOK,
            LoopTypeOK, TaskTypeOK
  <2>2. ASSUME NEW t \in Tasks, DisposeCloses(s, t)
        PROVE  TypeOK'
    <3>1. \E c \in {"none", "suspended", "running", "closed", "abandoned"} :
              coroutine' = [coroutine EXCEPT ![t] = c]
      BY <2>2 DEF DisposeCloses, CloseResults, TypeOK, TaskTypeOK
    <3>2. coroutine' \in [Tasks -> {"none", "suspended", "running", "closed",
                                    "abandoned"}]
      BY <3>1 DEF TypeOK, TaskTypeOK
    <3> QED BY <2>2, <3>2 DEF DisposeCloses, TypeOK, LoopTypeOK, TaskTypeOK
  <2>3. ASSUME NEW t \in Tasks, DisposeFinishes(s, t)
        PROVE  TypeOK'
    <3>1. Finish(t, "aborted", "error", ready)
      BY <2>3 DEF DisposeFinishes
    <3> QED BY <1>0, <2>3, <3>1, FinishTypes DEF DisposeFinishes, TypeOK,
            LoopTypeOK, TaskTypeOK, Outcomes, Responses
  <2>4. CASE StopTakesHandle(s)
    <3>1. Append(ready, StopEntry) \in Seq(Entries)
      BY <1>0, EntryTypes, PushQueue
    <3> QED BY <1>0, <2>4, <3>1 DEF StopTakesHandle, TryCallSoon, TypeOK,
            LoopTypeOK, TaskTypeOK
  <2>5. CASE CancelSnapshot(s) \/ StopDrains(s)
    <3>1. /\ work' = [work EXCEPT ![s] = live_tasks]
          /\ \/ stopper' = [stopper EXCEPT ![s] = "cancelling"]
             \/ stopper' = [stopper EXCEPT ![s] = "disposing"]
          /\ live_tasks' \in {live_tasks, {}}
          /\ UNCHANGED <<loopVars, stepVars, cancelVars, waiting_on,
                         deferred_throw, registered, outcome, done_callback,
                         channelVars, serverVars, thread, closing>>
      BY <2>5 DEF CancelSnapshot, StopDrains
    <3>2. /\ live_tasks' \in SUBSET Tasks
          /\ work' \in [Stoppers -> SUBSET Tasks]
      BY <3>1 DEF TypeOK, TaskTypeOK
    <3> QED BY <3>1, <3>2 DEF TypeOK, LoopTypeOK, TaskTypeOK
  <2>6. CASE StopFindsNoHandle(s) \/ StopJoins(s) \/ StopReturns(s)
    <3>1. /\ \/ stopper' = [stopper EXCEPT ![s] = "draining"]
             \/ stopper' = [stopper EXCEPT ![s] = "done"]
          /\ UNCHANGED <<loopVars, taskVars, serverVars, thread, work,
                         closing>>
      BY <2>6 DEF StopFindsNoHandle, StopJoins, StopReturns
    <3> QED BY <3>1 DEF TypeOK, LoopTypeOK, TaskTypeOK
  <2> QED BY <1>10, <2>1, <2>2, <2>3, <2>4, <2>5, <2>6 DEF CallsStop
<1> QED BY <1>1, <1>2, <1>3, <1>4, <1>5, <1>6, <1>7, <1>8, <1>9, <1>10
        DEF Next, LoopThread

\* Every state of a loop is well typed.
THEOREM TypeCorrect == Spec => []TypeOK
<1>1. Init => TypeOK
  BY DEF Init, LoopInit, TaskInit, TypeOK, LoopTypeOK, TaskTypeOK, Requests,
     Throws, Outcomes
<1>2. TypeOK /\ UNCHANGED vars => TypeOK'
  BY DEF vars, loopVars, taskVars, stepVars, cancelVars, finishVars,
     channelVars, serverVars, stopVars, TypeOK, LoopTypeOK, TaskTypeOK
<1> QED BY <1>1, <1>2, TypeStep, PTL DEF Spec

-----------------------------------------------------------------------------
(***************************************************************************)
(* One place to resume from                                                *)
(*                                                                         *)
(* AtMostOneResume and NoLostWakeup are inductive only together: that a    *)
(* step is unique when it is queued rests on the running task having no    *)
(* step queued and no future holding it, and that a request which has not  *)
(* reached the loop has nothing to be resumed from rests on both.          *)
(***************************************************************************)

ResumeOf(t) ==
    /\ QueuedOnce(ready, t)
    /\ running = t => Alive /\ ~Queued(ready, t) /\ future[t] = "none"
    /\ Queued(ready, t) => future[t] = "none"
    /\ Accepted(t) /\ ~Finished(t) /\ Alive
           => running = t \/ Queued(ready, t) \/ future[t] # "none"
    /\ ~Accepted(t)
           => running # t /\ ~Queued(ready, t) /\ future[t] = "none"

ResumeInv == \A t \in Tasks : ResumeOf(t)

\* finish queues no step, and ends t only.
LEMMA FinishResume ==
    ASSUME TypeOK, NEW t \in Tasks, NEW completion \in Outcomes \ {"pending"},
           NEW response, NEW q \in Seq(Entries),
           Finish(t, completion, response, q)
    PROVE  /\ \A u : /\ Queued(ready', u) <=> Queued(q, u)
                     /\ QueuedOnce(q, u) => QueuedOnce(ready', u)
           /\ \A u \in Tasks : Finished(u)' <=> Finished(u) \/ u = t
<1>1. /\ \A u : /\ Queued(ready', u) <=> Queued(q, u)
                /\ QueuedOnce(q, u) => QueuedOnce(ready', u)
  <2>1. CASE ready' = q
    BY <2>1
  <2>2. CASE ready' = Append(q, DoneEntry(t))
    BY <2>2, EntryTypes, PushQueue DEF DoneEntry
  <2> QED BY <2>1, <2>2 DEF Finish, FireDoneCallbacks
<1>2. ASSUME NEW u \in Tasks
      PROVE  Finished(u)' <=> Finished(u) \/ u = t
  BY DEF Finish, Finished, TypeOK, TaskTypeOK
<1> QED BY <1>1, <1>2

\* What cancel() on a future does to the places t can be resumed from: the
\* future gives way to a queued wake, or keeps t.
LEMMA CancelFutureResume ==
    ASSUME NEW t \in Tasks, NEW q \in Seq(Entries), NEW accepted \in BOOLEAN,
           NEW f \in [Tasks -> {"none", "pending", "cancelling"}],
           CancelFuture(t, f, q, accepted),
           \A u \in Tasks : QueuedOnce(q, u),
           f[t] # "none" => ~Queued(q, t)
    PROVE  /\ \A u \in Tasks :
                  /\ QueuedOnce(ready', u)
                  /\ u # t => /\ Queued(ready', u) <=> Queued(q, u)
                              /\ future'[u] = f[u]
           /\ \/ /\ f[t] # "none"
                 /\ future'[t] = "none"
                 /\ Queued(ready', t)
              \/ /\ future'[t] = "none" <=> f[t] = "none"
                 /\ Queued(ready', t) <=> Queued(q, t)
<1>1. CASE /\ f[t] # "none"
           /\ future' = [f EXCEPT ![t] = "none"]
           /\ ready' = Append(q, StepEntry(t, "cancelled"))
  <2>1. StepEntry(t, "cancelled") \in Entries
    BY EntryTypes DEF WakeArgs, WakeResults
  <2> QED BY <1>1, <2>1, PushQueue DEF StepEntry
<1>2. CASE /\ f[t] # "none"
           /\ future' = [f EXCEPT ![t] = "cancelling"]
           /\ ready' = q
  BY <1>2
<1>3. CASE future' = f /\ ready' = q
  BY <1>3
<1> QED BY <1>1, <1>2, <1>3 DEF CancelFuture

\* cancel() keeps the invariant, called with the queue as it is or with its
\* own callback just taken from it.
LEMMA CancelResume ==
    ASSUME TypeOK, ResumeInv, NEW t \in Tasks, NEW q \in Seq(Entries),
           Cancel(t, q),
           \A u \in Tasks : QueuedOnce(q, u)
                            /\ (Queued(q, u) <=> Queued(ready, u)),
           UNCHANGED <<loop, running, outcome, request>>
    PROVE  ResumeInv'
<1>1. CASE ready' = q /\ future' = future
  BY <1>1 DEF ResumeInv, ResumeOf, Accepted, Alive, Finished
<1>2. CASE ~Finished(t)
  <2>1. PICK accepted \in BOOLEAN : CancelFuture(t, future, q, accepted)
    BY <1>2 DEF Cancel
  <2>2. future[t] # "none" => ~Queued(q, t)
    BY DEF ResumeInv, ResumeOf
  <2>3. future \in [Tasks -> {"none", "pending", "cancelling"}]
    BY DEF TypeOK, LoopTypeOK
  <2> QED BY <2>1, <2>2, <2>3, CancelFutureResume
          DEF ResumeInv, ResumeOf, Accepted, Alive, Finished
<1> QED BY <1>1, <1>2 DEF Cancel, cancelVars

\* A turn takes the only step of its task.
LEMMA TurnResume ==
    ASSUME TypeOK, ResumeInv, NEW t \in Tasks, NEW arg, Turn(t, arg)
    PROVE  /\ Tail(ready) \in Seq(Entries)
           /\ Queued(ready, t)
           /\ Accepted(t) /\ future[t] = "none" /\ running = NoTask
           /\ \A u \in Tasks :
                  /\ QueuedOnce(Tail(ready), u)
                  /\ Queued(Tail(ready), u) <=> Queued(ready, u) /\ u # t
<1>1. ready \in Seq(Entries) /\ ready # <<>>
  BY DEF TypeOK, LoopTypeOK, Turn
<1>2. Head(ready).kind = "step" /\ Head(ready).task = t
  BY DEF Turn, StepEntry
<1>3. \A u \in Tasks : QueuedOnce(ready, u)
  BY DEF ResumeInv, ResumeOf
<1>4. Tail(ready) \in Seq(Entries) /\ Queued(ready, t)
  BY <1>1, <1>2, PopQueue
<1>5. Accepted(t) /\ future[t] = "none" /\ running = NoTask
  BY <1>4 DEF ResumeInv, ResumeOf, Turn
<1>6. ASSUME NEW u \in Tasks
      PROVE  /\ QueuedOnce(Tail(ready), u)
             /\ Queued(Tail(ready), u) <=> Queued(ready, u) /\ u # t
  BY <1>1, <1>2, <1>3, PopQueue
<1> QED BY <1>4, <1>5, <1>6

\* A turn that finishes its task.
LEMMA TurnFinishes ==
    ASSUME TypeOK, ResumeInv, NEW t \in Tasks, NEW arg, Turn(t, arg),
           NEW completion \in Outcomes \ {"pending"},
           Finish(t, completion, "error", Tail(ready)),
           UNCHANGED <<loop, future, running, request>>
    PROVE  ResumeInv'
<1>1. Tail(ready) \in Seq(Entries)
  BY TurnResume
<1>2. /\ \A u : /\ Queued(ready', u) <=> Queued(Tail(ready), u)
                /\ QueuedOnce(Tail(ready), u) => QueuedOnce(ready', u)
      /\ \A u \in Tasks : Finished(u)' <=> Finished(u) \/ u = t
  BY <1>1, FinishResume
<1>3. SUFFICES ASSUME NEW u \in Tasks PROVE ResumeOf(u)'
  BY DEF ResumeInv
<1> QED BY <1>2, TurnResume, NoTaskAssumption
        DEF ResumeInv, ResumeOf, Accepted, Alive

\* A step that finishes its task.
LEMMA StepFinishes ==
    ASSUME TypeOK, ResumeInv, NEW t \in Tasks, running = t,
           NEW completion \in Outcomes \ {"pending"}, NEW response,
           Finish(t, completion, response, ready), running' = NoTask,
           UNCHANGED <<loop, future, request>>
    PROVE  ResumeInv'
<1>1. ready \in Seq(Entries)
  BY DEF TypeOK, LoopTypeOK
<1>2. /\ \A u : /\ Queued(ready', u) <=> Queued(ready, u)
                /\ QueuedOnce(ready, u) => QueuedOnce(ready', u)
      /\ \A u \in Tasks : Finished(u)' <=> Finished(u) \/ u = t
  BY <1>1, FinishResume
<1>3. SUFFICES ASSUME NEW u \in Tasks PROVE ResumeOf(u)'
  BY DEF ResumeInv
<1> QED BY <1>2, NoTaskAssumption DEF ResumeInv, ResumeOf, Accepted, Alive

\* A step that queues the next one.
LEMMA StepRequeues ==
    ASSUME TypeOK, ResumeInv, NEW t \in Tasks, running = t,
           NEW arg \in WakeArgs, ready' = Append(ready, StepEntry(t, arg)),
           running' = NoTask, UNCHANGED <<loop, future, request, outcome>>
    PROVE  ResumeInv'
<1>1. ready \in Seq(Entries) /\ StepEntry(t, arg) \in Entries
  BY EntryTypes DEF TypeOK, LoopTypeOK
<1>2. SUFFICES ASSUME NEW u \in Tasks PROVE ResumeOf(u)'
  BY DEF ResumeInv
<1>3. StepEntry(t, arg).kind = "step" /\ StepEntry(t, arg).task = t
  BY DEF StepEntry
<1>4. /\ Queued(ready', u) <=> Queued(ready, u) \/ u = t
      /\ QueuedOnce(ready', u)
  BY <1>1, <1>3, PushQueue DEF ResumeInv, ResumeOf
<1> QED BY <1>4, NoTaskAssumption
        DEF ResumeInv, ResumeOf, Accepted, Alive, Finished

\* A step that touches no step in the queue and nothing a task is resumed
\* from.
LEMMA QuietStep ==
    ASSUME ResumeInv,
           \A u \in Tasks : /\ Queued(ready', u) <=> Queued(ready, u)
                            /\ QueuedOnce(ready', u)
                            /\ Accepted(u)' <=> Accepted(u)
                            /\ Finished(u) => Finished(u)',
           Alive' <=> Alive, UNCHANGED <<future, running>>
    PROVE  ResumeInv'
BY DEF ResumeInv, ResumeOf

\* Every action keeps the invariant.
LEMMA ResumeStep ==
    ASSUME TypeOK, ResumeInv, Next
    PROVE  ResumeInv'
<1> USE DEF loopVars, taskVars, stepVars, cancelVars, finishVars, channelVars,
            serverVars, stopVars
<1>0. /\ ready \in Seq(Entries)
      /\ future \in [Tasks -> {"none", "pending", "cancelling"}]
      /\ \A u \in Tasks : QueuedOnce(ready, u)
  BY DEF TypeOK, LoopTypeOK, ResumeInv, ResumeOf
\* Putting a callback that is no step on the queue, or taking one, is quiet.
<1>a. ASSUME NEW e \in Entries, e.kind # "step", NEW u \in Tasks
      PROVE  /\ Queued(Append(ready, e), u) <=> Queued(ready, u)
             /\ QueuedOnce(Append(ready, e), u)
  BY <1>0, <1>a, PushQueue
<1>b. ASSUME ready # <<>>, Head(ready).kind # "step", NEW u \in Tasks
      PROVE  /\ Queued(Tail(ready), u) <=> Queued(ready, u)
             /\ QueuedOnce(Tail(ready), u)
  BY <1>0, <1>b, PopQueue
<1>c. \A t \in Tasks : /\ CancelEntry(t) \in Entries
                       /\ CancelEntry(t).kind # "step"
                       /\ DoneEntry(t) \in Entries
                       /\ DoneEntry(t).kind # "step"
  BY EntryTypes DEF CancelEntry, DoneEntry
<1>d. StopEntry \in Entries /\ StopEntry.kind # "step"
  BY EntryTypes DEF StopEntry
<1>1. ASSUME NEW t \in Tasks, TakeTurn(t), UNCHANGED <<serverVars, stopVars>>
      PROVE  ResumeInv'
  <2>0. PICK arg \in WakeArgs : \/ SpuriousWake(t, arg)
                                \/ CancelledBeforeStart(t, arg)
                                \/ StartFails(t, arg)
                                \/ EnterFails(t, arg)
                                \/ BeginStep(t, arg)
    BY <1>1 DEF TakeTurn
  <2>2. CASE SpuriousWake(t, arg)
    <3>1. Turn(t, arg) /\ Finished(t)
      BY <2>2 DEF SpuriousWake
    <3>2. SUFFICES ASSUME NEW u \in Tasks PROVE ResumeOf(u)'
      BY DEF ResumeInv
    <3> QED BY <1>1, <2>2, <3>1, TurnResume, NoTaskAssumption
            DEF SpuriousWake, ResumeInv, ResumeOf, Accepted, Alive, Finished
  <2>3. CASE CancelledBeforeStart(t, arg)
    <3>1. Turn(t, arg) /\ Finish(t, "cancelled", "error", Tail(ready))
      BY <2>3 DEF CancelledBeforeStart
    <3> QED BY <1>1, <2>3, <3>1, TurnFinishes
            DEF CancelledBeforeStart, Outcomes
  <2>4. CASE StartFails(t, arg)
    <3>1. Turn(t, arg)
      BY <2>4 DEF StartFails
    <3>2. PICK completion \in {"raised", "aborted"} :
              Finish(t, completion, "error", Tail(ready))
      BY <2>4 DEF StartFails
    <3> QED BY <1>1, <2>4, <3>1, <3>2, TurnFinishes DEF StartFails, Outcomes
  <2>5. CASE EnterFails(t, arg)
    <3>1. Turn(t, arg) /\ Finish(t, "aborted", "error", Tail(ready))
      BY <2>5 DEF EnterFails
    <3> QED BY <1>1, <2>5, <3>1, TurnFinishes DEF EnterFails, Outcomes
  <2>6. CASE BeginStep(t, arg)
    <3>1. /\ Turn(t, arg)
          /\ Alive
          /\ running' = t
          /\ ready' = Tail(ready)
      BY <2>6 DEF BeginStep, Turn
    <3>2. UNCHANGED <<loop, future, outcome, request>>
      BY <1>1, <2>6 DEF BeginStep
    <3>3. SUFFICES ASSUME NEW u \in Tasks PROVE ResumeOf(u)'
      BY DEF ResumeInv
    <3> QED BY <3>1, <3>2, TurnResume, NoTaskAssumption
            DEF ResumeInv, ResumeOf, Accepted, Alive, Finished
  <2> QED BY <2>0, <2>2, <2>3, <2>4, <2>5, <2>6
<1>2. ASSUME NEW t \in Tasks, EndStep(t), UNCHANGED <<serverVars, stopVars>>
      PROVE  ResumeInv'
  <2>1. CASE StepReturned(t)
    <3>1. PICK response \in {"handler", "error"} :
              Finish(t, "returned", response, ready)
      BY <2>1 DEF StepReturned
    <3> QED BY <1>2, <2>1, <3>1, StepFinishes
            DEF StepReturned, LeaveStep, Outcomes
  <2>2. CASE StepRaised(t)
    <3>1. PICK completion \in {"raised", "cancelled"} :
              Finish(t, completion, "error", ready)
      BY <2>2 DEF StepRaised
    <3> QED BY <1>2, <2>2, <3>1, StepFinishes
            DEF StepRaised, LeaveStep, Outcomes
  <2>3. CASE StepYieldsNone(t)
    BY <1>2, <2>3, StepRequeues DEF StepYieldsNone, LeaveStep, WakeArgs
  <2>4. CASE StepBadYield(t)
    BY <1>2, <2>4, StepRequeues DEF StepBadYield, LeaveStep, WakeArgs
  <2>5. CASE StepParks(t)
    <3> DEFINE parked == [future EXCEPT ![t] = "pending"]
    <3>1. PICK accepted \in BOOLEAN :
              CancelFuture(t, parked, ready, accepted)
      BY <2>5 DEF StepParks, ApplyCancelRequestedMidStep
    <3>2. /\ running = t
          /\ running' = NoTask
          /\ UNCHANGED <<loop, outcome, request>>
      BY <1>2, <2>5 DEF StepParks, ApplyCancelRequestedMidStep, LeaveStep
    <3>3. ~Queued(ready, t)
      BY <3>2 DEF ResumeInv, ResumeOf
    <3>4. /\ parked \in [Tasks -> {"none", "pending", "cancelling"}]
          /\ parked[t] = "pending"
          /\ \A u \in Tasks : u # t => parked[u] = future[u]
      BY <1>0
    <3> HIDE DEF parked
    <3>5. /\ \A u \in Tasks :
                 /\ QueuedOnce(ready', u)
                 /\ u # t => /\ Queued(ready', u) <=> Queued(ready, u)
                             /\ future'[u] = future[u]
          /\ \/ future'[t] = "none" /\ Queued(ready', t)
             \/ future'[t] # "none" /\ ~Queued(ready', t)
      BY <1>0, <3>1, <3>3, <3>4, CancelFutureResume
    <3>6. Accepted(t)
      BY <3>2 DEF ResumeInv, ResumeOf
    <3>7. SUFFICES ASSUME NEW u \in Tasks PROVE ResumeOf(u)'
      BY DEF ResumeInv
    <3> QED BY <3>2, <3>5, <3>6, NoTaskAssumption
            DEF ResumeInv, ResumeOf, Accepted, Alive, Finished
  <2>6. CASE StepParksOnDone(t)
    <3>1. PICK arg \in WakeArgs : ready' = Append(ready, StepEntry(t, arg))
      BY <2>6 DEF StepParksOnDone, WakeArgs
    <3> QED BY <1>2, <2>6, <3>1, StepRequeues DEF StepParksOnDone, LeaveStep
  <2>7. CASE StepAborts(t)
    <3>1. Finish(t, "aborted", "error", ready)
      BY <2>7 DEF StepAborts
    <3> QED BY <1>2, <2>7, <3>1, StepFinishes
            DEF StepAborts, LeaveStep, Outcomes
  <2> QED BY <1>2, <2>1, <2>2, <2>3, <2>4, <2>5, <2>6, <2>7 DEF EndStep
<1>3. ASSUME NEW t \in Tasks, UserCall(t), UNCHANGED <<serverVars, stopVars>>
      PROVE  ResumeInv'
  <2>1. CASE CancelCall(t)
    <3>1. Cancel(t, ready)
      BY <2>1 DEF CancelCall
    <3> QED BY <1>0, <1>3, <2>1, <3>1, CancelResume DEF CancelCall
  <2>2. CASE Uncancel(t) \/ RemoveDoneCallback(t)
    BY <1>0, <1>3, <2>2, QuietStep
       DEF Uncancel, RemoveDoneCallback, Accepted, Alive, Finished
  <2>3. CASE AddDoneCallback(t)
    <3>1. ready' = ready \/ ready' = Append(ready, DoneEntry(t))
      BY <2>3 DEF AddDoneCallback
    <3>2. \A u \in Tasks : /\ Queued(ready', u) <=> Queued(ready, u)
                           /\ QueuedOnce(ready', u)
      BY <1>0, <1>a, <1>c, <3>1
    <3> QED BY <1>3, <2>3, <3>2, QuietStep
            DEF AddDoneCallback, Accepted, Alive, Finished
  <2> QED BY <1>3, <2>1, <2>2, <2>3 DEF UserCall
<1>4. ASSUME NEW t \in Tasks, RunCancel(t)
      PROVE  ResumeInv'
  <2>1. /\ ready # <<>>
        /\ Head(ready).kind # "step"
        /\ Cancel(t, Tail(ready))
        /\ UNCHANGED <<loop, running, outcome, request>>
    BY <1>4, <1>c DEF RunCancel
  <2>2. Tail(ready) \in Seq(Entries)
    BY <1>0, <2>1, PopQueue
  <2> QED BY <1>b, <2>1, <2>2, CancelResume
<1>5. ASSUME NEW t \in Tasks, RunDoneCallback(t)
      PROVE  ResumeInv'
  <2>1. \A u \in Tasks : /\ Queued(ready', u) <=> Queued(ready, u)
                         /\ QueuedOnce(ready', u)
    BY <1>b, <1>c, <1>5 DEF RunDoneCallback
  <2> QED BY <1>5, <2>1, QuietStep
          DEF RunDoneCallback, Accepted, Alive, Finished
<1>6. CASE RunStop
  <2>1. \A u \in Tasks : /\ Queued(ready', u) <=> Queued(ready, u)
                         /\ QueuedOnce(ready', u)
    BY <1>b, <1>d, <1>6 DEF RunStop
  <2> QED BY <1>6, <2>1, QuietStep DEF RunStop, Accepted, Alive, Finished
<1>7. CASE LoopExits \/ LoopFails
  <2>1. /\ running = NoTask /\ running' = NoTask
        /\ ~Alive'
        /\ ready' = <<>>
        /\ UNCHANGED <<future, outcome, request>>
    BY <1>7 DEF LoopExits, LoopFails, CloseLoop, Alive
  <2>2. \A u : ~Queued(ready', u) /\ QueuedOnce(ready', u)
    BY <2>1, EmptyQueue
  <2>3. SUFFICES ASSUME NEW u \in Tasks PROVE ResumeOf(u)'
    BY DEF ResumeInv
  <2> QED BY <2>1, <2>2, NoTaskAssumption
          DEF ResumeInv, ResumeOf, Accepted, Finished
<1>8. ASSUME NEW t \in Tasks, FutureResolves(t)
      PROVE  ResumeInv'
  <2>1. PICK arg \in WakeResults :
            /\ ready' = Append(ready, StepEntry(t, arg))
            /\ future[t] # "none"
            /\ future' = [future EXCEPT ![t] = "none"]
            /\ UNCHANGED <<loop, running, outcome, request>>
    BY <1>8 DEF FutureResolves, FutureDone
  <2>2. StepEntry(t, arg) \in Entries
    BY EntryTypes DEF WakeArgs
  <2>3. StepEntry(t, arg).kind = "step" /\ StepEntry(t, arg).task = t
    BY DEF StepEntry
  <2>4. ~Queued(ready, t) /\ Accepted(t) /\ running # t
    BY <2>1 DEF ResumeInv, ResumeOf
  <2>5. \A u \in Tasks : /\ Queued(ready', u) <=> Queued(ready, u) \/ u = t
                         /\ QueuedOnce(ready', u)
    BY <1>0, <2>1, <2>2, <2>3, <2>4, PushQueue
  <2>6. \A u \in Tasks : future'[u] = IF u = t THEN "none" ELSE future[u]
    BY <1>0, <2>1
  <2>7. SUFFICES ASSUME NEW u \in Tasks PROVE ResumeOf(u)'
    BY DEF ResumeInv
  <2> QED BY <2>1, <2>4, <2>5, <2>6
          DEF ResumeInv, ResumeOf, Accepted, Alive, Finished
<1>9. ASSUME NEW t \in Tasks, ServerTask(t)
      PROVE  ResumeInv'
  <2>0. request \in [Tasks -> Requests]
    BY DEF TypeOK
  <2>1. CASE ScheduleFails(t) \/ ScheduleInsert(t) \/ ScheduleRefused(t)
    <3>1. \A u \in Tasks : Accepted(u)' <=> Accepted(u)
      BY <2>0, <2>1 DEF ScheduleFails, ScheduleInsert, ScheduleRefused,
         Accepted
    <3> QED BY <1>0, <2>1, <3>1, QuietStep DEF ScheduleFails, ScheduleInsert,
            ScheduleRefused, Alive, Finished
  <2>2. CASE ScheduleFirstStep(t)
    <3>1. /\ ready' = Append(ready, StepEntry(t, "none"))
          /\ request' = [request EXCEPT ![t] = "awaiting"]
          /\ request[t] = "inserted"
          /\ UNCHANGED <<loop, future, running, outcome>>
      BY <2>2 DEF ScheduleFirstStep
    <3>2. StepEntry(t, "none") \in Entries
      BY EntryTypes DEF WakeArgs
    <3>3. StepEntry(t, "none").kind = "step" /\ StepEntry(t, "none").task = t
      BY DEF StepEntry
    <3>4. ~Queued(ready, t) /\ future[t] = "none" /\ running # t
      BY <3>1 DEF ResumeInv, ResumeOf, Accepted
    <3>5. \A u \in Tasks : /\ Queued(ready', u) <=> Queued(ready, u) \/ u = t
                           /\ QueuedOnce(ready', u)
      BY <1>0, <3>1, <3>2, <3>3, <3>4, PushQueue
    <3>6. \A u \in Tasks : Accepted(u)' <=> Accepted(u) \/ u = t
      BY <2>0, <3>1 DEF Accepted
    <3>7. SUFFICES ASSUME NEW u \in Tasks PROVE ResumeOf(u)'
      BY DEF ResumeInv
    <3> QED BY <3>1, <3>4, <3>5, <3>6
            DEF ResumeInv, ResumeOf, Alive, Finished
  <2>3. CASE Response(t) \/ DropRequest(t)
    <3>1. \A u \in Tasks : Accepted(u)' <=> Accepted(u)
      BY <2>0, <2>3 DEF Response, DropRequest, Accepted
    <3> QED BY <1>0, <2>3, <3>1, QuietStep
            DEF Response, DropRequest, Alive, Finished
  <2>4. CASE DropCancels(t)
    <3>1. \A u \in Tasks : Accepted(u)' <=> Accepted(u)
      BY <2>0, <2>4 DEF DropCancels, Accepted
    <3>2. ready' = ready \/ ready' = Append(ready, CancelEntry(t))
      BY <2>4 DEF DropCancels, TryCallSoon
    <3>3. \A u \in Tasks : /\ Queued(ready', u) <=> Queued(ready, u)
                           /\ QueuedOnce(ready', u)
      BY <1>0, <1>a, <1>c, <3>2
    <3> QED BY <2>4, <3>1, <3>3, QuietStep DEF DropCancels, Alive, Finished
  <2> QED BY <1>9, <2>1, <2>2, <2>3, <2>4 DEF ServerTask
<1>10. ASSUME NEW s \in Stoppers, CancelSnapshot(s) \/ CallsStop(s)
       PROVE  ResumeInv'
  <2>1. ASSUME NEW t \in Tasks, CancelOne(s, t)
        PROVE  ResumeInv'
    <3>1. ready' = ready \/ ready' = Append(ready, CancelEntry(t))
      BY <2>1 DEF CancelOne, TryCallSoon
    <3>2. \A u \in Tasks : /\ Queued(ready', u) <=> Queued(ready, u)
                           /\ QueuedOnce(ready', u)
      BY <1>0, <1>a, <1>c, <3>1
    <3> QED BY <2>1, <3>2, QuietStep DEF CancelOne, Accepted, Alive, Finished
  <2>2. ASSUME NEW t \in Tasks, DisposeCloses(s, t)
        PROVE  ResumeInv'
    BY <1>0, <2>2, QuietStep DEF DisposeCloses, Accepted, Alive, Finished
  <2>3. ASSUME NEW t \in Tasks, DisposeFinishes(s, t)
        PROVE  ResumeInv'
    <3>1. /\ Finish(t, "aborted", "error", ready)
          /\ UNCHANGED <<loop, future, running, request>>
      BY <2>3 DEF DisposeFinishes
    <3>2. /\ \A u : /\ Queued(ready', u) <=> Queued(ready, u)
                    /\ QueuedOnce(ready, u) => QueuedOnce(ready', u)
          /\ \A u \in Tasks : Finished(u)' <=> Finished(u) \/ u = t
      BY <1>0, <3>1, FinishResume DEF Outcomes
    <3> QED BY <1>0, <3>1, <3>2, QuietStep DEF Accepted, Alive
  <2>4. CASE StopTakesHandle(s)
    <3>1. ready' = ready \/ ready' = Append(ready, StopEntry)
      BY <2>4 DEF StopTakesHandle, TryCallSoon
    <3>2. \A u \in Tasks : /\ Queued(ready', u) <=> Queued(ready, u)
                           /\ QueuedOnce(ready', u)
      BY <1>0, <1>a, <1>d, <3>1
    <3> QED BY <2>4, <3>2, QuietStep
            DEF StopTakesHandle, Accepted, Alive, Finished
  <2>5. CASE \/ CancelSnapshot(s) \/ StopDrains(s) \/ StopFindsNoHandle(s)
             \/ StopJoins(s) \/ StopReturns(s)
    BY <1>0, <2>5, QuietStep
       DEF CancelSnapshot, StopDrains, StopFindsNoHandle, StopJoins,
           StopReturns, Accepted, Alive, Finished
  <2> QED BY <1>10, <2>1, <2>2, <2>3, <2>4, <2>5 DEF CallsStop
<1> QED BY <1>1, <1>2, <1>3, <1>4, <1>5, <1>6, <1>7, <1>8, <1>9, <1>10
        DEF Next, LoopThread

\* The invariant holds of every loop.
LEMMA ResumeCorrect == Spec => []ResumeInv
<1>1. ASSUME Init
      PROVE  ResumeInv
  <2>1. /\ ready = <<>>
        /\ running = NoTask
        /\ future = [t \in Tasks |-> "none"]
        /\ request = [t \in Tasks |-> "none"]
    BY <1>1 DEF Init, LoopInit, TaskInit
  <2>2. \A t : ~Queued(ready, t) /\ QueuedOnce(ready, t)
    BY <2>1, EmptyQueue
  <2> QED BY <2>1, <2>2, NoTaskAssumption DEF ResumeInv, ResumeOf, Accepted
<1>2. ASSUME ResumeInv, UNCHANGED vars
      PROVE  ResumeInv'
  <2>1. UNCHANGED <<loop, ready, future, running, outcome, request>>
    BY <1>2 DEF vars, loopVars, taskVars, stepVars, finishVars, serverVars
  <2> QED BY <1>2, <2>1 DEF ResumeInv, ResumeOf, Accepted, Alive, Finished
<1> QED BY <1>1, <1>2, ResumeStep, TypeCorrect, PTL DEF Spec

\* A handler's coroutine is never resumed from two places: at any time its
\* task is being stepped, or has one callback queued, or is the done callback
\* of one future.
THEOREM ResumedOnce == Spec => []AtMostOneResume
<1>1. ResumeInv => AtMostOneResume
  BY DEF ResumeInv, ResumeOf, AtMostOneResume, StepQueued
<1> QED BY <1>1, ResumeCorrect, PTL

\* No accepted request is forgotten by a loop that lives: an unfinished one
\* can always be resumed from somewhere.
THEOREM NeverForgotten == Spec => []NoLostWakeup
<1>1. ResumeInv => NoLostWakeup
  BY DEF ResumeInv, ResumeOf, NoLostWakeup, StepQueued
<1> QED BY <1>1, ResumeCorrect, PTL
=============================================================================
