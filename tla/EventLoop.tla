----------------------------- MODULE EventLoop -----------------------------
(***************************************************************************)
(* EventLoop and DispatchedRequest (crates/dispatch/src/lib.rs): one loop  *)
(* thread, the server tasks that schedule requests onto it and drop them   *)
(* when the client goes away, and the threads that shut it down            *)
(* (cancel_in_flight, then stop).                                          *)
(***************************************************************************)
EXTENDS HandlerTask, FiniteSets

CONSTANTS
    Leavers,    \* the requests whose client may disconnect
    Stoppers    \* threads that call cancel_in_flight and stop

ASSUME TasksAssumption == IsFiniteSet(Tasks)
ASSUME LeaversAssumption == Leavers \subseteq Tasks

VARIABLES
    request,    \* the server task's side of a request: "none", "inserted"
                \* (in live_tasks, not on the loop yet), "failed" (schedule
                \* returned DispatchedRequest::failed), "awaiting" its
                \* response, "answered", "dropping" (its Drop saw the task
                \* unfinished), "dropped"
    thread,     \* EventLoop.thread still holds the JoinHandle
    stopper,    \* a stopper's place: "idle", "cancelling", "joining",
                \* "draining", "disposing", "done"
    work,       \* the tasks that stopper has yet to cancel or dispose of
    closing     \* the task it is disposing of, whose coroutine it has closed

serverVars == <<request>>
stopVars == <<thread, stopper, work, closing>>
vars == <<loopVars, taskVars, serverVars, stopVars>>

Requests == {"none", "inserted", "failed", "awaiting", "answered",
             "dropping", "dropped"}

TypeOK ==
    /\ LoopTypeOK
    /\ TaskTypeOK
    /\ request \in [Tasks -> Requests]
    /\ thread \in BOOLEAN
    /\ stopper \in [Stoppers -> {"idle", "cancelling", "joining",
                                 "draining", "disposing", "done"}]
    /\ work \in [Stoppers -> SUBSET Tasks]
    /\ closing \in [Stoppers -> Tasks \cup {NoTask}]

Init ==
    /\ LoopInit
    /\ TaskInit
    /\ request = [t \in Tasks |-> "none"]
    /\ thread = TRUE
    /\ stopper = [s \in Stoppers |-> "idle"]
    /\ work = [s \in Stoppers |-> {}]
    /\ closing = [s \in Stoppers |-> NoTask]

\* The request's first step reached the loop.
Accepted(t) == request[t] \in {"awaiting", "answered", "dropping", "dropped"}

-----------------------------------------------------------------------------
(***************************************************************************)
(* The loop thread (the closure of EventLoop::start)                       *)
(***************************************************************************)

\* A queued bound method task.cancel.
RunCancel(t) ==
    /\ Alive
    /\ running = NoTask
    /\ ready # <<>>
    /\ Head(ready) = CancelEntry(t)
    /\ Cancel(t, Tail(ready))
    /\ UNCHANGED <<loop, stepVars, finishVars, serverVars, stopVars>>

\* A done callback of a finished task.
RunDoneCallback(t) ==
    /\ Alive
    /\ running = NoTask
    /\ ready # <<>>
    /\ Head(ready) = DoneEntry(t)
    /\ ready' = Tail(ready)
    /\ done_callback' = [done_callback EXCEPT ![t] = "ran"]
    /\ UNCHANGED <<loop, future, stepVars, cancelVars, waiting_on,
                   deferred_throw, registered, outcome, live_tasks,
                   channelVars, serverVars, stopVars>>

\* loop.stop(): run_forever returns after the current iteration.
RunStop ==
    /\ Alive
    /\ running = NoTask
    /\ ready # <<>>
    /\ Head(ready) = StopEntry
    /\ ready' = Tail(ready)
    /\ loop' = "stopping"
    /\ UNCHANGED <<future, taskVars, serverVars, stopVars>>

\* run_forever is over and loop.close() discards what is still queued.
CloseLoop ==
    /\ running = NoTask
    /\ loop' = "closed"
    /\ ready' = <<>>
    /\ done_callback' = [t \in Tasks |-> IF done_callback[t] = "scheduled"
                                         THEN "lost" ELSE done_callback[t]]
    /\ UNCHANGED <<future, stepVars, cancelVars, waiting_on, deferred_throw,
                   registered, outcome, live_tasks, channelVars, serverVars,
                   stopVars>>

LoopExits == loop = "stopping" /\ CloseLoop

\* A callback raised what asyncio does not catch (SystemExit): run_forever
\* fails, the error is printed, and the loop is closed all the same.
LoopFails == "loop" \in Faults /\ loop = "running" /\ CloseLoop

FutureResolves(t) ==
    /\ \E result \in WakeResults : FutureDone(t, result)
    /\ UNCHANGED <<taskVars, serverVars, stopVars>>

-----------------------------------------------------------------------------
(***************************************************************************)
(* EventLoop::schedule, in the steps other threads can come between        *)
(***************************************************************************)

\* The task object cannot be allocated: the channel goes down with it, and
\* its Drop undoes the increment of the gauge.
ScheduleFails(t) ==
    /\ "alloc" \in Faults
    /\ request[t] = "none"
    /\ request' = [request EXCEPT ![t] = "failed"]
    /\ channel' = [channel EXCEPT ![t] = "dropped"]
    /\ UNCHANGED <<loopVars, stepVars, cancelVars, waiting_on, in_flight,
                   deferred_throw, registered, outcome, done_callback,
                   live_tasks, stopVars>>

ScheduleInsert(t) ==
    /\ request[t] = "none"
    /\ request' = [request EXCEPT ![t] = "inserted"]
    /\ channel' = [channel EXCEPT ![t] = "open"]
    /\ in_flight' = in_flight + 1
    /\ live_tasks' = live_tasks \cup {t}
    /\ UNCHANGED <<loopVars, stepVars, cancelVars, waiting_on,
                   deferred_throw, registered, outcome, done_callback,
                   stopVars>>

ScheduleFirstStep(t) ==
    /\ request[t] = "inserted"
    /\ Alive
    /\ ready' = Append(ready, StepEntry(t, "none"))
    /\ request' = [request EXCEPT ![t] = "awaiting"]
    /\ UNCHANGED <<loop, future, taskVars, stopVars>>

\* Seeded fault: a refused request is given up without a response.
ScheduleRefusedSilently(t) ==
    /\ request[t] = "inserted"
    /\ ~Alive
    /\ request' = [request EXCEPT ![t] = "failed"]
    /\ live_tasks' = live_tasks \ {t}
    /\ UNCHANGED <<loopVars, stepVars, cancelVars, waiting_on,
                   deferred_throw, registered, outcome, done_callback,
                   channelVars, stopVars>>

\* call_soon_threadsafe raised.
ScheduleRefused(t) ==
    /\ request[t] = "inserted"
    /\ ~Alive
    /\ request' = [request EXCEPT ![t] = "failed"]
    /\ live_tasks' = live_tasks \ {t}
    /\ Send(t, "error")
    /\ UNCHANGED <<loopVars, stepVars, cancelVars, waiting_on,
                   deferred_throw, registered, outcome, done_callback,
                   stopVars>>

-----------------------------------------------------------------------------
(***************************************************************************)
(* DispatchedRequest: response, and Drop when the client disconnects       *)
(***************************************************************************)

Response(t) ==
    /\ request[t] = "awaiting"
    /\ channel[t] # "open"
    /\ request' = [request EXCEPT ![t] = "answered"]
    /\ UNCHANGED <<loopVars, taskVars, stopVars>>

\* Drop reads `finished` under the lock ...
DropRequest(t) ==
    /\ t \in Leavers
    /\ request[t] = "awaiting"
    /\ request' = [request EXCEPT ![t] = IF Finished(t) THEN "dropped"
                                         ELSE "dropping"]
    /\ UNCHANGED <<loopVars, taskVars, stopVars>>

\* ... and queues the cancellation after it has released it.
DropCancels(t) ==
    /\ request[t] = "dropping"
    /\ request' = [request EXCEPT ![t] = "dropped"]
    /\ TryCallSoon(CancelEntry(t))
    /\ UNCHANGED <<loop, future, taskVars, stopVars>>

-----------------------------------------------------------------------------
(***************************************************************************)
(* EventLoop::cancel_in_flight and EventLoop::stop                         *)
(***************************************************************************)

\* cancel_in_flight copies the registry ...
CancelSnapshot(s) ==
    /\ stopper[s] = "idle"
    /\ stopper' = [stopper EXCEPT ![s] = "cancelling"]
    /\ work' = [work EXCEPT ![s] = live_tasks]
    /\ UNCHANGED <<loopVars, taskVars, serverVars, thread, closing>>

\* ... and queues one cancel after the other.
CancelOne(s, t) ==
    /\ stopper[s] = "cancelling"
    /\ t \in work[s]
    /\ work' = [work EXCEPT ![s] = @ \ {t}]
    /\ TryCallSoon(CancelEntry(t))
    /\ UNCHANGED <<loop, future, taskVars, serverVars, thread, stopper,
                   closing>>

\* stop may also be called with no cancel_in_flight before it.
AtStop(s) ==
    \/ stopper[s] = "idle"
    \/ stopper[s] = "cancelling" /\ work[s] = {}

\* Seeded fault: the handle is taken and the loop never told to stop.
StopForgetsLoop(s) ==
    /\ AtStop(s)
    /\ thread
    /\ thread' = FALSE
    /\ stopper' = [stopper EXCEPT ![s] = "joining"]
    /\ UNCHANGED <<loopVars, taskVars, serverVars, work, closing>>

\* Only the call that takes the join handle stops the loop ...
StopTakesHandle(s) ==
    /\ AtStop(s)
    /\ thread
    /\ thread' = FALSE
    /\ stopper' = [stopper EXCEPT ![s] = "joining"]
    /\ TryCallSoon(StopEntry)
    /\ UNCHANGED <<loop, future, taskVars, serverVars, work, closing>>

\* Seeded fault: the thread is not joined before the registry is drained.
StopSkipsJoin(s) ==
    /\ stopper[s] = "joining"
    /\ stopper' = [stopper EXCEPT ![s] = "draining"]
    /\ UNCHANGED <<loopVars, taskVars, serverVars, thread, work, closing>>

StopJoins(s) ==
    /\ stopper[s] = "joining"
    /\ ~Alive
    /\ stopper' = [stopper EXCEPT ![s] = "draining"]
    /\ UNCHANGED <<loopVars, taskVars, serverVars, thread, work, closing>>

\* ... and any other goes straight on to the leftover tasks.
StopFindsNoHandle(s) ==
    /\ AtStop(s)
    /\ ~thread
    /\ stopper' = [stopper EXCEPT ![s] = "draining"]
    /\ UNCHANGED <<loopVars, taskVars, serverVars, thread, work, closing>>

StopDrains(s) ==
    /\ stopper[s] = "draining"
    /\ stopper' = [stopper EXCEPT ![s] = "disposing"]
    /\ work' = [work EXCEPT ![s] = live_tasks]
    /\ live_tasks' = {}
    /\ UNCHANGED <<loopVars, stepVars, cancelVars, waiting_on,
                   deferred_throw, registered, outcome, done_callback,
                   channelVars, serverVars, thread, closing>>

\* HandlerTask::dispose: close_coroutine_quietly, then finish.
DisposeCloses(s, t) ==
    /\ stopper[s] = "disposing"
    /\ closing[s] = NoTask
    /\ t \in work[s]
    /\ \E c \in CloseResults(coroutine[t]) :
           coroutine' = [coroutine EXCEPT ![t] = c]
    /\ closing' = [closing EXCEPT ![s] = t]
    /\ UNCHANGED <<loopVars, running, pending_throw, cancelVars, finishVars,
                   serverVars, thread, stopper, work>>

DisposeFinishes(s, t) ==
    /\ closing[s] = t
    /\ Finish(t, "aborted", "error", ready)
    /\ work' = [work EXCEPT ![s] = @ \ {t}]
    /\ closing' = [closing EXCEPT ![s] = NoTask]
    /\ UNCHANGED <<loop, future, stepVars, cancelVars, serverVars, thread,
                   stopper>>

StopReturns(s) ==
    /\ stopper[s] = "disposing"
    /\ work[s] = {}
    /\ stopper' = [stopper EXCEPT ![s] = "done"]
    /\ UNCHANGED <<loopVars, taskVars, serverVars, thread, work, closing>>

-----------------------------------------------------------------------------
LoopThread ==
    \/ \E t \in Tasks :
           \/ TakeTurn(t) /\ UNCHANGED <<serverVars, stopVars>>
           \/ EndStep(t) /\ UNCHANGED <<serverVars, stopVars>>
           \/ RunCancel(t)
           \/ RunDoneCallback(t)
    \/ RunStop

ServerTask(t) ==
    \/ ScheduleFails(t)
    \/ ScheduleInsert(t)
    \/ ScheduleFirstStep(t)
    \/ ScheduleRefused(t)
    \/ Response(t)
    \/ DropRequest(t)
    \/ DropCancels(t)

CallsStop(s) ==
    \/ \E t \in Tasks : \/ CancelOne(s, t)
                        \/ DisposeCloses(s, t)
                        \/ DisposeFinishes(s, t)
    \/ StopTakesHandle(s)
    \/ StopFindsNoHandle(s)
    \/ StopJoins(s)
    \/ StopDrains(s)
    \/ StopReturns(s)

Next ==
    \/ LoopThread
    \/ LoopExits
    \/ LoopFails
    \/ \E t \in Tasks :
           \/ UserCall(t) /\ UNCHANGED <<serverVars, stopVars>>
           \/ FutureResolves(t)
           \/ ServerTask(t)
    \/ \E s \in Stoppers : CancelSnapshot(s) \/ CallsStop(s)

Spec == Init /\ [][Next]_vars

-----------------------------------------------------------------------------
(***************************************************************************)
(* Safety                                                                  *)
(***************************************************************************)

\* Entry i of the queue q resumes t.
StepAt(q, i, t) == q[i].kind = "step" /\ q[i].task = t

Queued(q, t) == \E i \in DOMAIN q : StepAt(q, i, t)

QueuedOnce(q, t) ==
    \A i, j \in DOMAIN q : StepAt(q, i, t) /\ StepAt(q, j, t) => i = j

StepQueued(t) == Queued(ready, t)

\* A task is never resumed from two places: it is being stepped, or it has
\* one callback on the loop, or one future holds it as done callback.  Two
\* resumptions would re-enter the coroutine or step it past an await whose
\* future is not done (__call__, park_on_future, reschedule_or_abort, and
\* the wake that cancel() makes a future queue).
AtMostOneResume ==
    \A t \in Tasks :
        /\ QueuedOnce(ready, t)
        /\ running = t => ~StepQueued(t) /\ future[t] = "none"
        /\ StepQueued(t) => future[t] = "none"

\* No wakeup is lost: as long as the loop lives, an accepted request that is
\* not finished is being stepped, queued, or parked on a future that will
\* call it back.
NoLostWakeup ==
    \A t \in Tasks :
        Accepted(t) /\ ~Finished(t) /\ Alive
            => running = t \/ StepQueued(t) \/ future[t] # "none"

\* The gauge by which requests are placed, and which Server.in_flight reports,
\* is exactly the number of requests whose response is outstanding, however
\* they end (send, Drop, a refused schedule, dispose).
GaugeExact == in_flight = Cardinality({t \in Tasks : channel[t] = "open"})

\* A protocol error that waits to be thrown waits with a plain call_soon
\* turn: no future's wake, whose exception would replace it, can be the turn
\* that takes it (step_once and __call__).
DeferredThrowWaits ==
    \A t \in Tasks :
        deferred_throw[t] /\ ~Finished(t) /\ Alive
            => \E i \in DOMAIN ready : ready[i] = StepEntry(t, "none")

\* A finished task has left every registry and released its response, and
\* no user's done callback is left behind in it (finish, add_done_callback,
\* and schedule's insertion before the first step).
FinishedIsComplete ==
    \A t \in Tasks :
        Finished(t) => /\ t \notin live_tasks
                       /\ ~registered[t]
                       /\ channel[t] \in {"handler", "error"}
                       /\ done_callback[t] # "added"
                       /\ ~waiting_on[t]

\* A task that finished has no coroutine left suspended: it ran to its end,
\* was closed, or its close() failed and that was logged.  This is what lets
\* `finally` blocks run on every path (close_coroutine_quietly).
CoroutineUnwound ==
    \A t \in Tasks :
        Finished(t) => coroutine[t] \in {"none", "closed", "abandoned"}

\* After stop() every task is finished: no accepted request is left without
\* a response once the thread that stops the loop returns.
StoppedMeansFinished ==
    (\E s \in Stoppers : stopper[s] = "done")
        => \A t \in Tasks : Accepted(t) => Finished(t)

(***************************************************************************)
(* What a step may never do                                                *)
(***************************************************************************)

\* A cancellation set aside for the next step is given up only by throwing
\* CancelledError into the coroutine, by a future that takes it over, by
\* uncancel() withdrawing the last request, or with the task itself.
CancelNotLost ==
    [][\A t \in Tasks :
           must_cancel[t] /\ ~must_cancel'[t]
               => \/ running' = t /\ pending_throw' = "cancelled"
                  \/ future'[t] = "cancelling"
                  \/ ready' = Append(ready, StepEntry(t, "cancelled"))
                  \/ cancel_requests'[t] = 0
                  \/ Finished(t)']_vars

\* The outcome and the response of a request are settled once.
SettledOnce ==
    [][\A t \in Tasks :
           /\ outcome[t] # "pending" => outcome'[t] = outcome[t]
           /\ channel[t] \notin {"unused", "open"}
                  => channel'[t] = channel[t]]_vars

(***************************************************************************)
(* The contract with the server                                            *)
(***************************************************************************)

\* Until call_soon_threadsafe has returned, schedule may still refuse.
AnswerOf(t) ==
    IF \/ request[t] = "none"
       \/ request[t] = "inserted" /\ channel[t] = "open"
    THEN "none"
    ELSE IF channel[t] = "open" THEN "pending" ELSE channel[t]

Contract == INSTANCE RequestContract
                WITH Ids <- Tasks,
                     answer <- [t \in Tasks |-> AnswerOf(t)],
                     stopped <- \E s \in Stoppers : stopper[s] = "done"

\* With one thread stopping it, the loop implements RequestContract: every
\* accepted request is answered exactly once, never by a dropped sender,
\* and stop() returns only when none is outstanding.
ImplementsContract == Contract!Spec

(***************************************************************************)
(* Liveness                                                                *)
(***************************************************************************)

\* The loop thread keeps running callbacks and every step of a coroutine
\* ends; run_forever returns once stop() ran; a server task does not stop in
\* the middle of schedule; stop() goes on once called.
Fairness ==
    /\ WF_vars(LoopThread)
    /\ SF_vars(LoopExits)
    /\ \A t \in Tasks :
           WF_vars(ScheduleFirstStep(t) \/ ScheduleRefused(t)
                       \/ DropCancels(t))
    /\ \A s \in Stoppers :
           WF_vars(stopper[s] # "idle" /\ CallsStop(s))

FairSpec == Spec /\ Fairness

\* Shutdown ends, with every request settled: once a thread has begun to
\* shut the loop down, stop() returns, and no response stays outstanding
\* even though handlers may wait for futures that never resolve.
ShutdownCompletes ==
    (\E s \in Stoppers : stopper[s] # "idle")
        ~> /\ \A s \in Stoppers : stopper[s] \in {"idle", "done"}
           /\ \A t \in Tasks : Accepted(t) => channel[t] # "open"

\* No request starves another: a task whose turn is queued gets it, however
\* often other coroutines yield without waiting (step_once: bare yields and
\* protocol errors go through call_soon "so a misbehaving coroutine cannot
\* starve the loop thread").
NotStarved == \A t \in Tasks : StepQueued(t) ~> ~StepQueued(t)

\* A done callback that finish hands to the loop is run, or the loop closes
\* before its turn comes.
DoneCallbackRuns ==
    \A t \in Tasks :
        done_callback[t] = "scheduled" ~> done_callback[t] \in {"ran", "lost"}

=============================================================================
