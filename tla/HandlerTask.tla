---------------------------- MODULE HandlerTask ----------------------------
(***************************************************************************)
(* HandlerTask (crates/dispatch/src/lib.rs): one request's task-like       *)
(* object.  It steps the handler's coroutine on the loop thread, parks on  *)
(* the futures the coroutine yields, takes cancellation requests, and ends *)
(* by recording an outcome and releasing the response.                     *)
(*                                                                         *)
(* A call of the task is split where user code runs: BeginStep takes the   *)
(* callback from the queue and resumes the coroutine, one of the Step...   *)
(* actions is how that advance ends, and between the two the coroutine may *)
(* call cancel(), uncancel() or add_done_callback() on any task.           *)
(***************************************************************************)
EXTENDS AsyncioLoop, Integers

CONSTANTS
    Faults,         \* the failures of CPython that can happen, of FaultKinds
    Observed,       \* tasks on which user code registers a done callback
    MaxCancels      \* bound on the cancel() calls user code leaves pending

FaultKinds == {"alloc", "context", "enter", "call_soon", "loop"}

ASSUME FaultsAssumption == Faults \subseteq FaultKinds
ASSUME ObservedAssumption == Observed \subseteq Tasks
ASSUME MaxCancelsAssumption == MaxCancels \in Nat

VARIABLES
    running,          \* the task being stepped (asyncio's current task)
    pending_throw,    \* what this step delivers: "none" (send), "protocol",
                      \* "error" (from the awaited future) or "cancelled"
    coroutine,        \* "none", "suspended", "running", "closed", or
                      \* "abandoned" (close() failed: its cleanup awaits)
    waiting_on,       \* TaskState.waiting_on is set
    deferred_throw,   \* TaskState.deferred_throw is set
    must_cancel,      \* TaskState.must_cancel
    cancel_requests,  \* TaskState.cancel_requests
    registered,       \* TaskState.registered_with_asyncio
    outcome,          \* "pending" until finished, then the CompletionKind
    done_callback,    \* the user's done callback: "none", "added",
                      \* "scheduled" on the loop, "ran", or "lost" when the
                      \* loop closed first
    channel,          \* ResponseChannel: "unused", "open" (sender in its
                      \* slot), or the response sent: "handler", "error",
                      \* or "dropped" when it went down without sending
    in_flight,        \* the loop's gauge of requests not yet completed
    live_tasks        \* LoopHandles.live_tasks

stepVars == <<running, pending_throw, coroutine>>
cancelVars == <<must_cancel, cancel_requests>>
channelVars == <<channel, in_flight>>
finishVars == <<waiting_on, deferred_throw, registered, outcome,
                done_callback, live_tasks, channelVars>>
taskVars == <<stepVars, cancelVars, finishVars>>

Throws == {"none", "protocol", "error", "cancelled"}
Outcomes == {"pending", "returned", "raised", "cancelled", "aborted"}

TaskTypeOK ==
    /\ running \in Tasks \cup {NoTask}
    /\ pending_throw \in Throws
    /\ coroutine \in [Tasks -> {"none", "suspended", "running", "closed",
                                "abandoned"}]
    /\ waiting_on \in [Tasks -> BOOLEAN]
    /\ deferred_throw \in [Tasks -> BOOLEAN]
    /\ must_cancel \in [Tasks -> BOOLEAN]
    /\ cancel_requests \in [Tasks -> Nat]
    /\ registered \in [Tasks -> BOOLEAN]
    /\ outcome \in [Tasks -> Outcomes]
    /\ done_callback \in [Tasks -> {"none", "added", "scheduled", "ran",
                                    "lost"}]
    /\ channel \in [Tasks -> {"unused", "open", "handler", "error",
                              "dropped"}]
    /\ in_flight \in Int
    /\ live_tasks \in SUBSET Tasks

TaskInit ==
    /\ running = NoTask
    /\ pending_throw = "none"
    /\ coroutine = [t \in Tasks |-> "none"]
    /\ waiting_on = [t \in Tasks |-> FALSE]
    /\ deferred_throw = [t \in Tasks |-> FALSE]
    /\ must_cancel = [t \in Tasks |-> FALSE]
    /\ cancel_requests = [t \in Tasks |-> 0]
    /\ registered = [t \in Tasks |-> FALSE]
    /\ outcome = [t \in Tasks |-> "pending"]
    /\ done_callback = [t \in Tasks |-> "none"]
    /\ channel = [t \in Tasks |-> "unused"]
    /\ in_flight = 0
    /\ live_tasks = {}

Finished(t) == outcome[t] # "pending"

-----------------------------------------------------------------------------
(***************************************************************************)
(* Ending a task                                                           *)
(***************************************************************************)

\* Seeded fault: the gauge is decremented whether or not the sender is there.
SendAlwaysCounts(t, r) ==
    /\ channel' = [channel EXCEPT ![t] = IF @ = "open" THEN r ELSE @]
    /\ in_flight' = in_flight - 1

\* ResponseChannel::send, and its Drop (r = "dropped"): the sender is taken
\* at most once, and the gauge follows it.
Send(t, r) ==
    /\ channel' = [channel EXCEPT ![t] = IF @ = "open" THEN r ELSE @]
    /\ in_flight' = IF channel[t] = "open" THEN in_flight - 1 ELSE in_flight

\* Seeded fault: the callbacks are taken but never reach the loop.
FireNoCallbacks(t, q) ==
    /\ done_callback' =
           [done_callback EXCEPT ![t] = IF @ # "added" THEN @ ELSE "scheduled"]
    /\ ready' = q

\* The end of the bookkeeping in finish: done callbacks go onto the loop,
\* behind q.
FireDoneCallbacks(t, q) ==
    /\ done_callback' =
           [done_callback EXCEPT
                ![t] = IF @ # "added" THEN @
                       ELSE IF Alive THEN "scheduled" ELSE "lost"]
    /\ ready' = IF done_callback[t] = "added" /\ Alive
                THEN Append(q, DoneEntry(t)) ELSE q

\* Seeded fault: finish without its check of `finished`.
FinishAgain(t, completion, response, q) ==
    /\ Send(t, response)
    /\ outcome' = [outcome EXCEPT ![t] = completion]
    /\ waiting_on' = [waiting_on EXCEPT ![t] = FALSE]
    /\ deferred_throw' = [deferred_throw EXCEPT ![t] = FALSE]
    /\ registered' = [registered EXCEPT ![t] = FALSE]
    /\ live_tasks' = live_tasks \ {t}
    /\ FireDoneCallbacks(t, q)

\* HandlerTask::finish, with q the queue when it is called.  The second call
\* for one task only offers its response to the channel.
Finish(t, completion, response, q) ==
    /\ Send(t, response)
    /\ \/ /\ Finished(t)
          /\ ready' = q
          /\ UNCHANGED <<waiting_on, deferred_throw, registered, outcome,
                         done_callback, live_tasks>>
       \/ /\ ~Finished(t)
          /\ outcome' = [outcome EXCEPT ![t] = completion]
          /\ waiting_on' = [waiting_on EXCEPT ![t] = FALSE]
          /\ deferred_throw' = [deferred_throw EXCEPT ![t] = FALSE]
          /\ registered' = [registered EXCEPT ![t] = FALSE]
          /\ live_tasks' = live_tasks \ {t}
          /\ FireDoneCallbacks(t, q)

\* close_coroutine_quietly: what coroutine.close() can leave behind.  It
\* raises for a coroutine that is executing, and for one whose cleanup
\* awaits; both are only logged.
CloseResults(c) ==
    CASE c \in {"none", "running", "closed"} -> {c}
      [] c \in {"suspended", "abandoned"} -> {"closed", "abandoned"}

-----------------------------------------------------------------------------
(***************************************************************************)
(* HandlerTask::__call__ up to the resumption of the coroutine             *)
(***************************************************************************)

\* The loop thread is free and t's callback is the next one.
Turn(t, arg) ==
    /\ Alive
    /\ running = NoTask
    /\ ready # <<>>
    /\ Head(ready) = StepEntry(t, arg)

SpuriousWake(t, arg) ==
    /\ Turn(t, arg)
    /\ Finished(t)
    /\ ready' = Tail(ready)
    /\ UNCHANGED <<loop, future, taskVars>>

CancelledBeforeStart(t, arg) ==
    /\ Turn(t, arg)
    /\ ~Finished(t)
    /\ coroutine[t] = "none"
    /\ must_cancel[t]
    /\ must_cancel' = [must_cancel EXCEPT ![t] = FALSE]
    /\ Finish(t, "cancelled", "error", Tail(ready))
    /\ UNCHANGED <<loop, future, stepVars, cancel_requests>>

\* start: the handler's factory raised ("raised"), or the context could not
\* be copied and the coroutine just built was closed unstored ("aborted").
StartFails(t, arg) ==
    /\ Turn(t, arg)
    /\ ~Finished(t)
    /\ coroutine[t] = "none"
    /\ ~must_cancel[t]
    /\ \E completion \in {"raised", "aborted"} :
           /\ completion = "aborted" => "context" \in Faults
           /\ Finish(t, completion, "error", Tail(ready))
    /\ UNCHANGED <<loop, future, stepVars, cancelVars>>

\* The coroutine exists, or start builds it now.
CanStep(t) ==
    /\ ~Finished(t)
    /\ coroutine[t] = "none" => ~must_cancel[t]

\* _enter_task or PyContext_Enter failed.  A coroutine built by this very
\* call has not run, so its close() cannot fail.
EnterFails(t, arg) ==
    /\ "enter" \in Faults
    /\ Turn(t, arg)
    /\ CanStep(t)
    /\ \E c \in IF coroutine[t] = "none" THEN {"closed"}
                ELSE CloseResults(coroutine[t]) :
           coroutine' = [coroutine EXCEPT ![t] = c]
    /\ must_cancel' = [must_cancel EXCEPT ![t] = FALSE]
    /\ Finish(t, "aborted", "error", Tail(ready))
    /\ UNCHANGED <<loop, future, running, pending_throw, cancel_requests>>

\* Seeded fault: the wake's exception replaces a pending cancellation too.
WakeErrorWins(t, arg) ==
    IF arg \in {"error", "cancelled"} THEN arg
    ELSE IF must_cancel[t] THEN "cancelled"
    ELSE IF deferred_throw[t] THEN "protocol"
    ELSE "none"

\* What the step throws: the wake's exception replaces a deferred protocol
\* error, and a pending cancellation replaces both.
PendingThrow(t, arg) ==
    IF must_cancel[t] THEN "cancelled"
    ELSE IF arg \in {"error", "cancelled"} THEN arg
    ELSE IF deferred_throw[t] THEN "protocol"
    ELSE "none"

\* The flags are taken and the coroutine is resumed.  A coroutine that was
\* closed stays closed: resuming it only raises.
BeginStep(t, arg) ==
    /\ Turn(t, arg)
    /\ CanStep(t)
    /\ ready' = Tail(ready)
    /\ running' = t
    /\ pending_throw' = PendingThrow(t, arg)
    /\ waiting_on' = [waiting_on EXCEPT ![t] = FALSE]
    /\ must_cancel' = [must_cancel EXCEPT ![t] = FALSE]
    /\ deferred_throw' = [deferred_throw EXCEPT ![t] = FALSE]
    /\ coroutine' = [coroutine EXCEPT
                        ![t] = IF @ = "closed" THEN @ ELSE "running"]
    /\ \E visible \in IF coroutine[t] = "none" THEN BOOLEAN
                      ELSE {registered[t]} :
           registered' = [registered EXCEPT ![t] = visible]
    /\ UNCHANGED <<loop, future, cancel_requests, outcome, done_callback,
                   live_tasks, channelVars>>

-----------------------------------------------------------------------------
(***************************************************************************)
(* HandlerTask::step_once: how the advance of the coroutine ends           *)
(***************************************************************************)

\* __call__ after step_once: the context is exited and the task left.  The
\* coroutine is in state c when step_once is done with it.
LeaveStep(t, c) ==
    /\ running = t
    /\ running' = NoTask
    /\ pending_throw' = "none"
    /\ coroutine' = [coroutine EXCEPT ![t] = c]

\* The coroutine yielded: only one that executes can.
Yields(t) == running = t /\ coroutine[t] = "running"

\* Returned: the value becomes the response, or an error response when it
\* cannot be encoded.
StepReturned(t) ==
    /\ coroutine[t] = "running"
    /\ LeaveStep(t, "closed")
    /\ \E response \in {"handler", "error"} :
           Finish(t, "returned", response, ready)
    /\ UNCHANGED <<loop, future, cancelVars>>

\* Raised: CancelledError ends the request as cancelled.
StepRaised(t) ==
    /\ LeaveStep(t, "closed")
    /\ \E completion \in IF coroutine[t] = "running"
                         THEN {"raised", "cancelled"} ELSE {"raised"} :
           Finish(t, completion, "error", ready)
    /\ UNCHANGED <<loop, future, cancelVars>>

\* Seeded fault: a bare yield resumes ahead of everything queued.
StepJumpsQueue(t) ==
    /\ Yields(t)
    /\ LeaveStep(t, "suspended")
    /\ ready' = <<StepEntry(t, "none")>> \o ready
    /\ UNCHANGED <<loop, future, cancelVars, finishVars>>

\* Yielded None (asyncio.sleep(0)): one trip through the loop.
StepYieldsNone(t) ==
    /\ Yields(t)
    /\ LeaveStep(t, "suspended")
    /\ ready' = Append(ready, StepEntry(t, "none"))
    /\ UNCHANGED <<loop, future, cancelVars, finishVars>>

\* Seeded fault: the error is stored and no turn is queued to throw it.
StepBadYieldNoTurn(t) ==
    /\ Yields(t)
    /\ LeaveStep(t, "suspended")
    /\ deferred_throw' = [deferred_throw EXCEPT ![t] = TRUE]
    /\ UNCHANGED <<loopVars, cancelVars, waiting_on, registered, outcome,
                   done_callback, live_tasks, channelVars>>

\* Yielded something that breaks the future protocol: the error is thrown
\* into the coroutine on its next turn.
StepBadYield(t) ==
    /\ Yields(t)
    /\ LeaveStep(t, "suspended")
    /\ deferred_throw' = [deferred_throw EXCEPT ![t] = TRUE]
    /\ ready' = Append(ready, StepEntry(t, "none"))
    /\ UNCHANGED <<loop, future, cancelVars, waiting_on, registered, outcome,
                   done_callback, live_tasks, channelVars>>

\* Seeded fault: the task parks without becoming the future's callback.
StepParksUnheard(t) ==
    /\ Yields(t)
    /\ LeaveStep(t, "suspended")
    /\ waiting_on' = [waiting_on EXCEPT ![t] = TRUE]
    /\ UNCHANGED <<loopVars, cancelVars, deferred_throw, registered, outcome,
                   done_callback, live_tasks, channelVars>>

\* apply_cancel_requested_mid_step: a cancel() that came in during this step
\* is offered to the future the step parked on; f is future with t parked.
ApplyCancelRequestedMidStep(t, f) ==
    \E accepted \in BOOLEAN :
        /\ accepted => must_cancel[t]
        /\ CancelFuture(t, f, ready, accepted)
        /\ must_cancel' = [must_cancel EXCEPT ![t] = @ /\ ~accepted]

\* Parked on a future that is still pending.
StepParks(t) ==
    /\ Yields(t)
    /\ LeaveStep(t, "suspended")
    /\ waiting_on' = [waiting_on EXCEPT ![t] = TRUE]
    /\ ApplyCancelRequestedMidStep(t, [future EXCEPT ![t] = "pending"])
    /\ UNCHANGED <<loop, cancel_requests, deferred_throw, registered,
                   outcome, done_callback, live_tasks, channelVars>>

\* Parked on a future that is already done: add_done_callback queues the
\* wake at once, and the future refuses a cancel().
StepParksOnDone(t) ==
    /\ Yields(t)
    /\ LeaveStep(t, "suspended")
    /\ waiting_on' = [waiting_on EXCEPT ![t] = TRUE]
    /\ \E result \in WakeResults :
           ready' = Append(ready, StepEntry(t, result))
    /\ UNCHANGED <<loop, future, cancelVars, deferred_throw, registered,
                   outcome, done_callback, live_tasks, channelVars>>

\* Seeded fault: the task is aborted with its coroutine left suspended.
StepAbortsUnclosed(t) ==
    /\ "call_soon" \in Faults
    /\ Yields(t)
    /\ LeaveStep(t, "suspended")
    /\ Finish(t, "aborted", "error", ready)
    /\ UNCHANGED <<loop, future, cancelVars>>

\* call_soon failed in reschedule_or_abort, or parking failed: the coroutine
\* can never be stepped again, so it is closed and the task aborted.
StepAborts(t) ==
    /\ "call_soon" \in Faults
    /\ Yields(t)
    /\ \E c \in CloseResults("suspended") : LeaveStep(t, c)
    /\ Finish(t, "aborted", "error", ready)
    /\ UNCHANGED <<loop, future, cancelVars>>

-----------------------------------------------------------------------------
(***************************************************************************)
(* The Task and Future protocol, called by user code on the loop thread    *)
(***************************************************************************)

\* Seeded fault: a cancel() that no future takes also queues a step.
CancelWakes(t, q) ==
    \/ /\ Finished(t)
       /\ ready' = q
       /\ UNCHANGED <<future, cancelVars>>
    \/ /\ ~Finished(t)
       /\ cancel_requests' = [cancel_requests EXCEPT ![t] = @ + 1]
       /\ must_cancel' = [must_cancel EXCEPT ![t] = TRUE]
       /\ ready' = Append(q, StepEntry(t, "none"))
       /\ UNCHANGED future

\* HandlerTask::cancel, with q the queue when it is called.
Cancel(t, q) ==
    \/ /\ Finished(t)
       /\ ready' = q
       /\ UNCHANGED <<future, cancelVars>>
    \/ /\ ~Finished(t)
       /\ cancel_requests' = [cancel_requests EXCEPT ![t] = @ + 1]
       /\ \E accepted \in BOOLEAN :
              /\ accepted => waiting_on[t]
              /\ CancelFuture(t, future, q, accepted)
              /\ must_cancel' = [must_cancel EXCEPT ![t] = @ \/ ~accepted]

\* User code has a reference to t from its first step on.
Reachable(t) == Alive /\ coroutine[t] # "none"

CancelCall(t) ==
    /\ Reachable(t)
    /\ cancel_requests[t] < MaxCancels
    /\ Cancel(t, ready)
    /\ UNCHANGED <<loop, stepVars, finishVars>>

\* Seeded fault: the counter does not saturate.
UncancelBelowZero(t) ==
    /\ running = t
    /\ cancel_requests' = [cancel_requests EXCEPT ![t] = @ - 1]
    /\ must_cancel' = [must_cancel EXCEPT ![t] = @ /\ cancel_requests[t] > 1]
    /\ UNCHANGED <<loopVars, stepVars, finishVars>>

\* asyncio.timeout and TaskGroup withdraw a cancel() from inside the task.
Uncancel(t) ==
    /\ running = t
    /\ cancel_requests' = [cancel_requests EXCEPT
                               ![t] = IF @ > 0 THEN @ - 1 ELSE 0]
    /\ must_cancel' = [must_cancel EXCEPT ![t] = @ /\ cancel_requests[t] > 1]
    /\ UNCHANGED <<loopVars, stepVars, finishVars>>

\* Seeded fault: a callback added after the end waits for the end.
AddDoneCallbackLate(t) ==
    /\ t \in Observed
    /\ Reachable(t)
    /\ done_callback[t] = "none"
    /\ done_callback' = [done_callback EXCEPT ![t] = "added"]
    /\ UNCHANGED <<loopVars, stepVars, cancelVars, waiting_on,
                   deferred_throw, registered, outcome, live_tasks,
                   channelVars>>

AddDoneCallback(t) ==
    /\ t \in Observed
    /\ Reachable(t)
    /\ done_callback[t] = "none"
    /\ \/ /\ Finished(t)
          /\ done_callback' = [done_callback EXCEPT ![t] = "scheduled"]
          /\ ready' = Append(ready, DoneEntry(t))
       \/ /\ ~Finished(t)
          /\ done_callback' = [done_callback EXCEPT ![t] = "added"]
          /\ UNCHANGED ready
    /\ UNCHANGED <<loop, future, stepVars, cancelVars, waiting_on,
                   deferred_throw, registered, outcome, live_tasks,
                   channelVars>>

RemoveDoneCallback(t) ==
    /\ Reachable(t)
    /\ done_callback[t] = "added"
    /\ done_callback' = [done_callback EXCEPT ![t] = "none"]
    /\ UNCHANGED <<loopVars, stepVars, cancelVars, waiting_on,
                   deferred_throw, registered, outcome, live_tasks,
                   channelVars>>

-----------------------------------------------------------------------------
(***************************************************************************)
(* Grouped for the loop thread's fairness and for Next                     *)
(***************************************************************************)

TakeTurn(t) ==
    \E arg \in WakeArgs :
        \/ SpuriousWake(t, arg)
        \/ CancelledBeforeStart(t, arg)
        \/ StartFails(t, arg)
        \/ EnterFails(t, arg)
        \/ BeginStep(t, arg)

EndStep(t) ==
    \/ StepReturned(t)
    \/ StepRaised(t)
    \/ StepYieldsNone(t)
    \/ StepBadYield(t)
    \/ StepParks(t)
    \/ StepParksOnDone(t)
    \/ StepAborts(t)

UserCall(t) ==
    \/ CancelCall(t)
    \/ Uncancel(t)
    \/ AddDoneCallback(t)
    \/ RemoveDoneCallback(t)
=============================================================================
