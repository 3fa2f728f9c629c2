----------------------------- MODULE TaskFinish -----------------------------
(***************************************************************************)
(* The end of one HandlerTask (crates/dispatch/src/lib.rs), one critical   *)
(* section at a time: `finish` on the loop thread, and stop() on other     *)
(* threads, which drains the registry and disposes of what it finds.       *)
(*                                                                         *)
(* Module EventLoop takes a turn of the loop as one step.  Here a turn is  *)
(* cut where another thread can get in: between the locked sections, and,  *)
(* inside a locked section, where the code calls back into Python (a drop  *)
(* that runs a finalizer, the __eq__ of remove_done_callback).  A locked   *)
(* section that stays in Rust is one step that needs the lock free.        *)
(***************************************************************************)
EXTENDS Integers

CONSTANTS
    LoopThread,     \* the thread that runs the asyncio loop
    Stoppers,       \* threads that call EventLoop::stop
    Nobody,         \* the owner of a lock nobody holds
    GilBuilds       \* the CPython builds considered: TRUE for one with a
                    \* GIL, FALSE for a free-threaded one

Threads == Stoppers \cup {LoopThread}

ASSUME ThreadsAssumption ==
    /\ LoopThread \notin Stoppers
    /\ Nobody \notin Threads
ASSUME GilBuildsAssumption == GilBuilds \subseteq BOOLEAN

VARIABLES
    gil_build,      \* the build the process runs on
    gil,            \* the thread that holds on to the GIL
    state_lock,     \* the owner of the task's Mutex<TaskState>, when it is
                    \* held across a call into Python
    pc,             \* where a thread is
    reply,          \* reply[t]: the response t passes to finish ...
    kind,           \* ... and kind[t] the CompletionKind
    was_registered, \* what t's finish took out of the state
    done_callbacks, \* done_callbacks[t] likewise; done_callbacks[Nobody] is
                    \* the state's own list
    thread_slot,    \* the join handle is still in EventLoop.thread
    stop_posted,    \* loop.stop is in the loop's queue
    coroutine,      \* "unbuilt", "suspended", "executing" or "closed"
    waiting_on,     \* TaskState.waiting_on holds a future
    must_cancel,    \* TaskState.must_cancel, before the first step
    finished,       \* TaskState.finished
    completion,     \* the CompletionKind finish recorded, or "none" ...
    recorded,       \* ... and, a history, the response it was called with
    live,           \* the task is in live_tasks
    all_tasks,      \* the task is in asyncio's registry
    registered,     \* TaskState.registered_with_asyncio
    sender,         \* the oneshot sender is still in the ResponseChannel
    in_flight,      \* this request's share of the gauge
    answer,         \* what the client was sent: "none", "handler" (the value
                    \* the handler returned) or "error" (a 500)
    raced           \* history: a stop() drained the task while the loop
                    \* thread was alive

params == <<reply, kind>>
taken == <<was_registered, done_callbacks>>
stopVars == <<thread_slot, stop_posted, raced>>
registries == <<live, all_tasks, registered>>
outcome == <<finished, completion, recorded>>
channel == <<sender, in_flight, answer>>
vars == <<gil_build, gil, state_lock, pc, params, taken, stopVars, coroutine,
          waiting_on, must_cancel, registries, outcome, channel>>

Places == {"ready", "build", "register", "flag", "fetch", "step", "comparing",
           "dead", "idle", "post", "join", "drain", "close", "closing",
           "finish", "finalizing", "leave", "unregister", "fire", "take",
           "count", "send", "done"}

CompletionKind == {"returned", "raised", "cancelled", "aborted"}

TypeOK ==
    /\ gil_build \in BOOLEAN
    /\ gil \in Threads \cup {Nobody}
    /\ state_lock \in Threads \cup {Nobody}
    /\ pc \in [Threads -> Places]
    /\ reply \in [Threads -> {"handler", "error"}]
    /\ kind \in [Threads -> CompletionKind]
    /\ was_registered \in [Threads -> BOOLEAN]
    /\ done_callbacks \in [Threads \cup {Nobody} -> BOOLEAN]
    /\ thread_slot \in BOOLEAN
    /\ stop_posted \in BOOLEAN
    /\ coroutine \in {"unbuilt", "suspended", "executing", "closed"}
    /\ waiting_on \in BOOLEAN
    /\ must_cancel \in BOOLEAN
    /\ finished \in BOOLEAN
    /\ completion \in CompletionKind \cup {"none"}
    /\ recorded \in {"none", "handler", "error"}
    /\ live \in BOOLEAN
    /\ all_tasks \in BOOLEAN
    /\ registered \in BOOLEAN
    /\ sender \in BOOLEAN
    /\ in_flight \in {0, 1}
    /\ answer \in {"none", "handler", "error"}
    /\ raced \in BOOLEAN

\* A request has been scheduled and has not had its first step.
Init ==
    /\ gil_build \in GilBuilds
    /\ gil = Nobody
    /\ state_lock = Nobody
    /\ pc = [t \in Threads |-> IF t = LoopThread THEN "ready" ELSE "idle"]
    /\ reply = [t \in Threads |-> "error"]
    /\ kind = [t \in Threads |-> "aborted"]
    /\ was_registered = [t \in Threads |-> FALSE]
    /\ done_callbacks = [t \in Threads \cup {Nobody} |-> FALSE]
    /\ thread_slot = TRUE
    /\ stop_posted = FALSE
    /\ coroutine = "unbuilt"
    /\ waiting_on = FALSE
    /\ must_cancel = FALSE
    /\ finished = FALSE
    /\ completion = "none"
    /\ recorded = "none"
    /\ live = TRUE
    /\ all_tasks = FALSE
    /\ registered = FALSE
    /\ sender = TRUE
    /\ in_flight = 1
    /\ answer = "none"
    /\ raced = FALSE


\* Where a thread is not holding on to the GIL: it runs Python code, which
\* may give it up at any time, or waits detached or outside Rayo.
Yielding == {"ready", "build", "register", "fetch", "step", "comparing",
             "dead", "idle", "join", "close", "closing", "finalizing",
             "unregister", "fire", "done"}

\* A thread goes on from `place` once it has the GIL ...
At(t, place) == pc[t] = place /\ gil \in {t, Nobody}

\* ... and keeps it until the next place where it may lose it.
Goto(t, place) ==
    /\ pc' = [pc EXCEPT ![t] = place]
    /\ gil' = IF gil_build /\ place \notin Yielding THEN t ELSE Nobody
    /\ UNCHANGED gil_build

\* lock_state() blocks with the thread still attached.
StateFree == state_lock = Nobody

\* What the thread is about to pass to finish.
EndWith(t, response, completed) ==
    /\ reply' = [reply EXCEPT ![t] = response]
    /\ kind' = [kind EXCEPT ![t] = completed]

-----------------------------------------------------------------------------
(***************************************************************************)
(* The loop thread                                                         *)
(***************************************************************************)

\* cancel() before the first step: there is no future to absorb it.  A later
\* one reaches the handler as an exception of a step (Raise).
CancelBeforeStart ==
    /\ At(LoopThread, "ready")
    /\ StateFree
    /\ ~finished
    /\ coroutine = "unbuilt"
    /\ must_cancel' = TRUE
    /\ UNCHANGED <<gil_build, gil, state_lock, pc, params, taken, stopVars,
                   coroutine, waiting_on, registries, outcome, channel>>

\* __call__: the first locked section.  A wake after completion does nothing;
\* a task cancelled before its first step is finished there and then.  The
\* future that is dropped lives on as the argument of the wake.
BeginStep ==
    /\ At(LoopThread, "ready")
    /\ StateFree
    /\ ~finished
    /\ waiting_on' = FALSE
    /\ must_cancel' = FALSE
    /\ \/ /\ coroutine = "unbuilt" /\ must_cancel
          /\ EndWith(LoopThread, "error", "cancelled")
          /\ Goto(LoopThread, "finish")
       \/ /\ coroutine = "unbuilt" /\ ~must_cancel
          /\ Goto(LoopThread, "build")
          /\ UNCHANGED params
       \/ /\ coroutine # "unbuilt"
          /\ Goto(LoopThread, "fetch")
          /\ UNCHANGED params
    /\ UNCHANGED <<state_lock, taken, stopVars, coroutine, registries, outcome,
                   channel>>

\* start: the handler is called and its coroutine stored ...
BuildCoroutine ==
    /\ At(LoopThread, "build")
    /\ StateFree
    /\ coroutine' = "suspended"
    /\ Goto(LoopThread, "register")
    /\ UNCHANGED <<state_lock, params, taken, stopVars, waiting_on,
                   must_cancel, registries, outcome, channel>>

\* ... unless the call raises ("raised"), or the context cannot be copied and
\* the coroutine is closed without having been stored ("aborted") ...
StartFails(completed) ==
    /\ At(LoopThread, "build")
    /\ EndWith(LoopThread, "error", completed)
    /\ Goto(LoopThread, "finish")
    /\ UNCHANGED <<state_lock, taken, stopVars, coroutine, waiting_on,
                   must_cancel, registries, outcome, channel>>

\* ... the task registered with asyncio, which may fail ...
RegisterTask(succeeds) ==
    /\ At(LoopThread, "register")
    /\ all_tasks' = succeeds
    /\ Goto(LoopThread, IF succeeds THEN "flag" ELSE "fetch")
    /\ UNCHANGED <<state_lock, params, taken, stopVars, coroutine, waiting_on,
                   must_cancel, live, registered, outcome, channel>>

\* ... and that noted for finish.
FlagRegistered ==
    /\ At(LoopThread, "flag")
    /\ StateFree
    /\ registered' = TRUE
    /\ Goto(LoopThread, "fetch")
    /\ UNCHANGED <<state_lock, params, taken, stopVars, coroutine, waiting_on,
                   must_cancel, live, all_tasks, outcome, channel>>

\* __call__: the coroutine is fetched from the state, entered and resumed.
\* Resuming one that is closed, or that another thread is closing, raises.
Resume ==
    /\ At(LoopThread, "fetch")
    /\ StateFree
    /\ IF coroutine = "suspended"
       THEN /\ coroutine' = "executing"
            /\ Goto(LoopThread, "step")
            /\ UNCHANGED params
       ELSE /\ EndWith(LoopThread, "error", "raised")
            /\ Goto(LoopThread, "finish")
            /\ UNCHANGED coroutine
    /\ UNCHANGED <<state_lock, taken, stopVars, waiting_on, must_cancel,
                   registries, outcome, channel>>

\* The task or its context cannot be entered: the coroutine is closed.
EnterFails ==
    /\ At(LoopThread, "fetch")
    /\ StateFree
    /\ EndWith(LoopThread, "error", "aborted")
    /\ Goto(LoopThread, "close")
    /\ UNCHANGED <<state_lock, taken, stopVars, coroutine, waiting_on,
                   must_cancel, registries, outcome, channel>>

\* The coroutine suspends, on a future, or with a bare or a bad yield that
\* takes one trip through the loop ...
Park(on_future) ==
    /\ At(LoopThread, "step")
    /\ StateFree
    /\ coroutine' = "suspended"
    /\ waiting_on' = on_future
    /\ Goto(LoopThread, "ready")
    /\ UNCHANGED <<state_lock, params, taken, stopVars, must_cancel,
                   registries, outcome, channel>>

\* ... or cannot be parked or rescheduled, and is closed ...
ParkFails ==
    /\ At(LoopThread, "step")
    /\ StateFree
    /\ coroutine' = "suspended"
    /\ waiting_on' = FALSE
    /\ EndWith(LoopThread, "error", "aborted")
    /\ Goto(LoopThread, "close")
    /\ UNCHANGED <<state_lock, taken, stopVars, must_cancel, registries,
                   outcome, channel>>

\* ... or returns a value, which response_from_return_value turns into a
\* response, or into a 500 when it cannot be encoded ...
Return(response) ==
    /\ At(LoopThread, "step")
    /\ coroutine' = "closed"
    /\ EndWith(LoopThread, response, "returned")
    /\ Goto(LoopThread, "finish")
    /\ UNCHANGED <<state_lock, taken, stopVars, waiting_on, must_cancel,
                   registries, outcome, channel>>

\* ... or raises, a CancelledError or another exception ...
Raise(completed) ==
    /\ At(LoopThread, "step")
    /\ coroutine' = "closed"
    /\ EndWith(LoopThread, "error", completed)
    /\ Goto(LoopThread, "finish")
    /\ UNCHANGED <<state_lock, taken, stopVars, waiting_on, must_cancel,
                   registries, outcome, channel>>

\* ... or observes its own task: add_done_callback on a task that is not
\* finished (on a finished one the callback goes to the loop at once) ...
AddDoneCallback ==
    /\ At(LoopThread, "step")
    /\ StateFree
    /\ ~finished
    /\ done_callbacks' = [done_callbacks EXCEPT ![Nobody] = TRUE]
    /\ UNCHANGED <<gil_build, gil, state_lock, pc, params, was_registered,
                   stopVars, coroutine, waiting_on, must_cancel, registries,
                   outcome, channel>>

\* ... and remove_done_callback, which compares under the lock.
RemoveDoneCallback ==
    /\ At(LoopThread, "step")
    /\ StateFree
    /\ done_callbacks[Nobody]
    /\ state_lock' = LoopThread
    /\ Goto(LoopThread, "comparing")
    /\ UNCHANGED <<params, taken, stopVars, coroutine, waiting_on, must_cancel,
                   registries, outcome, channel>>

Compared(equal) ==
    /\ At(LoopThread, "comparing")
    /\ done_callbacks' = [done_callbacks EXCEPT ![Nobody] = ~equal]
    /\ state_lock' = Nobody
    /\ Goto(LoopThread, "step")
    /\ UNCHANGED <<params, was_registered, stopVars, coroutine, waiting_on,
                   must_cancel, registries, outcome, channel>>

\* The loop runs the stop callback and is closed; the thread ends.
LoopStops ==
    /\ At(LoopThread, "ready")
    /\ stop_posted
    /\ Goto(LoopThread, "dead")
    /\ UNCHANGED <<state_lock, params, taken, stopVars, coroutine, waiting_on,
                   must_cancel, registries, outcome, channel>>

\* A step of the coroutine is over.
StepEnds ==
    \/ \E on_future \in BOOLEAN : Park(on_future)
    \/ ParkFails
    \/ \E response \in {"handler", "error"} : Return(response)
    \/ \E completed \in {"raised", "cancelled"} : Raise(completed)

LoopStep ==
    \/ CancelBeforeStart
    \/ BeginStep
    \/ BuildCoroutine
    \/ \E completed \in {"raised", "aborted"} : StartFails(completed)
    \/ \E succeeds \in BOOLEAN : RegisterTask(succeeds)
    \/ FlagRegistered
    \/ Resume
    \/ EnterFails
    \/ StepEnds
    \/ AddDoneCallback
    \/ RemoveDoneCallback
    \/ \E equal \in BOOLEAN : Compared(equal)
    \/ LoopStops

-----------------------------------------------------------------------------
(***************************************************************************)
(* HandlerTask::finish, on whichever thread calls it, and what comes       *)
(* before it when the coroutine can never be stepped again                 *)
(***************************************************************************)

\* close_coroutine_quietly: the coroutine is fetched under the lock; closing
\* one that another thread executes fails and is logged.
FetchToClose(t) ==
    /\ At(t, "close")
    /\ StateFree
    /\ IF coroutine = "suspended"
       THEN coroutine' = "executing" /\ Goto(t, "closing")
       ELSE UNCHANGED coroutine /\ Goto(t, "finish")
    /\ UNCHANGED <<state_lock, params, taken, stopVars, waiting_on,
                   must_cancel, registries, outcome, channel>>

\* Its cleanup has run; finish comes next, with an internal error.
Closed(t) ==
    /\ At(t, "closing")
    /\ coroutine' = "closed"
    /\ Goto(t, "finish")
    /\ UNCHANGED <<state_lock, params, taken, stopVars, waiting_on,
                   must_cancel, registries, outcome, channel>>

\* The task was finished before: only make sure that there is a response,
\* with the guard of the state still alive.
FinishAgain(t) ==
    /\ At(t, "finish")
    /\ StateFree
    /\ finished
    /\ state_lock' = t
    /\ Goto(t, "take")
    /\ UNCHANGED <<params, taken, stopVars, coroutine, waiting_on, must_cancel,
                   registries, outcome, channel>>

\* The locked section.  The future it drops may run a finalizer, with the
\* lock held.
FinishLocked(t) ==
    /\ At(t, "finish")
    /\ StateFree
    /\ ~finished
    /\ finished' = TRUE
    /\ waiting_on' = FALSE
    /\ completion' = kind[t]
    /\ recorded' = reply[t]
    /\ was_registered' = [was_registered EXCEPT ![t] = registered]
    /\ registered' = FALSE
    /\ done_callbacks' = [done_callbacks EXCEPT
                             ![t] = done_callbacks[Nobody], ![Nobody] = FALSE]
    /\ \/ waiting_on /\ state_lock' = t /\ Goto(t, "finalizing")
       \/ UNCHANGED state_lock /\ Goto(t, "leave")
    /\ UNCHANGED <<params, stopVars, coroutine, must_cancel, live, all_tasks,
                   channel>>

Finalized(t) ==
    /\ At(t, "finalizing")
    /\ state_lock' = Nobody
    /\ Goto(t, "leave")
    /\ UNCHANGED <<params, taken, stopVars, coroutine, waiting_on, must_cancel,
                   registries, outcome, channel>>

LeaveLiveTasks(t) ==
    /\ At(t, "leave")
    /\ live' = FALSE
    /\ Goto(t, "unregister")
    /\ UNCHANGED <<state_lock, params, taken, stopVars, coroutine, waiting_on,
                   must_cancel, all_tasks, registered, outcome, channel>>

\* Seeded fault: the response goes out before the callbacks are fired.
UnregisterAndSend(t) ==
    /\ At(t, "unregister")
    /\ all_tasks' = (all_tasks /\ ~was_registered[t])
    /\ Goto(t, "take")
    /\ UNCHANGED <<state_lock, params, taken, stopVars, coroutine, waiting_on,
                   must_cancel, live, registered, outcome, channel>>

Unregister(t) ==
    /\ At(t, "unregister")
    /\ all_tasks' = (all_tasks /\ ~was_registered[t])
    /\ Goto(t, "fire")
    /\ UNCHANGED <<state_lock, params, taken, stopVars, coroutine, waiting_on,
                   must_cancel, live, registered, outcome, channel>>

\* call_soon; a closed loop refuses, and the callback is gone either way.
FireCallbacks(t) ==
    /\ At(t, "fire")
    /\ done_callbacks' = [done_callbacks EXCEPT ![t] = FALSE]
    /\ Goto(t, "take")
    /\ UNCHANGED <<state_lock, params, was_registered, stopVars, coroutine,
                   waiting_on, must_cancel, registries, outcome, channel>>

\* finish returns: a guard of the state that is still alive is dropped.
FinishReturns(t) ==
    /\ state_lock' = IF state_lock = t THEN Nobody ELSE state_lock
    /\ Goto(t, IF t = LoopThread THEN "ready" ELSE "done")

\* Seeded fault: a send that finds no sender counts down all the same.
TakeSenderOrNot(t) ==
    /\ At(t, "take")
    /\ sender' = FALSE
    /\ UNCHANGED state_lock /\ Goto(t, "count")
    /\ UNCHANGED <<params, taken, stopVars, coroutine, waiting_on, must_cancel,
                   registries, outcome, in_flight, answer>>

\* Seeded fault: the gauge is forgotten.
TakeSenderUncounted(t) ==
    /\ At(t, "take")
    /\ sender' = FALSE
    /\ IF sender
       THEN UNCHANGED state_lock /\ Goto(t, "send")
       ELSE FinishReturns(t)
    /\ UNCHANGED <<params, taken, stopVars, coroutine, waiting_on, must_cancel,
                   registries, outcome, in_flight, answer>>

\* ResponseChannel::send: the sender is taken, under its own lock ...
TakeSender(t) ==
    /\ At(t, "take")
    /\ sender' = FALSE
    /\ IF sender
       THEN UNCHANGED state_lock /\ Goto(t, "count")
       ELSE FinishReturns(t)
    /\ UNCHANGED <<params, taken, stopVars, coroutine, waiting_on, must_cancel,
                   registries, outcome, in_flight, answer>>

\* ... the gauge goes down ...
CountDown(t) ==
    /\ At(t, "count")
    /\ in_flight' = in_flight - 1
    /\ Goto(t, "send")
    /\ UNCHANGED <<state_lock, params, taken, stopVars, coroutine, waiting_on,
                   must_cancel, registries, outcome, sender, answer>>

\* ... and the response goes out.
Send(t) ==
    /\ At(t, "send")
    /\ answer' = reply[t]
    /\ FinishReturns(t)
    /\ UNCHANGED <<params, taken, stopVars, coroutine, waiting_on, must_cancel,
                   registries, outcome, sender, in_flight>>

Finish(t) ==
    \/ FetchToClose(t)
    \/ Closed(t)
    \/ FinishAgain(t)
    \/ FinishLocked(t)
    \/ Finalized(t)
    \/ LeaveLiveTasks(t)
    \/ Unregister(t)
    \/ FireCallbacks(t)
    \/ TakeSender(t)
    \/ CountDown(t)
    \/ Send(t)

-----------------------------------------------------------------------------
(***************************************************************************)
(* EventLoop::stop and HandlerTask::dispose                                *)
(***************************************************************************)

\* The call that wins the join handle stops the loop.
TakeThread(s) ==
    /\ At(s, "idle")
    /\ thread_slot' = FALSE
    /\ Goto(s, IF thread_slot THEN "post" ELSE "drain")
    /\ UNCHANGED <<state_lock, params, taken, stop_posted, raced, coroutine,
                   waiting_on, must_cancel, registries, outcome, channel>>

PostStop(s) ==
    /\ At(s, "post")
    /\ stop_posted' = TRUE
    /\ Goto(s, "join")
    /\ UNCHANGED <<state_lock, params, taken, thread_slot, raced, coroutine,
                   waiting_on, must_cancel, registries, outcome, channel>>

Join(s) ==
    /\ At(s, "join")
    /\ pc[LoopThread] = "dead"
    /\ Goto(s, "drain")
    /\ UNCHANGED <<state_lock, params, taken, stopVars, coroutine, waiting_on,
                   must_cancel, registries, outcome, channel>>

\* Seeded fault: the registry is emptied and nothing disposed of.
DrainOnly(s) ==
    /\ At(s, "drain")
    /\ live' = FALSE
    /\ Goto(s, "done")
    /\ UNCHANGED <<state_lock, params, taken, stopVars, coroutine, waiting_on,
                   must_cancel, all_tasks, registered, outcome, channel>>

\* What is still in live_tasks is taken out and disposed of.
Drain(s) ==
    /\ At(s, "drain")
    /\ live' = FALSE
    /\ raced' = (raced \/ (live /\ pc[LoopThread] # "dead"))
    /\ Goto(s, IF live THEN "close" ELSE "done")
    /\ UNCHANGED <<state_lock, params, taken, thread_slot, stop_posted,
                   coroutine, waiting_on, must_cancel, all_tasks, registered,
                   outcome, channel>>

Stop(s) ==
    \/ TakeThread(s)
    \/ PostStop(s)
    \/ Join(s)
    \/ Drain(s)

Next ==
    \/ LoopStep
    \/ \E t \in Threads : Finish(t)
    \/ \E s \in Stoppers : Stop(s)

Spec == Init /\ [][Next]_vars

-----------------------------------------------------------------------------
(***************************************************************************)
(* Safety                                                                  *)
(***************************************************************************)

\* The task is done in every respect a client could ask about.
Complete ==
    /\ finished /\ ~live /\ ~all_tasks
    /\ \A t \in Threads \cup {Nobody} : ~done_callbacks[t]

\* The response goes out last (finish: "release the response last so a woken
\* client can never observe a half-finished task").
ResponseIsLast == answer # "none" => Complete

\* It does unless a second stop() disposed of the task while the loop thread
\* was alive: in every other interleaving of finish with stop(), and however
\* the task ends (a value, one that cannot be encoded, an exception, a
\* cancellation, a failure of the interpreter), the response comes after the
\* registries and the callbacks, and is the one finish was called with when it
\* recorded the completion: a returned value reaches the client only for a
\* task that is recorded as returned.
LastUnlessRaced ==
    answer # "none" /\ ~raced
        => /\ Complete
           /\ answer = recorded
           /\ answer = "handler" => completion = "returned"

\* The gauge leads the response by one hand-over, whoever finishes the task
\* and however often: a client that has its response never finds its request
\* still counted against the loop, and a request is taken off the gauge only
\* by the thread that is about to respond (ResponseChannel::send: "`take`
\* fires at most once per request").
GaugeLeads ==
    /\ answer # "none" => in_flight = 0
    /\ in_flight = 0 => answer # "none" \/ \E t \in Threads : pc[t] = "send"

\* When the loop is dead and every stop() has returned, nothing is left: the
\* task is finished, its response sent and the gauge down, raced or not (stop:
\* "dispose of any task that can never run again").
NothingLeftBehind ==
    pc[LoopThread] = "dead" /\ (\A s \in Stoppers : pc[s] = "done")
        => finished /\ ~live /\ answer # "none" /\ in_flight = 0

(***************************************************************************)
(* Liveness                                                                *)
(***************************************************************************)

\* Threads run and get the GIL in turn, the loop's queue is first
\* in, first out, and no step of a handler lasts for ever.
Fairness ==
    /\ SF_vars(LoopStep \/ Finish(LoopThread))
    /\ SF_vars(StepEnds)
    /\ SF_vars(LoopStops)
    /\ \A s \in Stoppers : SF_vars(Stop(s) \/ Finish(s))

FairSpec == Spec /\ Fairness

=============================================================================
