------------------------------- MODULE Server -------------------------------
(***************************************************************************)
(* The life of a Server (crates/core/src/lib.rs): start_server, serve's    *)
(* accept loop and connection drain (crates/server/src/lib.rs), the        *)
(* threads that call wait() and shutdown(), and the drop of the Server     *)
(* object.                                                                 *)
(*                                                                         *)
(* Time is abstract: a timeout may fire at any moment before what it waits *)
(* for.  Each connection carries one request.  Stopping one event loop is  *)
(* two steps here, before and after the join; module EventLoop has what    *)
(* happens on the loop.                                                    *)
(***************************************************************************)
EXTENDS Integers

CONSTANTS
    LoopCount,      \* loop_threads
    Shutters,       \* threads that call shutdown()
    Waiters,        \* threads that call wait()
    Droppers,       \* the thread that lets the Server object go, if any
    AsyncConns,     \* connections whose request has an async handler
    SyncConns,      \* connections whose request has a sync handler
    GilBuilds       \* the builds of CPython: with a GIL (TRUE) or
                    \* free-threaded (FALSE)

Threads == Shutters \cup Waiters \cup Droppers
Conns == AsyncConns \cup SyncConns
Loops == 1..LoopCount

ASSUME LoopCountAssumption == LoopCount \in Nat \ {0}
ASSUME ThreadsAssumption ==
    /\ Shutters \cap Waiters = {}
    /\ (Shutters \cup Waiters) \cap Droppers = {}
ASSUME ConnsAssumption == AsyncConns \cap SyncConns = {}
ASSUME GilBuildsAssumption == GilBuilds \subseteq BOOLEAN

VARIABLES
    serve,          \* where start_server is ("routes", "loops", "runtime",
                    \* "bind", or "failed"), then where serve is:
                    \* "accepting", "draining" or "finished" (it has sent on
                    \* the finished channel)
    signalled,      \* serve's watch receiver has a change it has not seen
    notified,       \* the same for the receivers wait() subscribes
    serve_finished, \* the slot still holds the finished receiver
    loops,          \* loops[l]: "unstarted", "running", "stopping" (its join
                    \* handle is taken) or "stopped"
    pc,             \* where a thread is in wait, shutdown_impl or Drop
    stop_index,     \* the loop a thread in EventLoopPool::stop is at
    overlapped,     \* a thread entered shutdown_impl while another was in it
    conn,           \* "none", "open" (no request yet), "busy", "closed", or
                    \* "orphaned": closed, its sync handler still running
    loop_of,        \* the loop an async connection's request was placed on
    cancelled,      \* cancel_in_flight reached the connection's handler
    answer,         \* "none", "handler", "cancelled", "refused" (the loops
                    \* were stopped), "rejected" (no handler was called),
                    \* "aborted" (disposed of by stop) or "gone" (the
                    \* client left)
    grace_expired,  \* some thread has waited a whole grace period
    python          \* "gil" for ever on a GIL build; on a free-threaded one
                    \* "running", or "stopping" while a collection waits for
                    \* the attached threads to stop

watchVars == <<signalled, notified>>
connVars == <<conn, loop_of, cancelled, answer>>
stopVars == <<loops, stop_index>>
history == <<grace_expired, overlapped>>
vars == <<serve, watchVars, serve_finished, stopVars, pc, connVars, history,
          python>>

TypeOK ==
    /\ serve \in {"routes", "loops", "runtime", "bind", "failed",
                  "accepting", "draining", "finished"}
    /\ signalled \in BOOLEAN
    /\ notified \in [Waiters -> BOOLEAN]
    /\ serve_finished \in BOOLEAN
    /\ loops \in [Loops -> {"unstarted", "running", "stopping", "stopped"}]
    /\ pc \in [Threads -> {"idle", "watching", "signal", "take", "grace",
                           "drain", "stop", "join", "done", "release",
                           "gone"}]
    /\ stop_index \in [Threads -> Loops]
    /\ loop_of \in [AsyncConns -> Loops]
    /\ overlapped \in BOOLEAN
    /\ conn \in [Conns -> {"none", "open", "busy", "orphaned", "closed"}]
    /\ cancelled \in [Conns -> BOOLEAN]
    /\ answer \in [Conns -> {"none", "handler", "cancelled", "refused",
                             "rejected", "aborted", "gone"}]
    /\ grace_expired \in BOOLEAN
    /\ python \in {"gil", "running", "stopping"}

Init ==
    /\ serve = "routes"
    /\ signalled = FALSE
    /\ notified = [w \in Waiters |-> FALSE]
    /\ serve_finished = TRUE
    /\ loops = [l \in Loops |-> "unstarted"]
    /\ pc = [t \in Threads |-> "idle"]
    /\ stop_index = [t \in Threads |-> 1]
    /\ loop_of = [c \in AsyncConns |-> 1]
    /\ overlapped = FALSE
    /\ conn = [c \in Conns |-> "none"]
    /\ cancelled = [c \in Conns |-> FALSE]
    /\ answer = [c \in Conns |-> "none"]
    /\ grace_expired = FALSE
    /\ python \in {IF gil THEN "gil" ELSE "running" : gil \in GilBuilds}

\* The runtime field is dropped with the thread attached to the interpreter.
DropperAttached == \E d \in Droppers : pc[d] = "release"

\* No other thread can run Python: on a GIL build because the dropper has the
\* GIL, on a free-threaded one because the world is being stopped.
PythonBlocked ==
    python = "stopping" \/ (python = "gil" /\ DropperAttached)

\* The handler of a sync request is on its blocking thread.
SyncRunning(c) == c \in SyncConns /\ conn[c] \in {"busy", "orphaned"}

\* A call needs an object, and one that is not being dropped.
Started == serve \in {"accepting", "draining", "finished"}
Dropped == \E d \in Droppers : pc[d] # "idle"

Goto(t, place) == pc' = [pc EXCEPT ![t] = place]

-----------------------------------------------------------------------------
(***************************************************************************)
(* start_server                                                            *)
(***************************************************************************)

StartStep(from, to) ==
    /\ serve = from
    /\ serve' = to
    /\ UNCHANGED <<watchVars, serve_finished, stopVars, pc, connVars, history,
                   python>>

\* The routes are compiled; module Request has what is checked.
CompileRoutes == StartStep("routes", "loops")

\* EventLoopPool::start: loop after loop.
StartLoop(l) ==
    /\ serve = "loops"
    /\ loops[l] = "unstarted"
    /\ \A k \in 1..(l - 1) : loops[k] = "running"
    /\ loops' = [loops EXCEPT ![l] = "running"]
    /\ serve' = IF l = LoopCount THEN "runtime" ELSE serve
    /\ UNCHANGED <<watchVars, serve_finished, stop_index, pc, connVars,
                   history, python>>

BuildRuntime == StartStep("runtime", "bind")

\* The listener is bound, serve spawned and the Server returned.
Bind == StartStep("bind", "accepting")

\* Any of these fails: the error goes to the caller.  Nothing stops the loops
\* that were started.
StartFails ==
    \E stage \in {"routes", "loops", "runtime", "bind"} :
        StartStep(stage, "failed")

Starting ==
    \/ CompileRoutes
    \/ \E l \in Loops : StartLoop(l)
    \/ BuildRuntime
    \/ Bind
    \/ StartFails

-----------------------------------------------------------------------------
(***************************************************************************)
(* serve: accept until the watch fires, then drain the connections         *)
(***************************************************************************)

AcceptConnection(c) ==
    /\ serve = "accepting"
    /\ conn[c] = "none"
    /\ conn' = [conn EXCEPT ![c] = "open"]
    /\ UNCHANGED <<serve, watchVars, serve_finished, stopVars, pc, cancelled,
                   answer, history, loop_of, python>>

\* select! may still take the accept branch when both are ready.
ServeBreaks ==
    /\ serve = "accepting"
    /\ signalled
    /\ serve' = "draining"
    /\ UNCHANGED <<watchVars, serve_finished, stopVars, pc, connVars, history,
                   python>>

\* graceful.shutdown() has let every connection end.
ServeFinishes ==
    /\ serve = "draining"
    /\ \A c \in Conns : conn[c] \in {"none", "orphaned", "closed"}
    /\ serve' = "finished"
    /\ UNCHANGED <<watchVars, serve_finished, stopVars, pc, connVars, history,
                   python>>

\* Graceful shutdown closes a connection that has no request.
IdleConnectionCloses(c) ==
    /\ serve = "draining"
    /\ conn[c] = "open"
    /\ conn' = [conn EXCEPT ![c] = "closed"]
    /\ UNCHANGED <<serve, watchVars, serve_finished, stopVars, pc, cancelled,
                   answer, history, loop_of, python>>

\* Seeded fault: the loop's index is not reduced to the size of the pool.
RequestPlacedPastPool(c) ==
    /\ conn[c] = "open"
    /\ ~PythonBlocked
    /\ conn' = [conn EXCEPT ![c] = "busy"]
    /\ \/ c \in SyncConns /\ UNCHANGED loop_of
       \/ \E l \in Loops :
          c \in AsyncConns /\ loop_of' = [loop_of EXCEPT ![c] = l + 1]
    /\ UNCHANGED <<serve, watchVars, serve_finished, stopVars, pc, cancelled,
                   answer, history, python>>

\* AppService::handle dispatches the request.  An async one is placed on some
\* loop (EventLoopPool has the choice), which refuses it at once when it is
\* stopped; a sync one goes to a blocking thread.
RequestArrives(c) ==
    /\ conn[c] = "open"
    /\ ~PythonBlocked
    /\ \/ /\ c \in SyncConns
          /\ conn' = [conn EXCEPT ![c] = "busy"]
          /\ UNCHANGED <<loop_of, answer>>
       \/ \E l \in Loops :
          /\ c \in AsyncConns
          /\ loop_of' = [loop_of EXCEPT ![c] = l]
          /\ IF loops[l] = "stopped"
             THEN /\ conn' = [conn EXCEPT ![c] = "closed"]
                  /\ answer' = [answer EXCEPT ![c] = "refused"]
             ELSE /\ conn' = [conn EXCEPT ![c] = "busy"]
                  /\ UNCHANGED answer
    /\ UNCHANGED <<serve, watchVars, serve_finished, stopVars, pc, cancelled,
                   history, python>>

\* handle answers by itself: no route matches, or a path parameter does not
\* convert.
RequestRejected(c) ==
    /\ conn[c] = "open"
    /\ conn' = [conn EXCEPT ![c] = "closed"]
    /\ answer' = [answer EXCEPT ![c] = "rejected"]
    /\ UNCHANGED <<serve, watchVars, serve_finished, stopVars, pc, cancelled,
                   history, loop_of, python>>

\* The handler ends by itself, or unwinds because it was cancelled.
HandlerEnds(c) ==
    /\ conn[c] \in {"busy", "orphaned"}
    /\ ~PythonBlocked
    /\ conn' = [conn EXCEPT ![c] = "closed"]
    /\ answer' = [answer EXCEPT ![c] = IF @ = "gone" THEN @
                                       ELSE IF cancelled[c] THEN "cancelled"
                                       ELSE "handler"]
    /\ UNCHANGED <<serve, watchVars, serve_finished, stopVars, pc, cancelled,
                   history, loop_of, python>>

\* A handler allocates enough for a stop-the-world collection.  (Async ones
\* do too, but none of them runs any more when the runtime is dropped.)
Collect(c) ==
    /\ python = "running"
    /\ SyncRunning(c)
    /\ python' = "stopping"
    /\ UNCHANGED <<serve, watchVars, serve_finished, stopVars, pc, connVars,
                   history>>

\* It waits for every thread that is attached; those that run Python stop by
\* themselves, the dropper does not.
Collected ==
    /\ python = "stopping"
    /\ ~DropperAttached
    /\ python' = "running"
    /\ UNCHANGED <<serve, watchVars, serve_finished, stopVars, pc, connVars,
                   history>>

\* The client disconnects.  An async handler is cancelled; a sync one keeps
\* its blocking thread.
ClientLeaves(c) ==
    /\ conn[c] \in {"open", "busy"}
    /\ conn' = [conn EXCEPT ![c] = IF @ = "busy" /\ c \in SyncConns
                                   THEN "orphaned" ELSE "closed"]
    /\ answer' = [answer EXCEPT ![c] = "gone"]
    /\ UNCHANGED <<serve, watchVars, serve_finished, stopVars, pc, cancelled,
                   history, loop_of, python>>

-----------------------------------------------------------------------------
(***************************************************************************)
(* wait, shutdown and Drop, up to their shutdown_impl                      *)
(***************************************************************************)

\* subscribe() counts what was sent before as seen.
CallWait(t) ==
    /\ t \in Waiters
    /\ pc[t] = "idle"
    /\ Started /\ ~Dropped
    /\ notified' = [notified EXCEPT ![t] = FALSE]
    /\ Goto(t, "watching")
    /\ UNCHANGED <<serve, signalled, serve_finished, stopVars, connVars,
                   history, python>>

WaitWakes(t) ==
    /\ t \in Waiters
    /\ pc[t] = "watching"
    /\ notified[t]
    /\ Goto(t, "signal")
    /\ UNCHANGED <<serve, watchVars, serve_finished, stopVars, connVars,
                   history, python>>

CtrlC(t) ==
    /\ pc[t] = "watching"
    /\ Goto(t, "signal")
    /\ UNCHANGED <<serve, watchVars, serve_finished, stopVars, connVars,
                   history, python>>

\* App.run calls shutdown() once more when wait() has returned.
CallShutdown(t) ==
    /\ \/ t \in Shutters /\ pc[t] = "idle"
       \/ t \in Waiters /\ pc[t] = "done"
    /\ Started /\ ~Dropped
    /\ Goto(t, "signal")
    /\ UNCHANGED <<serve, watchVars, serve_finished, stopVars, connVars,
                   history, python>>

\* The last reference goes when no call is under way.
DropServer(t) ==
    /\ t \in Droppers
    /\ pc[t] = "idle"
    /\ Started
    /\ \A u \in Shutters \cup Waiters : pc[u] \in {"idle", "done"}
    /\ Goto(t, "signal")
    /\ UNCHANGED <<serve, watchVars, serve_finished, stopVars, connVars,
                   history, python>>

-----------------------------------------------------------------------------
(***************************************************************************)
(* Server::shutdown_impl                                                   *)
(***************************************************************************)

InShutdown(t) == pc[t] \in {"take", "grace", "drain", "stop", "join"}
Overlap(t) == overlapped' = (overlapped \/ \E u \in Threads : InShutdown(u))

\* shutdown_sender.send(true) reaches the receivers there are.
SendSignal(t) ==
    /\ pc[t] = "signal"
    /\ signalled' = TRUE
    /\ notified' = [w \in Waiters |-> notified[w] \/ pc[w] = "watching"]
    /\ Overlap(t)
    /\ Goto(t, "take")
    /\ UNCHANGED <<serve, serve_finished, stopVars, connVars, grace_expired,
                   python>>

\* Seeded fault: nobody waits for the drain.
TakeNoReceiver(t) ==
    /\ pc[t] = "take"
    /\ Goto(t, "stop")
    /\ UNCHANGED <<serve, watchVars, serve_finished, stopVars, connVars,
                   history, python>>

\* Only the thread that takes the receiver waits for the drain.
TakeReceiver(t) ==
    /\ pc[t] = "take"
    /\ serve_finished' = FALSE
    /\ Goto(t, IF serve_finished THEN "grace" ELSE "stop")
    /\ UNCHANGED <<serve, watchVars, stopVars, connVars, history, python>>

DrainedNaturally(t) ==
    /\ pc[t] = "grace"
    /\ serve = "finished"
    /\ Goto(t, "stop")
    /\ UNCHANGED <<serve, watchVars, serve_finished, stopVars, connVars,
                   history, python>>

\* Seeded fault: the wait for the drain has no timeout.
GraceNeverExpires(t) ==
    /\ pc[t] = "grace"
    /\ FALSE
    /\ UNCHANGED vars

\* The timeout of the grace period: cancel_in_flight, then a second wait.
GraceExpires(t) ==
    /\ pc[t] = "grace"
    /\ serve # "finished"
    /\ cancelled' = [c \in Conns |-> cancelled[c] \/
                                     (c \in AsyncConns /\ conn[c] = "busy")]
    /\ grace_expired' = TRUE
    /\ Goto(t, "drain")
    /\ UNCHANGED <<serve, watchVars, serve_finished, stopVars, conn, loop_of,
                   answer, overlapped, python>>


\* Drained after the cancellation, or CANCELLED_DRAIN_SECONDS are over.
DrainEnds(t) ==
    /\ pc[t] = "drain"
    /\ Goto(t, "stop")
    /\ UNCHANGED <<serve, watchVars, serve_finished, stopVars, connVars,
                   history, python>>

\* EventLoopPool::stop goes on to the next loop, or shutdown_impl returns;
\* Drop then releases the fields of the Server.
NextLoop(t) ==
    IF stop_index[t] < LoopCount
    THEN /\ stop_index' = [stop_index EXCEPT ![t] = @ + 1]
         /\ Goto(t, "stop")
    ELSE /\ stop_index' = [stop_index EXCEPT ![t] = 1]
         /\ Goto(t, IF t \in Droppers THEN "release" ELSE "done")

\* Seeded fault: the registry is not drained.
DisposeNothing(l) == UNCHANGED <<conn, answer>>

\* What is still registered with loop l is disposed of.
Dispose(l) ==
    LET left == {c \in AsyncConns : conn[c] = "busy" /\ loop_of[c] = l} IN
    /\ conn' = [c \in Conns |-> IF c \in left THEN "closed" ELSE conn[c]]
    /\ answer' = [c \in Conns |-> IF c \in left THEN "aborted" ELSE answer[c]]

\* EventLoop::stop: the call that wins the join handle stops the loop and
\* waits for its thread ...
StopLoop(t) ==
    /\ pc[t] = "stop"
    /\ loops[stop_index[t]] = "running"
    /\ loops' = [loops EXCEPT ![stop_index[t]] = "stopping"]
    /\ Goto(t, "join")
    /\ UNCHANGED <<serve, watchVars, serve_finished, stop_index, connVars,
                   history, python>>

LoopJoined(t) ==
    /\ pc[t] = "join"
    /\ loops' = [loops EXCEPT ![stop_index[t]] = "stopped"]
    /\ Dispose(stop_index[t])
    /\ NextLoop(t)
    /\ UNCHANGED <<serve, watchVars, serve_finished, loop_of, cancelled,
                   history, python>>

\* ... another call goes straight to the registry.
StopAgain(t) ==
    /\ pc[t] = "stop"
    /\ loops[stop_index[t]] \in {"stopping", "stopped"}
    /\ Dispose(stop_index[t])
    /\ NextLoop(t)
    /\ UNCHANGED <<serve, watchVars, serve_finished, loops, loop_of, cancelled,
                   history, python>>

\* The Runtime's own drop waits for the blocking threads.
RuntimeReleased(t) ==
    /\ pc[t] = "release"
    /\ \A c \in SyncConns : ~SyncRunning(c)
    /\ Goto(t, "gone")
    /\ UNCHANGED <<serve, watchVars, serve_finished, stopVars, connVars,
                   history, python>>

\* Up to the drop of the runtime the thread is attached, or attaches again
\* when a wait is over.
ShutdownImpl(t) ==
    \/ /\ ~PythonBlocked
       /\ \/ SendSignal(t)
          \/ TakeReceiver(t)
          \/ DrainedNaturally(t)
          \/ GraceExpires(t)
          \/ DrainEnds(t)
          \/ StopLoop(t)
          \/ LoopJoined(t)
          \/ StopAgain(t)
    \/ RuntimeReleased(t)

Serving ==
    \/ ServeBreaks
    \/ ServeFinishes
    \/ \E c \in Conns : IdleConnectionCloses(c)

Next ==
    \/ Starting
    \/ Serving
    \/ \E c \in Conns : \/ AcceptConnection(c)
                        \/ RequestArrives(c)
                        \/ RequestRejected(c)
                        \/ HandlerEnds(c)
                        \/ ClientLeaves(c)
                        \/ Collect(c)
    \/ Collected
    \/ \E t \in Threads : \/ CallWait(t)
                          \/ WaitWakes(t)
                          \/ CtrlC(t)
                          \/ CallShutdown(t)
                          \/ DropServer(t)
                          \/ ShutdownImpl(t)

Spec == Init /\ [][Next]_vars

-----------------------------------------------------------------------------
(***************************************************************************)
(* Safety                                                                  *)
(***************************************************************************)

\* In-flight requests get their grace period: none is cancelled or aborted
\* by a shutdown before somebody has waited that long (shutdown: "in-flight
\* requests get `grace_seconds` to finish, then are cancelled").
GraceHonoured ==
    (\E c \in Conns : answer[c] \in {"cancelled", "aborted"})
        => grace_expired

\* They do unless two shutdowns overlap: wait() followed by shutdown(), as
\* App.run does, repeated calls and the final drop keep the promise, since
\* only a call that finds the finished receiver gone skips the wait.
GraceUnlessOverlap == overlapped \/ GraceHonoured

\* Once some shutdown has returned and none is under way, the whole pool is
\* stopped and no async request is left without an answer, however the calls
\* overlapped and whatever loop it was placed on in between (EventLoop::stop:
\* "Stop the loop, join its thread, and dispose of any task that can never
\* run again").
ShutdownLeavesNothing ==
    /\ \E t \in Threads : pc[t] \in {"done", "release", "gone"}
    /\ \A t \in Threads : ~InShutdown(t)
    => /\ \A l \in Loops : loops[l] = "stopped"
       /\ \A c \in AsyncConns : conn[c] # "busy"

(***************************************************************************)
(* Liveness                                                                *)
(***************************************************************************)

\* Timeouts fire, the calls go on, and serve runs.  Handlers of async
\* requests may hang and clients may stay for ever; sync handlers end, if
\* the interpreter lets them run again and again, and a collection begins
\* once the threads it waits for have stopped.
Fairness ==
    /\ \A t \in Threads : WF_vars(ShutdownImpl(t) \/ WaitWakes(t))
    /\ WF_vars(ServeBreaks)
    /\ WF_vars(ServeFinishes)
    /\ \A c \in Conns : WF_vars(IdleConnectionCloses(c))
    /\ \A c \in SyncConns : SF_vars(HandlerEnds(c))
    /\ WF_vars(Collected)

FairSpec == Spec /\ Fairness

\* shutdown() returns, even if async handlers never end and clients never
\* leave: the drain is bounded by two timeouts (shutdown_impl).
ShutdownReturns ==
    \A t \in Shutters \cup Waiters : pc[t] = "signal" ~> pc[t] = "done"

\* wait() blocks until a shutdown() from another thread, and no longer
\* (wait: "Block until Ctrl+C (or a `shutdown()` from another thread)").
WaitReturns ==
    \A t \in Waiters :
        pc[t] = "watching" /\ (\E u \in Shutters : pc[u] # "idle")
            ~> pc[t] # "watching"

\* Dropping the Server completes although threads it waits for may need to
\* attach to Python (Drop: "the detached waits inside keep this safe with the
\* GIL held"; docs/design/dispatch-scheduler.md: "Long Rust-only work always
\* runs detached (`Python::detach`) so stop-the-world GC never waits on us").
DropCompletes ==
    \A d \in Droppers : pc[d] # "idle" ~> pc[d] = "gone"

=============================================================================
