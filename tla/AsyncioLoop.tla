---------------------------- MODULE AsyncioLoop ----------------------------
(***************************************************************************)
(* The asyncio event loop as rayo-dispatch uses it.  This is CPython code, *)
(* not rayo's: only what crates/dispatch/src/lib.rs relies on is here.     *)
(*                                                                         *)
(* The loop owns a FIFO queue of callbacks.  call_soon appends to it, and  *)
(* so does call_soon_threadsafe, from any thread; both raise once the loop *)
(* is closed.  A task that awaits a future is woken by a callback which    *)
(* the future queues when it becomes done.                                 *)
(***************************************************************************)
EXTENDS Naturals, Sequences

CONSTANTS
    Tasks,      \* the HandlerTask objects, one for each request
    NoTask      \* "no task"

ASSUME NoTaskAssumption == NoTask \notin Tasks

VARIABLES
    loop,       \* "running", "stopping" (loop.stop() ran) or "closed"
    ready,      \* the callbacks queued on the loop, oldest first
    future      \* future[t]: the future that holds t as its done callback:
                \* "none", "pending", or "cancelling" (a child task that
                \* accepted a cancel() and has not ended yet)

loopVars == <<loop, ready, future>>

(***************************************************************************)
(* The argument of a task's callback: "none" for call_soon(task), else     *)
(* what the finished future's result() does.                               *)
(***************************************************************************)
WakeResults == {"ok", "error", "cancelled"}
WakeArgs == WakeResults \cup {"none"}

Entries == [kind : {"step", "cancel", "done", "stop"},
            task : Tasks \cup {NoTask},
            arg  : WakeArgs]

StepEntry(t, arg) == [kind |-> "step", task |-> t, arg |-> arg]
CancelEntry(t) == [kind |-> "cancel", task |-> t, arg |-> "none"]
DoneEntry(t) == [kind |-> "done", task |-> t, arg |-> "none"]
StopEntry == [kind |-> "stop", task |-> NoTask, arg |-> "none"]

LoopTypeOK ==
    /\ loop \in {"running", "stopping", "closed"}
    /\ ready \in Seq(Entries)
    /\ future \in [Tasks -> {"none", "pending", "cancelling"}]

LoopInit ==
    /\ loop = "running"
    /\ ready = <<>>
    /\ future = [t \in Tasks |-> "none"]

\* call_soon and call_soon_threadsafe raise "Event loop is closed" otherwise.
Alive == loop # "closed"

\* call_soon_threadsafe by a caller that swallows the refusal.
TryCallSoon(e) == ready' = IF Alive THEN Append(ready, e) ELSE ready

(***************************************************************************)
(* future.cancel() on the future t is parked on, where f is the state of   *)
(* the futures and q the queue when it is called.  A plain pending future  *)
(* is cancelled at once and queues the wake; a child task accepts and ends *)
(* later, with any result; a future that is already done refuses, and so   *)
(* may a future-like object (or it raises, which rayo treats alike).       *)
(***************************************************************************)
CancelFuture(t, f, q, accepted) ==
    \/ /\ accepted
       /\ f[t] # "none"
       /\ future' = [f EXCEPT ![t] = "none"]
       /\ ready' = Append(q, StepEntry(t, "cancelled"))
    \/ /\ accepted
       /\ f[t] # "none"
       /\ future' = [f EXCEPT ![t] = "cancelling"]
       /\ ready' = q
    \/ /\ ~accepted
       /\ future' = f
       /\ ready' = q

\* The awaited future becomes done and queues the wake of its done callback.
FutureDone(t, result) ==
    /\ Alive
    /\ future[t] # "none"
    /\ future' = [future EXCEPT ![t] = "none"]
    /\ ready' = Append(ready, StepEntry(t, result))
    /\ UNCHANGED loop
=============================================================================
