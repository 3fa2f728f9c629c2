---------------------------- MODULE ServerProofs ----------------------------
(***************************************************************************)
(* Proofs about module Server: its safety for any number of loops,         *)
(* connections and threads that wait, shut down or drop the server.        *)
(***************************************************************************)
EXTENDS Server, TLAPS

\* Threads that are past the first locked step of shutdown_impl keep to one at
\* a time until an overlap is noted; and until a grace period has run out,
\* only a thread that has seen serve finish goes on to stop the loops.
OneAtATime ==
    /\ \A t, u \in Threads : InShutdown(t) /\ InShutdown(u) => t = u
    /\ ~grace_expired =>
           /\ \A t \in Threads :
                  pc[t] \in {"stop", "join"} => serve = "finished"
           /\ ~serve_finished =>
                  serve = "finished" \/ \E t \in Threads : pc[t] = "grace"
           /\ \A c \in Conns : answer[c] # "aborted"

\* The inductive invariant behind GraceUnlessOverlap.
GraceInv ==
    /\ \A c \in Conns :
           cancelled[c] \/ answer[c] = "cancelled" => grace_expired
    /\ \A t \in Threads : pc[t] = "drain" => grace_expired
    /\ serve = "finished" =>
           \A c \in Conns : conn[c] \in {"none", "orphaned", "closed"}
    /\ ~overlapped => OneAtATime

\* Stopping goes through the pool in order: the loops before a thread's index
\* are stopped or have a thread that waits for them, and a loop that is being
\* stopped has exactly one such thread.
StopOrder ==
    /\ \A t \in Threads :
           /\ pc[t] \notin {"stop", "join"} => stop_index[t] = 1
           /\ \A k \in 1..(stop_index[t] - 1) :
                  loops[k] \in {"stopping", "stopped"}
           /\ pc[t] = "join" => loops[stop_index[t]] = "stopping"
           /\ pc[t] \in {"done", "release", "gone"} =>
                  \A l \in Loops : loops[l] \in {"stopping", "stopped"}
    /\ \A t, u \in Threads :
           /\ pc[t] = "join" /\ pc[u] = "join"
           /\ stop_index[t] = stop_index[u]
           => t = u
    /\ \A l \in Loops : loops[l] = "stopping" =>
           \E t \in Threads : pc[t] = "join" /\ stop_index[t] = l

\* The inductive invariant behind ShutdownLeavesNothing: a request is never
\* left with a loop whose registry has been drained for the last time.
StopInv ==
    /\ StopOrder
    /\ \A c \in AsyncConns :
           conn[c] = "busy" => loops[loop_of[c]] # "stopped"

-----------------------------------------------------------------------------
(***************************************************************************)
(* Types                                                                   *)
(***************************************************************************)

Places == {"idle", "watching", "signal", "take", "grace", "drain", "stop",
           "join", "done", "release", "gone"}

\* Dispose changes what connections are, within their types.
LEMMA DisposeTypes ==
  ASSUME TypeOK, NEW l \in Loops, Dispose(l)
  PROVE  /\ conn' \in [Conns -> {"none", "open", "busy", "orphaned", "closed"}]
         /\ answer' \in [Conns -> {"none", "handler", "cancelled", "refused",
                                   "rejected", "aborted", "gone"}]
  BY DEF TypeOK, Dispose

\* NextLoop keeps the index within the pool.
LEMMA NextLoopTypes ==
  ASSUME TypeOK, NEW t \in Threads, NextLoop(t)
  PROVE  /\ stop_index' \in [Threads -> Loops]
         /\ pc' \in [Threads -> Places]
  <1>1. stop_index[t] \in 1..LoopCount
    BY DEF TypeOK, Loops
  <1>2. CASE stop_index[t] < LoopCount
    <2>1. stop_index[t] + 1 \in Loops
      BY <1>1, <1>2, LoopCountAssumption DEF Loops
    <2> QED  BY <1>2, <2>1 DEF TypeOK, NextLoop, Goto, Places
  <1>3. CASE ~(stop_index[t] < LoopCount)
    <2>1. 1 \in Loops
      BY LoopCountAssumption DEF Loops
    <2> QED  BY <1>3, <2>1 DEF TypeOK, NextLoop, Goto, Places
  <1> QED  BY <1>2, <1>3

\* A step of shutdown_impl, by any thread, keeps the types.
LEMMA ShutdownTypes ==
  ASSUME TypeOK, NEW t \in Threads, ShutdownImpl(t)
  PROVE  TypeOK'
  <1> USE DEF watchVars, connVars, stopVars, history
  <1>1. CASE SendSignal(t)
    <2>1. overlapped' \in BOOLEAN /\ signalled' \in BOOLEAN
      BY <1>1, Zenon DEF SendSignal, Overlap
    <2>2. notified' \in [Waiters -> BOOLEAN]
      BY <1>1, Zenon DEF SendSignal
    <2> QED  BY <1>1, <2>1, <2>2 DEF SendSignal, Goto, TypeOK
  <1>2. CASE TakeReceiver(t)
    <2>1. serve_finished' \in BOOLEAN
      BY <1>2, Zenon DEF TakeReceiver
    <2> QED  BY <1>2, <2>1 DEF TakeReceiver, Goto, TypeOK
  <1>3. CASE DrainedNaturally(t)
    BY <1>3 DEF DrainedNaturally, Goto, TypeOK
  <1>4. CASE GraceExpires(t)
    <2>1. cancelled' \in [Conns -> BOOLEAN] /\ grace_expired' \in BOOLEAN
      BY <1>4, Zenon DEF GraceExpires
    <2> QED  BY <1>4, <2>1 DEF GraceExpires, Goto, TypeOK
  <1>5. CASE DrainEnds(t)
    BY <1>5 DEF DrainEnds, Goto, TypeOK
  <1>6. CASE StopLoop(t)
    BY <1>6 DEF StopLoop, Goto, TypeOK
  <1>7. CASE LoopJoined(t)
    <2>1. stop_index[t] \in Loops
      BY DEF TypeOK
    <2> QED  BY <1>7, <2>1, DisposeTypes, NextLoopTypes
             DEF LoopJoined, TypeOK, Places
  <1>8. CASE StopAgain(t)
    <2>1. stop_index[t] \in Loops
      BY DEF TypeOK
    <2> QED  BY <1>8, <2>1, DisposeTypes, NextLoopTypes
             DEF StopAgain, TypeOK, Places
  <1>9. CASE RuntimeReleased(t)
    BY <1>9 DEF RuntimeReleased, Goto, TypeOK
  <1> QED  BY <1>1, <1>2, <1>3, <1>4, <1>5, <1>6, <1>7, <1>8, <1>9
           DEF ShutdownImpl

\* Every step keeps the types.
LEMMA TypeStep ==
  ASSUME TypeOK, [Next]_vars
  PROVE  TypeOK'
  <1> USE DEF watchVars, connVars, stopVars, history
  <1>1. CASE Starting
    <2>1. ASSUME NEW l \in Loops, StartLoop(l) PROVE TypeOK'
      BY <2>1 DEF StartLoop, TypeOK
    <2> QED  BY <1>1, <2>1 DEF Starting, CompileRoutes, BuildRuntime, Bind,
                               StartFails, StartStep, TypeOK
  <1>2. CASE Serving
    BY <1>2 DEF Serving, ServeBreaks, ServeFinishes, IdleConnectionCloses,
                TypeOK
  <1>3. ASSUME NEW c \in Conns, AcceptConnection(c) PROVE TypeOK'
    BY <1>3 DEF AcceptConnection, TypeOK
  <1>4. ASSUME NEW c \in Conns, RequestArrives(c) PROVE TypeOK'
    BY <1>4 DEF RequestArrives, TypeOK
  <1>5. ASSUME NEW c \in Conns, RequestRejected(c) PROVE TypeOK'
    BY <1>5 DEF RequestRejected, TypeOK
  <1>6. ASSUME NEW c \in Conns, HandlerEnds(c) PROVE TypeOK'
    BY <1>6 DEF HandlerEnds, TypeOK
  <1>7. ASSUME NEW c \in Conns, ClientLeaves(c) PROVE TypeOK'
    BY <1>7 DEF ClientLeaves, TypeOK
  <1>8. ASSUME NEW t \in Threads, CallWait(t) PROVE TypeOK'
    BY <1>8 DEF CallWait, Goto, TypeOK
  <1>9. ASSUME NEW t \in Threads,
               WaitWakes(t) \/ CtrlC(t) \/ CallShutdown(t) \/ DropServer(t)
        PROVE  TypeOK'
    BY <1>9 DEF WaitWakes, CtrlC, CallShutdown, DropServer, Goto, TypeOK
  <1>10. CASE Collected \/ \E c \in Conns : Collect(c)
    <2>1. python' \in {"gil", "running", "stopping"}
      BY <1>10, Zenon DEF Collected, Collect
    <2> QED  BY <1>10, <2>1 DEF Collected, Collect, TypeOK
  <1>11. CASE UNCHANGED vars
    BY <1>11 DEF vars, TypeOK
  <1> QED  BY <1>1, <1>2, <1>3, <1>4, <1>5, <1>6, <1>7, <1>8, <1>9, <1>10,
              <1>11, ShutdownTypes DEF Next

\* Every variable of the server's life keeps its type; in particular a thread
\* in EventLoopPool::stop never leaves the pool.
THEOREM TypeCorrect == Spec => []TypeOK
  <1>1. Init => TypeOK
    <2>1. Init => /\ signalled \in BOOLEAN /\ overlapped \in BOOLEAN
                  /\ grace_expired \in BOOLEAN
      BY Zenon DEF Init
    <2>2. Init => python \in {"gil", "running", "stopping"}
      BY DEF Init
    <2> QED  BY <2>1, <2>2, LoopCountAssumption DEF Init, TypeOK, Loops
  <1> QED  BY <1>1, TypeStep, PTL DEF Spec

-----------------------------------------------------------------------------
(***************************************************************************)
(* The grace period                                                        *)
(***************************************************************************)

\* Nothing is disposed of when no connection is busy.
LEMMA DisposeIdle ==
  ASSUME TypeOK, NEW l \in Loops, Dispose(l),
         \A c \in Conns : conn[c] \in {"none", "orphaned", "closed"}
  PROVE  UNCHANGED <<conn, answer>>
  BY DEF TypeOK, Dispose, Conns

\* Dispose aborts requests, and closes connections.
LEMMA DisposeAborts ==
  ASSUME TypeOK, NEW l \in Loops, Dispose(l), NEW c \in Conns
  PROVE  /\ answer'[c] \in {answer[c], "aborted"}
         /\ conn'[c] \in {conn[c], "closed"}
  BY DEF TypeOK, Dispose

\* NextLoop leaves other threads alone and takes t out of the join.
LEMMA NextLoopMoves ==
  ASSUME TypeOK, NEW t \in Threads, NextLoop(t)
  PROVE  /\ pc'[t] \in {"stop", "release", "done"}
         /\ \A u \in Threads \ {t} :
                pc'[u] = pc[u] /\ stop_index'[u] = stop_index[u]
  BY DEF TypeOK, NextLoop, Goto

\* A step of shutdown_impl keeps the invariant of the grace period.
LEMMA ShutdownGrace ==
  ASSUME TypeOK, GraceInv, NEW t \in Threads, ShutdownImpl(t)
  PROVE  GraceInv'
  <1> USE DEF watchVars, connVars, stopVars, history
  <1>0. /\ pc \in [Threads -> Places]
        /\ cancelled \in [Conns -> BOOLEAN]
        /\ stop_index[t] \in Loops
    BY DEF TypeOK, Places
  <1>1. CASE SendSignal(t)
    BY <1>0, <1>1 DEF SendSignal, Overlap, Goto, GraceInv, OneAtATime,
       InShutdown
  <1>2. CASE TakeReceiver(t)
    BY <1>0, <1>2 DEF TakeReceiver, Goto, GraceInv, OneAtATime, InShutdown
  <1>3. CASE DrainedNaturally(t)
    BY <1>0, <1>3 DEF DrainedNaturally, Goto, GraceInv, OneAtATime, InShutdown
  <1>4. CASE GraceExpires(t)
    BY <1>0, <1>4 DEF GraceExpires, Goto, GraceInv, OneAtATime, InShutdown
  <1>5. CASE DrainEnds(t)
    BY <1>0, <1>5 DEF DrainEnds, Goto, GraceInv, OneAtATime, InShutdown
  <1>6. CASE StopLoop(t)
    BY <1>0, <1>6 DEF StopLoop, Goto, GraceInv, OneAtATime, InShutdown
  <1>7. CASE LoopJoined(t) \/ StopAgain(t)
    <2>1. /\ Dispose(stop_index[t]) /\ NextLoop(t)
          /\ pc[t] \in {"stop", "join"}
          /\ UNCHANGED <<serve, serve_finished, cancelled, history>>
      BY <1>7 DEF LoopJoined, StopAgain
    <2>2. /\ pc'[t] \in {"stop", "release", "done"}
          /\ \A u \in Threads \ {t} : pc'[u] = pc[u]
      BY <2>1, NextLoopMoves
    <2>3. \A c \in Conns : /\ answer'[c] \in {answer[c], "aborted"}
                           /\ conn'[c] \in {conn[c], "closed"}
      BY <1>0, <2>1, DisposeAborts
    <2>4. ~overlapped' => OneAtATime'
      <3> SUFFICES ASSUME ~overlapped PROVE OneAtATime'
        BY <2>1
      <3>1. OneAtATime
        BY DEF GraceInv
      <3>2. \A u, v \in Threads : InShutdown(u)' /\ InShutdown(v)' => u = v
        BY <2>1, <2>2, <3>1 DEF OneAtATime, InShutdown
      <3>3. ASSUME ~grace_expired
            PROVE  /\ UNCHANGED <<conn, answer>>
                   /\ serve = "finished"
        <4>1. serve = "finished"
          BY <2>1, <3>1, <3>3 DEF OneAtATime
        <4> QED  BY <1>0, <2>1, <4>1, DisposeIdle DEF GraceInv
      <3> QED  BY <2>1, <2>2, <3>1, <3>2, <3>3 DEF OneAtATime
    <2> QED  BY <2>1, <2>2, <2>3, <2>4 DEF GraceInv
  <1>8. CASE RuntimeReleased(t)
    BY <1>0, <1>8 DEF RuntimeReleased, Goto, GraceInv, OneAtATime, InShutdown
  <1> QED  BY <1>1, <1>2, <1>3, <1>4, <1>5, <1>6, <1>7, <1>8
           DEF ShutdownImpl

\* Every step keeps it.
LEMMA GraceStep ==
  ASSUME TypeOK, GraceInv, [Next]_vars
  PROVE  GraceInv'
  <1> USE DEF watchVars, connVars, stopVars, history
  <1>0. /\ pc \in [Threads -> Places]
        /\ cancelled \in [Conns -> BOOLEAN]
        /\ conn \in [Conns -> {"none", "open", "busy", "orphaned", "closed"}]
        /\ answer \in [Conns -> {"none", "handler", "cancelled", "refused",
                                 "rejected", "aborted", "gone"}]
    BY DEF TypeOK, Places
  <1>1. CASE Starting
    BY <1>1 DEF Starting, StartLoop, CompileRoutes, BuildRuntime, Bind,
                StartFails, StartStep, GraceInv, OneAtATime, InShutdown
  <1>2. CASE Serving
    BY <1>0, <1>2 DEF Serving, ServeBreaks, ServeFinishes,
                IdleConnectionCloses, GraceInv, OneAtATime, InShutdown
  <1>3. ASSUME NEW c \in Conns, AcceptConnection(c) PROVE GraceInv'
    BY <1>0, <1>3 DEF AcceptConnection, GraceInv, OneAtATime, InShutdown
  <1>4. ASSUME NEW c \in Conns, RequestArrives(c) PROVE GraceInv'
    BY <1>0, <1>4 DEF RequestArrives, GraceInv, OneAtATime, InShutdown
  <1>5. ASSUME NEW c \in Conns, RequestRejected(c) PROVE GraceInv'
    BY <1>0, <1>5 DEF RequestRejected, GraceInv, OneAtATime, InShutdown
  <1>6. ASSUME NEW c \in Conns, HandlerEnds(c) PROVE GraceInv'
    BY <1>0, <1>6 DEF HandlerEnds, GraceInv, OneAtATime, InShutdown
  <1>7. ASSUME NEW c \in Conns, ClientLeaves(c) PROVE GraceInv'
    BY <1>0, <1>7 DEF ClientLeaves, GraceInv, OneAtATime, InShutdown
  <1>8. ASSUME NEW t \in Threads,
               \/ CallWait(t) \/ WaitWakes(t) \/ CtrlC(t) \/ CallShutdown(t)
               \/ DropServer(t)
        PROVE  GraceInv'
    BY <1>0, <1>8 DEF CallWait, WaitWakes, CtrlC, CallShutdown, DropServer,
                      Goto, GraceInv, OneAtATime, InShutdown
  <1>9. CASE Collected \/ \E c \in Conns : Collect(c)
    BY <1>9 DEF Collected, Collect, GraceInv, OneAtATime, InShutdown
  <1>10. CASE UNCHANGED vars
    BY <1>10 DEF vars, GraceInv, OneAtATime, InShutdown
  <1> QED  BY <1>1, <1>2, <1>3, <1>4, <1>5, <1>6, <1>7, <1>8, <1>9, <1>10,
              ShutdownGrace DEF Next

\* Unless two shutdowns overlap, no request is cancelled or aborted before a
\* whole grace period has passed (shutdown: "in-flight requests get
\* `grace_seconds` to finish, then are cancelled").
THEOREM GraceKept == Spec => []GraceUnlessOverlap
  <1>1. Init => GraceInv
    BY DEF Init, GraceInv, OneAtATime, InShutdown
  <1>2. GraceInv => GraceUnlessOverlap
    BY DEF GraceInv, OneAtATime, GraceUnlessOverlap, GraceHonoured
  <1> QED  BY <1>1, <1>2, TypeCorrect, GraceStep, PTL DEF Spec

-----------------------------------------------------------------------------
(***************************************************************************)
(* Nothing is left                                                         *)
(***************************************************************************)

\* What disposing of loop l leaves of the requests placed on it: nothing.
LEMMA DisposeEmpties ==
  ASSUME TypeOK, NEW l \in Loops, Dispose(l), NEW c \in AsyncConns
  PROVE  conn'[c] = "busy" => conn[c] = "busy" /\ loop_of[c] # l
  BY DEF TypeOK, Dispose, Conns

\* The order in which the loops are stopped depends on three variables only.
LEMMA StopOrderFrame ==
  ASSUME TypeOK, StopOrder, UNCHANGED <<stop_index, loops>>, NEW t \in Threads,
         NEW place \in Places \ {"stop", "join", "done", "release", "gone"},
         Goto(t, place), pc[t] \notin {"stop", "join"}
  PROVE  StopOrder'
  BY DEF TypeOK, StopOrder, Goto

\* A thread that has dealt with its loop goes on to the next or returns.
LEMMA NextLoopOrder ==
  ASSUME TypeOK, StopOrder, NEW t \in Threads, NextLoop(t),
         pc[t] \in {"stop", "join"},
         \/ /\ pc[t] = "join"
            /\ loops' = [loops EXCEPT ![stop_index[t]] = "stopped"]
         \/ /\ pc[t] = "stop" /\ loops' = loops
            /\ loops[stop_index[t]] \in {"stopping", "stopped"}
  PROVE  StopOrder'
  <1>0. /\ pc \in [Threads -> Places]
        /\ stop_index \in [Threads -> Loops]
        /\ loops \in [Loops -> {"unstarted", "running", "stopping", "stopped"}]
        /\ \A u \in Threads : stop_index[u] \in 1..LoopCount
    BY DEF TypeOK, Places, Loops
  <1>1. /\ \A l \in Loops \ {stop_index[t]} : loops'[l] = loops[l]
        /\ loops'[stop_index[t]] \in {"stopping", "stopped"}
        /\ pc[t] = "join" => loops'[stop_index[t]] = "stopped"
        /\ pc[t] = "stop" => loops' = loops
    BY <1>0
  <1>2. /\ pc'[t] \in {"stop", "release", "done"}
        /\ \A u \in Threads \ {t} :
               pc'[u] = pc[u] /\ stop_index'[u] = stop_index[u]
    BY NextLoopMoves
  <1>3. \A l \in Loops : loops[l] \in {"stopping", "stopped"}
                             => loops'[l] \in {"stopping", "stopped"}
    BY <1>1
  <1>4. \A u \in Threads : \A k \in 1..(stop_index[u] - 1) : k \in Loops
    BY <1>0, LoopCountAssumption DEF Loops
  <1>5. \A k \in 1..stop_index[t] :
            k \in Loops /\ loops'[k] \in {"stopping", "stopped"}
    BY <1>0, <1>1, <1>3, LoopCountAssumption DEF StopOrder, Loops
  <1>6. \A u \in Threads \ {t} :
            pc[u] = "join" => loops'[stop_index[u]] = "stopping"
    BY <1>0, <1>1 DEF StopOrder
  <1>7. /\ pc'[t] # "stop" =>
               stop_index'[t] = 1
               /\ \A l \in Loops : loops'[l] \in {"stopping", "stopped"}
        /\ \A k \in 1..(stop_index'[t] - 1) :
               loops'[k] \in {"stopping", "stopped"}
    <2>1. CASE stop_index[t] < LoopCount
      <3>1. pc'[t] = "stop" /\ stop_index'[t] = stop_index[t] + 1
        BY <1>0, <2>1 DEF NextLoop, Goto
      <3>2. 1..(stop_index'[t] - 1) = 1..stop_index[t]
        BY <1>0, <3>1
      <3> QED  BY <1>5, <3>1, <3>2
    <2>2. CASE ~(stop_index[t] < LoopCount)
      <3>1. stop_index'[t] = 1 /\ stop_index[t] = LoopCount
        BY <1>0, <2>2, LoopCountAssumption DEF NextLoop
      <3> QED  BY <1>5, <3>1 DEF Loops
    <2> QED  BY <2>1, <2>2
  <1>8. ASSUME NEW l \in Loops, loops'[l] = "stopping"
        PROVE  \E u \in Threads : pc'[u] = "join" /\ stop_index'[u] = l
    <2>1. loops[l] = "stopping" \/ l = stop_index[t]
      BY <1>1, <1>8
    <2>2. loops[l] = "stopping"
      BY <1>0, <1>1, <1>8, <2>1 DEF StopOrder
    <2>3. PICK u \in Threads : pc[u] = "join" /\ stop_index[u] = l
      BY <2>2 DEF StopOrder
    <2>4. u # t
      BY <1>1, <1>8, <2>3
    <2> QED  BY <1>2, <2>3, <2>4
  <1>9. ASSUME NEW u \in Threads
        PROVE  /\ pc'[u] \notin {"stop", "join"} => stop_index'[u] = 1
               /\ \A k \in 1..(stop_index'[u] - 1) :
                      loops'[k] \in {"stopping", "stopped"}
               /\ pc'[u] = "join" => loops'[stop_index'[u]] = "stopping"
               /\ pc'[u] \in {"done", "release", "gone"} =>
                      \A l \in Loops : loops'[l] \in {"stopping", "stopped"}
    <2>1. CASE u = t
      BY <1>2, <1>7, <2>1
    <2>2. CASE u # t
      BY <1>2, <1>3, <1>4, <1>6, <2>2 DEF StopOrder
    <2> QED  BY <2>1, <2>2
  <1> QED  BY <1>2, <1>8, <1>9 DEF StopOrder

\* Every step keeps StopInv.
LEMMA StopStep ==
  ASSUME TypeOK, StopInv, [Next]_vars
  PROVE  StopInv'
  <1> USE DEF watchVars, connVars, stopVars, history
  <1>0. /\ pc \in [Threads -> Places]
        /\ stop_index \in [Threads -> Loops]
        /\ loops \in [Loops -> {"unstarted", "running", "stopping", "stopped"}]
        /\ loop_of \in [AsyncConns -> Loops]
        /\ conn \in [Conns -> {"none", "open", "busy", "orphaned", "closed"}]
        /\ AsyncConns \subseteq Conns
    BY DEF TypeOK, Places, Conns
  <1>1. CASE Starting
    <2>1. ASSUME NEW l \in Loops, StartLoop(l) PROVE StopInv'
      <3>1. /\ \A k \in Loops : loops[k] \in {"stopping", "stopped"}
                                    => loops'[k] = loops[k]
            /\ \A k \in Loops : loops'[k] \in {"stopping", "stopped"}
                                    => loops'[k] = loops[k]
            /\ UNCHANGED <<stop_index, pc, conn, loop_of>>
        BY <1>0, <2>1 DEF StartLoop
      <3>2. \A t \in Threads : \A k \in 1..(stop_index[t] - 1) : k \in Loops
        BY <1>0, LoopCountAssumption DEF Loops
      <3> QED  BY <1>0, <3>1, <3>2 DEF StopInv, StopOrder
    <2>2. CASE UNCHANGED <<loops, stop_index, pc, conn, loop_of>>
      BY <2>2 DEF StopInv, StopOrder
    <2> QED  BY <1>1, <2>1, <2>2 DEF Starting, CompileRoutes, BuildRuntime,
                                     Bind, StartFails, StartStep
  <1>2. ASSUME UNCHANGED <<loops, stop_index, pc>>,
               \A c \in AsyncConns : conn'[c] = "busy" =>
                   loops[loop_of'[c]] # "stopped"
        PROVE  StopInv'
    BY <1>2 DEF StopInv, StopOrder
  <1>3. CASE Serving
    BY <1>0, <1>2, <1>3 DEF Serving, ServeBreaks, ServeFinishes,
                            IdleConnectionCloses, StopInv
  <1>4. ASSUME NEW c \in Conns,
               \/ AcceptConnection(c) \/ RequestRejected(c) \/ HandlerEnds(c)
               \/ ClientLeaves(c)
        PROVE  StopInv'
    BY <1>0, <1>2, <1>4 DEF AcceptConnection, RequestRejected, HandlerEnds,
                            ClientLeaves, StopInv
  <1>5. ASSUME NEW c \in Conns, RequestArrives(c) PROVE StopInv'
    BY <1>0, <1>2, <1>5, ConnsAssumption DEF RequestArrives, StopInv
  <1>6. ASSUME NEW t \in Threads,
               UNCHANGED <<loops, stop_index, conn, loop_of>>,
               NEW place \in Places \ {"stop", "join", "done", "release",
                                       "gone"},
               Goto(t, place), pc[t] \notin {"stop", "join"}
        PROVE  StopInv'
    BY <1>6, StopOrderFrame DEF StopInv
  <1>7. ASSUME NEW t \in Threads,
               \/ CallWait(t) \/ WaitWakes(t) \/ CtrlC(t) \/ CallShutdown(t)
               \/ DropServer(t) \/ SendSignal(t) \/ GraceExpires(t)
        PROVE  StopInv'
    BY <1>6, <1>7 DEF CallWait, WaitWakes, CtrlC, CallShutdown, DropServer,
                      SendSignal, GraceExpires, Places
  <1>8. ASSUME NEW t \in Threads,
               TakeReceiver(t) \/ DrainedNaturally(t) \/ DrainEnds(t)
        PROVE  StopInv'
    BY <1>0, <1>8 DEF TakeReceiver, DrainedNaturally, DrainEnds, Goto, StopInv,
                      StopOrder
  <1>9. ASSUME NEW t \in Threads, StopLoop(t) PROVE StopInv'
    <2>1. \A u \in Threads : \A k \in 1..(stop_index[u] - 1) : k \in Loops
      BY <1>0, LoopCountAssumption DEF Loops
    <2> QED  BY <1>0, <1>9, <2>1 DEF StopLoop, Goto, StopInv, StopOrder
  <1>10. ASSUME NEW t \in Threads, LoopJoined(t) \/ StopAgain(t)
         PROVE  StopInv'
    <2>1. StopOrder'
      BY <1>10, NextLoopOrder DEF StopInv, LoopJoined, StopAgain
    <2>2. /\ stop_index[t] \in Loops
          /\ Dispose(stop_index[t])
          /\ loop_of' = loop_of
      BY <1>0, <1>10 DEF LoopJoined, StopAgain
    <2>3. \A l \in Loops \ {stop_index[t]} : loops'[l] = loops[l]
      BY <1>0, <1>10 DEF LoopJoined, StopAgain
    <2> QED  BY <1>0, <2>1, <2>2, <2>3, DisposeEmpties DEF StopInv
  <1>11. ASSUME NEW t \in Threads, RuntimeReleased(t) PROVE StopInv'
    BY <1>0, <1>11 DEF RuntimeReleased, Goto, StopInv, StopOrder
  <1>12. CASE Collected \/ \E c \in Conns : Collect(c)
    BY <1>12 DEF Collected, Collect, StopInv, StopOrder
  <1>13. CASE UNCHANGED vars
    BY <1>13 DEF vars, StopInv, StopOrder
  <1> QED  BY <1>1, <1>3, <1>4, <1>5, <1>7, <1>8, <1>9, <1>10, <1>11, <1>12,
              <1>13 DEF Next, ShutdownImpl

\* Once a shutdown has returned and none is under way, every loop is stopped
\* and no async request is left without an answer, however the calls
\* overlapped (EventLoopPool::stop, EventLoop::stop).
THEOREM NothingLeft == Spec => []ShutdownLeavesNothing
  <1>1. Init => StopInv
    <2> SUFFICES ASSUME Init PROVE StopInv
      OBVIOUS
    <2>1. /\ \A t \in Threads : pc[t] = "idle" /\ stop_index[t] = 1
          /\ \A l \in Loops : loops[l] = "unstarted"
          /\ \A c \in AsyncConns : conn[c] = "none"
      BY DEF Init, Conns
    <2>2. \A t \in Threads : 1..(stop_index[t] - 1) = {}
      BY <2>1
    <2> QED  BY <2>1, <2>2 DEF StopInv, StopOrder
  <1>2. TypeOK /\ StopInv => ShutdownLeavesNothing
    BY DEF TypeOK, StopInv, StopOrder, ShutdownLeavesNothing, InShutdown
  <1> QED  BY <1>1, <1>2, TypeCorrect, StopStep, PTL DEF Spec
=============================================================================
