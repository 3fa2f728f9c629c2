-------------------------- MODULE TaskFinishProofs --------------------------
(***************************************************************************)
(* Proofs about module TaskFinish: the end of a task, cut at its critical  *)
(* sections, for any number of threads that call EventLoop::stop and for   *)
(* both kinds of CPython build.                                            *)
(***************************************************************************)
EXTENDS TaskFinish, TLAPS

\* Where a thread is inside ResponseChannel::send with the sender in hand.
Sending == {"count", "send"}

\* Where a thread has taken the state over in finish and not yet answered.
Finishing == {"finalizing", "leave", "unregister", "fire", "take"}
                 \cup Sending

\* Where a thread is on its way to finish, its arguments known.
Closing == {"close", "closing", "finish"}

\* Where a thread is bound to end in ResponseChannel::send.
Ending == Closing \cup Finishing

\* Where the loop thread is between the first locked section of __call__ and
\* the locked section of finish.
Stepping == {"build", "register", "flag", "fetch", "step", "comparing"}
                \cup Closing

\* The response channel: one thread at most has the sender, the gauge is up
\* until that thread has counted down, and nobody answers without it.
OneSender ==
    /\ sender => in_flight = 1 /\ answer = "none"
    /\ \A t \in Threads : pc[t] \in Sending => ~sender /\ answer = "none"
    /\ \A t, u \in Threads : pc[t] \in Sending /\ pc[u] \in Sending => t = u
    /\ \A t \in Threads : pc[t] = "count" => in_flight = 1
    /\ \A t \in Threads : pc[t] = "send" => in_flight = 0
    /\ ~sender => answer # "none" \/ \E t \in Threads : pc[t] \in Sending
    /\ answer # "none" => in_flight = 0

\* A value the handler returned is passed to finish only with its completion.
Paired == \A t \in Threads : reply[t] = "handler" => kind[t] = "returned"

\* Responsibility for the response: a task that has left live_tasks is
\* answered or in some thread's hands, and the thread that stopped the loop
\* has yet to drain live_tasks or has done so.
Accountable ==
    /\ \A t \in Threads : pc[t] \in Finishing => finished
    /\ answer # "none" => finished
    /\ ~live => answer # "none" \/ \E t \in Threads : pc[t] \in Ending
    /\ pc[LoopThread] = "dead" => stop_posted
    /\ stop_posted => ~live \/ \E s \in Stoppers : pc[s] \in {"join", "drain"}

\* Until a stop() overtakes the loop thread one thread ends the task: a
\* stopping thread has it only when the loop is dead, and no two have it.
OneEnder ==
    /\ \A s \in Stoppers :
           pc[s] \in Ending => pc[LoopThread] = "dead" /\ ~live
    /\ \A s, u \in Stoppers : pc[s] \in Ending /\ pc[u] \in Ending => s = u
    /\ finished /\ live => pc[LoopThread] \in {"finalizing", "leave"}
    /\ pc[LoopThread] \in Stepping => ~finished
    /\ \A s \in Stoppers : pc[s] \in Closing => ~finished
    /\ \A t \in Threads : pc[t] \in Finishing => answer = "none"

\* What finish has put away by the time a thread is at each of its places.
PutAway ==
    /\ \A t \in Threads :
           pc[t] \in {"unregister", "fire", "take"} \cup Sending => ~live
    /\ \A t \in Threads :
           pc[t] \in {"fire", "take"} \cup Sending => ~all_tasks
    /\ \A t \in Threads :
           pc[t] \in {"finalizing", "leave", "unregister"} /\ all_tasks
               => was_registered[t]
    /\ all_tasks /\ ~finished => registered \/ pc[LoopThread] = "flag"
    /\ \A t \in Threads :
           done_callbacks[t] => pc[t] \in {"finalizing", "leave", "unregister",
                                           "fire"}
    /\ done_callbacks[Nobody] => ~finished

\* The response in a thread's hands is the one finish recorded the completion
\* with.
RightReply ==
    \A t \in Threads :
        pc[t] \in Finishing
            => /\ reply[t] = recorded
               /\ reply[t] = "handler" => completion = "returned"

\* The inductive invariant behind LastUnlessRaced.
Orderly ==
    ~raced => OneEnder /\ PutAway /\ RightReply /\ LastUnlessRaced

-----------------------------------------------------------------------------
(***************************************************************************)
(* Types and the response channel                                          *)
(***************************************************************************)

\* The types together with the response channel: that in_flight stays in
\* {0, 1} depends on one thread at most having the sender.
TypeInv == TypeOK /\ OneSender /\ Paired

\* The loop thread and the threads that call stop() are threads.
LEMMA LoopThreadIsThread ==
  LoopThread \in Threads /\ Stoppers \subseteq Threads
  BY DEF Threads

\* Goto moves one thread and keeps the variables it writes in their types.
LEMMA GotoTypes ==
  ASSUME TypeOK, NEW t \in Threads, NEW place \in Places, Goto(t, place)
  PROVE  /\ gil_build' \in BOOLEAN
         /\ gil' \in Threads \cup {Nobody}
         /\ pc' \in [Threads -> Places]
         /\ pc'[t] = place
         /\ \A u \in Threads \ {t} : pc'[u] = pc[u]
  BY DEF TypeOK, Goto

\* Moving a thread outside ResponseChannel::send leaves the channel as it was.
LEMMA ChannelKept ==
  ASSUME TypeOK, OneSender, NEW t \in Threads, NEW place \in Places,
         pc[t] \notin Sending, place \notin Sending,
         Goto(t, place), UNCHANGED channel
  PROVE  OneSender'
  <1>1. /\ \A u \in Threads : pc'[u] \in Sending => pc'[u] = pc[u]
        /\ \A u \in Threads : pc[u] \in Sending => pc'[u] = pc[u]
    BY GotoTypes
  <1>2. UNCHANGED <<sender, in_flight, answer>>
    BY DEF channel
  <1> QED  BY <1>1, <1>2 DEF OneSender, Sending

\* What a thread passes to finish is typed and paired.
LEMMA EndWithTypes ==
  ASSUME TypeOK, Paired, NEW t \in Threads,
         NEW response \in {"handler", "error"},
         NEW completed \in CompletionKind,
         response = "handler" => completed = "returned",
         EndWith(t, response, completed)
  PROVE  /\ reply' \in [Threads -> {"handler", "error"}]
         /\ kind' \in [Threads -> CompletionKind]
         /\ Paired'
  BY DEF TypeOK, Paired, EndWith

\* finish returns with its types right, outside ResponseChannel::send.
LEMMA ReturnTypes ==
  ASSUME TypeOK, NEW t \in Threads, FinishReturns(t)
  PROVE  /\ gil_build' \in BOOLEAN
         /\ gil' \in Threads \cup {Nobody}
         /\ state_lock' \in Threads \cup {Nobody}
         /\ pc' \in [Threads -> Places]
         /\ pc'[t] = IF t = LoopThread THEN "ready" ELSE "done"
         /\ \A u \in Threads \ {t} : pc'[u] = pc[u]
  <1>1. (IF t = LoopThread THEN "ready" ELSE "done") \in Places
    BY DEF Places
  <1> QED  BY <1>1, GotoTypes DEF FinishReturns, TypeOK

\* A task starts with its types and its channel right.
LEMMA TypeInit == Init => TypeInv
  <1>1. Init => gil_build \in BOOLEAN
    BY GilBuildsAssumption, Zenon DEF Init
  <1>2. Init => /\ stop_posted \in BOOLEAN /\ waiting_on \in BOOLEAN
                /\ must_cancel \in BOOLEAN
                /\ finished \in BOOLEAN /\ all_tasks \in BOOLEAN
                /\ registered \in BOOLEAN /\ raced \in BOOLEAN
                /\ thread_slot \in BOOLEAN /\ live \in BOOLEAN
                /\ sender \in BOOLEAN
    BY Zenon DEF Init
  <1>3. Init => OneSender /\ Paired
    BY DEF Init, OneSender, Paired, Sending
  <1> QED  BY <1>1, <1>2, <1>3
           DEF Init, TypeInv, TypeOK, Places, CompletionKind

\* Every step of the loop thread keeps the types and the channel.
LEMMA TypeLoopStep ==
  ASSUME TypeInv, LoopStep
  PROVE  TypeInv'
  <1> USE LoopThreadIsThread
      DEF TypeInv, At, params, taken, stopVars, registries, outcome
  <1>1. CASE CancelBeforeStart
    <2>1. must_cancel' \in BOOLEAN
      BY <1>1, Zenon DEF CancelBeforeStart
    <2>2. OneSender' /\ Paired'
      BY <1>1 DEF CancelBeforeStart, OneSender, Paired, channel
    <2> QED  BY <1>1, <2>1, <2>2 DEF CancelBeforeStart, TypeOK, channel
  <1>2. CASE BeginStep
    <2>1. waiting_on' \in BOOLEAN /\ must_cancel' \in BOOLEAN
      BY <1>2, Zenon DEF BeginStep
    <2>2. PICK place \in {"finish", "build", "fetch"} : Goto(LoopThread, place)
      BY <1>2 DEF BeginStep
    <2>3. OneSender'
      BY <1>2, <2>2, ChannelKept DEF BeginStep, Places, Sending
    <2>4. /\ reply' \in [Threads -> {"handler", "error"}]
          /\ kind' \in [Threads -> CompletionKind]
          /\ Paired'
      <3>1. CASE EndWith(LoopThread, "error", "cancelled")
        BY <3>1, EndWithTypes DEF CompletionKind
      <3>2. CASE UNCHANGED params
        BY <3>2 DEF TypeOK, Paired
      <3> QED  BY <1>2, <3>1, <3>2 DEF BeginStep
    <2> QED  BY <1>2, <2>1, <2>2, <2>3, <2>4, GotoTypes
             DEF BeginStep, TypeOK, Places, channel
  <1>3. CASE BuildCoroutine
    <2>1. OneSender' /\ Paired'
      BY <1>3, ChannelKept DEF BuildCoroutine, Places, Sending, Paired
    <2> QED  BY <1>3, <2>1, GotoTypes
             DEF BuildCoroutine, TypeOK, Places, channel
  <1>4. ASSUME NEW completed \in {"raised", "aborted"}, StartFails(completed)
        PROVE  TypeInv'
    <2>1. OneSender'
      BY <1>4, ChannelKept DEF StartFails, Places, Sending
    <2>2. /\ reply' \in [Threads -> {"handler", "error"}]
          /\ kind' \in [Threads -> CompletionKind]
          /\ Paired'
      BY <1>4, EndWithTypes DEF StartFails, CompletionKind
    <2> QED  BY <1>4, <2>1, <2>2, GotoTypes
             DEF StartFails, TypeOK, Places, channel
  <1>5. ASSUME NEW succeeds \in BOOLEAN, RegisterTask(succeeds)
        PROVE  TypeInv'
    <2>1. PICK place \in {"flag", "fetch"} : Goto(LoopThread, place)
      BY <1>5 DEF RegisterTask
    <2>2. OneSender' /\ Paired'
      BY <1>5, <2>1, ChannelKept DEF RegisterTask, Places, Sending, Paired
    <2> QED  BY <1>5, <2>1, <2>2, GotoTypes
             DEF RegisterTask, TypeOK, Places, channel
  <1>6. CASE FlagRegistered
    <2>1. OneSender' /\ Paired'
      BY <1>6, ChannelKept DEF FlagRegistered, Places, Sending, Paired
    <2>2. registered' \in BOOLEAN
      BY <1>6, Zenon DEF FlagRegistered
    <2> QED  BY <1>6, <2>1, <2>2, GotoTypes
             DEF FlagRegistered, TypeOK, Places, channel
  <1>7. CASE Resume
    <2>1. PICK place \in {"step", "finish"} : Goto(LoopThread, place)
      BY <1>7 DEF Resume
    <2>2. OneSender'
      BY <1>7, <2>1, ChannelKept DEF Resume, Places, Sending
    <2>3. /\ reply' \in [Threads -> {"handler", "error"}]
          /\ kind' \in [Threads -> CompletionKind]
          /\ Paired'
      <3>1. CASE EndWith(LoopThread, "error", "raised")
        BY <3>1, EndWithTypes DEF CompletionKind
      <3>2. CASE UNCHANGED params
        BY <3>2 DEF TypeOK, Paired
      <3> QED  BY <1>7, <3>1, <3>2 DEF Resume
    <2> QED  BY <1>7, <2>1, <2>2, <2>3, GotoTypes
             DEF Resume, TypeOK, Places, channel
  <1>8. CASE EnterFails
    <2>1. OneSender'
      BY <1>8, ChannelKept DEF EnterFails, Places, Sending
    <2>2. /\ reply' \in [Threads -> {"handler", "error"}]
          /\ kind' \in [Threads -> CompletionKind]
          /\ Paired'
      BY <1>8, EndWithTypes DEF EnterFails, CompletionKind
    <2> QED  BY <1>8, <2>1, <2>2, GotoTypes
             DEF EnterFails, TypeOK, Places, channel
  <1>9. ASSUME NEW on_future \in BOOLEAN, Park(on_future) PROVE TypeInv'
    <2>1. OneSender' /\ Paired'
      BY <1>9, ChannelKept DEF Park, Places, Sending, Paired
    <2> QED  BY <1>9, <2>1, GotoTypes DEF Park, TypeOK, Places, channel
  <1>10. CASE ParkFails
    <2>1. OneSender'
      BY <1>10, ChannelKept DEF ParkFails, Places, Sending
    <2>2. /\ reply' \in [Threads -> {"handler", "error"}]
          /\ kind' \in [Threads -> CompletionKind]
          /\ Paired'
      BY <1>10, EndWithTypes DEF ParkFails, CompletionKind
    <2>3. waiting_on' \in BOOLEAN
      BY <1>10, Zenon DEF ParkFails
    <2> QED  BY <1>10, <2>1, <2>2, <2>3, GotoTypes
             DEF ParkFails, TypeOK, Places, channel
  <1>11. ASSUME NEW response \in {"handler", "error"}, Return(response)
         PROVE  TypeInv'
    <2>1. OneSender'
      BY <1>11, ChannelKept DEF Return, Places, Sending
    <2>2. /\ reply' \in [Threads -> {"handler", "error"}]
          /\ kind' \in [Threads -> CompletionKind]
          /\ Paired'
      BY <1>11, EndWithTypes DEF Return, CompletionKind
    <2> QED  BY <1>11, <2>1, <2>2, GotoTypes
             DEF Return, TypeOK, Places, channel
  <1>12. ASSUME NEW completed \in {"raised", "cancelled"}, Raise(completed)
         PROVE  TypeInv'
    <2>1. OneSender'
      BY <1>12, ChannelKept DEF Raise, Places, Sending
    <2>2. /\ reply' \in [Threads -> {"handler", "error"}]
          /\ kind' \in [Threads -> CompletionKind]
          /\ Paired'
      BY <1>12, EndWithTypes DEF Raise, CompletionKind
    <2> QED  BY <1>12, <2>1, <2>2, GotoTypes
             DEF Raise, TypeOK, Places, channel
  <1>13. CASE AddDoneCallback
    BY <1>13 DEF AddDoneCallback, TypeOK, OneSender, Paired, channel
  <1>14. CASE RemoveDoneCallback
    <2>1. OneSender' /\ Paired'
      BY <1>14, ChannelKept DEF RemoveDoneCallback, Places, Sending, Paired
    <2> QED  BY <1>14, <2>1, GotoTypes
             DEF RemoveDoneCallback, TypeOK, Places, channel
  <1>15. ASSUME NEW equal \in BOOLEAN, Compared(equal) PROVE TypeInv'
    <2>1. OneSender' /\ Paired'
      BY <1>15, ChannelKept DEF Compared, Places, Sending, Paired
    <2> QED  BY <1>15, <2>1, GotoTypes DEF Compared, TypeOK, Places, channel
  <1>16. CASE LoopStops
    <2>1. OneSender' /\ Paired'
      BY <1>16, ChannelKept DEF LoopStops, Places, Sending, Paired
    <2> QED  BY <1>16, <2>1, GotoTypes DEF LoopStops, TypeOK, Places, channel
  <1> QED  BY <1>1, <1>2, <1>3, <1>4, <1>5, <1>6, <1>7, <1>8, <1>9, <1>10,
              <1>11, <1>12, <1>13, <1>14, <1>15, <1>16 DEF LoopStep, StepEnds

\* So does every step of finish, ResponseChannel::send included, on any
\* thread.
LEMMA TypeFinish ==
  ASSUME TypeInv, NEW t \in Threads, Finish(t)
  PROVE  TypeInv'
  <1> USE DEF TypeInv, At, params, taken, stopVars, registries, outcome
  <1>1. CASE FetchToClose(t)
    <2>1. PICK place \in {"closing", "finish"} : Goto(t, place)
      BY <1>1 DEF FetchToClose
    <2>2. OneSender' /\ Paired'
      BY <1>1, <2>1, ChannelKept DEF FetchToClose, Places, Sending, Paired
    <2> QED  BY <1>1, <2>1, <2>2, GotoTypes
             DEF FetchToClose, TypeOK, Places, channel
  <1>2. CASE Closed(t)
    <2>1. OneSender' /\ Paired'
      BY <1>2, ChannelKept DEF Closed, Places, Sending, Paired
    <2> QED  BY <1>2, <2>1, GotoTypes DEF Closed, TypeOK, Places, channel
  <1>3. CASE FinishAgain(t)
    <2>1. OneSender' /\ Paired'
      BY <1>3, ChannelKept DEF FinishAgain, Places, Sending, Paired
    <2> QED  BY <1>3, <2>1, GotoTypes DEF FinishAgain, TypeOK, Places, channel
  <1>4. CASE FinishLocked(t)
    <2>1. finished' \in BOOLEAN /\ waiting_on' \in BOOLEAN
          /\ registered' \in BOOLEAN
      BY <1>4, Zenon DEF FinishLocked
    <2>2. /\ completion' \in CompletionKind \cup {"none"}
          /\ recorded' \in {"none", "handler", "error"}
          /\ was_registered' \in [Threads -> BOOLEAN]
          /\ done_callbacks' \in [Threads \cup {Nobody} -> BOOLEAN]
      BY <1>4 DEF FinishLocked, TypeOK
    <2>3. PICK place \in {"finalizing", "leave"} : Goto(t, place)
      BY <1>4 DEF FinishLocked
    <2>4. OneSender' /\ Paired'
      BY <1>4, <2>3, ChannelKept DEF FinishLocked, Places, Sending, Paired
    <2>5. state_lock' \in Threads \cup {Nobody}
      BY <1>4 DEF FinishLocked, TypeOK
    <2> QED  BY <1>4, <2>1, <2>2, <2>3, <2>4, <2>5, GotoTypes
             DEF FinishLocked, TypeOK, Places, channel
  <1>5. CASE Finalized(t)
    <2>1. OneSender' /\ Paired'
      BY <1>5, ChannelKept DEF Finalized, Places, Sending, Paired
    <2> QED  BY <1>5, <2>1, GotoTypes DEF Finalized, TypeOK, Places, channel
  <1>6. CASE LeaveLiveTasks(t)
    <2>1. OneSender' /\ Paired'
      BY <1>6, ChannelKept DEF LeaveLiveTasks, Places, Sending, Paired
    <2>2. live' \in BOOLEAN
      BY <1>6, Zenon DEF LeaveLiveTasks
    <2> QED  BY <1>6, <2>1, <2>2, GotoTypes
             DEF LeaveLiveTasks, TypeOK, Places, channel
  <1>7. CASE Unregister(t)
    <2>1. OneSender' /\ Paired'
      BY <1>7, ChannelKept DEF Unregister, Places, Sending, Paired
    <2> QED  BY <1>7, <2>1, GotoTypes DEF Unregister, TypeOK, Places, channel
  <1>8. CASE FireCallbacks(t)
    <2>1. OneSender' /\ Paired'
      BY <1>8, ChannelKept DEF FireCallbacks, Places, Sending, Paired
    <2> QED  BY <1>8, <2>1, GotoTypes
             DEF FireCallbacks, TypeOK, Places, channel
  <1>9. CASE TakeSender(t)
    <2>1. sender' \in BOOLEAN
      BY <1>9, Zenon DEF TakeSender
    <2>2. Paired'
      BY <1>9 DEF TakeSender, Paired
    <2>3. CASE sender
      <3>1. /\ pc'[t] = "count"
            /\ \A u \in Threads \ {t} : pc'[u] = pc[u]
            /\ \A u \in Threads : pc[u] \notin Sending
        BY <1>9, <2>3, GotoTypes DEF TakeSender, Places, OneSender
      <3>2. OneSender'
        BY <1>9, <2>3, <3>1 DEF TakeSender, OneSender, Sending
      <3> QED  BY <1>9, <2>1, <2>2, <2>3, <3>2, GotoTypes
               DEF TakeSender, TypeOK, Places
    <2>4. CASE ~sender
      <3>1. OneSender'
        BY <1>9, <2>4, ReturnTypes DEF TakeSender, OneSender, Sending
      <3> QED  BY <1>9, <2>1, <2>2, <2>4, <3>1, ReturnTypes
               DEF TakeSender, TypeOK
    <2> QED  BY <2>3, <2>4
  <1>10. CASE CountDown(t)
    <2>1. /\ pc'[t] = "send"
          /\ \A u \in Threads \ {t} : pc'[u] = pc[u] /\ pc[u] \notin Sending
          /\ in_flight' = 0
      BY <1>10, GotoTypes DEF CountDown, Places, OneSender, Sending
    <2>2. OneSender' /\ Paired'
      BY <1>10, <2>1 DEF CountDown, OneSender, Sending, Paired
    <2> QED  BY <1>10, <2>1, <2>2, GotoTypes DEF CountDown, TypeOK, Places
  <1>11. CASE Send(t)
    <2>1. /\ pc'[t] \notin Sending
          /\ \A u \in Threads \ {t} : pc'[u] = pc[u] /\ pc[u] \notin Sending
      BY <1>11, ReturnTypes DEF Send, OneSender, Sending
    <2>2. answer' \in {"handler", "error"}
      BY <1>11 DEF Send, TypeOK
    <2>3. OneSender' /\ Paired'
      BY <1>11, <2>1, <2>2 DEF Send, OneSender, Sending, Paired
    <2> QED  BY <1>11, <2>2, <2>3, ReturnTypes DEF Send, TypeOK
  <1> QED  BY <1>1, <1>2, <1>3, <1>4, <1>5, <1>6, <1>7, <1>8, <1>9, <1>10,
              <1>11 DEF Finish

\* And every step of stop().
LEMMA TypeStop ==
  ASSUME TypeInv, NEW s \in Stoppers, Stop(s)
  PROVE  TypeInv'
  <1> USE LoopThreadIsThread
      DEF TypeInv, At, params, taken, stopVars, registries, outcome
  <1>1. CASE TakeThread(s)
    <2>1. thread_slot' \in BOOLEAN
      BY <1>1, Zenon DEF TakeThread
    <2>2. PICK place \in {"post", "drain"} : Goto(s, place)
      BY <1>1 DEF TakeThread
    <2>3. OneSender' /\ Paired'
      BY <1>1, <2>2, ChannelKept DEF TakeThread, Places, Sending, Paired
    <2> QED  BY <1>1, <2>1, <2>2, <2>3, GotoTypes
             DEF TakeThread, TypeOK, Places, channel
  <1>2. CASE PostStop(s)
    <2>1. OneSender' /\ Paired'
      BY <1>2, ChannelKept DEF PostStop, Places, Sending, Paired
    <2>2. stop_posted' \in BOOLEAN
      BY <1>2, Zenon DEF PostStop
    <2> QED  BY <1>2, <2>1, <2>2, GotoTypes
             DEF PostStop, TypeOK, Places, channel
  <1>3. CASE Join(s)
    <2>1. OneSender' /\ Paired'
      BY <1>3, ChannelKept DEF Join, Places, Sending, Paired
    <2> QED  BY <1>3, <2>1, GotoTypes DEF Join, TypeOK, Places, channel
  <1>4. CASE Drain(s)
    <2>1. live' \in BOOLEAN /\ raced' \in BOOLEAN
      BY <1>4, Zenon DEF Drain
    <2>2. PICK place \in {"close", "done"} : Goto(s, place)
      BY <1>4 DEF Drain
    <2>3. OneSender' /\ Paired'
      BY <1>4, <2>2, ChannelKept DEF Drain, Places, Sending, Paired
    <2> QED  BY <1>4, <2>1, <2>2, <2>3, GotoTypes
             DEF Drain, TypeOK, Places, channel
  <1> QED  BY <1>1, <1>2, <1>3, <1>4 DEF Stop

\* Every step keeps the types and the channel.
LEMMA TypeStep ==
  ASSUME TypeInv, [Next]_vars
  PROVE  TypeInv'
  <1>1. CASE UNCHANGED vars
    BY <1>1 DEF vars, params, taken, stopVars, registries, outcome, channel,
                TypeInv, TypeOK, OneSender, Paired
  <1> QED  BY <1>1, TypeLoopStep, TypeFinish, TypeStop DEF Next

\* Every variable of the finish protocol keeps its type: in particular the
\* gauge is never taken below zero, however many threads call send.
THEOREM TypeCorrect == Spec => []TypeOK
  <1>1. Init => TypeInv
    BY TypeInit
  <1>2. TypeInv => TypeOK
    BY DEF TypeInv
  <1> QED  BY <1>1, <1>2, TypeStep, PTL DEF Spec

\* Whoever calls finish, and however often, a client that has its response
\* never finds its request on the gauge, and only the thread about to respond
\* takes it off (ResponseChannel::send, cut into its three effects).
THEOREM GaugeFirst == Spec => []GaugeLeads
  <1>1. Init => TypeInv
    BY TypeInit
  <1>2. TypeInv => GaugeLeads
    BY DEF TypeInv, OneSender, GaugeLeads, Sending
  <1> QED  BY <1>1, <1>2, TypeStep, PTL DEF Spec

-----------------------------------------------------------------------------
(***************************************************************************)
(* Nothing is left behind                                                  *)
(***************************************************************************)

\* Every step keeps the response in somebody's hands.
LEMMA AccountableStep ==
  ASSUME TypeInv, Accountable, [Next]_vars
  PROVE  Accountable'
  <1> USE LoopThreadIsThread, ThreadsAssumption
      DEF At, Goto, Accountable, Ending, Finishing, Closing, Sending, params,
          taken, stopVars, registries, outcome, channel
  <1>0. pc \in [Threads -> Places]
    BY DEF TypeInv, TypeOK
  <1>1. CASE LoopStep
    <2>1. CASE CancelBeforeStart
      BY <2>1 DEF CancelBeforeStart
    <2>2. CASE BeginStep
      BY <1>0, <2>2 DEF BeginStep
    <2>3. CASE BuildCoroutine
      BY <1>0, <2>3 DEF BuildCoroutine
    <2>4. ASSUME NEW completed \in {"raised", "aborted"}, StartFails(completed)
          PROVE  Accountable'
      BY <1>0, <2>4 DEF StartFails
    <2>5. ASSUME NEW succeeds \in BOOLEAN, RegisterTask(succeeds)
          PROVE  Accountable'
      BY <1>0, <2>5 DEF RegisterTask
    <2>6. CASE FlagRegistered
      BY <1>0, <2>6 DEF FlagRegistered
    <2>7. CASE Resume
      BY <1>0, <2>7 DEF Resume
    <2>8. CASE EnterFails
      BY <1>0, <2>8 DEF EnterFails
    <2>9. CASE StepEnds
      BY <1>0, <2>9 DEF StepEnds, Park, ParkFails, Return, Raise
    <2>10. CASE AddDoneCallback
      BY <2>10 DEF AddDoneCallback
    <2>11. CASE RemoveDoneCallback
      BY <1>0, <2>11 DEF RemoveDoneCallback
    <2>12. ASSUME NEW equal \in BOOLEAN, Compared(equal)
           PROVE  Accountable'
      BY <1>0, <2>12 DEF Compared
    <2>13. CASE LoopStops
      BY <1>0, <2>13 DEF LoopStops
    <2> QED  BY <1>1, <2>1, <2>2, <2>3, <2>4, <2>5, <2>6, <2>7, <2>8, <2>9,
                <2>10, <2>11, <2>12, <2>13 DEF LoopStep
  <1>2. ASSUME NEW t \in Threads, Finish(t) PROVE Accountable'
    <2>1. CASE FetchToClose(t)
      BY <1>0, <2>1 DEF FetchToClose
    <2>2. CASE Closed(t)
      BY <1>0, <2>2 DEF Closed
    <2>3. CASE FinishAgain(t)
      BY <1>0, <2>3 DEF FinishAgain
    <2>4. CASE FinishLocked(t)
      BY <1>0, <2>4 DEF FinishLocked
    <2>5. CASE Finalized(t)
      BY <1>0, <2>5 DEF Finalized
    <2>6. CASE LeaveLiveTasks(t)
      BY <1>0, <2>6 DEF LeaveLiveTasks
    <2>7. CASE Unregister(t)
      BY <1>0, <2>7 DEF Unregister
    <2>8. CASE FireCallbacks(t)
      BY <1>0, <2>8 DEF FireCallbacks
    <2>9. CASE TakeSender(t)
      <3>1. ~sender => answer # "none"
                       \/ \E u \in Threads \ {t} : pc[u] \in Sending
        BY <2>9 DEF TakeSender, TypeInv, OneSender
      <3> QED  BY <1>0, <2>9, <3>1 DEF TakeSender, FinishReturns
    <2>10. CASE CountDown(t)
      BY <1>0, <2>10 DEF CountDown
    <2>11. CASE Send(t)
      <3>1. answer' # "none" /\ finished
        BY <2>11 DEF Send, TypeInv, TypeOK
      <3> QED  BY <1>0, <2>11, <3>1 DEF Send, FinishReturns
    <2> QED  BY <1>2, <2>1, <2>2, <2>3, <2>4, <2>5, <2>6, <2>7, <2>8, <2>9,
                <2>10, <2>11 DEF Finish
  <1>3. ASSUME NEW s \in Stoppers, Stop(s) PROVE Accountable'
    <2>1. CASE TakeThread(s)
      BY <1>0, <2>1 DEF TakeThread
    <2>2. CASE PostStop(s)
      BY <1>0, <2>2 DEF PostStop
    <2>3. CASE Join(s)
      BY <1>0, <2>3 DEF Join
    <2>4. CASE Drain(s)
      BY <1>0, <2>4 DEF Drain
    <2> QED  BY <1>3, <2>1, <2>2, <2>3, <2>4 DEF Stop
  <1>4. CASE UNCHANGED vars
    BY <1>4 DEF vars
  <1> QED  BY <1>1, <1>2, <1>3, <1>4 DEF Next

\* The invariant holds of every task.
LEMMA AccountableCorrect == Spec => [](TypeInv /\ Accountable)
  <1>1. Init => TypeInv /\ Accountable
    BY TypeInit, LoopThreadIsThread, ThreadsAssumption
    DEF Init, Accountable, Finishing, Sending
  <1> QED  BY <1>1, TypeStep, AccountableStep, PTL DEF Spec

\* When the loop is dead and every stop() has returned, the task is finished,
\* off the registry and answered, whatever the threads did in between: the
\* thread that joined the loop still had to drain live_tasks, and a thread
\* that took the task off it cannot return without a response, or with
\* another thread on its way to one.
THEOREM NothingForgotten == Spec => []NothingLeftBehind
  <1>1. TypeInv /\ Accountable => NothingLeftBehind
    BY DEF TypeInv, OneSender, Accountable, NothingLeftBehind, Ending,
           Closing, Finishing, Sending, Threads
  <1> QED  BY <1>1, AccountableCorrect, PTL

-----------------------------------------------------------------------------
(***************************************************************************)
(* The response is last                                                    *)
(***************************************************************************)

\* Every step before a race keeps the order of finish.
LEMMA OrderlyStep ==
  ASSUME TypeInv, Accountable, ~raced', [Next]_vars,
         OneEnder, PutAway, RightReply, LastUnlessRaced
  PROVE  OneEnder' /\ PutAway' /\ RightReply' /\ LastUnlessRaced'
  <1> DEFINE Goal == OneEnder' /\ PutAway' /\ RightReply' /\ LastUnlessRaced'
  <1> USE LoopThreadIsThread, ThreadsAssumption
      DEF At, Goto, OneEnder, PutAway, RightReply, Ending, Finishing, Closing,
          Sending, Stepping, params, taken, stopVars, registries, outcome,
          channel
  <1>0. /\ pc \in [Threads -> Places]
        /\ reply \in [Threads -> {"handler", "error"}]
        /\ kind \in [Threads -> CompletionKind]
        /\ was_registered \in [Threads -> BOOLEAN]
        /\ done_callbacks \in [Threads \cup {Nobody} -> BOOLEAN]
    BY DEF TypeInv, TypeOK
  <1>5. \A t, u \in Threads : pc[t] \in Ending /\ pc[u] \in Finishing => t = u
    BY DEF Threads
  <1>1. CASE LoopStep
    <2>1. CASE CancelBeforeStart
      BY <2>1 DEF CancelBeforeStart, LastUnlessRaced, Complete
    <2>2. CASE BeginStep
      BY <1>0, <2>2 DEF BeginStep, EndWith, LastUnlessRaced, Complete
    <2>3. CASE BuildCoroutine
      BY <1>0, <2>3 DEF BuildCoroutine, LastUnlessRaced, Complete
    <2>4. ASSUME NEW completed \in {"raised", "aborted"}, StartFails(completed)
          PROVE  Goal
      BY <1>0, <2>4 DEF StartFails, EndWith, LastUnlessRaced, Complete
    <2>5. ASSUME NEW succeeds \in BOOLEAN, RegisterTask(succeeds)
          PROVE  Goal
      <3>1. \A t \in Threads : pc[t] \notin Finishing
        BY <1>0, <2>5 DEF RegisterTask, Threads
      <3>2. ~finished /\ answer = "none"
        BY <2>5 DEF RegisterTask, Accountable
      <3> QED  BY <1>0, <2>5, <3>1, <3>2 DEF RegisterTask, LastUnlessRaced
    <2>6. CASE FlagRegistered
      BY <1>0, <2>6 DEF FlagRegistered, LastUnlessRaced, Complete
    <2>7. CASE Resume
      BY <1>0, <2>7 DEF Resume, EndWith, LastUnlessRaced, Complete
    <2>8. CASE EnterFails
      BY <1>0, <2>8 DEF EnterFails, EndWith, LastUnlessRaced, Complete
    <2>9. ASSUME NEW on_future \in BOOLEAN, Park(on_future)
          PROVE  Goal
      BY <1>0, <2>9 DEF Park, LastUnlessRaced, Complete
    <2>10. CASE ParkFails
      BY <1>0, <2>10 DEF ParkFails, EndWith, LastUnlessRaced, Complete
    <2>11. ASSUME NEW response \in {"handler", "error"}, Return(response)
           PROVE  Goal
      BY <1>0, <2>11 DEF Return, EndWith, LastUnlessRaced, Complete
    <2>12. ASSUME NEW completed \in {"raised", "cancelled"}, Raise(completed)
           PROVE  Goal
      BY <1>0, <2>12 DEF Raise, EndWith, LastUnlessRaced, Complete
    <2>13. CASE AddDoneCallback
      BY <1>0, <2>13 DEF AddDoneCallback, LastUnlessRaced, Complete
    <2>14. CASE RemoveDoneCallback
      BY <1>0, <2>14 DEF RemoveDoneCallback, LastUnlessRaced, Complete
    <2>15. ASSUME NEW equal \in BOOLEAN, Compared(equal)
           PROVE  Goal
      BY <1>0, <2>15 DEF Compared, LastUnlessRaced, Complete
    <2>16. CASE LoopStops
      BY <1>0, <2>16 DEF LoopStops, LastUnlessRaced, Complete
    <2> QED  BY <1>1, <2>1, <2>2, <2>3, <2>4, <2>5, <2>6, <2>7, <2>8, <2>9,
                <2>10, <2>11, <2>12, <2>13, <2>14, <2>15, <2>16
             DEF LoopStep, StepEnds
  <1>2. ASSUME NEW t \in Threads, Finish(t) PROVE Goal
    <2>1. CASE FetchToClose(t)
      BY <1>0, <2>1 DEF FetchToClose, LastUnlessRaced, Complete
    <2>2. CASE Closed(t)
      BY <1>0, <2>2 DEF Closed, LastUnlessRaced, Complete
    <2>3. CASE FinishAgain(t)
      BY <1>0, <2>3 DEF FinishAgain, Threads
    <2>4. CASE FinishLocked(t)
      <3>1. \A u \in Threads \ {t} : pc[u] \notin Finishing
        BY <1>0, <2>4, <1>5 DEF FinishLocked
      <3>2. /\ pc' \in [Threads -> Places \cup {"finalizing", "leave"}]
            /\ pc'[t] \in {"finalizing", "leave"}
            /\ \A u \in Threads \ {t} : pc'[u] = pc[u]
        BY <1>0, <2>4 DEF FinishLocked
      <3>3. /\ answer = "none" /\ UNCHANGED <<answer, live, all_tasks, reply>>
            /\ finished' /\ ~finished
        BY <2>4 DEF FinishLocked, Accountable
      <3>4. OneEnder'
        <4>1. \A u \in Stoppers \ {t} : pc'[u] \notin Ending
          BY <1>0, <2>4, <3>2 DEF FinishLocked, Threads
        <4>2. t \in Stoppers => pc'[LoopThread] = "dead" /\ ~live
          BY <2>4, <3>2 DEF FinishLocked
        <4>3. t \in Stoppers \/ t = LoopThread
          BY DEF Threads
        <4> QED  BY <3>1, <3>2, <3>3, <4>1, <4>2, <4>3
      <3>5. PutAway'
        <4>1. all_tasks => registered
          BY <1>0, <2>4, <3>3 DEF FinishLocked, Threads
        <4>2. \A u \in Threads \ {t} : ~done_callbacks'[u]
          BY <1>0, <2>4, <3>1 DEF FinishLocked
        <4>3. ~done_callbacks'[Nobody]
          BY <1>0, <2>4 DEF FinishLocked
        <4>4. was_registered'[t] = registered
          BY <1>0, <2>4 DEF FinishLocked
        <4> QED  BY <3>1, <3>2, <3>3, <4>1, <4>2, <4>3, <4>4
      <3>6. RightReply'
        BY <2>4, <3>1, <3>2, <3>3 DEF FinishLocked, TypeInv, Paired
      <3> QED  BY <3>3, <3>4, <3>5, <3>6 DEF LastUnlessRaced
    <2>5. CASE Finalized(t)
      BY <1>0, <2>5 DEF Finalized, LastUnlessRaced, Complete
    <2>6. CASE LeaveLiveTasks(t)
      BY <1>0, <2>6 DEF LeaveLiveTasks, LastUnlessRaced, Complete
    <2>7. CASE Unregister(t)
      BY <1>0, <2>7, ZenonT(30) DEF Unregister, LastUnlessRaced, Complete
    <2>8. CASE FireCallbacks(t)
      BY <1>0, <2>8 DEF FireCallbacks, LastUnlessRaced, Complete
    <2>9. CASE TakeSender(t)
      <3>1. sender
        BY <2>9, <1>5 DEF TakeSender, TypeInv, OneSender
      <3> QED  BY <1>0, <2>9, <3>1 DEF TakeSender, LastUnlessRaced, Complete
    <2>10. CASE CountDown(t)
      BY <1>0, <2>10 DEF CountDown, LastUnlessRaced, Complete
    <2>11. CASE Send(t)
      <3>1. \A u \in Threads \ {t} : pc[u] \notin Finishing
        BY <1>0, <2>11, <1>5 DEF Send
      <3>2. /\ \A u \in Threads : pc'[u] \notin Finishing
            /\ \A u \in Stoppers : pc'[u] \in Ending => pc[u] \in Ending
            /\ pc[LoopThread] = "dead" => pc'[LoopThread] = "dead"
            /\ pc'[LoopThread] \notin Stepping
        BY <1>0, <2>11, <3>1 DEF Send, FinishReturns, Threads
      <3>3. finished /\ ~live /\ ~all_tasks /\ ~done_callbacks[Nobody]
        BY <2>11 DEF Send, Accountable
      <3>4. \A u \in Threads : ~done_callbacks[u]
        BY <1>0, <2>11, <3>1 DEF Send
      <3>5. /\ answer' = reply[t] /\ reply[t] = recorded
            /\ reply[t] = "handler" => completion = "returned"
        BY <2>11 DEF Send
      <3>6. UNCHANGED <<finished, live, all_tasks, completion, recorded, reply,
                        registered, done_callbacks, was_registered>>
        BY <2>11 DEF Send
      <3>7. OneEnder'
        BY <1>0, <2>11, <3>2, <3>3, <3>6 DEF Send, FinishReturns
      <3>8. PutAway' /\ RightReply'
        BY <3>2, <3>3, <3>4, <3>6
      <3>9. LastUnlessRaced'
        BY <3>3, <3>4, <3>5, <3>6 DEF LastUnlessRaced, Complete
      <3> QED  BY <3>7, <3>8, <3>9
    <2> QED  BY <1>2, <2>1, <2>2, <2>3, <2>4, <2>5, <2>6, <2>7, <2>8, <2>9,
                <2>10, <2>11 DEF Finish
  <1>3. ASSUME NEW s \in Stoppers, Stop(s) PROVE Goal
    <2>1. CASE TakeThread(s)
      BY <1>0, <2>1 DEF TakeThread, LastUnlessRaced, Complete
    <2>2. CASE PostStop(s)
      BY <1>0, <2>2 DEF PostStop, LastUnlessRaced, Complete
    <2>3. CASE Join(s)
      BY <1>0, <2>3 DEF Join, LastUnlessRaced, Complete
    <2>4. CASE Drain(s)
      BY <1>0, <2>4, ZenonT(30) DEF Drain, LastUnlessRaced, Complete
    <2> QED  BY <1>3, <2>1, <2>2, <2>3, <2>4 DEF Stop
  <1>4. CASE UNCHANGED vars
    BY <1>4 DEF vars, LastUnlessRaced, Complete
  <1> QED  BY <1>1, <1>2, <1>3, <1>4 DEF Next

\* The history that marks a race is never taken back.
LEMMA RacedKept ==
  ASSUME [Next]_vars, raced
  PROVE  raced'
  <1>1. CASE LoopStep
    BY <1>1 DEF LoopStep, StepEnds, stopVars, CancelBeforeStart, BeginStep,
       BuildCoroutine, StartFails, RegisterTask, FlagRegistered, Resume,
       EnterFails, Park, ParkFails, Return, Raise, AddDoneCallback,
       RemoveDoneCallback, Compared, LoopStops
  <1>2. ASSUME NEW t \in Threads, Finish(t) PROVE raced'
    BY <1>2 DEF Finish, stopVars, FetchToClose, Closed, FinishAgain,
       FinishLocked, Finalized, LeaveLiveTasks, Unregister, FireCallbacks,
       TakeSender, CountDown, Send
  <1>3. ASSUME NEW s \in Stoppers, Stop(s) PROVE raced'
    BY <1>3 DEF Stop, stopVars, TakeThread, PostStop, Join, Drain
  <1>4. CASE UNCHANGED vars
    BY <1>4 DEF vars, stopVars
  <1> QED  BY <1>1, <1>2, <1>3, <1>4 DEF Next

\* In every interleaving of finish with stop() in which no stop() drains a
\* task of a live loop, and however the task ends, the response goes out after
\* the registries and the callbacks and is the one the completion was recorded
\* with (finish: "release the response last").
THEOREM ResponseLast == Spec => []LastUnlessRaced
  <1>1. Init => Orderly
    BY LoopThreadIsThread, ThreadsAssumption, ZenonT(30)
    DEF Init, Orderly, OneEnder, PutAway, RightReply, LastUnlessRaced, Ending,
        Closing, Finishing, Sending, Stepping, Threads
  <1>2. TypeInv /\ Accountable /\ Orderly /\ [Next]_vars => Orderly'
    <2> SUFFICES ASSUME TypeInv, Accountable, Orderly, [Next]_vars, ~raced'
                 PROVE  /\ OneEnder' /\ PutAway'
                        /\ RightReply' /\ LastUnlessRaced'
      BY DEF Orderly
    <2> QED  BY RacedKept, OrderlyStep DEF Orderly
  <1>3. Orderly => LastUnlessRaced
    BY DEF Orderly, LastUnlessRaced
  <1> QED  BY <1>1, <1>2, <1>3, AccountableCorrect, PTL DEF Spec
=============================================================================
