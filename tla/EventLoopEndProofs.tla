------------------------- MODULE EventLoopEndProofs -------------------------
(***************************************************************************)
(* Proofs about how the requests of an EventLoop end: its gauge, the       *)
(* settling of outcomes and responses, and what is left of a finished task *)
(* (module EventLoopProofs has the types and the resumption of tasks).     *)
(***************************************************************************)
EXTENDS EventLoopProofs, FiniteSetTheorems

\* What a thread may be about to do to t: nobody knows a task before it is
\* inserted, or when it could not be allocated.
Unknown(t) ==
    /\ t \notin live_tasks
    /\ \A s \in Stoppers : t \notin work[s] /\ closing[s] # t

\* The response channel of a request and its place in the registries.
ChannelOf(t) ==
    /\ request[t] = "none" <=> channel[t] = "unused"
    /\ channel[t] = "dropped" => request[t] = "failed"
    /\ request[t] = "failed" => channel[t] # "open"
    /\ request[t] = "none" \/ channel[t] = "dropped"
           => Unknown(t) /\ ~Finished(t)
    /\ Finished(t) => /\ t \notin live_tasks
                      /\ ~registered[t]
                      /\ channel[t] \in {"handler", "error"}
                      /\ done_callback[t] # "added"

\* The inductive invariant behind GaugeExact and SettledOnce.
ChannelInv == \A t \in Tasks : ChannelOf(t)

-----------------------------------------------------------------------------
(***************************************************************************)
(* The shapes of a step                                                    *)
(*                                                                         *)
(* Seen from the requests, most steps are quiet: they settle nothing, make *)
(* no task known and undo nothing of what finish did.  The others insert a *)
(* request, start it, end it, or return from stop().                       *)
(***************************************************************************)

QuietRequests ==
    \A t \in Tasks : \/ request'[t] = request[t]
                     \/ Accepted(t) /\ Accepted(t)'

QuietStops ==
    \A s \in Stoppers : /\ work'[s] \subseteq work[s] \cup live_tasks
                        /\ closing'[s] \in {closing[s]} \cup work[s]
                        /\ stopper'[s] = "done" <=> stopper[s] = "done"

QuietEnds ==
    \A t \in Tasks :
        Finished(t) =>
            /\ ~registered[t] => ~registered'[t]
            /\ done_callback[t] # "added" => done_callback'[t] # "added"

Quiet ==
    /\ UNCHANGED <<outcome, channel, in_flight>>
    /\ UNCHANGED live_tasks \/ \E s \in Stoppers : StopDrains(s)
    /\ QuietRequests
    /\ QuietStops
    /\ QuietEnds

\* finish is called for t: in its own turn or step, or by stop().
Ends(t) ==
    /\ \E completion \in Outcomes \ {"pending"},
          response \in {"handler", "error"}, q \in Seq(Entries) :
           /\ Finish(t, completion, response, q)
           /\ Accepted(t) \/ response = "error"
    /\ UNCHANGED <<request, stopper>>
    /\ \/ Accepted(t) /\ UNCHANGED <<work, closing>>
       \/ \E s \in Stoppers :
              /\ closing[s] = t
              /\ work' = [work EXCEPT ![s] = @ \ {t}]
              /\ closing' = [closing EXCEPT ![s] = NoTask]

Settles(t) ==
    \/ ScheduleFails(t) \/ ScheduleInsert(t) \/ ScheduleRefused(t)
    \/ ScheduleFirstStep(t)
    \/ Ends(t)

\* A step that leaves the requests, their responses and the registries alone.
LEMMA QuietUnchanged ==
    ASSUME UNCHANGED <<outcome, channel, in_flight, request, live_tasks,
                       registered, stopper, work, closing>>,
           \A t \in Tasks : done_callback'[t] = "added"
                                => done_callback[t] = "added" \/ ~Finished(t)
    PROVE  Quiet
<1>1. QuietRequests
  BY DEF QuietRequests
<1>2. QuietStops
  BY DEF QuietStops
<1>3. QuietEnds
  BY DEF QuietEnds
<1> QED BY <1>1, <1>2, <1>3 DEF Quiet

\* Every step has one of the shapes.
LEMMA Shapes ==
    ASSUME TypeOK, ResumeInv, Next
    PROVE  \/ Quiet
           \/ \E t \in Tasks : Settles(t)
           \/ \E s \in Stoppers : StopReturns(s)
<1> USE DEF loopVars, taskVars, stepVars, cancelVars, finishVars, channelVars,
            serverVars, stopVars
<1>0. /\ ready \in Seq(Entries)
      /\ registered \in [Tasks -> BOOLEAN]
      /\ done_callback \in [Tasks -> {"none", "added", "scheduled", "ran",
                                      "lost"}]
      /\ request \in [Tasks -> Requests]
      /\ work \in [Stoppers -> SUBSET Tasks]
      /\ closing \in [Stoppers -> Tasks \cup {NoTask}]
      /\ stopper \in [Stoppers -> {"idle", "cancelling", "joining",
                                   "draining", "disposing", "done"}]
  BY DEF TypeOK, LoopTypeOK, TaskTypeOK
<1>1. ASSUME NEW t \in Tasks, TakeTurn(t), UNCHANGED <<serverVars, stopVars>>
      PROVE  Quiet \/ Settles(t)
  <2>0. PICK arg \in WakeArgs : \/ SpuriousWake(t, arg)
                                \/ CancelledBeforeStart(t, arg)
                                \/ StartFails(t, arg)
                                \/ EnterFails(t, arg)
                                \/ BeginStep(t, arg)
    BY <1>1 DEF TakeTurn
  <2>1. Turn(t, arg)
    BY <2>0 DEF SpuriousWake, CancelledBeforeStart, StartFails, EnterFails,
       BeginStep
  <2>2. Accepted(t) /\ Tail(ready) \in Seq(Entries)
    BY <2>1, TurnResume
  <2>3. CASE SpuriousWake(t, arg)
    BY <1>1, <2>3, QuietUnchanged DEF SpuriousWake
  <2>4. CASE \/ CancelledBeforeStart(t, arg) \/ StartFails(t, arg)
             \/ EnterFails(t, arg)
    <3>1. \E completion \in Outcomes \ {"pending"} :
              Finish(t, completion, "error", Tail(ready))
      BY <2>4 DEF CancelledBeforeStart, StartFails, EnterFails, Outcomes
    <3> QED BY <1>1, <2>2, <3>1 DEF Settles, Ends
  <2>5. CASE BeginStep(t, arg)
    <3>1. PICK v : registered' = [registered EXCEPT ![t] = v]
      BY <2>5 DEF BeginStep
    <3>2. ~Finished(t)
      BY <2>5 DEF BeginStep, CanStep
    <3>3. QuietRequests /\ QuietStops
      BY <1>1, <2>5 DEF BeginStep, QuietRequests, QuietStops
    <3>4. \A u \in Tasks : u # t => registered'[u] = registered[u]
      BY <1>0, <3>1
    <3>5. QuietEnds
      BY <2>5, <3>2, <3>4 DEF BeginStep, QuietEnds
    <3> QED BY <2>5, <3>3, <3>5 DEF BeginStep, Quiet
  <2> QED BY <2>0, <2>3, <2>4, <2>5
<1>2. ASSUME NEW t \in Tasks, EndStep(t), UNCHANGED <<serverVars, stopVars>>
      PROVE  Quiet \/ Settles(t)
  <2>0. Accepted(t)
    BY <1>2 DEF EndStep, StepReturned, StepRaised, StepYieldsNone,
       StepBadYield, StepParks, StepParksOnDone, StepAborts, LeaveStep,
       Yields, ResumeInv, ResumeOf
  <2>1. CASE StepReturned(t) \/ StepRaised(t) \/ StepAborts(t)
    <3>1. \E completion \in Outcomes \ {"pending"},
             response \in {"handler", "error"} :
              Finish(t, completion, response, ready)
      BY <2>1 DEF StepReturned, StepRaised, StepAborts, Outcomes
    <3> QED BY <1>0, <1>2, <2>0, <3>1 DEF Settles, Ends
  <2>2. CASE StepYieldsNone(t) \/ StepBadYield(t)
    BY <1>2, <2>2, QuietUnchanged DEF StepYieldsNone, StepBadYield
  <2>3. CASE StepParks(t) \/ StepParksOnDone(t)
    BY <1>2, <2>3, QuietUnchanged DEF StepParks, StepParksOnDone
  <2> QED BY <1>2, <2>1, <2>2, <2>3 DEF EndStep
<1>3. ASSUME NEW t \in Tasks, UserCall(t), UNCHANGED <<serverVars, stopVars>>
      PROVE  Quiet
  <2>1. CASE CancelCall(t) \/ Uncancel(t)
    BY <1>3, <2>1, QuietUnchanged DEF CancelCall, Uncancel
  <2>2. CASE AddDoneCallback(t)
    <3>1. \A u \in Tasks : done_callback'[u] = "added"
                               => done_callback[u] = "added" \/ ~Finished(u)
      BY <1>0, <2>2 DEF AddDoneCallback
    <3> QED BY <1>3, <2>2, <3>1, QuietUnchanged DEF AddDoneCallback
  <2>3. CASE RemoveDoneCallback(t)
    BY <1>0, <1>3, <2>3, QuietUnchanged DEF RemoveDoneCallback
  <2> QED BY <1>3, <2>1, <2>2, <2>3 DEF UserCall
<1>4. ASSUME NEW t \in Tasks, RunCancel(t) \/ FutureResolves(t)
      PROVE  Quiet
  BY <1>4, QuietUnchanged DEF RunCancel, FutureResolves
<1>5. ASSUME NEW t \in Tasks, RunDoneCallback(t)
      PROVE  Quiet
  BY <1>0, <1>5, QuietUnchanged DEF RunDoneCallback
<1>6. CASE RunStop \/ LoopExits \/ LoopFails
  BY <1>0, <1>6, QuietUnchanged DEF RunStop, LoopExits, LoopFails, CloseLoop
<1>7. ASSUME NEW t \in Tasks, ServerTask(t)
      PROVE  Quiet \/ Settles(t)
  <2>1. CASE Response(t) \/ DropRequest(t) \/ DropCancels(t)
    <3>1. QuietRequests
      BY <1>0, <2>1 DEF Response, DropRequest, DropCancels, Accepted,
         QuietRequests
    <3>2. QuietStops /\ QuietEnds
      BY <2>1 DEF Response, DropRequest, DropCancels, QuietStops, QuietEnds
    <3> QED BY <2>1, <3>1, <3>2 DEF Response, DropRequest, DropCancels, Quiet
  <2> QED BY <1>7, <2>1 DEF ServerTask, Settles
<1>8. ASSUME NEW s \in Stoppers, CancelSnapshot(s) \/ CallsStop(s)
      PROVE  Quiet \/ (\E t \in Tasks : Settles(t)) \/ StopReturns(s)
  <2>1. ASSUME NEW t \in Tasks, CancelOne(s, t) \/ DisposeCloses(s, t)
        PROVE  Quiet
    <3>1. QuietRequests /\ QuietEnds
      BY <2>1 DEF CancelOne, DisposeCloses, QuietRequests, QuietEnds
    <3>2. QuietStops
      BY <1>0, <2>1 DEF CancelOne, DisposeCloses, QuietStops
    <3> QED BY <2>1, <3>1, <3>2 DEF CancelOne, DisposeCloses, Quiet
  <2>2. ASSUME NEW t \in Tasks, DisposeFinishes(s, t)
        PROVE  Settles(t)
    BY <1>0, <2>2 DEF DisposeFinishes, Settles, Ends, Outcomes
  <2>3. CASE CancelSnapshot(s) \/ StopDrains(s)
    <3>1. QuietRequests /\ QuietEnds
      BY <2>3 DEF CancelSnapshot, StopDrains, QuietRequests, QuietEnds
    <3>2. QuietStops
      BY <1>0, <2>3 DEF CancelSnapshot, StopDrains, QuietStops
    <3>3. UNCHANGED live_tasks \/ StopDrains(s)
      BY <2>3 DEF CancelSnapshot
    <3> QED BY <2>3, <3>1, <3>2, <3>3 DEF CancelSnapshot, StopDrains, Quiet
  <2>4. CASE StopTakesHandle(s) \/ StopFindsNoHandle(s) \/ StopJoins(s)
    <3>1. QuietRequests /\ QuietEnds
      BY <2>4 DEF StopTakesHandle, StopFindsNoHandle, StopJoins,
         QuietRequests, QuietEnds
    <3>2. QuietStops
      BY <1>0, <2>4 DEF StopTakesHandle, StopFindsNoHandle, StopJoins, AtStop,
         QuietStops
    <3> QED BY <2>4, <3>1, <3>2
            DEF StopTakesHandle, StopFindsNoHandle, StopJoins, Quiet
  <2> QED BY <1>8, <2>1, <2>2, <2>3, <2>4 DEF CallsStop
<1> QED BY <1>1, <1>2, <1>3, <1>4, <1>5, <1>6, <1>7, <1>8
        DEF Next, LoopThread

-----------------------------------------------------------------------------
(***************************************************************************)
(* Responses and the gauge                                                 *)
(***************************************************************************)

\* What finish does to the request it ends and to every other one.
LEMMA FinishEnds ==
    ASSUME TypeOK, NEW t \in Tasks, NEW completion \in Outcomes \ {"pending"},
           NEW response \in {"handler", "error"}, NEW q,
           Finish(t, completion, response, q), ChannelOf(t),
           channel[t] \in {"open", "handler", "error"}
    PROVE  /\ Finished(t)' /\ ~registered'[t] /\ done_callback'[t] # "added"
           /\ Finished(t) => outcome'[t] = outcome[t]
           /\ channel'[t] \in {"handler", "error"}
           /\ channel[t] # "open" => channel'[t] = channel[t]
           /\ live_tasks' = live_tasks \ {t}
           /\ in_flight' = IF channel[t] = "open" THEN in_flight - 1
                           ELSE in_flight
           /\ \A u \in Tasks \ {t} : /\ outcome'[u] = outcome[u]
                                     /\ channel'[u] = channel[u]
                                     /\ registered'[u] = registered[u]
                                     /\ done_callback'[u] = done_callback[u]
<1>0. /\ registered \in [Tasks -> BOOLEAN]
      /\ outcome \in [Tasks -> Outcomes]
      /\ done_callback \in [Tasks -> {"none", "added", "scheduled", "ran",
                                      "lost"}]
      /\ channel \in [Tasks -> {"unused", "open", "handler", "error",
                                "dropped"}]
      /\ live_tasks \in SUBSET Tasks
  BY DEF TypeOK, TaskTypeOK
<1>1. /\ channel'[t] \in {"handler", "error"}
      /\ channel[t] # "open" => channel'[t] = channel[t]
      /\ \A u \in Tasks \ {t} : channel'[u] = channel[u]
      /\ in_flight' = IF channel[t] = "open" THEN in_flight - 1
                      ELSE in_flight
  BY <1>0 DEF Finish, Send
<1>2. CASE Finished(t)
  <2>1. UNCHANGED <<registered, outcome, done_callback, live_tasks>>
    BY <1>2 DEF Finish
  <2> QED BY <1>1, <1>2, <2>1 DEF ChannelOf, Finished
<1>3. CASE ~Finished(t)
  <2>1. /\ outcome' = [outcome EXCEPT ![t] = completion]
        /\ registered' = [registered EXCEPT ![t] = FALSE]
        /\ live_tasks' = live_tasks \ {t}
        /\ FireDoneCallbacks(t, q)
    BY <1>3 DEF Finish
  <2>2. Finished(t)' /\ \A u \in Tasks \ {t} : outcome'[u] = outcome[u]
    BY <1>0, <2>1 DEF Finished
  <2>3. /\ ~registered'[t]
        /\ \A u \in Tasks \ {t} : registered'[u] = registered[u]
    BY <1>0, <2>1
  <2>4. /\ done_callback'[t] # "added"
        /\ \A u \in Tasks \ {t} : done_callback'[u] = done_callback[u]
    BY <1>0, <2>1 DEF FireDoneCallbacks
  <2> QED BY <1>1, <1>3, <2>1, <2>2, <2>3, <2>4
<1> QED BY <1>2, <1>3

\* The response of a request that ends can only have been open or sent.
LEMMA EndsKnown ==
    ASSUME TypeOK, ChannelInv, NEW t \in Tasks, Ends(t)
    PROVE  channel[t] \in {"open", "handler", "error"}
<1>1. ~Unknown(t) \/ Accepted(t)
  BY DEF Ends, Unknown
<1> QED BY <1>1 DEF TypeOK, TaskTypeOK, ChannelInv, ChannelOf, Accepted

\* Every step keeps the invariant.
LEMMA ChannelStep ==
    ASSUME TypeOK, ResumeInv, ChannelInv, Next
    PROVE  ChannelInv'
<1>0. /\ request \in [Tasks -> Requests]
      /\ channel \in [Tasks -> {"unused", "open", "handler", "error",
                                "dropped"}]
      /\ work \in [Stoppers -> SUBSET Tasks]
      /\ closing \in [Stoppers -> Tasks \cup {NoTask}]
      /\ live_tasks \in SUBSET Tasks
  BY DEF TypeOK, TaskTypeOK
<1>1. SUFFICES ASSUME NEW u \in Tasks PROVE ChannelOf(u)'
  BY DEF ChannelInv
<1>2. ChannelOf(u)
  BY DEF ChannelInv
<1>3. CASE Quiet
  <2>0. live_tasks' \subseteq live_tasks
    BY <1>3 DEF Quiet, StopDrains
  <2>1. Finished(u)' <=> Finished(u)
    BY <1>3 DEF Quiet, Finished
  <2>2. Unknown(u) => Unknown(u)'
    BY <1>3, <2>0, NoTaskAssumption DEF Quiet, QuietStops, Unknown
  <2> QED BY <1>2, <1>3, <2>0, <2>1, <2>2
          DEF Quiet, QuietRequests, QuietEnds, ChannelOf, Accepted
<1>4. ASSUME NEW s \in Stoppers, StopReturns(s)
      PROVE  ChannelOf(u)'
  BY <1>2, <1>4 DEF StopReturns, taskVars, finishVars, channelVars,
     serverVars, ChannelOf, Unknown, Finished
<1>5. ASSUME NEW t \in Tasks, Settles(t)
      PROVE  ChannelOf(u)'
  <2> USE DEF loopVars, finishVars, channelVars, taskVars, stopVars
  <2>1. CASE ScheduleFails(t)
    BY <1>0, <1>2, <2>1 DEF ScheduleFails, ChannelOf, Unknown, Finished
  <2>2. CASE ScheduleInsert(t)
    BY <1>0, <1>2, <2>2 DEF ScheduleInsert, ChannelOf, Unknown, Finished
  <2>3. CASE ScheduleRefused(t)
    BY <1>0, <1>2, <2>3 DEF ScheduleRefused, Send, ChannelOf, Unknown,
       Finished
  <2>4. CASE ScheduleFirstStep(t)
    BY <1>0, <1>2, <2>4 DEF ScheduleFirstStep, ChannelOf, Unknown, Finished
  <2>5. CASE Ends(t)
    <3>1. /\ Finished(t)' /\ ~registered'[t] /\ done_callback'[t] # "added"
          /\ channel'[t] \in {"handler", "error"}
          /\ live_tasks' = live_tasks \ {t}
          /\ \A v \in Tasks \ {t} : /\ outcome'[v] = outcome[v]
                                    /\ channel'[v] = channel[v]
                                    /\ registered'[v] = registered[v]
                                    /\ done_callback'[v] = done_callback[v]
      BY <2>5, EndsKnown, FinishEnds DEF Ends, ChannelInv
    <3>2. request' = request /\ (Unknown(u) => Unknown(u)')
      BY <1>0, <2>5, <3>1, NoTaskAssumption DEF Ends, Unknown
    <3>3. CASE u = t
      <4>1. channel[t] \in {"open", "handler", "error"}
        BY <2>5, EndsKnown
      <4> QED BY <1>2, <3>1, <3>2, <3>3, <4>1 DEF ChannelOf
    <3>4. CASE u # t
      BY <1>2, <3>1, <3>2, <3>4 DEF ChannelOf, Finished
    <3> QED BY <3>3, <3>4
  <2> QED BY <1>5, <2>1, <2>2, <2>3, <2>4, <2>5 DEF Settles
<1> QED BY <1>3, <1>4, <1>5, Shapes

\* The invariant holds of every loop.
LEMMA ChannelCorrect == Spec => []ChannelInv
<1>1. ASSUME Init
      PROVE  ChannelInv
  BY <1>1, NoTaskAssumption
     DEF Init, TaskInit, ChannelInv, ChannelOf, Unknown, Finished
<1>2. ASSUME ChannelInv, UNCHANGED vars
      PROVE  ChannelInv'
  BY <1>2 DEF vars, taskVars, finishVars, channelVars, serverVars, stopVars,
     ChannelInv, ChannelOf, Unknown, Finished
<1> QED BY <1>1, <1>2, ChannelStep, TypeCorrect, ResumeCorrect, PTL DEF Spec

\* The outcome and the response of a request are settled once, whoever ends
\* it first: its own step, a cancel, a refused schedule or stop().
THEOREM EndsOnce == Spec => SettledOnce
<1>1. ASSUME TypeOK, ResumeInv, ChannelInv, Next, NEW u \in Tasks
      PROVE  /\ outcome[u] # "pending" => outcome'[u] = outcome[u]
             /\ channel[u] \notin {"unused", "open"}
                    => channel'[u] = channel[u]
  <2>0. /\ ChannelOf(u)
        /\ channel \in [Tasks -> {"unused", "open", "handler", "error",
                                  "dropped"}]
    BY <1>1 DEF ChannelInv, TypeOK, TaskTypeOK
  <2>1. CASE Quiet
    BY <2>1 DEF Quiet
  <2>2. ASSUME NEW s \in Stoppers, StopReturns(s)
        PROVE  UNCHANGED <<outcome, channel>>
    BY <2>2 DEF StopReturns, taskVars, finishVars, channelVars
  <2>3. ASSUME NEW t \in Tasks, Settles(t)
        PROVE  /\ outcome[u] # "pending" => outcome'[u] = outcome[u]
               /\ channel[u] \notin {"unused", "open"}
                      => channel'[u] = channel[u]
    <3>1. CASE Ends(t)
      BY <1>1, <3>1, EndsKnown, FinishEnds DEF Ends, ChannelInv, Finished
    <3>2. CASE ~Ends(t)
      BY <2>0, <2>3, <3>2
         DEF Settles, ScheduleFails, ScheduleInsert, ScheduleRefused, Send,
             ScheduleFirstStep, taskVars, finishVars, channelVars, ChannelOf
    <3> QED BY <3>1, <3>2
  <2> QED BY <1>1, <2>1, <2>2, <2>3, Shapes
<1>2. ASSUME TypeOK, ResumeInv, ChannelInv, [Next]_vars
      PROVE  [\A t \in Tasks :
                  /\ outcome[t] # "pending" => outcome'[t] = outcome[t]
                  /\ channel[t] \notin {"unused", "open"}
                         => channel'[t] = channel[t]]_vars
  BY <1>1, <1>2
<1> QED BY <1>2, TypeCorrect, ResumeCorrect, ChannelCorrect, PTL
        DEF Spec, SettledOnce

\* The requests whose response is outstanding.
Open == {t \in Tasks : channel[t] = "open"}

\* The gauge that places requests and ends the drain of a shutdown never
\* drifts from the number of outstanding responses.
THEOREM GaugeCorrect == Spec => []GaugeExact
<1>0. GaugeExact <=> in_flight = Cardinality(Open)
  BY DEF GaugeExact, Open
<1>1. ASSUME Init
      PROVE  GaugeExact
  <2>1. Open = {}
    BY <1>1 DEF Init, TaskInit, Open
  <2>2. in_flight = 0
    BY <1>1 DEF Init, TaskInit
  <2> QED BY <1>0, <2>1, <2>2, FS_EmptySet
<1>2. ASSUME TypeOK, ResumeInv, ChannelInv, GaugeExact, Next
      PROVE  GaugeExact'
  <2>0. /\ channel \in [Tasks -> {"unused", "open", "handler", "error",
                                  "dropped"}]
        /\ IsFiniteSet(Open)
    <3>1. Open \subseteq Tasks
      BY DEF Open
    <3> QED BY <1>2, <3>1, TasksAssumption, FS_Subset DEF TypeOK, TaskTypeOK
  <2>1. ASSUME in_flight' = in_flight, Open' = Open
        PROVE  GaugeExact'
    BY <1>0, <1>2, <2>1 DEF GaugeExact, Open
  <2>2. ASSUME NEW t \in Tasks, channel[t] = "open",
               in_flight' = in_flight - 1, Open' = Open \ {t}
        PROVE  GaugeExact'
    <3>1. t \in Open
      BY <2>2 DEF Open
    <3>2. Cardinality(Open \ {t}) = Cardinality(Open) - 1
      BY <2>0, <3>1, FS_RemoveElement
    <3> QED BY <1>0, <1>2, <2>2, <3>2 DEF GaugeExact, Open
  <2>3. ASSUME NEW t \in Tasks, channel[t] # "open",
               in_flight' = in_flight + 1, Open' = Open \cup {t}
        PROVE  GaugeExact'
    <3>1. t \notin Open
      BY <2>3 DEF Open
    <3>2. Cardinality(Open \cup {t}) = Cardinality(Open) + 1
      BY <2>0, <3>1, FS_AddElement
    <3> QED BY <1>0, <1>2, <2>3, <3>2 DEF GaugeExact, Open
  <2>4. CASE UNCHANGED <<channel, in_flight>>
    BY <2>1, <2>4 DEF Open
  <2>5. ASSUME NEW t \in Tasks, ScheduleFails(t)
        PROVE  GaugeExact'
    <3>1. channel[t] = "unused"
      BY <1>2, <2>5 DEF ScheduleFails, ChannelInv, ChannelOf
    <3>2. Open' = Open /\ in_flight' = in_flight
      BY <2>0, <2>5, <3>1 DEF ScheduleFails, Open
    <3> QED BY <2>1, <3>2
  <2>6. ASSUME NEW t \in Tasks, ScheduleInsert(t)
        PROVE  GaugeExact'
    <3>1. channel[t] = "unused"
      BY <1>2, <2>6 DEF ScheduleInsert, ChannelInv, ChannelOf
    <3>2. Open' = Open \cup {t} /\ in_flight' = in_flight + 1
      BY <2>0, <2>6 DEF ScheduleInsert, Open
    <3> QED BY <2>3, <3>1, <3>2
  <2>7. ASSUME NEW t \in Tasks, NEW r \in {"handler", "error"}, Send(t, r)
        PROVE  GaugeExact'
    <3>1. Open' = Open \ {t}
      BY <2>0, <2>7 DEF Send, Open
    <3>2. CASE channel[t] = "open"
      BY <2>2, <2>7, <3>1, <3>2 DEF Send
    <3>3. CASE channel[t] # "open"
      <4>1. Open \ {t} = Open
        BY <3>3 DEF Open
      <4> QED BY <2>1, <2>7, <3>1, <3>3, <4>1 DEF Send
    <3> QED BY <3>2, <3>3
  <2>8. ASSUME NEW t \in Tasks, Settles(t)
        PROVE  GaugeExact'
    <3>1. CASE ScheduleFirstStep(t)
      BY <2>4, <3>1 DEF ScheduleFirstStep, taskVars, finishVars, channelVars
    <3>2. CASE Ends(t)
      BY <2>7, <3>2 DEF Ends, Finish
    <3>3. CASE ScheduleRefused(t)
      BY <2>7, <3>3 DEF ScheduleRefused
    <3> QED BY <2>5, <2>6, <2>8, <3>1, <3>2, <3>3 DEF Settles
  <2>9. ASSUME NEW s \in Stoppers, StopReturns(s)
        PROVE  GaugeExact'
    BY <2>4, <2>9 DEF StopReturns, taskVars, finishVars, channelVars
  <2>10. CASE Quiet
    BY <2>4, <2>10 DEF Quiet
  <2> QED BY <1>2, <2>8, <2>9, <2>10, Shapes
<1>3. ASSUME GaugeExact, UNCHANGED vars
      PROVE  GaugeExact'
  BY <1>3 DEF GaugeExact, vars, taskVars, finishVars, channelVars
<1> QED BY <1>1, <1>2, <1>3, TypeCorrect, ResumeCorrect, ChannelCorrect, PTL
        DEF Spec

-----------------------------------------------------------------------------
(***************************************************************************)
(* Errors and cancellations that wait for the next step                    *)
(***************************************************************************)

Holds(q, e) == \E i \in DOMAIN q : q[i] = e

\* The step leaves the queue q, or q with one callback behind it.
Extends(q) == ready' = q \/ \E e \in Entries : ready' = Append(q, e)

\* An entry that is queued stays queued when another is put behind it.
LEMMA HeldBehind ==
    ASSUME NEW q \in Seq(Entries), NEW e
    PROVE  /\ \A f \in Entries : Holds(q, e) => Holds(Append(q, f), e)
           /\ e \in Entries => Holds(Append(q, e), e)
<1>1. ASSUME NEW f \in Entries
      PROVE  /\ DOMAIN q = 1..Len(q) /\ Len(q) \in Nat
             /\ DOMAIN Append(q, f) = 1..(Len(q) + 1)
             /\ \A i \in 1..Len(q) : Append(q, f)[i] = q[i]
             /\ Append(q, f)[Len(q) + 1] = f
  OBVIOUS
<1>2. ASSUME NEW f \in Entries, Holds(q, e)
      PROVE  Holds(Append(q, f), e)
  <2>1. PICK i \in DOMAIN q : q[i] = e
    BY <1>2 DEF Holds
  <2>2. i \in DOMAIN Append(q, f) /\ Append(q, f)[i] = e
    BY <1>1, <2>1
  <2> QED BY <2>2 DEF Holds
<1>3. ASSUME e \in Entries
      PROVE  Holds(Append(q, e), e)
  <2>1. /\ Len(q) + 1 \in DOMAIN Append(q, e)
        /\ Append(q, e)[Len(q) + 1] = e
    BY <1>1, <1>3
  <2> QED BY <2>1 DEF Holds
<1> QED BY <1>2, <1>3

\* An entry that is queued stays queued when another one has its turn.
LEMMA HeldNext ==
    ASSUME NEW q \in Seq(Entries), q # <<>>, NEW e, Holds(q, e), Head(q) # e
    PROVE  Holds(Tail(q), e)
<1>1. /\ Len(q) \in Nat \ {0}
      /\ DOMAIN Tail(q) = 1..(Len(q) - 1)
      /\ DOMAIN q = 1..Len(q)
      /\ \A i \in 1..(Len(q) - 1) : Tail(q)[i] = q[i + 1]
      /\ Head(q) = q[1]
  OBVIOUS
<1>2. PICK i \in DOMAIN q : q[i] = e
  BY DEF Holds
<1>3. i - 1 \in DOMAIN Tail(q) /\ Tail(q)[i - 1] = e
  BY <1>1, <1>2
<1> QED BY <1>3 DEF Holds

\* An entry of the queue survives a step that extends it.
LEMMA HeldExtends ==
    ASSUME NEW q \in Seq(Entries), NEW e, Extends(q), Holds(q, e)
    PROVE  Holds(ready', e)
<1>1. CASE ready' = q
  BY <1>1
<1>2. ASSUME NEW f \in Entries, ready' = Append(q, f)
      PROVE  Holds(ready', e)
  <2>1. Holds(Append(q, f), e)
    BY HeldBehind
  <2> QED BY <1>2, <2>1
<1> QED BY <1>1, <1>2 DEF Extends

\* What finish does to the queue, and to the errors that wait.
LEMMA FinishDefers ==
    ASSUME TypeOK, NEW t \in Tasks, NEW completion \in Outcomes \ {"pending"},
           NEW response, NEW q, Finish(t, completion, response, q)
    PROVE  /\ Extends(q)
           /\ Finished(t)'
           /\ \A u \in Tasks \ {t} : /\ deferred_throw'[u] = deferred_throw[u]
                                     /\ outcome'[u] = outcome[u]
<1>0. /\ deferred_throw \in [Tasks -> BOOLEAN]
      /\ outcome \in [Tasks -> Outcomes]
  BY DEF TypeOK, TaskTypeOK
<1>1. Extends(q)
  BY EntryTypes DEF Finish, FireDoneCallbacks, Extends
<1>2. CASE Finished(t)
  BY <1>1, <1>2 DEF Finish, Finished
<1>3. CASE ~Finished(t)
  BY <1>0, <1>1, <1>3 DEF Finish, Finished
<1> QED BY <1>2, <1>3

\* A future's cancel() puts at most one callback on the queue.
LEMMA CancelExtends ==
    ASSUME NEW t \in Tasks, NEW f, NEW q, NEW accepted,
           CancelFuture(t, f, q, accepted)
    PROVE  Extends(q)
BY EntryTypes DEF CancelFuture, Extends, WakeArgs, WakeResults

\* cancel() puts at most one callback on the queue.
LEMMA CancelCallExtends ==
    ASSUME NEW t \in Tasks, NEW q, Cancel(t, q)
    PROVE  Extends(q)
BY CancelExtends DEF Cancel, Extends

\* An error waits for one task as it did before the step.
StillWaits(u) ==
    /\ deferred_throw'[u] = deferred_throw[u]
    /\ Finished(u) => Finished(u)'
    /\ Holds(ready, StepEntry(u, "none"))
           => Holds(ready', StepEntry(u, "none"))

\* What every step does to an error that waits.
LEMMA WaitsStep ==
    ASSUME TypeOK, Next, NEW u \in Tasks
    PROVE  \/ ~Alive'
           \/ Alive /\ StillWaits(u)
           \/ Finished(u)'
           \/ ~deferred_throw'[u]
           \/ Holds(ready', StepEntry(u, "none"))
<1> DEFINE Goal == \/ ~Alive'
                   \/ Alive /\ StillWaits(u)
                   \/ Finished(u)'
                   \/ ~deferred_throw'[u]
                   \/ Holds(ready', StepEntry(u, "none"))
<1> SUFFICES Goal
  OBVIOUS
<1> USE DEF loopVars, taskVars, stepVars, cancelVars, finishVars, channelVars,
            serverVars, stopVars
<1>0. /\ ready \in Seq(Entries)
      /\ deferred_throw \in [Tasks -> BOOLEAN]
      /\ \A t \in Tasks, arg \in WakeArgs : StepEntry(t, arg) \in Entries
      /\ \A t \in Tasks : CancelEntry(t) \in Entries
      /\ \A t \in Tasks : DoneEntry(t) \in Entries
      /\ StopEntry \in Entries
  BY EntryTypes DEF TypeOK, LoopTypeOK, TaskTypeOK
<1>a. ASSUME Extends(ready), UNCHANGED loop,
             deferred_throw'[u] = deferred_throw[u],
             outcome'[u] = outcome[u]
      PROVE  Goal
  <2>1. Holds(ready, StepEntry(u, "none"))
            => Holds(ready', StepEntry(u, "none"))
    BY <1>0, <1>a, HeldExtends
  <2> QED BY <1>a, <2>1 DEF StillWaits, Alive, Finished
<1>b. ASSUME ready # <<>>, Head(ready) # StepEntry(u, "none"),
             Extends(Tail(ready)), UNCHANGED loop,
             deferred_throw'[u] = deferred_throw[u],
             outcome'[u] = outcome[u]
      PROVE  Goal
  <2>1. Tail(ready) \in Seq(Entries)
    BY <1>0, <1>b, PopQueue
  <2>2. Holds(ready, StepEntry(u, "none"))
            => Holds(ready', StepEntry(u, "none"))
    BY <1>0, <1>b, <2>1, HeldExtends, HeldNext
  <2> QED BY <1>b, <2>2 DEF StillWaits, Alive, Finished
<1>1. ASSUME NEW t \in Tasks, TakeTurn(t), UNCHANGED <<serverVars, stopVars>>
      PROVE  Goal
  <2>0. PICK arg \in WakeArgs : \/ SpuriousWake(t, arg)
                                \/ CancelledBeforeStart(t, arg)
                                \/ StartFails(t, arg)
                                \/ EnterFails(t, arg)
                                \/ BeginStep(t, arg)
    BY <1>1 DEF TakeTurn
  <2>1. Turn(t, arg) /\ UNCHANGED loop
    BY <2>0 DEF SpuriousWake, CancelledBeforeStart, StartFails, EnterFails,
       BeginStep
  <2>2. ready # <<>> /\ (u # t => Head(ready) # StepEntry(u, "none"))
    BY <2>1 DEF Turn, StepEntry
  <2>3. CASE SpuriousWake(t, arg)
    <3>1. u = t => Finished(u)'
      BY <2>3 DEF SpuriousWake, Finished
    <3>2. Extends(Tail(ready))
      BY <2>3 DEF SpuriousWake, Extends
    <3> QED BY <1>b, <2>1, <2>2, <2>3, <3>1, <3>2 DEF SpuriousWake
  <2>4. CASE \/ CancelledBeforeStart(t, arg) \/ StartFails(t, arg)
             \/ EnterFails(t, arg)
    <3>1. \E completion \in Outcomes \ {"pending"} :
              Finish(t, completion, "error", Tail(ready))
      BY <2>4 DEF CancelledBeforeStart, StartFails, EnterFails, Outcomes
    <3> QED BY <1>b, <2>1, <2>2, <3>1, FinishDefers
  <2>5. CASE BeginStep(t, arg)
    <3>1. u = t => ~deferred_throw'[u]
      BY <1>0, <2>5 DEF BeginStep
    <3>2. u # t => deferred_throw'[u] = deferred_throw[u]
      BY <1>0, <2>5 DEF BeginStep
    <3>3. Extends(Tail(ready)) /\ UNCHANGED outcome
      BY <2>5 DEF BeginStep, Extends
    <3> QED BY <1>b, <2>1, <2>2, <3>1, <3>2, <3>3
  <2> QED BY <2>0, <2>3, <2>4, <2>5
<1>2. ASSUME NEW t \in Tasks, EndStep(t), UNCHANGED <<serverVars, stopVars>>
      PROVE  Goal
  <2>1. CASE StepReturned(t) \/ StepRaised(t) \/ StepAborts(t)
    <3>1. \E completion \in Outcomes \ {"pending"},
             response \in {"handler", "error"} :
              Finish(t, completion, response, ready)
      BY <2>1 DEF StepReturned, StepRaised, StepAborts, Outcomes
    <3>2. UNCHANGED loop
      BY <2>1 DEF StepReturned, StepRaised, StepAborts
    <3> QED BY <1>a, <3>1, <3>2, FinishDefers
  <2>2. CASE StepYieldsNone(t) \/ StepParksOnDone(t)
    <3>1. Extends(ready)
      BY <1>0, <2>2 DEF StepYieldsNone, StepParksOnDone, Extends, WakeArgs
    <3> QED BY <1>a, <2>2, <3>1 DEF StepYieldsNone, StepParksOnDone
  <2>3. CASE StepBadYield(t)
    <3>1. /\ ready' = Append(ready, StepEntry(t, "none"))
          /\ StepEntry(t, "none") \in Entries
      BY <1>0, <2>3 DEF StepBadYield, WakeArgs
    <3>2. Extends(ready)
      BY <3>1 DEF Extends
    <3>3. u = t => Holds(ready', StepEntry(u, "none"))
      BY <1>0, <3>1, HeldBehind
    <3>4. u # t => deferred_throw'[u] = deferred_throw[u]
      BY <1>0, <2>3 DEF StepBadYield
    <3> QED BY <1>a, <2>3, <3>2, <3>3, <3>4 DEF StepBadYield
  <2>4. CASE StepParks(t)
    <3>1. Extends(ready)
      BY <2>4, CancelExtends DEF StepParks, ApplyCancelRequestedMidStep
    <3> QED BY <1>a, <2>4, <3>1 DEF StepParks
  <2> QED BY <1>2, <2>1, <2>2, <2>3, <2>4 DEF EndStep
<1>3. ASSUME NEW t \in Tasks, UserCall(t), UNCHANGED <<serverVars, stopVars>>
      PROVE  Goal
  <2>1. Extends(ready)
    BY <1>0, <1>3, CancelCallExtends DEF UserCall, CancelCall, Uncancel,
       AddDoneCallback, RemoveDoneCallback, Extends
  <2> QED BY <1>a, <1>3, <2>1 DEF UserCall, CancelCall, Uncancel,
          AddDoneCallback, RemoveDoneCallback
<1>4. ASSUME NEW t \in Tasks, RunCancel(t) \/ RunDoneCallback(t)
      PROVE  Goal
  <2>1. ready # <<>> /\ Head(ready) # StepEntry(u, "none")
    BY <1>4 DEF RunCancel, RunDoneCallback, StepEntry, CancelEntry, DoneEntry
  <2>2. Extends(Tail(ready))
    BY <1>4, CancelCallExtends DEF RunCancel, RunDoneCallback, Extends
  <2> QED BY <1>b, <1>4, <2>1, <2>2 DEF RunCancel, RunDoneCallback
<1>5. ASSUME NEW t \in Tasks, FutureResolves(t)
      PROVE  Goal
  <2>1. Extends(ready) /\ UNCHANGED loop
    BY <1>0, <1>5 DEF FutureResolves, FutureDone, Extends, WakeArgs
  <2> QED BY <1>a, <1>5, <2>1 DEF FutureResolves
<1>6. CASE RunStop
  <2>1. ready # <<>> /\ Head(ready) # StepEntry(u, "none")
    BY <1>6 DEF RunStop, StepEntry, StopEntry
  <2>2. Holds(ready, StepEntry(u, "none"))
            => Holds(ready', StepEntry(u, "none"))
    BY <1>0, <1>6, <2>1, HeldNext DEF RunStop
  <2> QED BY <1>6, <2>2 DEF RunStop, StillWaits, Alive, Finished
<1>7. CASE LoopExits \/ LoopFails
  BY <1>7 DEF LoopExits, LoopFails, CloseLoop, Alive
<1>8. ASSUME NEW t \in Tasks, ServerTask(t)
      PROVE  Goal
  <2>1. /\ Extends(ready)
        /\ UNCHANGED <<loop, deferred_throw, outcome>>
    BY <1>0, <1>8 DEF ServerTask, ScheduleFails, ScheduleInsert,
       ScheduleFirstStep, ScheduleRefused, Response, DropRequest,
       DropCancels, TryCallSoon, Extends, WakeArgs
  <2> QED BY <1>a, <2>1
<1>9. ASSUME NEW s \in Stoppers, CancelSnapshot(s) \/ CallsStop(s)
      PROVE  Goal
  <2>1. ASSUME NEW t \in Tasks, DisposeFinishes(s, t)
        PROVE  Goal
    BY <1>a, <2>1, FinishDefers DEF DisposeFinishes, Outcomes
  <2>2. CASE \A t \in Tasks : ~DisposeFinishes(s, t)
    <3>1. /\ Extends(ready)
          /\ UNCHANGED <<loop, deferred_throw, outcome>>
      BY <1>0, <1>9, <2>2 DEF CancelSnapshot, CallsStop, CancelOne,
         DisposeCloses, StopTakesHandle, StopFindsNoHandle, StopJoins,
         StopDrains, StopReturns, TryCallSoon, Extends
    <3> QED BY <1>a, <3>1
  <2> QED BY <2>1, <2>2
<1> HIDE DEF Goal
<1> QED BY <1>1, <1>2, <1>3, <1>4, <1>5, <1>6, <1>7, <1>8, <1>9
        DEF Next, LoopThread

\* A protocol error that waits to be thrown has its own plain turn queued:
\* no future's wake can come in its place and replace it.
THEOREM ErrorHasItsTurn == Spec => []DeferredThrowWaits
<1>0. DeferredThrowWaits <=>
          \A t \in Tasks : deferred_throw[t] /\ ~Finished(t) /\ Alive
                               => Holds(ready, StepEntry(t, "none"))
  BY DEF DeferredThrowWaits, Holds
<1>1. ASSUME Init
      PROVE  DeferredThrowWaits
  BY <1>1 DEF Init, TaskInit, DeferredThrowWaits
<1>2. ASSUME TypeOK, DeferredThrowWaits, Next
      PROVE  DeferredThrowWaits'
  <2>1. ASSUME NEW u \in Tasks, deferred_throw'[u], ~Finished(u)', Alive'
        PROVE  Holds(ready', StepEntry(u, "none"))
    BY <1>0, <1>2, <2>1, WaitsStep DEF StillWaits
  <2> QED BY <2>1 DEF DeferredThrowWaits, Holds
<1>3. ASSUME DeferredThrowWaits, UNCHANGED vars
      PROVE  DeferredThrowWaits'
  BY <1>3 DEF DeferredThrowWaits, vars, loopVars, taskVars, finishVars,
     Finished, Alive
<1> QED BY <1>1, <1>2, <1>3, TypeCorrect, PTL DEF Spec

\* The ways a cancellation that was set aside can be given up.
Delivered(t) ==
    \/ running' = t /\ pending_throw' = "cancelled"
    \/ future'[t] = "cancelling"
    \/ ready' = Append(ready, StepEntry(t, "cancelled"))
    \/ cancel_requests'[t] = 0
    \/ Finished(t)'

\* A cancellation set aside for the next step is never just forgotten: it is
\* thrown, taken over by a future, withdrawn, or ends with its task.
THEOREM CancelKept == Spec => CancelNotLost
<1>1. ASSUME TypeOK, Next, NEW u \in Tasks, must_cancel[u], ~must_cancel'[u]
      PROVE  Delivered(u)
  <2> USE DEF loopVars, taskVars, stepVars, cancelVars, finishVars,
              channelVars, serverVars, stopVars
  <2>0. /\ must_cancel \in [Tasks -> BOOLEAN]
        /\ cancel_requests \in [Tasks -> Nat]
        /\ future \in [Tasks -> {"none", "pending", "cancelling"}]
    BY <1>1 DEF TypeOK, LoopTypeOK, TaskTypeOK
  <2>1. CASE UNCHANGED must_cancel
    BY <1>1, <2>1
  <2>2. ASSUME NEW t \in Tasks, NEW v, must_cancel' = [must_cancel EXCEPT
                                                           ![t] = v]
        PROVE  u = t
    BY <1>1, <2>0, <2>2
  <2>3. ASSUME NEW t \in Tasks, NEW arg \in WakeArgs,
               \/ CancelledBeforeStart(t, arg) \/ EnterFails(t, arg)
        PROVE  Delivered(u)
    <3>1. u = t
      BY <2>2, <2>3 DEF CancelledBeforeStart, EnterFails
    <3>2. \E completion \in Outcomes \ {"pending"} :
              Finish(t, completion, "error", Tail(ready))
      BY <2>3 DEF CancelledBeforeStart, EnterFails, Outcomes
    <3> QED BY <1>1, <3>1, <3>2, FinishDefers DEF Delivered
  <2>4. ASSUME NEW t \in Tasks, NEW arg \in WakeArgs, BeginStep(t, arg)
        PROVE  Delivered(u)
    <3>1. u = t
      BY <2>2, <2>4 DEF BeginStep
    <3> QED BY <1>1, <2>4, <3>1 DEF BeginStep, PendingThrow, Delivered
  <2>5. ASSUME NEW t \in Tasks, StepParks(t)
        PROVE  Delivered(u)
    <3>1. PICK accepted \in BOOLEAN :
              /\ CancelFuture(t, [future EXCEPT ![t] = "pending"], ready,
                              accepted)
              /\ must_cancel' = [must_cancel EXCEPT ![t] = @ /\ ~accepted]
      BY <2>5 DEF StepParks, ApplyCancelRequestedMidStep
    <3>2. u = t
      BY <1>1, <2>0, <3>1
    <3>3. accepted
      BY <1>1, <2>0, <3>1, <3>2
    <3> QED BY <2>0, <3>1, <3>2, <3>3 DEF CancelFuture, Delivered
  <2>6. ASSUME NEW t \in Tasks, NEW q, Cancel(t, q)
        PROVE  FALSE
    <3>1. CASE UNCHANGED must_cancel
      BY <1>1, <3>1
    <3>2. CASE \E accepted \in BOOLEAN :
                   must_cancel' = [must_cancel EXCEPT ![t] = @ \/ ~accepted]
      BY <1>1, <2>0, <3>2
    <3> QED BY <2>6, <3>1, <3>2 DEF Cancel
  <2>7. ASSUME NEW t \in Tasks, Uncancel(t)
        PROVE  Delivered(u)
    <3>1. /\ cancel_requests' = [cancel_requests EXCEPT
                                     ![t] = IF @ > 0 THEN @ - 1 ELSE 0]
          /\ must_cancel' = [must_cancel EXCEPT
                                 ![t] = @ /\ cancel_requests[t] > 1]
      BY <2>7 DEF Uncancel
    <3>2. u = t /\ ~(cancel_requests[t] > 1)
      BY <1>1, <2>0, <3>1
    <3> QED BY <2>0, <3>1, <3>2 DEF Delivered
  <2>8. ASSUME NEW t \in Tasks,
               TakeTurn(t) \/ EndStep(t) \/ UserCall(t) \/ RunCancel(t)
        PROVE  Delivered(u)
    <3>1. CASE TakeTurn(t)
      BY <2>1, <2>3, <2>4, <3>1 DEF TakeTurn, SpuriousWake, StartFails
    <3>2. CASE EndStep(t)
      BY <2>1, <2>5, <3>2 DEF EndStep, StepReturned, StepRaised,
         StepYieldsNone, StepBadYield, StepParksOnDone, StepAborts
    <3>3. CASE UserCall(t)
      BY <2>1, <2>6, <2>7, <3>3 DEF UserCall, CancelCall, AddDoneCallback,
         RemoveDoneCallback
    <3>4. CASE RunCancel(t)
      BY <2>6, <3>4 DEF RunCancel
    <3> QED BY <2>8, <3>1, <3>2, <3>3, <3>4
  <2>9. ASSUME NEW t \in Tasks,
               RunDoneCallback(t) \/ FutureResolves(t) \/ ServerTask(t)
        PROVE  UNCHANGED must_cancel
    BY <2>9 DEF RunDoneCallback, FutureResolves, ServerTask, ScheduleFails,
       ScheduleInsert, ScheduleFirstStep, ScheduleRefused, Response,
       DropRequest, DropCancels
  <2>10. CASE RunStop \/ LoopExits \/ LoopFails
    BY <2>1, <2>10 DEF RunStop, LoopExits, LoopFails, CloseLoop
  <2>11. ASSUME NEW s \in Stoppers, CancelSnapshot(s) \/ CallsStop(s)
         PROVE  UNCHANGED must_cancel
    BY <2>11 DEF CancelSnapshot, CallsStop, CancelOne, DisposeCloses,
       DisposeFinishes, StopTakesHandle, StopFindsNoHandle, StopJoins,
       StopDrains, StopReturns
  <2> QED BY <1>1, <2>1, <2>8, <2>9, <2>10, <2>11 DEF Next, LoopThread
<1>2. ASSUME TypeOK, [Next]_vars
      PROVE  [\A t \in Tasks :
                  must_cancel[t] /\ ~must_cancel'[t]
                      => \/ running' = t /\ pending_throw' = "cancelled"
                         \/ future'[t] = "cancelling"
                         \/ ready' = Append(ready, StepEntry(t, "cancelled"))
                         \/ cancel_requests'[t] = 0
                         \/ Finished(t)']_vars
  BY <1>1, <1>2 DEF Delivered
<1> QED BY <1>2, TypeCorrect, PTL DEF Spec, CancelNotLost
=============================================================================
