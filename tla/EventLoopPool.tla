--------------------------- MODULE EventLoopPool ---------------------------
(***************************************************************************)
(* EventLoopPool::schedule (crates/dispatch/src/lib.rs): a request goes to *)
(* the least-loaded loop, found by a scan that starts at a rotating index. *)
(* Server threads scan at the same time and read the gauges one by one     *)
(* with no lock, while other requests are placed and completed.            *)
(***************************************************************************)
EXTENDS Integers

CONSTANTS
    LoopCount,      \* loops.len()
    Width,          \* scan_start_index counts modulo Width (2^64 in a build)
    Schedulers,     \* server threads
    MaxLoad         \* bound on the requests in flight on one loop

ASSUME LoopCountAssumption == LoopCount \in Nat \ {0}
ASSUME WidthAssumption == Width \in Nat /\ Width >= LoopCount
ASSUME MaxLoadAssumption == MaxLoad \in Nat

Loops == 0..(LoopCount - 1)

VARIABLES
    scan_start_index,   \* the shared counter
    in_flight,          \* in_flight[l]: the gauge of loop l
    at,                 \* a scheduler is "idle", "scan"ning or "placed"
    scan_start,         \* its locals
    scan_offset,
    chosen_index,
    lowest_load,
    peak                \* peak[s][l]: the highest load of l since s began
                        \* its scan (history)

locals == <<at, scan_start, scan_offset, chosen_index, lowest_load>>
vars == <<scan_start_index, in_flight, locals, peak>>

TypeOK ==
    /\ scan_start_index \in 0..(Width - 1)
    /\ in_flight \in [Loops -> Nat]
    /\ at \in [Schedulers -> {"idle", "scan", "placed"}]
    /\ scan_start \in [Schedulers -> 0..(Width - 1)]
    /\ scan_offset \in [Schedulers -> 1..LoopCount]
    /\ chosen_index \in [Schedulers -> Loops]
    /\ lowest_load \in [Schedulers -> Nat]
    /\ peak \in [Schedulers -> [Loops -> Nat]]

Init ==
    /\ scan_start_index = 0
    /\ in_flight = [l \in Loops |-> 0]
    /\ at = [s \in Schedulers |-> "idle"]
    /\ scan_start = [s \in Schedulers |-> 0]
    /\ scan_offset = [s \in Schedulers |-> 1]
    /\ chosen_index = [s \in Schedulers |-> 0]
    /\ lowest_load = [s \in Schedulers |-> 0]
    /\ peak = [s \in Schedulers |-> [l \in Loops |-> 0]]

\* Seeded fault: the counter does not move, every scan starts at loop 0.
BeginScanAtZero(s) ==
    /\ at[s] = "idle"
    /\ scan_start' = [scan_start EXCEPT ![s] = 0]
    /\ chosen_index' = [chosen_index EXCEPT ![s] = 0]
    /\ lowest_load' = [lowest_load EXCEPT ![s] = in_flight[0]]
    /\ scan_offset' = [scan_offset EXCEPT ![s] = 1]
    /\ at' = [at EXCEPT ![s] = "scan"]
    /\ peak' = [peak EXCEPT ![s] = in_flight]
    /\ UNCHANGED <<scan_start_index, in_flight>>

\* fetch_add on the counter, and the load of the first candidate.
BeginScan(s) ==
    /\ at[s] = "idle"
    /\ scan_start_index' = (scan_start_index + 1) % Width
    /\ scan_start' = [scan_start EXCEPT ![s] = scan_start_index]
    /\ LET first == scan_start_index % LoopCount IN
       /\ chosen_index' = [chosen_index EXCEPT ![s] = first]
       /\ lowest_load' = [lowest_load EXCEPT ![s] = in_flight[first]]
    /\ scan_offset' = [scan_offset EXCEPT ![s] = 1]
    /\ at' = [at EXCEPT ![s] = "scan"]
    /\ peak' = [peak EXCEPT ![s] = in_flight]
    /\ UNCHANGED in_flight

\* One pass of the loop: an idle loop cannot be beaten, and only a smaller
\* load replaces the choice.
ScanCandidate(s) ==
    /\ at[s] = "scan"
    /\ scan_offset[s] < LoopCount
    /\ lowest_load[s] # 0
    /\ LET candidate == ((scan_start[s] + scan_offset[s]) % Width) % LoopCount
           better == in_flight[candidate] < lowest_load[s]
       IN  /\ chosen_index' = [chosen_index EXCEPT
                                  ![s] = IF better THEN candidate ELSE @]
           /\ lowest_load' = [lowest_load EXCEPT
                                 ![s] = IF better THEN in_flight[candidate]
                                        ELSE @]
    /\ scan_offset' = [scan_offset EXCEPT ![s] = @ + 1]
    /\ UNCHANGED <<scan_start_index, in_flight, at, scan_start, peak>>

\* Seeded fault: the last candidate is left out.
EndScanEarly(s) ==
    /\ at[s] = "scan"
    /\ scan_offset[s] >= LoopCount - 1 \/ lowest_load[s] = 0
    /\ at' = [at EXCEPT ![s] = "placed"]
    /\ UNCHANGED <<scan_start_index, in_flight, scan_start, scan_offset,
                   chosen_index, lowest_load, peak>>

\* The choice is made ...
EndScan(s) ==
    /\ at[s] = "scan"
    /\ scan_offset[s] = LoopCount \/ lowest_load[s] = 0
    /\ at' = [at EXCEPT ![s] = "placed"]
    /\ UNCHANGED <<scan_start_index, in_flight, scan_start, scan_offset,
                   chosen_index, lowest_load, peak>>

\* A gauge went up by a request placed on l.
Raise(l) ==
    /\ in_flight' = [in_flight EXCEPT ![l] = @ + 1]
    /\ peak' = [s \in Schedulers |->
                   [peak[s] EXCEPT ![l] = IF @ > in_flight[l] THEN @
                                          ELSE in_flight[l] + 1]]

\* ... and EventLoop::schedule counts the request on the chosen loop.
Place(s) ==
    /\ at[s] = "placed"
    /\ in_flight[chosen_index[s]] < MaxLoad
    /\ Raise(chosen_index[s])
    /\ at' = [at EXCEPT ![s] = "idle"]
    /\ UNCHANGED <<scan_start_index, scan_start, scan_offset, chosen_index,
                   lowest_load>>

\* Seeded fault: a request is taken off the gauge of a loop without one.
CompleteUnchecked(l) ==
    /\ in_flight' = [in_flight EXCEPT ![l] = @ - 1]
    /\ UNCHANGED <<scan_start_index, locals, peak>>

\* A request on l is answered (ResponseChannel::send).
Complete(l) ==
    /\ in_flight[l] > 0
    /\ in_flight' = [in_flight EXCEPT ![l] = @ - 1]
    /\ UNCHANGED <<scan_start_index, locals, peak>>

Schedule(s) == BeginScan(s) \/ ScanCandidate(s) \/ EndScan(s) \/ Place(s)

Next ==
    \/ \E s \in Schedulers : Schedule(s)
    \/ \E l \in Loops : Complete(l)

Spec == Init /\ [][Next]_vars

-----------------------------------------------------------------------------
\* The counter wraps in the middle of the scan: the indices then jump, unless
\* the number of loops divides the width, and some loop may not be looked at.
Wraps(s) == scan_start[s] + LoopCount > Width

\* Least-loaded placement under concurrency: however loads move while a
\* thread scans, the load it settles for is no higher than the highest load
\* any loop had during the scan.  In particular a loop that was idle
\* throughout is never passed over for a busy one.  The one scan that meets
\* the wrap of the counter is excepted.
NoIdleLoopPassedOver ==
    \A s \in Schedulers :
        at[s] = "placed" /\ ~Wraps(s)
            => \A l \in Loops : lowest_load[s] <= peak[s][l]

\* Requests keep coming, and each is answered.
Fairness ==
    /\ \A s \in Schedulers : WF_vars(Schedule(s))
    /\ \A l \in Loops : WF_vars(Complete(l))

FairSpec == Spec /\ Fairness

\* Ties spread: while requests keep coming every loop gets its share again
\* and again, instead of the first ones getting all of them.
EveryLoopUsed == \A l \in Loops : []<>(in_flight[l] > 0)
=============================================================================
