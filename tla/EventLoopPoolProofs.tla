------------------------ MODULE EventLoopPoolProofs ------------------------
(***************************************************************************)
(* Proofs about module EventLoopPool: least-loaded placement for any       *)
(* number of loops and scheduling threads and any width of the counter.    *)
(***************************************************************************)
EXTENDS EventLoopPool, TLAPS

-----------------------------------------------------------------------------
(***************************************************************************)
(* Indices modulo the number of loops                                      *)
(***************************************************************************)

\* A remainder is an index.
LEMMA ModRange ==
  ASSUME NEW x \in Nat, NEW n \in Nat \ {0}
  PROVE  x % n \in 0..(n - 1)
  OBVIOUS

\* An index is its own remainder.
LEMMA ModSmall ==
  ASSUME NEW n \in Nat \ {0}, NEW x \in 0..(n - 1)
  PROVE  x % n = x
  OBVIOUS

\* The remainder is what is left of a multiple.
LEMMA ModUnique ==
  ASSUME NEW q \in Nat, NEW n \in Nat \ {0}, NEW r \in 0..(n - 1)
  PROVE  (n * q + r) % n = r
  OBVIOUS

\* Going k loops on from loop x % n takes at most one turn around.
LEMMA ModAdd ==
  ASSUME NEW x \in Nat, NEW n \in Nat \ {0}, NEW k \in 0..(n - 1)
  PROVE  (x + k) % n = IF (x % n) + k < n THEN (x % n) + k
                       ELSE (x % n) + k - n
  <1> DEFINE q == x \div n
             r == x % n
  <1>1. q \in Nat /\ r \in 0..(n - 1) /\ x = n * q + r
    OBVIOUS
  <1> HIDE DEF q, r
  <1>2. CASE r + k < n
    <2>1. x + k = n * q + (r + k) /\ r + k \in 0..(n - 1)
      BY <1>1, <1>2
    <2> QED  BY <1>1, <1>2, <2>1, ModUnique DEF r
  <1>3. CASE r + k >= n
    <2>1. n * (q + 1) = n * q + n
      BY <1>1
    <2>2. x + k = n * (q + 1) + (r + k - n) /\ r + k - n \in 0..(n - 1)
      BY <1>1, <1>3, <2>1
    <2>3. q + 1 \in Nat
      BY <1>1
    <2>4. (x + k) % n = r + k - n
      BY <2>2, <2>3, ModUnique
    <2> QED  BY <1>1, <1>3, <2>4 DEF r
  <1> QED  BY <1>1, <1>2, <1>3

\* As many consecutive indices as there are loops name every loop.
LEMMA IndicesCover ==
  ASSUME NEW x \in Nat, NEW n \in Nat \ {0}, NEW l \in 0..(n - 1)
  PROVE  \E k \in 0..(n - 1) : (x + k) % n = l
  <1> DEFINE r == x % n
  <1>1. r \in 0..(n - 1)
    BY ModRange
  <1>2. \A k \in 0..(n - 1) :
            (x + k) % n = IF r + k < n THEN r + k ELSE r + k - n
    BY ModAdd
  <1> HIDE DEF r
  <1>3. CASE r <= l
    <2>1. PICK k \in 0..(n - 1) : k = l - r
      BY <1>1, <1>3
    <2>2. r + k = l /\ r + k < n
      BY <1>1, <2>1
    <2> QED  BY <1>2, <2>2, Zenon
  <1>4. CASE r > l
    <2>1. PICK k \in 0..(n - 1) : k = n + l - r
      BY <1>1, <1>4
    <2>2. r + k - n = l /\ ~(r + k < n)
      BY <1>1, <2>1
    <2> QED  BY <1>2, <2>2, Zenon
  <1> QED  BY <1>1, <1>3, <1>4

-----------------------------------------------------------------------------
(***************************************************************************)
(* Types                                                                   *)
(***************************************************************************)

\* Counting a request raises one gauge, and the peaks every scan keeps of it.
LEMMA RaiseTypes ==
  ASSUME TypeOK, NEW l \in Loops, Raise(l)
  PROVE  /\ in_flight' \in [Loops -> Nat]
         /\ peak' \in [Schedulers -> [Loops -> Nat]]
         /\ in_flight'[l] = in_flight[l] + 1
         /\ \A k \in Loops \ {l} : in_flight'[k] = in_flight[k]
         /\ \A s \in Schedulers, k \in Loops : peak'[s][k] >= peak[s][k]
         /\ \A s \in Schedulers : peak'[s][l] >= in_flight'[l]
  BY DEF TypeOK, Raise

\* Every action keeps the types.
LEMMA TypeStep ==
  ASSUME TypeOK, [Next]_vars
  PROVE  TypeOK'
  <1> USE LoopCountAssumption, WidthAssumption DEF locals
  <1>1. ASSUME NEW s \in Schedulers, BeginScan(s) PROVE TypeOK'
    <2>1. scan_start_index \in Nat /\ scan_start_index + 1 \in Nat
      BY DEF TypeOK
    <2>2. /\ scan_start_index % LoopCount \in Loops
          /\ (scan_start_index + 1) % Width \in 0..(Width - 1)
      BY <2>1, ModRange DEF Loops
    <2> QED  BY <1>1, <2>2 DEF BeginScan, TypeOK
  <1>2. ASSUME NEW s \in Schedulers, ScanCandidate(s) PROVE TypeOK'
    <2> DEFINE candidate ==
                 ((scan_start[s] + scan_offset[s]) % Width) % LoopCount
    <2>1. scan_start[s] + scan_offset[s] \in Nat
      BY DEF TypeOK
    <2>2. (scan_start[s] + scan_offset[s]) % Width \in Nat
      BY <2>1, ModRange
    <2>3. candidate \in Loops
      BY <2>2, ModRange DEF Loops
    <2> HIDE DEF candidate
    <2>4. /\ chosen_index' = [chosen_index EXCEPT ![s] =
                                 IF in_flight[candidate] < lowest_load[s]
                                 THEN candidate ELSE @]
          /\ lowest_load' = [lowest_load EXCEPT ![s] =
                                IF in_flight[candidate] < lowest_load[s]
                                THEN in_flight[candidate] ELSE @]
      BY <1>2 DEF ScanCandidate, candidate
    <2>5. scan_offset[s] + 1 \in 1..LoopCount
      BY <1>2 DEF ScanCandidate, TypeOK
    <2> QED  BY <1>2, <2>3, <2>4, <2>5 DEF ScanCandidate, TypeOK
  <1>3. ASSUME NEW s \in Schedulers, EndScan(s) PROVE TypeOK'
    BY <1>3 DEF EndScan, TypeOK
  <1>4. ASSUME NEW s \in Schedulers, Place(s) PROVE TypeOK'
    <2>1. chosen_index[s] \in Loops
      BY DEF TypeOK
    <2> QED  BY <1>4, <2>1, RaiseTypes DEF Place, TypeOK
  <1>5. ASSUME NEW l \in Loops, Complete(l) PROVE TypeOK'
    BY <1>5 DEF Complete, TypeOK
  <1>6. CASE UNCHANGED vars
    BY <1>6 DEF vars, TypeOK
  <1> QED  BY <1>1, <1>2, <1>3, <1>4, <1>5, <1>6 DEF Next, Schedule

\* The indices stay in range, the wrapping counter included, and no gauge
\* goes below zero.
THEOREM TypeCorrect == Spec => []TypeOK
  <1>1. Init => TypeOK
    BY LoopCountAssumption, WidthAssumption DEF Init, TypeOK, Loops
  <1> QED  BY <1>1, TypeStep, PTL DEF Spec

-----------------------------------------------------------------------------
(***************************************************************************)
(* Least-loaded placement                                                  *)
(***************************************************************************)

\* The indices of a scan follow each other: the counter does not wrap during
\* it, or wraps to where a round of the loops begins.
InStep(s) == ~Wraps(s) \/ Width % LoopCount = 0

\* The loops a thread has looked at so far are no obstacle to its choice: the
\* load it would settle for is within the peak of each of them, and a peak is
\* never below the load it is the peak of.
ScanOf(s) ==
    at[s] # "idle" =>
        /\ \A l \in Loops : in_flight[l] <= peak[s][l]
        /\ InStep(s) => \A k \in 0..(scan_offset[s] - 1) :
               lowest_load[s] <= peak[s][(scan_start[s] + k) % LoopCount]
        /\ at[s] = "placed" =>
               scan_offset[s] = LoopCount \/ lowest_load[s] = 0

\* The inductive invariant behind NoIdleLoopPassedOver.
ScanInv == \A s \in Schedulers : ScanOf(s)

\* Every index a scan computes is a loop.
LEMMA IndexTypes ==
  ASSUME TypeOK, NEW s \in Schedulers, NEW k \in Nat
  PROVE  (scan_start[s] + k) % LoopCount \in Loops
  <1>1. scan_start[s] + k \in Nat
    BY WidthAssumption DEF TypeOK
  <1> QED  BY <1>1, ModRange, LoopCountAssumption DEF Loops

\* The candidate of a scan that does not cross the wrap is the loop that is
\* next after the ones already read.
LEMMA CandidateInStep ==
  ASSUME TypeOK, NEW s \in Schedulers, InStep(s), NEW k \in 1..(LoopCount - 1)
  PROVE  ((scan_start[s] + k) % Width) % LoopCount
             = (scan_start[s] + k) % LoopCount
  <1> USE LoopCountAssumption, WidthAssumption
  <1> DEFINE x == scan_start[s] + k
  <1>1. scan_start[s] \in 0..(Width - 1) /\ x \in Nat /\ x < Width + LoopCount
    BY DEF TypeOK
  <1>2. CASE x < Width
    <2>1. x % Width = x
      BY <1>1, <1>2, ModSmall
    <2> QED  BY <2>1, Zenon
  <1>3. CASE x >= Width
    <2>1. Width % LoopCount = 0
      BY <1>1, <1>3 DEF InStep, Wraps
    <2>2. PICK y \in 0..(LoopCount - 1) : x = Width + y
      BY <1>1, <1>3
    <2>3. (Width + y) % LoopCount = IF 0 + y < LoopCount THEN 0 + y
                                    ELSE 0 + y - LoopCount
      BY <2>1, ModAdd, Zenon
    <2>4. (Width + y) % LoopCount = y
      BY <2>3
    <2>5. Width % Width = 0 /\ y \in 0..(Width - 1)
      BY <2>2, ModUnique
    <2>6. (Width + y) % Width = y
      BY <2>5, ModAdd
    <2>7. y % LoopCount = y
      BY <2>2, ModSmall
    <2> QED  BY <2>2, <2>4, <2>6, <2>7, Zenon
  <1> QED  BY <1>1, <1>2, <1>3

\* A step that leaves a thread's locals alone and takes none of its peaks
\* below the load or below what they were keeps what holds of its scan.
LEMMA OtherScan ==
  ASSUME TypeOK, TypeOK', NEW u \in Schedulers, ScanOf(u),
         at'[u] = at[u], scan_start'[u] = scan_start[u],
         scan_offset'[u] = scan_offset[u], lowest_load'[u] = lowest_load[u],
         \A l \in Loops : peak'[u][l] >= peak[u][l],
         \A l \in Loops : in_flight'[l] <= in_flight[l]
                          \/ in_flight'[l] <= peak'[u][l]
  PROVE  ScanOf(u)'
  <1>1. \A l \in Loops : /\ peak[u][l] \in Nat /\ peak'[u][l] \in Nat
                         /\ in_flight[l] \in Nat /\ in_flight'[l] \in Nat
    BY DEF TypeOK
  <1>2. lowest_load[u] \in Nat /\ scan_offset[u] \in Nat
    BY LoopCountAssumption DEF TypeOK
  <1> SUFFICES ASSUME at[u] # "idle"
               PROVE  ScanOf(u)'
    BY DEF ScanOf
  <1>3. \A l \in Loops : in_flight'[l] <= peak'[u][l]
    BY <1>1 DEF ScanOf
  <1>4. ASSUME InStep(u)', NEW k \in 0..(scan_offset[u] - 1)
        PROVE  lowest_load[u] <= peak'[u][(scan_start[u] + k) % LoopCount]
    <2>1. lowest_load[u] <= peak[u][(scan_start[u] + k) % LoopCount]
      BY <1>4 DEF ScanOf, InStep, Wraps
    <2>2. (scan_start[u] + k) % LoopCount \in Loops
      BY <1>2, IndexTypes
    <2> HIDE DEF ScanOf
    <2> QED  BY <1>1, <1>2, <2>1, <2>2
  <1> QED  BY <1>3, <1>4 DEF ScanOf

\* Every action keeps what holds of the scans.
LEMMA ScanStep ==
  ASSUME TypeOK, TypeOK', ScanInv, [Next]_vars
  PROVE  ScanInv'
  <1> USE LoopCountAssumption, WidthAssumption DEF locals
  <1>0. \A s \in Schedulers : ScanOf(s)
    BY DEF ScanInv
  <1> SUFFICES ASSUME NEW u \in Schedulers
               PROVE  ScanOf(u)'
    BY DEF ScanInv
  <1>1. ASSUME NEW s \in Schedulers, BeginScan(s) PROVE ScanOf(u)'
    <2>1. CASE u = s
      <3>1. /\ scan_start'[u] = scan_start_index
            /\ scan_offset'[u] = 1
            /\ lowest_load'[u] = in_flight[scan_start_index % LoopCount]
            /\ peak'[u] = in_flight
            /\ in_flight' = in_flight
            /\ at'[u] = "scan"
        BY <1>1, <2>1 DEF BeginScan, TypeOK
      <3>2. scan_start_index \in Nat /\ scan_start_index + 0 = scan_start_index
        BY DEF TypeOK
      <3>3. \A l \in Loops : in_flight[l] <= in_flight[l]
        BY DEF TypeOK
      <3>4. scan_start_index % LoopCount \in Loops
        BY <3>2, ModRange DEF Loops
      <3>5. ASSUME NEW k \in 0..(scan_offset'[u] - 1)
            PROVE  lowest_load'[u]
                       <= peak'[u][(scan_start'[u] + k) % LoopCount]
        <4>1. k = 0
          BY <3>1
        <4> QED  BY <3>1, <3>2, <3>3, <3>4, <4>1, Zenon
      <3> QED  BY <3>1, <3>3, <3>5 DEF ScanOf
    <2>2. CASE u # s
      BY <1>0, <1>1, <2>2, OtherScan DEF BeginScan, TypeOK
    <2> QED  BY <2>1, <2>2
  <1>2. ASSUME NEW s \in Schedulers, ScanCandidate(s) PROVE ScanOf(u)'
    <2>1. CASE u = s
      <3> DEFINE candidate == (scan_start[u] + scan_offset[u]) % LoopCount
      <3>1. /\ scan_offset[u] \in 1..(LoopCount - 1)
            /\ scan_offset'[u] = scan_offset[u] + 1
            /\ UNCHANGED <<at, scan_start, in_flight, peak>>
            /\ at[u] = "scan"
        BY <1>2, <2>1 DEF ScanCandidate, TypeOK
      <3>2. scan_start[u] \in 0..(Width - 1) /\ lowest_load[u] \in Nat
        BY DEF TypeOK
      <3>3. candidate \in Loops
        BY <3>1, IndexTypes
      <3>4. ASSUME InStep(u)
            PROVE  /\ lowest_load'[u] <= lowest_load[u]
                   /\ lowest_load'[u] <= peak[u][candidate]
        <4>2. ((scan_start[u] + scan_offset[u]) % Width) % LoopCount
                  = candidate
          BY <3>1, <3>4, CandidateInStep
        <4>3. lowest_load' =
                  [lowest_load EXCEPT
                       ![u] = IF in_flight[candidate] < lowest_load[u]
                              THEN in_flight[candidate] ELSE @]
          BY <1>2, <2>1, <4>2 DEF ScanCandidate
        <4>4. in_flight[candidate] \in Nat /\ peak[u][candidate] \in Nat
          BY <3>3 DEF TypeOK
        <4>5. in_flight[candidate] <= peak[u][candidate]
          BY <1>0, <3>1, <3>3 DEF ScanOf
        <4> HIDE DEF candidate
        <4> QED  BY <3>2, <4>3, <4>4, <4>5 DEF TypeOK
      <3>5. ASSUME InStep(u)', NEW k \in 0..(scan_offset'[u] - 1)
            PROVE  lowest_load'[u] <= peak[u][(scan_start[u] + k) % LoopCount]
        <4>1. InStep(u)
          BY <3>1, <3>5 DEF InStep, Wraps
        <4>2. CASE k = scan_offset[u]
          BY <3>4, <4>1, <4>2
        <4>3. CASE k \in 0..(scan_offset[u] - 1)
          <5> DEFINE l == (scan_start[u] + k) % LoopCount
          <5>1. lowest_load[u] <= peak[u][l]
            BY <1>0, <3>1, <4>1, <4>3 DEF ScanOf
          <5>2. l \in Loops
            BY <3>1, <4>3, IndexTypes
          <5>3. peak[u][l] \in Nat /\ lowest_load'[u] \in Nat
            BY <5>2 DEF TypeOK
          <5> HIDE DEF l
          <5>4. lowest_load'[u] <= peak[u][l]
            BY <3>2, <3>4, <4>1, <5>1, <5>3
          <5> QED  BY <5>4 DEF l
        <4> QED  BY <3>1, <3>5, <4>2, <4>3
      <3>6. \A l \in Loops : in_flight'[l] <= peak'[u][l]
        BY <1>0, <3>1 DEF ScanOf
      <3> QED  BY <3>1, <3>5, <3>6 DEF ScanOf
    <2>2. CASE u # s
      <3>1. /\ UNCHANGED <<at, scan_start, in_flight, peak>>
            /\ scan_offset'[u] = scan_offset[u]
            /\ lowest_load'[u] = lowest_load[u]
        BY <1>2, <2>2, Zenon DEF ScanCandidate, TypeOK
      <3>2. \A l \in Loops : peak[u][l] \in Nat /\ in_flight[l] \in Nat
        BY DEF TypeOK
      <3> QED  BY <1>0, <3>1, <3>2, OtherScan
    <2> QED  BY <2>1, <2>2
  <1>3. ASSUME NEW s \in Schedulers, EndScan(s) PROVE ScanOf(u)'
    BY <1>0, <1>3 DEF EndScan, ScanOf, InStep, Wraps, TypeOK
  <1>4. ASSUME NEW s \in Schedulers, Place(s) PROVE ScanOf(u)'
    <2>1. chosen_index[s] \in Loops
      BY DEF TypeOK
    <2>2. CASE u = s
      BY <1>4, <2>2 DEF Place, ScanOf, TypeOK
    <2>3. CASE u # s
      <3>1. at'[u] = at[u]
        BY <1>4, <2>3 DEF Place, TypeOK
      <3>2. \A l \in Loops : in_flight'[l] <= in_flight[l]
                             \/ in_flight'[l] <= peak'[u][l]
        BY <1>4, <2>1, RaiseTypes DEF Place, TypeOK
      <3> QED  BY <1>0, <1>4, <2>1, <3>1, <3>2, RaiseTypes, OtherScan DEF Place
    <2> QED  BY <2>2, <2>3
  <1>5. ASSUME NEW l \in Loops, Complete(l) PROVE ScanOf(u)'
    <2>1. \A k \in Loops : in_flight'[k] <= in_flight[k]
      BY <1>5 DEF Complete, TypeOK
    <2>2. \A k \in Loops : peak[u][k] >= peak[u][k]
      BY DEF TypeOK
    <2> QED  BY <1>0, <1>5, <2>1, <2>2, OtherScan DEF Complete
  <1>6. CASE UNCHANGED vars
    BY <1>0, <1>6 DEF vars, ScanOf, InStep, Wraps
  <1> QED  BY <1>1, <1>2, <1>3, <1>4, <1>5, <1>6 DEF Next, Schedule

\* A scan that did not cross the wrap has seen no load above any loop's peak.
LEMMA ScanSettles ==
  ASSUME TypeOK, ScanInv, NEW s \in Schedulers, at[s] = "placed", InStep(s),
         NEW l \in Loops
  PROVE  lowest_load[s] <= peak[s][l]
  <1>1. CASE lowest_load[s] = 0
    BY <1>1 DEF TypeOK
  <1>2. CASE scan_offset[s] = LoopCount
    <2>1. scan_start[s] \in Nat
      BY WidthAssumption DEF TypeOK
    <2>2. PICK k \in 0..(LoopCount - 1) :
              (scan_start[s] + k) % LoopCount = l
      BY <2>1, IndicesCover, LoopCountAssumption DEF Loops
    <2>3. lowest_load[s] <= peak[s][(scan_start[s] + k) % LoopCount]
      BY <1>2 DEF ScanInv, ScanOf
    <2> QED  BY <2>2, <2>3
  <1> QED  BY <1>1, <1>2 DEF ScanInv, ScanOf

\* The invariant holds of every pool.
LEMMA ScanCorrect == Spec => [](TypeOK /\ ScanInv)
  <1>1. Init => ScanInv
    BY DEF Init, ScanInv, ScanOf
  <1> QED  BY <1>1, TypeCorrect, TypeStep, ScanStep, PTL DEF Spec

\* For any number of loops and threads, and however the loads move during a
\* scan that does not meet the wrap of the counter, the load a thread settles
\* for is within the peak of every loop (EventLoopPool::schedule).
THEOREM LeastLoaded == Spec => []NoIdleLoopPassedOver
  <1>1. TypeOK /\ ScanInv => NoIdleLoopPassedOver
    BY ScanSettles DEF NoIdleLoopPassedOver, InStep
  <1> QED  BY <1>1, ScanCorrect, PTL

\* The exception for the wrap is there for a number of loops that does not
\* divide the width only: a pool of 2^k loops never passes over an idle loop.
THEOREM LeastLoadedAlways ==
  ASSUME Width % LoopCount = 0
  PROVE  Spec => [](\A s \in Schedulers : at[s] = "placed" =>
                       \A l \in Loops : lowest_load[s] <= peak[s][l])
  <1>1. TypeOK /\ ScanInv => \A s \in Schedulers : at[s] = "placed" =>
                                 \A l \in Loops : lowest_load[s] <= peak[s][l]
    BY ScanSettles DEF InStep
  <1> QED  BY <1>1, ScanCorrect, PTL
=============================================================================
