-------------------------- MODULE PacedCycleProofs --------------------------
(***************************************************************************)
(* Proofs about PacedCycle, for every interval and every amount of work:   *)
(* the pacer expects the calls it gets, spreads the work evenly, and       *)
(* cycles are an interval apart.                                           *)
(***************************************************************************)
EXTENDS PacedCycle, TLAPS

---------------------------------------------------------------------------
(* Arithmetic                                                              *)

\* What rounding down leaves: the quotient of the time left by the gaps left.
LEMMA Quotient ==
    ASSUME NEW t \in Nat, NEW r \in Nat \ {0}
    PROVE  /\ t \div r \in 0 .. t
           /\ (t \div r) * r <= t
           /\ t < (t \div r) * r + r
           /\ r = 1 => t \div r = t
BY SMT

\* Products respect the order in one factor.
LEMMA TimesMonotone ==
    ASSUME NEW m \in Int, NEW n \in Int, NEW r \in Nat, m <= n
    PROVE  m * r <= n * r
BY SMT

\* A positive factor can be dropped from both sides.
LEMMA TimesCancels ==
    ASSUME NEW m \in Int, NEW n \in Int, NEW r \in Nat \ {0}, m * r <= n * r
    PROVE  m <= n
BY SMT

\* One gap more, from above: who was at most k of g shares of the time T on, and
\* sleeps at most a share r of what is left, is at most k + 1 shares on.
LEMMA ShareAbove ==
    ASSUME NEW x \in Int, NEW k \in Nat, NEW q \in Nat, NEW T \in Nat, NEW r \in Nat \ {0},
           NEW g \in Nat, g = k + r,
           x * g <= k * T, q * r <= T - x
    PROVE  (x + q) * g <= (k + 1) * T
<1>1. (q * r) * g <= (T - x) * g
  BY TimesMonotone
<1>2. (x * g) * (r - 1) <= (k * T) * (r - 1)
  BY TimesMonotone
<1>3. ((x + q) * g) * r = (x * g) * (r - 1) + x * g + (q * r) * g
  BY SMT
<1>4. (T - x) * g = T * g - x * g
  BY SMT
<1>5. ((x + q) * g) * r <= (k * T) * (r - 1) + T * g
  BY <1>1, <1>2, <1>3, <1>4, SMT
<1>6. (k * T) * (r - 1) + T * g = ((k + 1) * T) * r
  BY SMT
<1> QED BY <1>5, <1>6, TimesCancels

\* The same from below.
LEMMA ShareBelow ==
    ASSUME NEW x \in Int, NEW k \in Nat, NEW q \in Nat, NEW T \in Nat, NEW r \in Nat \ {0},
           NEW g \in Nat, g = k + r,
           k * T <= x * g, T - x <= q * r
    PROVE  (k + 1) * T <= (x + q) * g
<1>1. (T - x) * g <= (q * r) * g
  BY TimesMonotone
<1>2. (k * T) * (r - 1) <= (x * g) * (r - 1)
  BY TimesMonotone
<1>3. ((x + q) * g) * r = (x * g) * (r - 1) + x * g + (q * r) * g
  BY SMT
<1>4. (T - x) * g = T * g - x * g
  BY SMT
<1>5. (k * T) * (r - 1) + T * g <= ((x + q) * g) * r
  BY <1>1, <1>2, <1>3, <1>4, SMT
<1>6. (k * T) * (r - 1) + T * g = ((k + 1) * T) * r
  BY SMT
<1> QED BY <1>5, <1>6, TimesCancels

---------------------------------------------------------------------------
(* The invariant                                                           *)

\* Besides the types: the observer agrees with first_cycle, what is past is not
\* negative, and a cycle is late by its work at most.
Counts ==
    /\ fresh = first
    /\ left <= size /\ listing <= elapsed
    /\ elapsed <= Interval + listing + worked

PInv == TypeOK /\ Counts /\ EvenlySpread

LEMMA DueIsPaceDeadline ==
    ASSUME fresh = first, fresh \in BOOLEAN
    PROVE  Due = PaceDeadline /\ Due \in Nat /\ Due <= Interval
BY PaceAssumption, SMT DEF Due, PaceDeadline, Least

LEMMA InitHolds == Init => PInv
BY PaceAssumption, SMT DEF Init, PInv, TypeOK, Counts, EvenlySpread

\* The gap the pacer makes, for the time u there is left and r gaps to come.
LEMMA GapIs ==
    ASSUME PaceDeadline \in Nat, NEW at \in Nat, left \in Nat
    PROVE  /\ Gap(at) \in Nat
           /\ left <= 1 \/ PaceDeadline <= at => Gap(at) = 0
           /\ left > 1 /\ at < PaceDeadline =>
                 /\ at + Gap(at) <= PaceDeadline
                 /\ Gap(at) * (left - 1) <= PaceDeadline - at
                 /\ PaceDeadline - at <= (Gap(at) + 1) * (left - 1)
                 /\ left = 2 => at + Gap(at) = PaceDeadline
<1>1. CASE left <= 1 \/ PaceDeadline <= at
  BY <1>1, SMT DEF Gap
<1>2. CASE ~(left <= 1 \/ PaceDeadline <= at)
  <2> DEFINE t == PaceDeadline - at
             r == left - 1
  <2>1. t \in Nat /\ r \in Nat \ {0} /\ Gap(at) = t \div r
    BY <1>2, SMT DEF Gap
  <2> HIDE DEF t, r
  <2>2. /\ t \div r \in 0 .. t
        /\ (t \div r) * r <= t
        /\ t < (t \div r) * r + r
        /\ r = 1 => t \div r = t
    BY <2>1, Quotient
  <2>3. ((t \div r) + 1) * r = (t \div r) * r + r
    BY <2>1, <2>2, SMT
  <2>4. /\ Gap(at) * r <= t /\ t <= (Gap(at) + 1) * r
        /\ Gap(at) \in Nat /\ Gap(at) <= t /\ (r = 1 => Gap(at) = t)
    <3>1. (t \div r) * r \in Int /\ t \div r \in Int
      BY <2>1, <2>2, SMT
    <3> QED BY <2>1, <2>2, <2>3, <3>1, SMT
  <2>5. r = left - 1 /\ t = PaceDeadline - at
    BY DEF r, t
  <2>6. Gap(at) * (left - 1) <= PaceDeadline - at
    BY <2>4, <2>5
  <2>7. PaceDeadline - at <= (Gap(at) + 1) * (left - 1)
    BY <2>4, <2>5
  <2>8. at + Gap(at) <= PaceDeadline /\ (left = 2 => at + Gap(at) = PaceDeadline)
    BY <2>4, <2>5, SMT
  <2> QED BY <1>2, <2>4, <2>6, <2>7, <2>8
<1> QED BY <1>1, <1>2

\* An inspection or a probe keeps to the schedule.
LEMMA ItemOnSchedule ==
    ASSUME PInv, NEW cost \in Costs, pc \in {"inspect", "probe"}, left > 0,
           Item(cost), left' > 0
    PROVE  LET gaps == size' - 1
               past == size' - left'
               time == IF listing' < Due' THEN Due' - listing' ELSE 0
           IN  /\ (elapsed' - listing' + past) * gaps >= past * time
               /\ (elapsed' - listing' - worked') * gaps <= past * time
               /\ left' = 1 /\ size' > 1 => elapsed' >= Due'
<1> DEFINE T == IF listing < Due THEN Due - listing ELSE 0
           k == size - left
           g == size - 1
           r == left - 1
           at == elapsed + cost
           q == Gap(at)
           below == elapsed - listing + k
           above == elapsed - listing - worked
<1>1. /\ Due = PaceDeadline /\ Due \in Nat
      /\ cost \in Nat /\ elapsed \in Nat /\ listing \in Nat /\ worked \in Nat
      /\ size \in Nat /\ left \in Nat /\ left <= size /\ listing <= elapsed
  BY PaceAssumption, DueIsPaceDeadline, SMT DEF PInv, TypeOK, Counts
<1>2. /\ left' = left - 1 /\ elapsed' = at + q /\ worked' = worked + cost
      /\ size' = size /\ listing' = listing /\ Due' = Due
  BY DEF Item, Due
<1>3. /\ T \in Nat /\ k \in Nat /\ r \in Nat \ {0} /\ g \in Nat /\ g = k + r
      /\ at \in Nat /\ below \in Int /\ above \in Int
  BY <1>1, <1>2, SMT
<1>4. k * T <= below * g /\ above * g <= k * T
  BY <1>1, <1>3, SMT DEF PInv, EvenlySpread
<1>5. /\ q \in Nat
      /\ Due <= at => q = 0
      /\ at < Due => /\ at + q <= Due
                     /\ q * r <= Due - at
                     /\ Due - at <= (q + 1) * r
                     /\ left = 2 => at + q = Due
  BY <1>1, <1>2, <1>3, GapIs, SMT
<1> HIDE DEF T, k, g, r, at, q, below, above
<1>6. (k + 1) * T <= (below + cost + q + 1) * g
  <2>1. CASE at < Due
    <3>1. T - (below + cost) <= (q + 1) * r
      BY <1>1, <1>3, <1>5, <2>1, SMT DEF T, below, at
    <3>2. (below + cost) * g = below * g + cost * g /\ cost * g >= 0
      BY <1>1, <1>3, SMT
    <3>3. k * T <= (below + cost) * g
      <4>1. k * T \in Int /\ below * g \in Int /\ cost * g \in Int
        BY <1>1, <1>3, SMT
      <4> QED BY <1>4, <3>2, <4>1, SMT
    <3>4. (k + 1) * T <= (below + cost + (q + 1)) * g
      <4>1. below + cost \in Int /\ q + 1 \in Nat
        BY <1>1, <1>3, <1>5, SMT
      <4> QED BY <1>3, <3>1, <3>3, <4>1, ShareBelow
    <3> QED BY <1>1, <1>3, <1>5, <3>4, SMT
  <2>2. CASE Due <= at
    <3>1. T <= below + cost + q + 1
      BY <1>1, <1>3, <1>5, <2>2, SMT DEF T, below, at
    <3>2. T * g <= (below + cost + q + 1) * g
      BY <1>1, <1>3, <1>5, <3>1, TimesMonotone
    <3>3. (k + 1) * T <= g * T
      BY <1>3, TimesMonotone
    <3> QED BY <1>1, <1>3, <1>5, <3>2, <3>3, SMT
  <2> QED BY <1>1, <1>3, <2>1, <2>2, SMT
<1>7. (above + q) * g <= (k + 1) * T
  <2>1. CASE at < Due
    <3>1. q * r <= T - above
      BY <1>1, <1>3, <1>5, <2>1, SMT DEF T, above, at
    <3> QED BY <1>3, <1>4, <1>5, <3>1, ShareAbove
  <2>2. CASE Due <= at
    <3>1. above + q = above /\ (k + 1) * T = k * T + T
      BY <1>3, <1>5, <2>2, SMT
    <3> QED BY <1>3, <1>4, <3>1, SMT
  <2> QED BY <1>1, <1>3, <2>1, <2>2, SMT
<1>8. left' = 1 => elapsed' >= Due'
  BY <1>1, <1>2, <1>3, <1>5, SMT
<1>9. /\ size' - 1 = g /\ size' - left' = k + 1
      /\ elapsed' - listing' + (k + 1) = below + cost + q + 1
      /\ elapsed' - listing' - worked' = above + q
  BY <1>1, <1>2, <1>3, <1>5, SMT DEF k, g, at, below, above
<1>10. T = IF listing' < Due' THEN Due' - listing' ELSE 0
  BY <1>2 DEF T
<1> QED BY <1>6, <1>7, <1>8, <1>9, <1>10

\* Every step keeps the invariant.
LEMMA StepHolds == PInv /\ [Next]_vars => PInv'
<1> SUFFICES ASSUME PInv, [Next]_vars PROVE PInv'
  OBVIOUS
<1> USE PaceAssumption
<1>1. /\ Due = PaceDeadline /\ Due \in Nat /\ Due <= Interval /\ PaceDeadline \in Nat
  BY DueIsPaceDeadline, SMT DEF PInv, TypeOK, Counts
<1>2. ASSUME NEW cost \in Costs, List(cost) PROVE PInv'
  <2>1. PICK i \in 0 .. MaxPlan, c \in 0 .. MaxCreds :
           plan' = i /\ creds' = c /\ size' = i + c /\ left' = i + c
    BY <1>2 DEF List, PacerTotal
  <2>2. TypeOK' /\ Counts'
    BY <1>1, <1>2, <2>1, SMT DEF List, PInv, TypeOK, Counts
  <2>3. EvenlySpread'
    <3>1. /\ size' - left' = 0 /\ elapsed' - listing' + 0 = 0
          /\ elapsed' - listing' - worked' = 0 /\ (left' = 1 => ~(size' > 1))
      BY <1>1, <1>2, <2>1, SMT DEF List, PInv, TypeOK
    <3>2. size' - 1 \in Int /\ Due' \in Nat /\ listing' \in Nat
      BY <1>1, <1>2, <2>1, SMT DEF List, Due, PInv, TypeOK
    <3> QED BY <3>1, <3>2, SMT DEF EvenlySpread
  <2> QED BY <2>2, <2>3 DEF PInv
<1>3. ASSUME NEW cost \in Costs, NothingToDo(cost) PROVE PInv'
  BY <1>1, <1>3, SMT DEF NothingToDo, PInv, TypeOK, Counts, EvenlySpread
<1>4. ASSUME NEW cost \in Costs, Item(cost), left > 0, pc \in {"inspect", "probe"}, pc' = pc
      PROVE  Counts' /\ EvenlySpread' /\ left' = left - 1 /\ elapsed' \in Nat /\ worked' \in Nat
  <2>1. /\ Gap(elapsed + cost) \in Nat
        /\ left <= 1 \/ PaceDeadline <= elapsed + cost => Gap(elapsed + cost) = 0
        /\ left > 1 /\ elapsed + cost < PaceDeadline =>
              elapsed + cost + Gap(elapsed + cost) <= PaceDeadline
    <3>1. elapsed + cost \in Nat /\ left \in Nat
      BY SMT DEF PInv, TypeOK
    <3> QED BY <1>1, <3>1, GapIs
  <2>2. Counts' /\ left' = left - 1 /\ elapsed' \in Nat /\ worked' \in Nat
    BY <1>1, <1>4, <2>1, SMT DEF Item, PInv, TypeOK, Counts
  <2>3. EvenlySpread'
    <3>1. CASE left' > 0
      BY <1>4, <3>1, ItemOnSchedule DEF EvenlySpread
    <3>2. CASE ~(left' > 0)
      BY <3>2 DEF EvenlySpread
    <3> QED BY <3>1, <3>2
  <2> QED BY <2>2, <2>3
<1>5. ASSUME NEW cost \in Costs, Inspect(cost) PROVE PInv'
  <2>1. left > 0 /\ pc \in {"inspect", "probe"} /\ pc' = pc /\ Item(cost)
    BY <1>5, SMT DEF Inspect, PInv, TypeOK
  <2>2. Counts' /\ EvenlySpread' /\ left' = left - 1 /\ elapsed' \in Nat /\ worked' \in Nat
    BY <1>4, <2>1
  <2>3. TypeOK'
    BY <1>5, <2>2, SMT DEF Inspect, Item, PInv, TypeOK
  <2> QED BY <2>2, <2>3 DEF PInv
<1>6. ASSUME NEW cost \in Costs, Probe(cost) PROVE PInv'
  <2>1. left > 0 /\ pc \in {"inspect", "probe"} /\ pc' = pc /\ Item(cost)
    BY <1>6, SMT DEF Probe, PInv, TypeOK
  <2>2. Counts' /\ EvenlySpread' /\ left' = left - 1 /\ elapsed' \in Nat /\ worked' \in Nat
    BY <1>4, <2>1
  <2>3. TypeOK'
    BY <1>6, <2>2, SMT DEF Probe, Item, PInv, TypeOK
  <2> QED BY <2>2, <2>3 DEF PInv
<1>7. ASSUME Publish PROVE PInv'
  BY <1>7 DEF Publish, work, PInv, TypeOK, Counts, EvenlySpread, Due
<1>8. ASSUME PublishCredentials \/ Raises PROVE PInv'
  BY <1>8 DEF PublishCredentials, Raises, work, PInv, TypeOK, Counts, EvenlySpread
<1>9. ASSUME Sleep PROVE PInv'
  BY <1>9, SMT DEF Sleep, work, PInv, TypeOK, Counts, EvenlySpread
<1>10. ASSUME NextCycle \/ Restart PROVE PInv'
  <2>1. /\ first' \in BOOLEAN /\ fresh' = first' /\ pc' = "list" /\ elapsed' = 0 /\ NoWork
    BY <1>10, Zenon DEF NextCycle, Restart
  <2>2. TypeOK' /\ Counts'
    BY <2>1, SMT DEF NoWork, TypeOK, Counts
  <2>3. EvenlySpread'
    BY <2>1 DEF EvenlySpread
  <2> QED BY <2>2, <2>3 DEF PInv
<1>11. CASE UNCHANGED vars
  BY <1>11 DEF vars, work, PInv, TypeOK, Counts, EvenlySpread, Due
<1> QED BY <1>2, <1>3, <1>5, <1>6, <1>7, <1>8, <1>9, <1>10, <1>11 DEF Next

LEMMA PaceInvariance == Spec => []PInv
BY InitHolds, StepHolds, PTL DEF Spec

---------------------------------------------------------------------------
(* Results                                                                 *)

\* The pacer of run_check_loop is called exactly as often as it was told, whatever
\* the pods and the credentials (with the types of all variables).
THEOREM PacerTypeCorrect == Spec => []TypeOK
BY PaceInvariance, PTL DEF PInv

\* The sweep is spread evenly over what the listing leaves of the interval, for any
\* interval, amount of work and cost of an item.
THEOREM WorkIsSpread == Spec => []EvenlySpread
BY PaceInvariance, PTL DEF PInv

\* A cycle takes an interval, and longer by no more than its own work.
THEOREM CyclesKeepTheInterval == Spec => CyclesAnIntervalApart
<1>1. PInv /\ [Next]_vars =>
        [pc = "rest" /\ pc' = "list" /\ ~fresh' =>
           elapsed >= Interval /\ elapsed <= Interval + listing + worked]_vars
  <2> SUFFICES ASSUME PInv, Next, pc = "rest", pc' = "list", ~fresh'
               PROVE  elapsed >= Interval /\ elapsed <= Interval + listing + worked
    OBVIOUS
  <2>1. NextCycle
    BY DEF Next, List, NothingToDo, Inspect, Probe, Publish, PublishCredentials, Raises, Sleep,
           Restart
  <2> QED BY <2>1 DEF NextCycle, PInv, Counts
<1> QED BY <1>1, PaceInvariance, PTL DEF Spec, CyclesAnIntervalApart
=============================================================================
