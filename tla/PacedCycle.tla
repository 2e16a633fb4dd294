----------------------------- MODULE PacedCycle -----------------------------
(***************************************************************************)
(* How a checker spends its time: run_check_loop with its two deadlines,   *)
(* and the pacer that is called after every inspection and after every     *)
(* probe of a credential and sleeps a share of what is left of the cycle.  *)
(*                                                                         *)
(* Time is counted in ticks from the start of the cycle; a sleep is as     *)
(* long as asked for, rounded down.  CheckerSweep has what is published.   *)
(***************************************************************************)
EXTENDS Integers

CONSTANTS
    Interval,       \* CHECK_INTERVAL
    FirstCycle,     \* FIRST_CYCLE_SECONDS
    Costs,          \* how long an inspection, a probe or a listing may take
    MaxPlan,        \* bound: inspections of a cycle
    MaxCreds        \* bound: credentials to probe in a cycle

ASSUME PaceAssumption ==
    /\ Interval \in Nat \ {0} /\ FirstCycle \in Nat /\ Costs \subseteq Nat
    /\ MaxPlan \in Nat /\ MaxCreds \in Nat

VARIABLES
    first,          \* first_cycle
    pc,
    elapsed,        \* since the cycle began
    left,           \* _remaining of the pacer
    plan,           \* inspections still to be made
    creds,          \* credentials still to be probed
    \* observation only
    fresh,          \* no cycle has ended since the process started
    size,           \* the inspections and probes of this cycle
    listing,        \* when the pods had been listed
    worked          \* what the inspections and probes of this cycle took

work == <<left, plan, creds, size, listing, worked>>
vars == <<first, pc, elapsed, fresh, work>>

Least(m, n) == IF m < n THEN m ELSE n

PaceDeadline == IF first THEN Least(FirstCycle, Interval) ELSE Interval

NoWork == left' = 0 /\ plan' = 0 /\ creds' = 0 /\ size' = 0 /\ listing' = 0 /\ worked' = 0

---------------------------------------------------------------------------
(* The cycle                                                               *)

\* A variant: the pacer is sized on the inspections alone.
SizedOnPlan(i, c) == i

\* How many calls the pacer is told to expect.
PacerTotal(i, c) == i + c

\* The pods are listed and i inspections and c probes planned.  Credentials are
\* those of pods with images.
List(cost) ==
    /\ pc = "list"
    /\ elapsed' = cost /\ listing' = cost
    /\ \E i \in 0 .. MaxPlan, c \in 0 .. MaxCreds :
          /\ i = 0 => c = 0
          /\ plan' = i /\ creds' = c /\ size' = i + c
          /\ left' = PacerTotal(i, c)
    /\ worked' = 0 /\ pc' = "inspect"
    /\ UNCHANGED <<first, fresh>>

\* The listing raises, or there are no pods.
NothingToDo(cost) ==
    /\ pc = "list" /\ elapsed' = cost /\ listing' = cost /\ pc' = "rest"
    /\ UNCHANGED <<first, fresh, left, plan, creds, size, worked>>

\* A variant: the gap is a share of the whole cycle, however late it is.
GapUpFront(at) == IF left <= 1 THEN 0 ELSE PaceDeadline \div size

\* The pacer: how long it sleeps when called at a time.
Gap(at) ==
    IF left <= 1 \/ PaceDeadline <= at THEN 0 ELSE (PaceDeadline - at) \div (left - 1)

\* An inspection or a probe, and the call of the pacer after it.
Item(cost) ==
    /\ left' = left - 1
    /\ elapsed' = elapsed + cost + Gap(elapsed + cost)
    /\ worked' = worked + cost
    /\ UNCHANGED <<first, fresh, size, listing>>

Inspect(cost) ==
    /\ pc = "inspect" /\ plan > 0
    /\ plan' = plan - 1 /\ Item(cost)
    /\ UNCHANGED <<pc, creds>>

\* The availability metrics are published.
Publish ==
    /\ pc = "inspect" /\ plan = 0 /\ pc' = "probe"
    /\ UNCHANGED <<first, elapsed, fresh, work>>

Probe(cost) ==
    /\ pc = "probe" /\ creds > 0
    /\ creds' = creds - 1 /\ Item(cost)
    /\ UNCHANGED <<pc, plan>>

\* The credential metrics are published.
PublishCredentials ==
    /\ pc = "probe" /\ creds = 0 /\ pc' = "rest"
    /\ UNCHANGED <<first, elapsed, fresh, work>>

\* An exception anywhere ends the work of the cycle.
Raises ==
    /\ pc \in {"inspect", "probe"} /\ pc' = "rest"
    /\ UNCHANGED <<first, elapsed, fresh, work>>

\* A variant: only the pacer's deadline is waited for.
RestTillPaced ==
    /\ pc = "rest" /\ elapsed >= PaceDeadline
    /\ first' = FALSE /\ fresh' = FALSE
    /\ pc' = "list" /\ elapsed' = 0 /\ NoWork

\* What is left of the interval is slept out.
Sleep ==
    /\ pc = "rest" /\ elapsed < Interval
    /\ elapsed' = Interval
    /\ UNCHANGED <<first, pc, fresh, work>>

\* The next cycle begins, at once when this one overran.
NextCycle ==
    /\ pc = "rest" /\ elapsed >= Interval
    /\ first' = FALSE /\ fresh' = FALSE
    /\ pc' = "list" /\ elapsed' = 0 /\ NoWork

Restart ==
    /\ first' = TRUE /\ fresh' = TRUE
    /\ pc' = "list" /\ elapsed' = 0 /\ NoWork

---------------------------------------------------------------------------
(* The specification                                                       *)

Init ==
    /\ first = TRUE /\ fresh = TRUE /\ pc = "list" /\ elapsed = 0
    /\ left = 0 /\ plan = 0 /\ creds = 0 /\ size = 0 /\ listing = 0 /\ worked = 0

Next ==
    \/ \E cost \in Costs : List(cost) \/ NothingToDo(cost) \/ Inspect(cost) \/ Probe(cost)
    \/ Publish \/ PublishCredentials \/ Raises
    \/ Sleep \/ NextCycle
    \/ Restart

Spec == Init /\ [][Next]_vars

---------------------------------------------------------------------------
(* Properties                                                              *)

\* Every variable has its type, and the pacer expects exactly the calls that are
\* still to come: it is sized on the work that is then done.
TypeOK ==
    /\ first \in BOOLEAN /\ fresh \in BOOLEAN
    /\ pc \in {"list", "inspect", "probe", "rest"}
    /\ elapsed \in Nat /\ listing \in Nat /\ worked \in Nat
    /\ plan \in 0 .. MaxPlan /\ creds \in 0 .. MaxCreds
    /\ size \in 0 .. MaxPlan + MaxCreds
    /\ left = plan + creds

\* When a cycle's results are due: one interval after it began, but within
\* FIRST_CYCLE_SECONDS for the first one of a process, whether that one succeeds
\* or not.
Due == IF fresh THEN Least(FirstCycle, Interval) ELSE Interval

\* The work is spread evenly over the time there is: an item begins no sooner than
\* on an even schedule from the listing to the deadline, but for a tick lost in each
\* gap by rounding, and later than on it at most by what the work so far has taken.
\* The last of several begins at the deadline or after it.
EvenlySpread ==
    pc \in {"inspect", "probe"} /\ left > 0 =>
        LET gaps == size - 1
            past == size - left
            time == IF listing < Due THEN Due - listing ELSE 0
        IN  /\ (elapsed - listing + past) * gaps >= past * time
            /\ (elapsed - listing - worked) * gaps <= past * time
            /\ left = 1 /\ size > 1 => elapsed >= Due

\* Cycles are an interval apart: the next one begins neither earlier nor later
\* than that, but for the work of a sweep that was not done by then.
CyclesAnIntervalApart ==
    [][pc = "rest" /\ pc' = "list" /\ ~fresh' =>
          elapsed >= Interval /\ elapsed <= Interval + listing + worked]_vars
=============================================================================
