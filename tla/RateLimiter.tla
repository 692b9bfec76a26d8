----------------------------- MODULE RateLimiter -----------------------------
(***************************************************************************)
(* The rate limiters behind AddRateLimited:                                *)
(* pkg/util/workqueue/default_rate_limiters.go.  Each method holds the     *)
(* limiter's lock, so each is one step.                                    *)
(*                                                                         *)
(* Delays are nanoseconds in a signed integer of Width bits (64 in the     *)
(* code).  A float64 has a mantissa shorter than Width - 1 bits: a small   *)
(* number times a power of two is exact, the largest integer is not and    *)
(* is rounded up to 2^(Width-1).                                           *)
(***************************************************************************)
EXTENDS Integers

CONSTANTS
  Items,
  BaseDelay, MaxDelay,                   \* ItemExponentialFailureRateLimiter
  FastDelay, SlowDelay, MaxFastAttempts, \* ItemFastSlowRateLimiter
  Width,
  MaxFailures                            \* bound on the failures counted

VARIABLES
  failures,   \* the map of the exponential limiter; a missing key counts 0
  attempts,   \* the map of the fast/slow limiter
  last        \* the delays the two limiters last returned for each item

vars == <<failures, attempts, last>>

MaxInt == 2^(Width - 1) - 1
FloatMaxInt == 2^(Width - 1)

None == [exponential |-> 0, fastSlow |-> 0]

Init ==
  /\ failures = [i \in Items |-> 0]
  /\ attempts = [i \in Items |-> 0]
  /\ last = [i \in Items |-> None]

(***************************************************************************)
(* time.Duration(backoff).  A float that is no integer of this width is    *)
(* converted to whatever the processor makes of it: the least integer on   *)
(* amd64, the greatest on arm64.                                           *)
(***************************************************************************)
ToDuration(backoff) ==
  IF backoff <= MaxInt THEN {backoff} ELSE {-(MaxInt + 1), MaxInt}

Capped(calculated) == IF calculated > MaxDelay THEN MaxDelay ELSE calculated

\* Seeded fault: the product computed in integers, without the overflow test.
ExponentialDelay_Wraps(exp) == {Capped((BaseDelay * 2^exp) % 2^(Width - 1))}

\* The delays When can return after exp earlier failures.
ExponentialDelay(exp) ==
  LET backoff == BaseDelay * 2^exp
  IN  IF backoff > FloatMaxInt THEN {MaxDelay}
      ELSE {Capped(d) : d \in ToDuration(backoff)}

FastSlowDelay(attempt) == IF attempt <= MaxFastAttempts THEN FastDelay ELSE SlowDelay

(***************************************************************************)
(* MaxOfRateLimiter.When asks every limiter, so each of them counts.       *)
(***************************************************************************)
When(i) ==
  /\ failures[i] < MaxFailures
  /\ failures' = [failures EXCEPT ![i] = @ + 1]
  /\ attempts' = [attempts EXCEPT ![i] = @ + 1]
  /\ \E d \in ExponentialDelay(failures[i]) :
       last' = [last EXCEPT ![i] =
                  [exponential |-> d, fastSlow |-> FastSlowDelay(attempts[i] + 1)]]

Forget(i) ==
  /\ failures' = [failures EXCEPT ![i] = 0]
  /\ attempts' = [attempts EXCEPT ![i] = 0]
  /\ last' = [last EXCEPT ![i] = None]

Next == \E i \in Items : When(i) \/ Forget(i)

Spec == Init /\ [][Next]_vars

\* MaxOfRateLimiter: what AddRateLimited passes to AddAfter, never below 0.
MaxOf(i) ==
  LET d == IF last[i].exponential > last[i].fastSlow THEN last[i].exponential
           ELSE last[i].fastSlow
  IN  IF d > 0 THEN d ELSE 0
=============================================================================
