-------------------------- MODULE RateLimitingQueue --------------------------
(***************************************************************************)
(* The rate limiting queue: pkg/util/workqueue/rate_limitting_queue.go, a  *)
(* delaying queue together with the limiters that choose the delays.  The  *)
(* limiters count nanoseconds; the queue's clock advances in ticks of      *)
(* TickLength of them.                                                     *)
(***************************************************************************)
EXTENDS DelayingQueue

CONSTANTS
  BaseDelay, MaxDelay,                     \* ItemExponentialFailureRateLimiter
  FastDelay, SlowDelay, MaxFastAttempts,   \* ItemFastSlowRateLimiter
  Width,                                   \* the bits of a time.Duration
  TickLength,
  MaxCalls                                 \* bound on the requests made

ASSUME Limits ==
  /\ Width \in Nat \ {0, 1}
  /\ BaseDelay \in 1 .. MaxDelay /\ MaxDelay \in Nat /\ MaxDelay < 2^(Width - 1)
  /\ SlowDelay \in Nat /\ FastDelay \in 0 .. SlowDelay /\ MaxFastAttempts \in Nat
  /\ TickLength \in Nat \ {0} /\ MaxCalls \in Nat

VARIABLES
  failures, attempts, last,   \* the limiters (RateLimiter)
  calls                       \* the requests made so far

limiterVars == <<failures, attempts, last>>
allVars == <<vars, failures, attempts, last, calls>>

Limiter == INSTANCE RateLimiter WITH MaxFailures <- MaxCalls

NewRateLimitingQueue == DelayingInit /\ Limiter!Init /\ calls = 0

Call == calls < MaxCalls /\ calls' = calls + 1

Ticks(d) == (d + TickLength - 1) \div TickLength

(***************************************************************************)
(* AddRateLimited: AddAfter with the delay that When returns, which counts *)
(* a failure also where AddAfter then refuses the item.                    *)
(***************************************************************************)
AddRateLimited(c, k) ==
  /\ Call
  /\ Limiter!When(k)
  /\ LET delay == Limiter!MaxOf(k)'
     IN  \/ AddAfterRefused(c)
         \/ delay = 0 /\ AddAfterNow(c, k)
         \/ AddAfterSelect(c, k, Ticks(delay))

ForgetItem(k) == Limiter!Forget(k) /\ UNCHANGED <<vars, calls>>

\* AddAfter called directly.
AddAfterCalled(c) ==
  /\ Call
  /\ \E k \in Items : AddAfterNow(c, k) \/ \E d \in Delays : AddAfterSelect(c, k, d)
  /\ UNCHANGED limiterVars

\* A step of the queue that is no call.
Inside(Step) == Step /\ UNCHANGED <<limiterVars, calls>>

RateLimitingNext ==
  \/ \E c \in Callers, k \in Items : AddRateLimited(c, k)
  \/ \E k \in Items : ForgetItem(k)
  \/ \E c \in Callers : \/ AddAfterCalled(c)
                        \/ Inside(AddAfterSend(c))
                        \/ Inside(AddAfterUnblock(c))
  \/ Inside(DelayingShutDown)
  \/ Inside(CloseStopCh)
  \/ Inside(LoopShutdown)
  \/ Inside(LoopNow)
  \/ Inside(LoopAddReady)
  \/ Inside(LoopSetTimer)
  \/ Inside(LoopStopped)
  \/ Inside(LoopHeartbeat)
  \/ Inside(LoopTimer)
  \/ Inside(LoopReceive)
  \/ Inside(LoopDrained)
  \/ Inside(Tick)
  \/ Inside(Worker)

RateLimitingSpec ==
  /\ NewRateLimitingQueue
  /\ [][RateLimitingNext]_allVars
  /\ DelayingFairness

-----------------------------------------------------------------------------
\* The delay an item that keeps failing waits never gets shorter, however often
\* it fails, until Forget: the overflow test and the cap of the limiters work
\* together.
BackoffNeverShrinks ==
  [][\A k \in Items : failures'[k] # 0 => Limiter!MaxOf(k)' >= Limiter!MaxOf(k)]_limiterVars
=============================================================================
