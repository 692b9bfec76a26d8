--------------------------- MODULE LeaderElection ---------------------------
(***************************************************************************)
(* Leader election with a lease kept in an annotation of an API object:    *)
(* pkg/client/leaderelection/leaderelection.go, with the endpoints lock of *)
(* resourcelock/endpointslock.go and wait.Poll, wait.JitterUntil.          *)
(*                                                                         *)
(* The code compares times of one client's clock with each other, never    *)
(* with another's, so a time is modelled by how long ago it was.  All      *)
(* clocks run at the same rate.  Times a comparison no longer tells apart  *)
(* are the same (Horizon).                                                 *)
(***************************************************************************)
EXTENDS Integers

CONSTANTS
  Clients,        \* the processes, each with an identity of its own
  None,           \* the holder of a record nobody has written
  LeaseDuration, RenewDeadline, RetryPeriod,
  CallTime,       \* bound on the time a tryAcquireOrRenew takes
  MaxFailures     \* bound on the failures of calls and processes

(***************************************************************************)
(* The first two are tested by NewLeaderElector (JitterFactor is 6/5).  The *)
(* third is what the choice of the durations has to leave room for: a lease *)
(* is counted from the write, a deadline from its answer, and an attempt    *)
(* that is under way at the deadline is followed by a last one.             *)
(***************************************************************************)
ASSUME Durations ==
  /\ LeaseDuration \in Nat /\ RenewDeadline \in Nat /\ CallTime \in Nat
  /\ RetryPeriod \in Nat \ {0} /\ MaxFailures \in Nat
  /\ LeaseDuration > RenewDeadline
  /\ 5 * RenewDeadline > 6 * RetryPeriod
  /\ LeaseDuration > RenewDeadline + 3 * CallTime

ASSUME NoneIsNoClient == None \notin Clients

VARIABLES
  exists,        \* the object that carries the lock exists
  holder, age,   \* the record's HolderIdentity, and when it was written
  role,          \* in acquire, in renew (leading), or Run has returned
  pc,            \* where the client is in tryAcquireOrRenew
  attemptAge,    \* its local now
  seen,          \* le.observedRecord is the record as it is
  observedAge,   \* le.observedTime
  fresh,         \* the object it got is the object as it is
  timer,         \* time to the next try
  pollAge,       \* when its Poll began
  last,          \* Poll has timed out: this try is the last
  failures

vars == <<exists, holder, age, role, pc, attemptAge, seen, observedAge, fresh,
          timer, pollAge, last, failures>>
object == <<exists, holder, age>>
loop == <<role, timer, pollAge, last>>

Horizon == LeaseDuration + CallTime
LongestWait == (11 * RetryPeriod) \div 5     \* Jitter(RetryPeriod, JitterFactor)

Init ==
  /\ exists \in BOOLEAN /\ holder = None /\ age = Horizon
  /\ role = [c \in Clients |-> "acquiring"]
  /\ pc = [c \in Clients |-> "wait"]
  /\ attemptAge = [c \in Clients |-> 0]
  /\ seen = [c \in Clients |-> TRUE]
  /\ observedAge = [c \in Clients |-> Horizon]
  /\ fresh = [c \in Clients |-> FALSE]
  /\ timer = [c \in Clients |-> 0]
  /\ pollAge = [c \in Clients |-> 0]
  /\ last = [c \in Clients |-> FALSE]
  /\ failures = 0

Fail == failures < MaxFailures /\ failures' = failures + 1

Goto(c, p) == pc' = [pc EXCEPT ![c] = p]

-----------------------------------------------------------------------------
(***************************************************************************)
(* The loops around tryAcquireOrRenew.                                     *)
(***************************************************************************)
TimedOut(c) == role[c] = "leading" /\ pollAge[c] >= RenewDeadline

\* A tick of Poll, or the timer of JitterUntil.  Both may be due with the time-out.
TryOnTick(c) ==
  /\ pc[c] = "wait" /\ role[c] # "stopped"
  /\ timer[c] = 0
  /\ role[c] = "leading" => pollAge[c] <= RenewDeadline
  /\ Goto(c, "get")
  /\ attemptAge' = [attemptAge EXCEPT ![c] = 0]
  /\ UNCHANGED <<object, seen, observedAge, fresh, loop, failures>>

\* Poll times out: WaitFor tries once more.
TryLast(c) ==
  /\ pc[c] = "wait"
  /\ TimedOut(c)
  /\ Goto(c, "get")
  /\ attemptAge' = [attemptAge EXCEPT ![c] = 0]
  /\ last' = [last EXCEPT ![c] = TRUE]
  /\ UNCHANGED <<object, seen, observedAge, fresh, role, timer, pollAge, failures>>

-----------------------------------------------------------------------------
(***************************************************************************)
(* tryAcquireOrRenew: Get, then Create or Update, then the answer.         *)
(***************************************************************************)
GetFails(c) ==
  /\ pc[c] = "get"
  /\ Fail
  /\ Goto(c, "lost")
  /\ UNCHANGED <<object, attemptAge, seen, observedAge, fresh, loop>>

GetNotFound(c) ==
  /\ pc[c] = "get" /\ ~exists
  /\ Goto(c, "create")
  /\ UNCHANGED <<object, attemptAge, seen, observedAge, fresh, loop, failures>>

\* Seeded fault: a client does not know its own lease.
Held_ByMe(c, observed) == observed - attemptAge[c] < LeaseDuration

\* The lease is not over, counted from when the record was first seen to the
\* begin of this try.
Held(c, observed) == observed - attemptAge[c] < LeaseDuration /\ holder # c

GetFound(c) ==
  LET observed == IF seen[c] THEN observedAge[c] ELSE 0
  IN  /\ pc[c] = "get" /\ exists
      /\ seen' = [seen EXCEPT ![c] = TRUE]
      /\ observedAge' = [observedAge EXCEPT ![c] = observed]
      /\ fresh' = [fresh EXCEPT ![c] = TRUE]
      /\ Goto(c, IF Held(c, observed) THEN "lost" ELSE "update")
      /\ UNCHANGED <<object, attemptAge, loop, failures>>

\* The object is written: what others got or observed is no longer what it is.
Write(c) ==
  /\ exists' = TRUE /\ holder' = c /\ age' = 0
  /\ fresh' = [d \in Clients |-> FALSE]
  /\ seen' = [d \in Clients |-> FALSE]

\* Create and Update: the server accepts if the object is as the client knows.
\* A failure may be reported of a call that was carried out.
Try(c, accepted) ==
  /\ \/ accepted /\ Write(c) /\ Goto(c, "won") /\ UNCHANGED failures
     \/ accepted /\ Write(c) /\ Goto(c, "lost") /\ Fail
     \/ Goto(c, "lost") /\ Fail /\ UNCHANGED <<object, fresh, seen>>
     \/ /\ ~accepted
        /\ Goto(c, "lost")
        /\ UNCHANGED <<object, fresh, seen, failures>>
  /\ UNCHANGED <<attemptAge, observedAge, loop>>

Create(c) == pc[c] = "create" /\ Try(c, ~exists)

\* Seeded fault: an update that overwrites whatever is there.
Update_Unconditional(c) == pc[c] = "update" /\ Try(c, TRUE)

Update(c) == pc[c] = "update" /\ Try(c, fresh[c])

-----------------------------------------------------------------------------
\* acquire returns, or Poll returns and renew starts the next at once.
Won(c) ==
  /\ pc[c] = "won"
  /\ Goto(c, "wait")
  /\ role' = [role EXCEPT ![c] = "leading"]
  /\ timer' = [timer EXCEPT ![c] = RetryPeriod]
  /\ pollAge' = [pollAge EXCEPT ![c] = 0]
  /\ last' = [last EXCEPT ![c] = FALSE]
  /\ observedAge' = [observedAge EXCEPT ![c] = 0]
  /\ UNCHANGED <<object, attemptAge, seen, fresh, failures>>

\* acquire waits for the period and up to JitterFactor times it in addition.
LostAcquiring(c) ==
  /\ pc[c] = "lost" /\ role[c] = "acquiring"
  /\ Goto(c, "wait")
  /\ \E t \in RetryPeriod .. LongestWait :
       timer' = [timer EXCEPT ![c] = t]
  /\ UNCHANGED <<object, attemptAge, seen, observedAge, fresh, role, pollAge, last,
                 failures>>

\* Poll goes on with the next tick: those in between were dropped.
LostPolling(c) ==
  /\ pc[c] = "lost" /\ role[c] = "leading" /\ ~last[c]
  /\ Goto(c, "wait")
  /\ \E t \in 1 .. RetryPeriod : timer' = [timer EXCEPT ![c] = t]
  /\ UNCHANGED <<object, attemptAge, seen, observedAge, fresh, role, pollAge, last,
                 failures>>

\* Seeded fault: renew goes on after Poll has timed out.
LostLast_GoesOn(c) ==
  /\ pc[c] = "lost" /\ role[c] = "leading" /\ last[c]
  /\ Goto(c, "wait")
  /\ last' = [last EXCEPT ![c] = FALSE]
  /\ UNCHANGED <<object, attemptAge, seen, observedAge, fresh, role, timer, pollAge,
                 failures>>

\* Poll returns ErrWaitTimeout, renew and Run return, OnStoppedLeading.
LostLast(c) ==
  /\ pc[c] = "lost" /\ role[c] = "leading" /\ last[c]
  /\ Goto(c, "wait")
  /\ role' = [role EXCEPT ![c] = "stopped"]
  /\ last' = [last EXCEPT ![c] = FALSE]
  /\ UNCHANGED <<object, attemptAge, seen, observedAge, fresh, timer, pollAge,
                 failures>>

\* A process starts, with an identity that may have been used before.
Start(c) ==
  /\ Goto(c, "wait")
  /\ role' = [role EXCEPT ![c] = "acquiring"]
  /\ seen' = [seen EXCEPT ![c] = holder = None]
  /\ observedAge' = [observedAge EXCEPT ![c] = Horizon]
  /\ fresh' = [fresh EXCEPT ![c] = FALSE]
  /\ timer' = [timer EXCEPT ![c] = 0]
  /\ last' = [last EXCEPT ![c] = FALSE]
  /\ UNCHANGED <<object, attemptAge, pollAge>>

\* OnStoppedLeading ends the process, and it is started anew.
StartAgain(c) == role[c] = "stopped" /\ Start(c) /\ UNCHANGED failures

\* The process ends at any point, and is started anew.
Crash(c) == Fail /\ Start(c)

-----------------------------------------------------------------------------
\* A call that has to return, or a timer that has to fire.
Due(c) ==
  \/ pc[c] # "wait" /\ attemptAge[c] >= CallTime
  \/ pc[c] = "wait" /\ role[c] # "stopped" /\ timer[c] = 0
  \/ pc[c] = "wait" /\ TimedOut(c)

Older(a) == IF a < Horizon THEN a + 1 ELSE a
Less(t) == IF t > 0 THEN t - 1 ELSE t

Tick ==
  /\ \A c \in Clients : ~Due(c)
  /\ age' = Older(age)
  /\ attemptAge' = [c \in Clients |-> IF pc[c] = "wait" THEN 0 ELSE attemptAge[c] + 1]
  /\ observedAge' = [c \in Clients |-> Older(observedAge[c])]
  /\ timer' = [c \in Clients |-> Less(timer[c])]
  /\ pollAge' = [c \in Clients |-> IF role[c] = "leading" THEN pollAge[c] + 1 ELSE 0]
  /\ UNCHANGED <<exists, holder, role, pc, seen, fresh, last, failures>>

-----------------------------------------------------------------------------
Step(c) ==
  \/ TryOnTick(c) \/ TryLast(c)
  \/ GetFails(c) \/ GetNotFound(c) \/ GetFound(c)
  \/ Create(c) \/ Update(c)
  \/ Won(c) \/ LostAcquiring(c) \/ LostPolling(c) \/ LostLast(c)
  \/ StartAgain(c)

Next == Tick \/ \E c \in Clients : Step(c) \/ Crash(c)

\* Processes that run go on, time passes, and one that ended is started anew.
Fairness == WF_vars(Tick) /\ \A c \in Clients : WF_vars(Step(c))

Spec == Init /\ [][Next]_vars /\ Fairness

-----------------------------------------------------------------------------
\* The types of the variables; only a leader makes a last try.
TypeOK ==
  /\ exists \in BOOLEAN /\ holder \in Clients \cup {None} /\ age \in 0 .. Horizon
  /\ role \in [Clients -> {"acquiring", "leading", "stopped"}]
  /\ pc \in [Clients -> {"wait", "get", "create", "update", "won", "lost"}]
  /\ attemptAge \in [Clients -> 0 .. CallTime]
  /\ seen \in [Clients -> BOOLEAN] /\ fresh \in [Clients -> BOOLEAN]
  /\ observedAge \in [Clients -> 0 .. Horizon]
  /\ timer \in [Clients -> 0 .. LongestWait]
  /\ pollAge \in [Clients -> 0 .. RenewDeadline + 2 * CallTime]
  /\ last \in [Clients -> BOOLEAN]
  /\ \A c \in Clients : last[c] => role[c] = "leading"
  /\ failures \in 0 .. MaxFailures

(***************************************************************************)
(* At most one client leads at any time: the others wait for longer than a *)
(* leader that cannot renew goes on leading.                               *)
(***************************************************************************)
AtMostOneLeader ==
  \A c, d \in Clients : role[c] = "leading" /\ role[d] = "leading" => c = d

(***************************************************************************)
(* Once failures cease one client leads for good: a leader renews in time, *)
(* and a lock whose holder is gone is taken.                               *)
(***************************************************************************)
EventuallyLed == <>[](\E c \in Clients : role[c] = "leading")
=============================================================================
