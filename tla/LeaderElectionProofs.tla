------------------------ MODULE LeaderElectionProofs ------------------------
(***************************************************************************)
(* Why at most one client leads, whatever the number of clients, the       *)
(* durations and the failures, as long as a try takes at most CallTime.    *)
(*                                                                         *)
(* A leader's last write is at most RenewDeadline + 3 * CallTime old       *)
(* (LeaderIsYoung: at most CallTime until its answer, RenewDeadline until  *)
(* Poll times out, CallTime for the try under way then, CallTime for the   *)
(* last).  A client that is about to write over another's record has seen  *)
(* it for LeaseDuration (TakersWaited).  The two exclude each other, so    *)
(* that a leader stays the holder of the lock.                             *)
(***************************************************************************)
EXTENDS LeaderElection, TLAPS

Unwritten == holder = None => age = Horizon

SeenAfterWritten == \A c \in Clients : seen[c] => observedAge[c] <= age

LeaderHolds ==
  \A c \in Clients :
    role[c] = "leading" => exists /\ holder = c /\ age <= pollAge[c] + CallTime

PollEnds ==
  \A c \in Clients :
    /\ pc[c] = "wait" => ~last[c]
    /\ role[c] = "leading" =>
         /\ pc[c] = "wait" => pollAge[c] <= RenewDeadline + CallTime
         /\ pc[c] # "wait" /\ ~last[c] => pollAge[c] <= RenewDeadline + attemptAge[c]
         /\ pc[c] # "wait" /\ last[c] =>
              pollAge[c] <= RenewDeadline + CallTime + attemptAge[c]

WinnerHolds ==
  \A c \in Clients : pc[c] = "won" => exists /\ holder = c /\ age <= attemptAge[c]

MayWrite(c) == (pc[c] = "create" /\ ~exists) \/ (pc[c] = "update" /\ fresh[c])

TakersWaited ==
  \A c \in Clients :
    pc[c] = "update" /\ fresh[c] => holder = c \/ age >= LeaseDuration

IInv ==
  /\ TypeOK /\ Unwritten /\ SeenAfterWritten
  /\ LeaderHolds /\ PollEnds /\ WinnerHolds /\ TakersWaited

-----------------------------------------------------------------------------
\* The timers' bounds are numbers, and the longest wait is no shorter than the
\* shortest.
LEMMA WaitBounds ==
  /\ LongestWait \in Nat /\ RetryPeriod <= LongestWait
  /\ Horizon \in Nat /\ LeaseDuration <= Horizon
BY Durations DEF LongestWait, Horizon

\* A leader's record is younger than a lease.
LEMMA LeaderIsYoung ==
  ASSUME IInv, NEW c \in Clients, role[c] = "leading"
  PROVE  exists /\ holder = c /\ age < LeaseDuration
<1>1. pollAge[c] <= RenewDeadline + 2 * CallTime /\ pollAge[c] \in Nat
  BY Durations DEF IInv, TypeOK
<1>2. exists /\ holder = c /\ age <= pollAge[c] + CallTime
  BY DEF IInv, LeaderHolds
<1>3. QED
  BY <1>1, <1>2, Durations, WaitBounds DEF IInv, TypeOK

\* So is the record of a client whose write was accepted.
LEMMA WinnerIsYoung ==
  ASSUME IInv, NEW c \in Clients, pc[c] = "won"
  PROVE  exists /\ holder = c /\ age < LeaseDuration
BY Durations, WaitBounds DEF IInv, TypeOK, WinnerHolds

\* A write goes to a lock that nobody else relies on.
LEMMA WriteIsSafe ==
  ASSUME IInv, NEW c \in Clients, NEW d \in Clients, d # c,
         MayWrite(c)
  PROVE  role[d] # "leading" /\ pc[d] # "won"
<1>1. ASSUME role[d] = "leading" \/ pc[d] = "won" PROVE FALSE
  <2>1. exists /\ holder = d /\ age < LeaseDuration
    BY <1>1, LeaderIsYoung, WinnerIsYoung
  <2>2. pc[c] = "update" /\ fresh[c]
    BY <2>1 DEF MayWrite
  <2>3. holder = c \/ age >= LeaseDuration
    BY <2>2 DEF IInv, TakersWaited
  <2>4. age \in Nat /\ LeaseDuration \in Nat
    BY Durations, WaitBounds DEF IInv, TypeOK
  <2>5. QED
    BY <2>1, <2>3, <2>4
<1>2. QED
  BY <1>1

-----------------------------------------------------------------------------
\* Before anybody has the lock.
LEMMA InitInvariant == Init => IInv
BY Durations, WaitBounds
   DEF Init, IInv, TypeOK, Unwritten, SeenAfterWritten, LeaderHolds, PollEnds,
       WinnerHolds, TakersWaited

\* Every step keeps the invariant.
LEMMA Inductive == IInv /\ [Next]_vars => IInv'
<1> USE Durations, WaitBounds, NoneIsNoClient
<1> SUFFICES ASSUME IInv, [Next]_vars PROVE IInv'
  OBVIOUS
<1> USE DEF IInv, TypeOK, Goto, Fail
<1>1. CASE Tick
  <2> USE <1>1 DEF Tick, Older, Less
  <2>1. \A c \in Clients :
          /\ pc[c] # "wait" => attemptAge[c] < CallTime
          /\ pc[c] = "wait" /\ role[c] = "leading" => pollAge[c] < RenewDeadline
    BY DEF Due, TimedOut
  <2>2. age' \in Nat /\ age <= age' /\ age' <= age + 1 /\ age' <= Horizon
    OBVIOUS
  <2>3. PollEnds'
    BY <2>1 DEF PollEnds
  <2>4. \A c \in Clients : pollAge'[c] \in 0 .. RenewDeadline + 2 * CallTime
    BY <2>1 DEF PollEnds
  <2>5. TypeOK'
    BY <2>1, <2>2, <2>4
  <2>6. Unwritten' /\ SeenAfterWritten'
    BY DEF Unwritten, SeenAfterWritten
  <2>7. LeaderHolds' /\ WinnerHolds' /\ TakersWaited'
    BY <2>2 DEF LeaderHolds, WinnerHolds, TakersWaited
  <2>8. QED
    BY <2>3, <2>5, <2>6, <2>7
<1>2. ASSUME NEW c \in Clients, TryOnTick(c) PROVE IInv'
  BY <1>2 DEF TryOnTick, object, loop, Unwritten, SeenAfterWritten,
          LeaderHolds, PollEnds, WinnerHolds, TakersWaited
<1>3. ASSUME NEW c \in Clients, TryLast(c) PROVE IInv'
  BY <1>3 DEF TryLast, TimedOut, object, Unwritten, SeenAfterWritten,
          LeaderHolds, PollEnds, WinnerHolds, TakersWaited
<1>4. ASSUME NEW c \in Clients, GetFails(c) \/ GetNotFound(c) PROVE IInv'
  BY <1>4 DEF GetFails, GetNotFound, object, loop, Unwritten, SeenAfterWritten,
          LeaderHolds, PollEnds, WinnerHolds, TakersWaited
<1>5. ASSUME NEW c \in Clients, GetFound(c) PROVE IInv'
  BY <1>5 DEF GetFound, Held, object, loop, Unwritten, SeenAfterWritten,
          LeaderHolds, PollEnds, WinnerHolds, TakersWaited
<1>6. ASSUME NEW c \in Clients, Create(c) \/ Update(c) PROVE IInv'
  <2>1. CASE UNCHANGED <<object, fresh, seen>> /\ Goto(c, "lost")
    BY <1>6, <2>1 DEF Create, Update, Try, object, loop, Unwritten, SeenAfterWritten,
          LeaderHolds, PollEnds, WinnerHolds, TakersWaited
  <2>2. CASE Write(c) /\ MayWrite(c)
    <3>1. \A d \in Clients : d # c => role[d] # "leading" /\ pc[d] # "won"
      BY <2>2, WriteIsSafe
    <3>2. pc' = [pc EXCEPT ![c] = "won"] \/ pc' = [pc EXCEPT ![c] = "lost"]
      BY <1>6 DEF Create, Update, Try
    <3>3. UNCHANGED <<attemptAge, observedAge, loop>> /\ failures' \in 0 .. MaxFailures
      BY <1>6 DEF Create, Update, Try
    <3>4. TypeOK'
      BY <2>2, <3>2, <3>3 DEF Write, loop
    <3>5. Unwritten' /\ SeenAfterWritten' /\ TakersWaited'
      BY <2>2 DEF Write, Unwritten, SeenAfterWritten, TakersWaited
    <3>6. LeaderHolds' /\ WinnerHolds'
      BY <2>2, <3>1, <3>2, <3>3 DEF Write, loop, LeaderHolds, WinnerHolds
    <3>7. PollEnds'
      BY <2>2, <3>2, <3>3 DEF MayWrite, loop, PollEnds
    <3>8. QED
      BY <3>4, <3>5, <3>6, <3>7
  <2>3. \/ UNCHANGED <<object, fresh, seen>> /\ Goto(c, "lost")
        \/ Write(c) /\ MayWrite(c)
    <3> HIDE DEF IInv, TypeOK, Goto, Fail
    <3>1. CASE Create(c)
      BY <3>1 DEF Create, Try, MayWrite
    <3>2. CASE Update(c)
      BY <3>2 DEF Update, Try, MayWrite
    <3>3. QED
      BY <1>6, <3>1, <3>2
  <2>4. QED
    BY <2>1, <2>2, <2>3
<1>7. ASSUME NEW c \in Clients, Won(c) PROVE IInv'
  BY <1>7 DEF Won, object, Unwritten, SeenAfterWritten,
          LeaderHolds, PollEnds, WinnerHolds, TakersWaited
<1>8. ASSUME NEW c \in Clients, LostAcquiring(c) PROVE IInv'
  BY <1>8 DEF LostAcquiring, object, Unwritten, SeenAfterWritten,
          LeaderHolds, PollEnds, WinnerHolds, TakersWaited
<1>9. ASSUME NEW c \in Clients, LostPolling(c) PROVE IInv'
  BY <1>9 DEF LostPolling, object, Unwritten, SeenAfterWritten,
          LeaderHolds, PollEnds, WinnerHolds, TakersWaited
<1>10. ASSUME NEW c \in Clients, LostLast(c) PROVE IInv'
  BY <1>10 DEF LostLast, object, Unwritten, SeenAfterWritten,
          LeaderHolds, PollEnds, WinnerHolds, TakersWaited
<1>11. ASSUME NEW c \in Clients, Start(c), failures' \in 0 .. MaxFailures PROVE IInv'
  <2>1. /\ seen'[c] => holder = None
        /\ \A d \in Clients \ {c} : seen'[d] = seen[d]
    BY <1>11 DEF Start
  <2>2. seen' \in [Clients -> BOOLEAN]
    BY <1>11 DEF Start
  <2>3. SeenAfterWritten'
    BY <1>11, <2>1 DEF Start, object, Unwritten, SeenAfterWritten
  <2>4. TypeOK'
    BY <1>11, <2>2 DEF Start, object
  <2>5. Unwritten' /\ LeaderHolds' /\ PollEnds' /\ WinnerHolds' /\ TakersWaited'
    BY <1>11 DEF Start, object, Unwritten, LeaderHolds, PollEnds, WinnerHolds,
          TakersWaited
  <2>6. QED
    BY <2>3, <2>4, <2>5
<1>12. CASE UNCHANGED vars
  BY <1>12 DEF vars, Unwritten, SeenAfterWritten, LeaderHolds, PollEnds, WinnerHolds,
        TakersWaited
<1>13. QED
  BY <1>1, <1>2, <1>3, <1>4, <1>5, <1>6, <1>7, <1>8, <1>9, <1>10, <1>11, <1>12
     DEF Next, Step, StartAgain, Crash

-----------------------------------------------------------------------------
\* The invariant holds of every behaviour.
THEOREM Invariance == Spec => []IInv
BY InitInvariant, Inductive, PTL DEF Spec

\* The variables keep their types.
THEOREM TypeCorrect == Spec => []TypeOK
<1>1. IInv => TypeOK
  BY DEF IInv
<1>2. QED
  BY <1>1, Invariance, PTL

(***************************************************************************)
(* No two clients ever lead at once, for any number of clients and any     *)
(* durations NewLeaderElector accepts that leave the lease three tries     *)
(* longer than the deadline (acquire, renew, tryAcquireOrRenew).           *)
(***************************************************************************)
THEOREM OneLeader == Spec => []AtMostOneLeader
<1>1. IInv => AtMostOneLeader
  BY DEF IInv, LeaderHolds, AtMostOneLeader
<1>2. QED
  BY <1>1, Invariance, PTL
=============================================================================
