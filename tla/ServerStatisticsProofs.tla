----------------------- MODULE ServerStatisticsProofs -----------------------
(***************************************************************************)
(* Theorems about ServerStatistics for any number of callers and timers    *)
(* and any thresholds.                                                     *)
(***************************************************************************)
EXTENDS ServerStatistics, TLAPS

\* Well-formedness of the state: every atomic step of Failure, Success,
\* MarkServerAlive, the backoff timer and a restart keeps the type invariant.
THEOREM TypeCorrect == Spec => []TypeOK
<1>1. Init => TypeOK
  <2>1. "idle" \in Points
    BY DEF Points
  <2> SUFFICES ASSUME Init PROVE TypeOK
    OBVIOUS
  <2>2. pc \in [Callers -> Points] /\ count \in [Callers -> Nat]
    BY <2>1 DEF Init
  <2>3. op \in [Callers -> Methods \cup {"none"}]
    BY DEF Init
  <2>4. timer \in [Timers -> {"free", "armed", "fired", "notifying"}]
    BY DEF Init
  <2> QED
    BY <2>2, <2>3, <2>4 DEF Init, TypeOK
<1>2. TypeOK /\ [Next]_vars => TypeOK'
  <2> SUFFICES ASSUME TypeOK, [Next]_vars PROVE TypeOK'
    OBVIOUS
  <2> USE MethodsAssumption, ThresholdAssumption, OutcomeAssumption
  <2> USE DEF TypeOK, Points, FailurePoints, OpeningBackoff, SuccessPoints, AlivePoints
  <2>1. ASSUME NEW c \in Callers, Call(c) PROVE TypeOK'
    BY <2>1 DEF Call, Goto, Entry, flags, db, timers
  <2>2. ASSUME NEW c \in Callers, Failure(c) PROVE TypeOK'
    <3>1. CASE FailureCheck(c)
      BY <3>1 DEF FailureCheck, Return, Move, Goto, flags, db, timers
    <3>2. CASE FailureCAS(c)
      BY <3>2 DEF FailureCAS, Move, Goto, db, timers
    <3>3. CASE FailureCount(c)
      BY <3>3 DEF FailureCount, AfterOffline, Goto, db, timers
    <3>4. CASE FailureOffline(c)
      BY <3>4 DEF FailureOffline, Move, Goto, db, timers
    <3>5. CASE FailureDBOffline(c)
      BY <3>5 DEF FailureDBOffline, AfterOffline, Move, Goto, flags, timers
    <3>6. CASE FailureBlacklist(c)
      BY <3>6 DEF FailureBlacklist, Move, Goto, db, timers
    <3>7. CASE FailureDBBlacklist(c)
      BY <3>7 DEF FailureDBBlacklist, Move, Goto, flags, timers
    <3>8. CASE FailureClear(c)
      BY <3>8 DEF FailureClear, ClearBackoff, Return, Goto, db
    <3>9. CASE FailureUntil(c)
      BY <3>9 DEF FailureUntil, Move, Goto, db, timers
    <3>10. CASE FailureArm(c)
      BY <3>10 DEF FailureArm, Move, Goto, flags, db
    <3>11. CASE FailureRead(c)
      BY <3>11 DEF FailureRead, Return, Move, Goto, flags, db, timers
    <3> QED
      BY <2>2, <3>1, <3>2, <3>3, <3>4, <3>5, <3>6, <3>7, <3>8, <3>9, <3>10, <3>11 DEF Failure
  <2>3. ASSUME NEW c \in Callers, Success(c) PROVE TypeOK'
    <3>1. CASE CancelUnblacklist(c)
      BY <3>1 DEF CancelUnblacklist, Move, Goto, db, timers
    <3>2. CASE CancelUntil(c)
      BY <3>2 DEF CancelUntil, Move, Goto, db, timers
    <3>3. CASE CancelClear(c)
      BY <3>3 DEF CancelClear, ClearBackoff, Move, Goto, db
    <3>4. CASE ResetCount(c)
      <4>1. CASE op[c] = "direct"
        BY <3>4, <4>1 DEF ResetCount, Move, Goto, db, timers
      <4>2. CASE op[c] # "direct"
        BY <3>4, <4>2 DEF ResetCount, Return, Goto, db, timers
      <4> QED
        BY <4>1, <4>2
    <3>5. CASE SuccessCheckBlacklist(c)
      BY <3>5 DEF SuccessCheckBlacklist, Move, Goto, flags, db, timers
    <3>6. CASE SuccessDBUnblacklist(c)
      BY <3>6 DEF SuccessDBUnblacklist, Move, Goto, flags, timers
    <3>7. CASE OnlineCheck(c)
      BY <3>7 DEF OnlineCheck, Move, Goto, flags, db, timers
    <3>8. CASE OnlineDB(c)
      BY <3>8 DEF OnlineDB, Move, Goto, flags, timers
    <3>9. CASE OnlineStore(c)
      <4>1. CASE op[c] = "direct"
        <5>1. /\ pc' = [pc EXCEPT ![c] = "idle"]
              /\ op' = [op EXCEPT ![c] = "none"]
              /\ count' = [count EXCEPT ![c] = 0]
          BY <3>9, <4>1 DEF OnlineStore, Return, Goto
        <5> QED
          BY <3>9, <5>1 DEF OnlineStore, db, timers
      <4>2. CASE op[c] # "direct"
        <5>1. pc' = [pc EXCEPT ![c] = "a_checkBlacklist"] /\ UNCHANGED <<op, count>>
          BY <3>9, <4>2 DEF OnlineStore, Move, Goto
        <5> QED
          BY <3>9, <5>1 DEF OnlineStore, db, timers
      <4> QED
        BY <4>1, <4>2
    <3>10. CASE AliveCheckBlacklist(c)
      BY <3>10 DEF AliveCheckBlacklist, Move, Goto, flags, db, timers
    <3>11. CASE AliveDBUnblacklist(c)
      BY <3>11 DEF AliveDBUnblacklist, Move, Goto, flags, timers
    <3> QED
      BY <2>3, <3>1, <3>2, <3>3, <3>4, <3>5, <3>6, <3>7, <3>8, <3>9, <3>10, <3>11 DEF Success
  <2>4. ASSUME NEW t \in Timers, TimerStep(t) PROVE TypeOK'
    <3>1. CASE TimerFires(t)
      BY <3>1 DEF TimerFires, flags, db, calls
    <3>2. CASE FinishedClear(t)
      BY <3>2 DEF FinishedClear, db, calls
    <3>3. CASE FinishedNotify(t)
      BY <3>3 DEF FinishedNotify, flags, db, calls
    <3> QED
      BY <2>4, <3>1, <3>2, <3>3 DEF TimerStep
  <2>5. CASE Restart
    BY <2>5 DEF Restart, db
  <2>6. CASE UNCHANGED vars
    BY <2>6 DEF vars, flags, db, timers, calls
  <2> QED
    BY <2>1, <2>2, <2>3, <2>4, <2>5, <2>6 DEF Next, CallerStep
<1> QED
  BY <1>1, <1>2, PTL DEF Spec

-----------------------------------------------------------------------------
\* What the steps of a call do to the backoff: they leave it alone, start it
\* with the caller inside the window, end it, or hand it to a timer.

\* The part of the state that decides who owns the backoff.
Owner == TrackedIsLive /\ BackoffHasOwner

\* A step of Failure keeps the backoff owned.
LEMMA FailureKeepsOwner ==
  ASSUME TypeOK, Owner, NEW c \in Callers, Failure(c) PROVE Owner'
<1> USE TimerAssumption
<1> USE DEF Owner, TrackedIsLive, BackoffHasOwner, OpeningBackoff, TypeOK
<1>1. CASE FailureCheck(c)
  BY <1>1 DEF FailureCheck, Return, Move, Goto, flags, timers
<1>2. CASE FailureCAS(c)
  BY <1>2 DEF FailureCAS, Move, Goto, timers
<1>3. CASE FailureCount(c)
  BY <1>3 DEF FailureCount, AfterOffline, Goto, timers
<1>4. CASE FailureOffline(c)
  BY <1>4 DEF FailureOffline, Move, Goto, timers
<1>5. CASE FailureDBOffline(c)
  BY <1>5 DEF FailureDBOffline, AfterOffline, Move, Goto, flags, timers
<1>6. CASE FailureBlacklist(c)
  BY <1>6 DEF FailureBlacklist, Move, Goto, timers
<1>7. CASE FailureDBBlacklist(c)
  BY <1>7 DEF FailureDBBlacklist, Move, Goto, flags, timers
<1>8. CASE FailureClear(c)
  BY <1>8 DEF FailureClear, ClearBackoff, Return, Goto
<1>9. CASE FailureUntil(c)
  BY <1>9 DEF FailureUntil, Move, Goto, timers
<1>10. CASE FailureArm(c)
  BY <1>10 DEF FailureArm, Move, Goto, flags
<1>11. CASE FailureRead(c)
  BY <1>11 DEF FailureRead, Return, Move, Goto, flags, timers
<1> QED
  BY <1>1, <1>2, <1>3, <1>4, <1>5, <1>6, <1>7, <1>8, <1>9, <1>10, <1>11 DEF Failure

\* A step of Success or MarkServerAlive starts outside the window of Failure and
\* either leaves the backoff alone or ends it.
LEMMA SuccessKeepsOwner ==
  ASSUME TypeOK, Owner, NEW c \in Callers, Success(c) PROVE Owner'
<1> USE TimerAssumption
<1> USE DEF Owner, TrackedIsLive, BackoffHasOwner, OpeningBackoff, TypeOK
<1>1. CASE CancelUnblacklist(c)
  BY <1>1 DEF CancelUnblacklist, Move, Goto, timers
<1>2. CASE CancelUntil(c)
  BY <1>2 DEF CancelUntil, Move, Goto, timers
<1>3. CASE CancelClear(c)
  BY <1>3 DEF CancelClear, ClearBackoff, Move, Goto
<1>4. CASE ResetCount(c)
  BY <1>4 DEF ResetCount, Return, Move, Goto, timers
<1>5. CASE SuccessCheckBlacklist(c)
  BY <1>5 DEF SuccessCheckBlacklist, Move, Goto, flags, timers
<1>6. CASE SuccessDBUnblacklist(c)
  BY <1>6 DEF SuccessDBUnblacklist, Move, Goto, flags, timers
<1>7. CASE OnlineCheck(c)
  BY <1>7 DEF OnlineCheck, Move, Goto, flags, timers
<1>8. CASE OnlineDB(c)
  BY <1>8 DEF OnlineDB, Move, Goto, flags, timers
<1>9. CASE OnlineStore(c)
  BY <1>9 DEF OnlineStore, Return, Move, Goto, timers
<1>10. CASE AliveCheckBlacklist(c)
  BY <1>10 DEF AliveCheckBlacklist, Move, Goto, flags, timers
<1>11. CASE AliveDBUnblacklist(c)
  BY <1>11 DEF AliveDBUnblacklist, Move, Goto, flags, timers
<1> QED
  BY <1>1, <1>2, <1>3, <1>4, <1>5, <1>6, <1>7, <1>8, <1>9, <1>10, <1>11 DEF Success

\* The owner of the backoff is kept by every step of the calls, the timers and a
\* restart.
THEOREM OwnerKept == Spec => []Owner
<1>1. Init => Owner
  BY TimerAssumption DEF Init, Owner, TrackedIsLive, BackoffHasOwner
<1>2. TypeOK /\ Owner /\ [Next]_vars => Owner'
  <2> SUFFICES ASSUME TypeOK, Owner, [Next]_vars PROVE Owner'
    OBVIOUS
  <2> USE TimerAssumption
  <2>1. ASSUME NEW c \in Callers, Call(c) PROVE Owner'
    BY <2>1 DEF Call, Goto, Owner, TrackedIsLive, BackoffHasOwner, OpeningBackoff,
                TypeOK, flags, timers
  <2>2. ASSUME NEW c \in Callers, CallerStep(c) PROVE Owner'
    BY <2>2, FailureKeepsOwner, SuccessKeepsOwner DEF CallerStep
  <2>3. ASSUME NEW t \in Timers, TimerStep(t) PROVE Owner'
    BY <2>3 DEF TimerStep, TimerFires, FinishedClear, FinishedNotify, Owner, TrackedIsLive,
                BackoffHasOwner, OpeningBackoff, TypeOK, flags, calls
  <2>4. CASE Restart
    BY <2>4 DEF Restart, Owner, TrackedIsLive, BackoffHasOwner
  <2>5. CASE UNCHANGED vars
    BY <2>5 DEF vars, flags, timers, calls, Owner, TrackedIsLive, BackoffHasOwner
  <2> QED
    BY <2>1, <2>2, <2>3, <2>4, <2>5 DEF Next
<1> QED
  BY <1>1, <1>2, TypeCorrect, PTL DEF Spec

\* A server is never left backing off with nobody to end it, whatever the
\* interleaving of the calls, the timers, database errors and restarts.
THEOREM BackoffOwned == Spec => []BackoffHasOwner
<1>1. Owner => BackoffHasOwner
  BY DEF Owner
<1> QED
  BY <1>1, OwnerKept, PTL

\* The timer in backoffTimers is one that will still end the backoff: ClearBackoff
\* and backoffFinished never leave a stopped or finished timer behind, whatever
\* timer a later Failure has put over it.
THEOREM TrackedTimerLives == Spec => []TrackedIsLive
<1>1. Owner => TrackedIsLive
  BY DEF Owner
<1> QED
  BY <1>1, OwnerKept, PTL

-----------------------------------------------------------------------------
\* With a database that does not fail, a server assumed offline in memory has its
\* row, or a call is about to write the row or to clear the flag.
THEOREM OfflineIsDurable ==
  ASSUME DBOutcomes = {TRUE} PROVE Spec => []OfflineDurable
<1>1. Init => OfflineDurable
  BY DEF Init, OfflineDurable
<1>2. TypeOK /\ OfflineDurable /\ [Next]_vars => OfflineDurable'
  <2> SUFFICES ASSUME TypeOK, OfflineDurable, [Next]_vars PROVE OfflineDurable'
    OBVIOUS
  <2> USE DBOutcomes = {TRUE}
  <2> USE DEF OfflineDurable, TypeOK, Move, Goto
  <2>1. ASSUME NEW c \in Callers, Call(c) PROVE OfflineDurable'
    BY <2>1 DEF Call, Entry, flags, db
  <2>2. ASSUME NEW c \in Callers, Failure(c) PROVE OfflineDurable'
    <3>1. CASE FailureDBOffline(c)
      BY <3>1 DEF FailureDBOffline
    <3>2. CASE FailureOffline(c)
      BY <3>2 DEF FailureOffline
    <3>3. CASE FailureCheck(c) \/ FailureCAS(c) \/ FailureRead(c) \/ FailureArm(c)
      BY <3>3 DEF FailureCheck, FailureCAS, FailureRead, FailureArm, Return, flags, db
    <3>4. CASE FailureCount(c)
      BY <3>4 DEF FailureCount, AfterOffline, db
    <3>5. CASE FailureBlacklist(c) \/ FailureDBBlacklist(c) \/ FailureUntil(c)
      BY <3>5 DEF FailureBlacklist, FailureDBBlacklist, FailureUntil, flags, db
    <3>6. CASE FailureClear(c)
      BY <3>6 DEF FailureClear, ClearBackoff, Return, db
    <3> QED
      BY <2>2, <3>1, <3>2, <3>3, <3>4, <3>5, <3>6 DEF Failure
  <2>3. ASSUME NEW c \in Callers, Success(c) PROVE OfflineDurable'
    <3>1. CASE OnlineCheck(c) \/ OnlineDB(c) \/ OnlineStore(c)
      BY <3>1 DEF OnlineCheck, OnlineDB, OnlineStore, Return, flags, db
    <3>2. CASE CancelUnblacklist(c) \/ CancelUntil(c) \/ CancelClear(c)
      BY <3>2 DEF CancelUnblacklist, CancelUntil, CancelClear, ClearBackoff, db
    <3>3. CASE ResetCount(c) \/ SuccessCheckBlacklist(c) \/ SuccessDBUnblacklist(c)
      BY <3>3 DEF ResetCount, SuccessCheckBlacklist, SuccessDBUnblacklist, Return, flags, db
    <3>4. CASE AliveCheckBlacklist(c) \/ AliveDBUnblacklist(c)
      BY <3>4 DEF AliveCheckBlacklist, AliveDBUnblacklist, flags, db
    <3> QED
      BY <2>3, <3>1, <3>2, <3>3, <3>4 DEF Success
  <2>4. ASSUME NEW t \in Timers, TimerStep(t) PROVE OfflineDurable'
    BY <2>4 DEF TimerStep, TimerFires, FinishedClear, FinishedNotify, flags, db, calls
  <2>5. CASE Restart
    BY <2>5 DEF Restart, db
  <2>6. CASE UNCHANGED vars
    BY <2>6 DEF vars, flags, db, calls
  <2> QED
    BY <2>1, <2>2, <2>3, <2>4, <2>5, <2>6 DEF Next, CallerStep
<1> QED
  BY <1>1, <1>2, TypeCorrect, PTL DEF Spec

-----------------------------------------------------------------------------
\* Only a direct Success reaches the code after its own counter reset.
DirectOnly ==
  \A c \in Callers : pc[c] \in {"s_checkBlacklist", "s_dbUnblacklist"} => op[c] = "direct"

\* With a database that does not fail and no direct Success, a server blacklisted in
\* memory has its row, or a call is about to write the row or to clear the flag.
THEOREM BlacklistIsDurable ==
  ASSUME DBOutcomes = {TRUE}, "direct" \notin Methods
  PROVE  Spec => []BlacklistDurable
<1> DEFINE Inv == BlacklistDurable /\ DirectOnly
<1>1. Init => Inv
  BY DEF Init, BlacklistDurable, DirectOnly
<1>2. TypeOK /\ Inv /\ [Next]_vars => Inv'
  <2> SUFFICES ASSUME TypeOK, Inv, [Next]_vars PROVE Inv'
    OBVIOUS
  <2> USE DBOutcomes = {TRUE}, "direct" \notin Methods
  <2> USE DEF BlacklistDurable, DirectOnly, TypeOK, Move, Goto
  <2>1. ASSUME NEW c \in Callers, Call(c) PROVE Inv'
    BY <2>1 DEF Call, Entry, flags, db
  <2>2. ASSUME NEW c \in Callers, Failure(c) PROVE Inv'
    <3>1. CASE FailureDBBlacklist(c)
      BY <3>1 DEF FailureDBBlacklist, flags
    <3>2. CASE FailureBlacklist(c)
      BY <3>2 DEF FailureBlacklist
    <3>3. CASE FailureCheck(c) \/ FailureCAS(c) \/ FailureRead(c) \/ FailureArm(c)
      BY <3>3 DEF FailureCheck, FailureCAS, FailureRead, FailureArm, Return, flags, db
    <3>4. CASE FailureCount(c)
      BY <3>4 DEF FailureCount, AfterOffline, db
    <3>5. CASE FailureOffline(c) \/ FailureDBOffline(c) \/ FailureUntil(c)
      BY <3>5 DEF FailureOffline, FailureDBOffline, FailureUntil, AfterOffline, flags, db
    <3>6. CASE FailureClear(c)
      BY <3>6 DEF FailureClear, ClearBackoff, Return, db
    <3> QED
      BY <2>2, <3>1, <3>2, <3>3, <3>4, <3>5, <3>6 DEF Failure
  <2>3. ASSUME NEW c \in Callers, Success(c) PROVE Inv'
    <3>1. CASE OnlineCheck(c) \/ OnlineDB(c) \/ OnlineStore(c)
      BY <3>1 DEF OnlineCheck, OnlineDB, OnlineStore, Return, flags, db
    <3>2. CASE CancelUnblacklist(c) \/ CancelUntil(c) \/ CancelClear(c)
      BY <3>2 DEF CancelUnblacklist, CancelUntil, CancelClear, ClearBackoff, db
    <3>3. CASE ResetCount(c)
      BY <3>3 DEF ResetCount, Return, db
    <3>4. CASE SuccessCheckBlacklist(c) \/ SuccessDBUnblacklist(c)
      BY <3>4 DEF SuccessCheckBlacklist, SuccessDBUnblacklist
    <3>5. CASE AliveCheckBlacklist(c) \/ AliveDBUnblacklist(c)
      BY <3>5 DEF AliveCheckBlacklist, AliveDBUnblacklist, flags, db
    <3> QED
      BY <2>3, <3>1, <3>2, <3>3, <3>4, <3>5 DEF Success
  <2>4. ASSUME NEW t \in Timers, TimerStep(t) PROVE Inv'
    BY <2>4 DEF TimerStep, TimerFires, FinishedClear, FinishedNotify, flags, db, calls
  <2>5. CASE Restart
    BY <2>5 DEF Restart, db
  <2>6. CASE UNCHANGED vars
    BY <2>6 DEF vars, flags, db, calls
  <2> QED
    BY <2>1, <2>2, <2>3, <2>4, <2>5, <2>6 DEF Next, CallerStep
<1>3. Inv => BlacklistDurable
  OBVIOUS
<1> QED
  BY <1>1, <1>2, <1>3, TypeCorrect, PTL DEF Spec

\* Under the same conditions a server that was blacklisted while no call was in progress
\* is still blacklisted after a crash and a restart: nobody is left who could have been
\* about to write the row, so it is there for ForServer() to read.
THEOREM BlacklistOutlivesRestart ==
  ASSUME DBOutcomes = {TRUE}, "direct" \notin Methods
  PROVE  Spec => BlacklistSurvivesRestart
<1>1. BlacklistDurable => [Restart /\ blacklisted /\ (\A c \in Callers : pc[c] = "idle")
                             => blacklisted']_vars
  BY DBOutcomes = {TRUE} DEF Restart, BlacklistDurable
<1> QED
  BY <1>1, BlacklistIsDurable, PTL DEF BlacklistSurvivesRestart

=============================================================================
