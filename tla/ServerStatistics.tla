-------------------------- MODULE ServerStatistics --------------------------
(***************************************************************************)
(* The failure statistics that Dendrite keeps for ONE remote server        *)
(* (federationapi/statistics/statistics.go), at the granularity of its     *)
(* atomic operations, critical sections and database calls.                *)
(*                                                                         *)
(* The object is shared by every goroutine that talks to the server: the   *)
(* destination queue's worker, the federation API's request helpers, the   *)
(* handlers that mark a server alive, and the timer that ends a backoff.   *)
(* Nothing but the atomics and backoffMutex orders them, so a caller is a  *)
(* program counter and every step below is one atomic effect.              *)
(***************************************************************************)
EXTENDS Integers, FiniteSets

CONSTANTS
    Callers,                     \* goroutines that use the statistics
    Timers,                      \* identities of time.AfterFunc timers (a bound)
    NoTimer,                     \* no entry in backoffTimers
    Methods,                     \* which of the operations below are called
    FailuresUntilAssumedOffline,
    FailuresUntilBlacklist,
    DBOutcomes                   \* {TRUE}: the database never fails

ASSUME MethodsAssumption == Methods \subseteq {"failure", "direct", "relay", "alive"}
ASSUME ThresholdAssumption ==
    /\ FailuresUntilAssumedOffline \in Nat
    /\ FailuresUntilBlacklist \in Nat
ASSUME OutcomeAssumption == DBOutcomes \subseteq BOOLEAN
ASSUME TimerAssumption == NoTimer \notin Timers

VARIABLES
    blacklisted, assumedOffline, backoffStarted, backoffUntil, backoffCount,
    dbBlacklist, dbOffline,      \* the server's rows in the database
    tracked,                     \* backoffTimers[serverName]
    timer,                       \* what each timer is doing
    pc, op, count                \* per caller: next step, operation, local backoffCount

flags  == <<blacklisted, assumedOffline, backoffStarted, backoffUntil, backoffCount>>
db     == <<dbBlacklist, dbOffline>>
timers == <<tracked, timer>>
calls  == <<pc, op, count>>
vars   == <<flags, db, timers, calls>>

-----------------------------------------------------------------------------
(* Program points.                                                         *)

\* Inside Failure(), between winning the CompareAndSwap and arming the timer.
OpeningBackoff == {"f_count", "f_offline", "f_dbOffline", "f_blacklist",
                   "f_dbBlacklist", "f_clear", "f_until", "f_arm"}
FailurePoints  == {"f_check", "f_cas", "f_read"} \cup OpeningBackoff
SuccessPoints  == {"s_unblacklist", "s_resetUntil", "s_clear", "s_resetCount",
                   "s_checkBlacklist", "s_dbUnblacklist",
                   "s_checkOffline", "s_dbOnline", "s_online"}
AlivePoints    == {"a_checkBlacklist", "a_dbUnblacklist"}
Points         == {"idle", "panicked"} \cup FailurePoints \cup SuccessPoints \cup AlivePoints

Goto(c, from, to) == pc[c] = from /\ pc' = [pc EXCEPT ![c] = to]

\* A call returns.
Return(c, from) ==
    /\ Goto(c, from, "idle")
    /\ op' = [op EXCEPT ![c] = "none"]
    /\ count' = [count EXCEPT ![c] = 0]

\* A step whose only effect on the caller is to move it on.
Move(c, from, to) == Goto(c, from, to) /\ UNCHANGED <<op, count>>

-----------------------------------------------------------------------------
(* Failure()                                                               *)

FailureCheck(c) ==                              \* if s.blacklisted.Load()
    /\ IF blacklisted THEN Return(c, "f_check") ELSE Move(c, "f_check", "f_cas")
    /\ UNCHANGED <<flags, db, timers>>

FailureCAS(c) ==                                \* backoffStarted.CompareAndSwap
    /\ Move(c, "f_cas", IF backoffStarted THEN "f_read" ELSE "f_count")
    /\ backoffStarted' = TRUE
    /\ UNCHANGED <<blacklisted, assumedOffline, backoffUntil, backoffCount, db, timers>>

AfterOffline(n) == IF n >= FailuresUntilBlacklist THEN "f_blacklist" ELSE "f_until"

FailureCount(c) ==                              \* backoffCount.Add(1)
    /\ backoffCount' = backoffCount + 1
    /\ count' = [count EXCEPT ![c] = backoffCount + 1]
    /\ Goto(c, "f_count",
            IF backoffCount + 1 >= FailuresUntilAssumedOffline
            THEN "f_offline" ELSE AfterOffline(backoffCount + 1))
    /\ UNCHANGED <<op, blacklisted, assumedOffline, backoffStarted, backoffUntil, db, timers>>

FailureOffline(c) ==                            \* assumedOffline.CompareAndSwap
    /\ Move(c, "f_offline", "f_dbOffline")
    /\ assumedOffline' = TRUE
    /\ UNCHANGED <<blacklisted, backoffStarted, backoffUntil, backoffCount, db, timers>>

FailureDBOffline(c) ==                          \* SetServerAssumedOffline
    /\ Move(c, "f_dbOffline", AfterOffline(count[c]))
    /\ \E ok \in DBOutcomes : dbOffline' = (dbOffline \/ ok)
    /\ UNCHANGED <<flags, dbBlacklist, timers>>

\* Mutant: the flag is set and the row never written.
FailureBlacklist_NoRow(c) ==
    /\ Move(c, "f_blacklist", "f_clear")
    /\ blacklisted' = TRUE
    /\ UNCHANGED <<assumedOffline, backoffStarted, backoffUntil, backoffCount, db, timers>>

FailureBlacklist(c) ==                          \* blacklisted.Store(true)
    /\ Move(c, "f_blacklist", "f_dbBlacklist")
    /\ blacklisted' = TRUE
    /\ UNCHANGED <<assumedOffline, backoffStarted, backoffUntil, backoffCount, db, timers>>

FailureDBBlacklist(c) ==                        \* AddServerToBlacklist
    /\ Move(c, "f_dbBlacklist", "f_clear")
    /\ \E ok \in DBOutcomes : dbBlacklist' = (dbBlacklist \/ ok)
    /\ UNCHANGED <<flags, dbOffline, timers>>

\* ClearBackoff(): under backoffMutex the tracked timer is stopped (if it has not
\* fired yet), its entry deleted and backoffStarted reset.
ClearBackoff ==
    /\ tracked' = NoTimer
    /\ timer' = [t \in Timers |->
                    IF t = tracked /\ timer[t] = "armed" THEN "free" ELSE timer[t]]
    /\ backoffStarted' = FALSE
    /\ UNCHANGED <<blacklisted, assumedOffline, backoffUntil, backoffCount>>

\* Mutant: giving up on a server without ClearBackoff.
FailureClear_NoClear(c) == Return(c, "f_clear") /\ UNCHANGED <<flags, db, timers>>

FailureClear(c) ==                              \* give up: blacklisted
    /\ Return(c, "f_clear")
    /\ ClearBackoff
    /\ UNCHANGED db

FailureUntil(c) ==                              \* backoffUntil.Store(until)
    /\ Move(c, "f_until", "f_arm")
    /\ backoffUntil' = "until"
    /\ UNCHANGED <<blacklisted, assumedOffline, backoffStarted, backoffCount, db, timers>>

\* backoffTimers[serverName] = time.AfterFunc(...): the entry is overwritten, and a
\* timer that was there keeps running untracked.
FailureArm(c) ==
    /\ Move(c, "f_arm", "f_read")
    /\ \E t \in Timers :
          /\ timer[t] = "free"
          /\ timer' = [timer EXCEPT ![t] = "armed"]
          /\ tracked' = t
    /\ UNCHANGED <<flags, db>>

\* return s.backoffUntil.Load().(time.Time): the assertion panics on a nil value.
FailureRead(c) ==
    /\ IF backoffUntil = "nil" THEN Move(c, "f_read", "panicked") ELSE Return(c, "f_read")
    /\ UNCHANGED <<flags, db, timers>>

Failure(c) ==
    \/ FailureCheck(c) \/ FailureCAS(c) \/ FailureCount(c) \/ FailureOffline(c)
    \/ FailureDBOffline(c) \/ FailureBlacklist(c) \/ FailureDBBlacklist(c)
    \/ FailureClear(c) \/ FailureUntil(c) \/ FailureArm(c) \/ FailureRead(c)

-----------------------------------------------------------------------------
(* Success(), MarkServerAlive() and their helpers.                         *)

\* cancel(): three separate effects.
CancelUnblacklist(c) ==
    /\ Move(c, "s_unblacklist", "s_resetUntil")
    /\ blacklisted' = FALSE
    /\ UNCHANGED <<assumedOffline, backoffStarted, backoffUntil, backoffCount, db, timers>>

CancelUntil(c) ==                               \* backoffUntil.Store(time.Time{})
    /\ Move(c, "s_resetUntil", "s_clear")
    /\ backoffUntil' = "zero"
    /\ UNCHANGED <<blacklisted, assumedOffline, backoffStarted, backoffCount, db, timers>>

CancelClear(c) ==
    /\ Move(c, "s_clear", "s_resetCount")
    /\ ClearBackoff
    /\ UNCHANGED db

\* Mutant: the counter is decremented, not reset.
ResetCount_Decrement(c) ==
    /\ IF op[c] = "direct"
       THEN Move(c, "s_resetCount", "s_checkBlacklist")
       ELSE Return(c, "s_resetCount")
    /\ backoffCount' = backoffCount - 1
    /\ UNCHANGED <<blacklisted, assumedOffline, backoffStarted, backoffUntil, db, timers>>

\* backoffCount.Store(0): the last step of Success(SendViaRelay) and of
\* MarkServerAlive(); a direct success goes on.
ResetCount(c) ==
    /\ IF op[c] = "direct"
       THEN Move(c, "s_resetCount", "s_checkBlacklist")
       ELSE Return(c, "s_resetCount")
    /\ backoffCount' = 0
    /\ UNCHANGED <<blacklisted, assumedOffline, backoffStarted, backoffUntil, db, timers>>

SuccessCheckBlacklist(c) ==                     \* s.blacklisted.Load(), after cancel()
    /\ Move(c, "s_checkBlacklist", IF blacklisted THEN "s_dbUnblacklist" ELSE "s_checkOffline")
    /\ UNCHANGED <<flags, db, timers>>

SuccessDBUnblacklist(c) ==                      \* RemoveServerFromBlacklist
    /\ Move(c, "s_dbUnblacklist", "s_checkOffline")
    /\ \E ok \in DBOutcomes : dbBlacklist' = (dbBlacklist /\ ~ok)
    /\ UNCHANGED <<flags, dbOffline, timers>>

\* removeAssumedOffline()
OnlineCheck(c) ==
    /\ Move(c, "s_checkOffline", IF assumedOffline THEN "s_dbOnline" ELSE "s_online")
    /\ UNCHANGED <<flags, db, timers>>

OnlineDB(c) ==                                  \* RemoveServerAssumedOffline
    /\ Move(c, "s_dbOnline", "s_online")
    /\ \E ok \in DBOutcomes : dbOffline' = (dbOffline /\ ~ok)
    /\ UNCHANGED <<flags, dbBlacklist, timers>>

\* Mutant: the row is removed and the flag left set.
OnlineStore_NoStore(c) ==
    /\ IF op[c] = "direct"
       THEN Return(c, "s_online")
       ELSE Move(c, "s_online", "a_checkBlacklist")
    /\ UNCHANGED <<flags, db, timers>>

OnlineStore(c) ==                               \* assumedOffline.Store(false)
    /\ IF op[c] = "direct"
       THEN Return(c, "s_online")
       ELSE Move(c, "s_online", "a_checkBlacklist")
    /\ assumedOffline' = FALSE
    /\ UNCHANGED <<blacklisted, backoffStarted, backoffUntil, backoffCount, db, timers>>

\* removeBlacklist(): the row goes first, then cancel() and the counter.
AliveCheckBlacklist(c) ==
    /\ Move(c, "a_checkBlacklist", IF blacklisted THEN "a_dbUnblacklist" ELSE "s_unblacklist")
    /\ UNCHANGED <<flags, db, timers>>

AliveDBUnblacklist(c) ==
    /\ Move(c, "a_dbUnblacklist", "s_unblacklist")
    /\ \E ok \in DBOutcomes : dbBlacklist' = (dbBlacklist /\ ~ok)
    /\ UNCHANGED <<flags, dbOffline, timers>>

Success(c) ==
    \/ CancelUnblacklist(c) \/ CancelUntil(c) \/ CancelClear(c) \/ ResetCount(c)
    \/ SuccessCheckBlacklist(c) \/ SuccessDBUnblacklist(c)
    \/ OnlineCheck(c) \/ OnlineDB(c) \/ OnlineStore(c)
    \/ AliveCheckBlacklist(c) \/ AliveDBUnblacklist(c)

-----------------------------------------------------------------------------
(* Calls, timers, restarts.                                                *)

Entry(m) == CASE m = "failure" -> "f_check"
              [] m = "alive"   -> "s_checkOffline"
              [] OTHER         -> "s_unblacklist"

Call(c) == \E m \in Methods :
    /\ Goto(c, "idle", Entry(m))
    /\ op' = [op EXCEPT ![c] = m]
    /\ UNCHANGED <<count, flags, db, timers>>

\* The runtime starts backoffFinished in a goroutine of its own.
TimerFires(t) ==
    /\ timer[t] = "armed"
    /\ timer' = [timer EXCEPT ![t] = "fired"]
    /\ UNCHANGED <<tracked, flags, db, calls>>

\* Mutants: the flag, or the map entry, is not cleared.
FinishedClear_NoFlag(t) ==
    /\ timer[t] = "fired"
    /\ tracked' = NoTimer
    /\ timer' = [timer EXCEPT ![t] = "notifying"]
    /\ UNCHANGED <<flags, db, calls>>
FinishedClear_NoDelete(t) ==
    /\ timer[t] = "fired"
    /\ timer' = [timer EXCEPT ![t] = "notifying"]
    /\ backoffStarted' = FALSE
    /\ UNCHANGED <<tracked, blacklisted, assumedOffline, backoffUntil, backoffCount, db, calls>>

\* backoffFinished(): ClearBackoff, then the notifier, with no lock across the two.
FinishedClear(t) ==
    /\ timer[t] = "fired"
    /\ tracked' = NoTimer
    /\ timer' = [u \in Timers |->
                    IF u = t THEN "notifying"
                    ELSE IF u = tracked /\ timer[u] = "armed" THEN "free" ELSE timer[u]]
    /\ backoffStarted' = FALSE
    /\ UNCHANGED <<blacklisted, assumedOffline, backoffUntil, backoffCount, db, calls>>

FinishedNotify(t) ==
    /\ timer[t] = "notifying"
    /\ timer' = [timer EXCEPT ![t] = "free"]
    /\ UNCHANGED <<tracked, flags, db, calls>>

\* Mutant: a fresh object that does not load its rows.
Restart_NoLoad ==
    /\ blacklisted' = FALSE
    /\ assumedOffline' = FALSE
    /\ backoffStarted' = FALSE
    /\ backoffUntil' = "nil"
    /\ backoffCount' = 0
    /\ tracked' = NoTimer
    /\ timer' = [t \in Timers |-> "free"]
    /\ pc' = [c \in Callers |-> "idle"]
    /\ op' = [c \in Callers |-> "none"]
    /\ count' = [c \in Callers |-> 0]
    /\ UNCHANGED db

\* The process dies; the next ForServer() makes a fresh object and loads both rows
\* (a row that cannot be read leaves the flag false).
Restart ==
    /\ \E ok \in DBOutcomes : blacklisted' = (dbBlacklist /\ ok)
    /\ \E ok \in DBOutcomes : assumedOffline' = (dbOffline /\ ok)
    /\ backoffStarted' = FALSE
    /\ backoffUntil' = "nil"
    /\ backoffCount' = 0
    /\ tracked' = NoTimer
    /\ timer' = [t \in Timers |-> "free"]
    /\ pc' = [c \in Callers |-> "idle"]
    /\ op' = [c \in Callers |-> "none"]
    /\ count' = [c \in Callers |-> 0]
    /\ UNCHANGED db

Init ==
    /\ blacklisted = FALSE /\ assumedOffline = FALSE
    /\ backoffStarted = FALSE /\ backoffUntil = "nil" /\ backoffCount = 0
    /\ dbBlacklist = FALSE /\ dbOffline = FALSE
    /\ tracked = NoTimer /\ timer = [t \in Timers |-> "free"]
    /\ pc = [c \in Callers |-> "idle"]
    /\ op = [c \in Callers |-> "none"]
    /\ count = [c \in Callers |-> 0]

CallerStep(c) == Failure(c) \/ Success(c)
TimerStep(t)  == TimerFires(t) \/ FinishedClear(t) \/ FinishedNotify(t)

Next ==
    \/ \E c \in Callers : Call(c) \/ CallerStep(c)
    \/ \E t \in Timers : TimerStep(t)
    \/ Restart

Spec == Init /\ [][Next]_vars

\* Goroutines that have started a call are scheduled, and timers fire and run.
Fairness ==
    /\ \A c \in Callers : WF_vars(CallerStep(c))
    /\ \A t \in Timers : WF_vars(TimerStep(t))

FairSpec == Spec /\ Fairness

-----------------------------------------------------------------------------
(* Properties.                                                             *)

\* Every field holds a value of its Go type, and a caller's program point belongs to
\* the operation it is running.
TypeOK ==
    /\ blacklisted \in BOOLEAN /\ assumedOffline \in BOOLEAN
    /\ backoffStarted \in BOOLEAN
    /\ backoffUntil \in {"nil", "zero", "until"}
    /\ backoffCount \in Nat
    /\ dbBlacklist \in BOOLEAN /\ dbOffline \in BOOLEAN
    /\ tracked \in Timers \cup {NoTimer}
    /\ timer \in [Timers -> {"free", "armed", "fired", "notifying"}]
    /\ pc \in [Callers -> Points]
    /\ op \in [Callers -> Methods \cup {"none"}]
    /\ count \in [Callers -> Nat]

\* The map never holds a timer that has already run: what ClearBackoff stops, or what
\* will itself call ClearBackoff, is exactly what the map names.
TrackedIsLive == tracked # NoTimer => timer[tracked] \in {"armed", "fired"}

\* A server is never left backing off with nobody to end it. While backoffStarted is
\* set, either the map holds a timer that will call backoffFinished, or a caller is
\* inside Failure() between its CompareAndSwap and its AfterFunc or ClearBackoff. This
\* must survive ClearBackoff calls of other goroutines at any point of that window.
BackoffHasOwner ==
    backoffStarted => \/ tracked # NoTimer
                      \/ \E c \in Callers : pc[c] \in OpeningBackoff

\* A server blacklisted in memory has its database row, unless a call that will write
\* the row, or that will clear the flag, is under way. (Not when a direct Success()
\* runs concurrently with Failure(): cancel() clears the flag before it is tested.)
BlacklistDurable ==
    blacklisted => \/ dbBlacklist
                   \/ \E c \in Callers : pc[c] \in {"f_dbBlacklist", "s_unblacklist"}

\* The same for the assumed-offline flag, which decides whether relays are used; here
\* removal reads the flag before it clears it, so it holds for every method.
OfflineDurable ==
    assumedOffline => \/ dbOffline
                      \/ \E c \in Callers : pc[c] \in {"f_dbOffline", "s_online"}

\* A server that was blacklisted while no call was in progress is still blacklisted
\* after a crash and a restart.
BlacklistSurvivesRestart ==
    [][Restart /\ blacklisted /\ (\A c \in Callers : pc[c] = "idle")
         => blacklisted']_vars

\* Every backoff ends: whatever the interleaving, a set backoffStarted is reset.
BackoffEnds == backoffStarted ~> ~backoffStarted

=============================================================================
