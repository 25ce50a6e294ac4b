------------------------------- MODULE OsTimer -------------------------------
(***************************************************************************)
(* The timer every part of the driver uses (wifi_drv_timer.c): a kernel    *)
(* timer, a lock word that the timer's handler and os_timer_ex_cancel take *)
(* with cmpxchg, and two flags that os_timer_ex_start, the handler and     *)
(* os_timer_ex_cancel read and write without it.  Every access to shared   *)
(* memory is a step.                                                       *)
(*                                                                         *)
(* The kernel runs the handler of one timer on one processor at a time,    *)
(* with the timer no longer pending, and del_timer does not wait for it.   *)
(***************************************************************************)
EXTENDS Integers

CONSTANTS
    Threads,    \* callers of os_timer_ex_start, _cancel and _del
    MaxCalls    \* bound: their calls in a behaviour

ASSUME MaxCallsAssumption == MaxCalls \in Nat

VARIABLES
    pending,        \* the kernel timer is armed
    timer_lock,     \* taken by the handler or by a cancel
    cancel_flag,
    active_flag,
    hpc,            \* where the handler is
    pc,             \* where each caller is
    calls,          \* calls made
    quiet,          \* history: a cancel has returned and no start came since
    raced,          \* history: a start has overlapped the handler or a call
    gaveUp          \* history: a cancel has stopped waiting for the lock

words     == <<pending, timer_lock, cancel_flag, active_flag>>
ghosts    == <<quiet, raced, gaveUp>>
ostVars   == <<words, hpc, pc, calls, ghosts>>

TimerTypeOK ==
    /\ {pending, cancel_flag, active_flag} \subseteq BOOLEAN
    /\ timer_lock \in {0, 1}
    /\ hpc \in {"idle", "entry", "check", "run", "rearm", "clear", "unlock"}
    /\ pc \in [Threads -> {"idle", "clearCancel", "arm", "setCancel",
                           "testActive", "acquire", "delete", "clearActive",
                           "release"}]
    /\ calls \in Nat
    /\ {quiet, raced, gaveUp} \subseteq BOOLEAN

\* os_timer_ex_initialize
TimerInit ==
    /\ pending = FALSE /\ timer_lock = 0
    /\ cancel_flag = FALSE /\ active_flag = FALSE
    /\ hpc = "idle" /\ pc = [t \in Threads |-> "idle"]
    /\ calls = 0
    /\ quiet = FALSE /\ raced = FALSE /\ gaveUp = FALSE

-----------------------------------------------------------------------------
(* The handler                                                             *)

Starting == \E t \in Threads : pc[t] \in {"clearCancel", "arm"}

Expire ==
    /\ pending /\ hpc = "idle"
    /\ pending' = FALSE
    /\ hpc' = "entry"
    /\ raced' = (raced \/ Starting)
    /\ UNCHANGED <<timer_lock, cancel_flag, active_flag, pc, calls, quiet, gaveUp>>

\* A lock that is taken is a cancel's: the handler gives way.
HandlerEntry ==
    /\ hpc = "entry"
    /\ timer_lock' = 1
    /\ hpc' = IF timer_lock = 1 THEN "idle" ELSE "check"
    /\ UNCHANGED <<pending, cancel_flag, active_flag, pc, calls, ghosts>>

HandlerCheck ==
    /\ hpc = "check"
    /\ hpc' = IF cancel_flag THEN "unlock" ELSE "run"
    /\ UNCHANGED <<words, pc, calls, ghosts>>

\* The function of the timer's owner returns, OS_TIMER_REARMED or not.
FunctionReturns ==
    /\ hpc = "run"
    /\ hpc' \in {"rearm", "clear"}
    /\ UNCHANGED <<words, pc, calls, ghosts>>

HandlerRearm ==
    /\ hpc = "rearm"
    /\ pending' = TRUE
    /\ hpc' = "unlock"
    /\ UNCHANGED <<timer_lock, cancel_flag, active_flag, pc, calls, ghosts>>

\* Mutant: the flag stays set.
HandlerClearNot ==
    /\ hpc = "clear"
    /\ hpc' = "unlock"
    /\ UNCHANGED <<words, pc, calls, ghosts>>

HandlerClear ==
    /\ hpc = "clear"
    /\ active_flag' = FALSE
    /\ hpc' = "unlock"
    /\ UNCHANGED <<pending, timer_lock, cancel_flag, pc, calls, ghosts>>

\* Mutant: the lock stays taken by the handler.
HandlerUnlockNot ==
    /\ hpc = "unlock"
    /\ hpc' = "idle"
    /\ UNCHANGED <<words, pc, calls, ghosts>>

HandlerUnlock ==
    /\ hpc = "unlock"
    /\ timer_lock' = 0
    /\ hpc' = "idle"
    /\ UNCHANGED <<pending, cancel_flag, active_flag, pc, calls, ghosts>>

Handler ==
    \/ HandlerEntry \/ HandlerCheck \/ FunctionReturns
    \/ HandlerRearm \/ HandlerClear \/ HandlerUnlock

-----------------------------------------------------------------------------
(* The callers                                                             *)

Call(t) ==
    /\ pc[t] = "idle"
    /\ calls < MaxCalls /\ calls' = calls + 1

Goto(t, place) == pc' = [pc EXCEPT ![t] = place]

\* os_timer_ex_start, with or without a new period.
Start(t) ==
    /\ Call(t)
    /\ active_flag' = TRUE
    /\ Goto(t, "clearCancel")
    /\ quiet' = FALSE
    /\ raced' = (raced \/ hpc # "idle" \/ \E u \in Threads : pc[u] # "idle")
    /\ UNCHANGED <<pending, timer_lock, cancel_flag, hpc, gaveUp>>

StartClears(t) ==
    /\ pc[t] = "clearCancel"
    /\ cancel_flag' = FALSE
    /\ Goto(t, "arm")
    /\ UNCHANGED <<pending, timer_lock, active_flag, hpc, calls, ghosts>>

StartArms(t) ==
    /\ pc[t] = "arm"
    /\ pending' = TRUE
    /\ Goto(t, "idle")
    /\ UNCHANGED <<timer_lock, cancel_flag, active_flag, hpc, calls, ghosts>>

\* os_timer_ex_del leaves an inactive timer alone.
Del(t) ==
    /\ Call(t)
    /\ Goto(t, IF active_flag THEN "setCancel" ELSE "idle")
    /\ quiet' = (quiet \/ ~ active_flag)
    /\ raced' = (raced \/ Starting)
    /\ UNCHANGED <<words, hpc, gaveUp>>

\* os_timer_ex_cancel, called directly or by os_timer_ex_del.
Cancel(t) ==
    /\ Call(t)
    /\ cancel_flag' = TRUE
    /\ Goto(t, "testActive")
    /\ raced' = (raced \/ Starting)
    /\ UNCHANGED <<pending, timer_lock, active_flag, hpc, quiet, gaveUp>>

DelCancels(t) ==
    /\ pc[t] = "setCancel"
    /\ cancel_flag' = TRUE
    /\ Goto(t, "testActive")
    /\ UNCHANGED <<pending, timer_lock, active_flag, hpc, calls, ghosts>>

CancelTests(t) ==
    /\ pc[t] = "testActive"
    /\ Goto(t, IF active_flag THEN "acquire" ELSE "idle")
    /\ quiet' = (quiet \/ ~ active_flag)
    /\ UNCHANGED <<words, hpc, calls, raced, gaveUp>>

\* Mutant: a cancel does not wait for the handler.
CancelAcquiresAlways(t) ==
    /\ pc[t] = "acquire"
    /\ timer_lock' = 1
    /\ Goto(t, "delete")
    /\ UNCHANGED <<pending, cancel_flag, active_flag, hpc, calls, ghosts>>

CancelAcquires(t) ==
    /\ pc[t] = "acquire"
    /\ timer_lock = 0 /\ timer_lock' = 1
    /\ Goto(t, "delete")
    /\ UNCHANGED <<pending, cancel_flag, active_flag, hpc, calls, ghosts>>

\* After a thousand tries it goes on without the lock.
CancelGivesUp(t) ==
    /\ pc[t] = "acquire" /\ timer_lock = 1
    /\ gaveUp' = TRUE
    /\ Goto(t, "delete")
    /\ UNCHANGED <<words, hpc, calls, quiet, raced>>

CancelDeletes(t) ==
    /\ pc[t] = "delete"
    /\ pending' = FALSE
    /\ Goto(t, "clearActive")
    /\ UNCHANGED <<timer_lock, cancel_flag, active_flag, hpc, calls, ghosts>>

CancelClears(t) ==
    /\ pc[t] = "clearActive"
    /\ active_flag' = FALSE
    /\ Goto(t, "release")
    /\ UNCHANGED <<pending, timer_lock, cancel_flag, hpc, calls, ghosts>>

\* The lock is released whoever holds it.
CancelReleases(t) ==
    /\ pc[t] = "release"
    /\ timer_lock' = 0
    /\ Goto(t, "idle")
    /\ quiet' = TRUE
    /\ UNCHANGED <<pending, cancel_flag, active_flag, hpc, calls, raced, gaveUp>>

\* What a call does after its first step.
Proceeds(t) ==
    \/ StartClears(t) \/ StartArms(t)
    \/ DelCancels(t) \/ CancelTests(t) \/ CancelAcquires(t) \/ CancelDeletes(t)
    \/ CancelClears(t) \/ CancelReleases(t)

TimerNext ==
    \/ Expire \/ Handler
    \/ \E t \in Threads :
          Start(t) \/ Del(t) \/ Cancel(t) \/ Proceeds(t) \/ CancelGivesUp(t)

TimerSpec == TimerInit /\ [][TimerNext]_ostVars

\* Timers expire, their functions return, and a caller goes on.
Fairness ==
    /\ WF_ostVars(Expire) /\ WF_ostVars(Handler)
    /\ \A t \in Threads : WF_ostVars(Proceeds(t) \/ CancelGivesUp(t))

TimerFairSpec == TimerSpec /\ Fairness

-----------------------------------------------------------------------------
\* While no start overlaps another call or the handler and no cancel gives
\* up the lock, the protocol keeps its promises.
Orderly == ~ raced /\ ~ gaveUp

\* After a cancel or a delete has returned, the timer is not armed and its
\* function neither runs nor begins: its owner may be freed.
CancelledIsQuiet ==
    Orderly /\ quiet => ~ pending /\ hpc \notin {"run", "rearm", "clear"}

\* Between calls the flag, which os_timer_ex_active returns, tells whether
\* the timer will still run: one that is active is armed or in its handler.
ActiveIsArmed ==
    Orderly /\ (\A t \in Threads : pc[t] = "idle") =>
        /\ active_flag => pending \/ hpc # "idle"
        /\ pending => active_flag

\* An armed timer runs its function unless it is cancelled.
ArmedRuns == pending ~> (hpc = "run" \/ cancel_flag \/ ~ Orderly)
=============================================================================
