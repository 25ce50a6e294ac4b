------------------------------ MODULE PowerSave ------------------------------
(***************************************************************************)
(* Power save of a connected station (wifi_mac_power.c).  The interface is *)
(* AWAKE, FULL (asleep) or NET (the firmware has woken by itself to hear a *)
(* beacon).  Inactivity makes the station tell the AP with a null frame    *)
(* that it sleeps; the frame's completion puts it to sleep.  Beacons,      *)
(* frames to send, timers and the user wake it again.  These run in        *)
(* threads of their own: the power save work queue (pswq), the work thread *)
(* (work), completions (txok), the firmware's events (irq), reception      *)
(* (rx), the user and the sender of frames (tx).                           *)
(*                                                                         *)
(* wifi_mac_pwrsave_set_state is two steps: the mode is tested before the  *)
(* mutex is taken.  The power command inside the mutex is one step here    *)
(* (FwPower has its steps).  No scan runs (Scan has its null frames), the  *)
(* AP has no multicast frames and U-APSD is off.                           *)
(***************************************************************************)
EXTENDS Naturals, Sequences

CONSTANTS
    UserModes,  \* the modes the user and the connection may ask for
    Budgets,    \* records of sta_fetch_pkt_method (0 wakes for a buffered frame,
                \* 1 polls) and, as bounds, of how many frames, buffered
                \* frames, mode changes and failed null frames there are; a
                \* behaviour has one
    MaxNulls    \* bound: null frames and completions under way

Modes == {"NONE", "LOW", "NORMAL"}

ASSUME ModesAssumption == UserModes \subseteq Modes

Threads == {"pswq", "work", "txok", "irq", "rx", "user", "tx"}

VARIABLES
    mode,       \* ips_sta_psmode
    ps,         \* ips_state
    th,         \* where each thread is
    presleep,   \* ips_timer_presleep is armed
    wait,       \* ips_timer_sleep_wait is armed
    waitBeacon, \* ips_flag_waitbeacon_timer_start
    trigger,    \* ips_flag_send_ps_trigger
    tasks,      \* tasks in the work fifo: wakeup_ex and sleep_wait_ex
    addWakeup,  \* add_wakeup_work
    txq,        \* data frames in the driver's and the HAL's queues
    poll,       \* a PS-Poll is there too
    fw,         \* firmware: active, doze, or listening to a beacon
    nulls,      \* null frames the firmware has yet to send
    done,       \* completions of PS null frames
    irqs,       \* GOTO_WAKEUP is raised
    rxq,        \* frames received and not handled
    ap,         \* what the AP believes of the station
    buf,        \* frames the AP holds for it
    left        \* the budget, and what is left of it

timers == <<presleep, wait, waitBeacon, trigger>>
host   == <<mode, ps, th, timers, tasks, addWakeup, txq, poll>>
air    == <<fw, nulls, done, irqs, rxq, ap, buf>>
vars   == <<host, air, left>>

idle == [pc |-> "idle", new |-> "AWAKE", notify |-> FALSE]

\* As wifi_mac_pwrsave_wnet_vif_connect leaves the station.
Init ==
    /\ mode = "NONE" /\ ps = "AWAKE"
    /\ th = [t \in Threads |-> idle]
    /\ presleep = TRUE
    /\ wait = FALSE /\ waitBeacon = FALSE /\ trigger = FALSE
    /\ tasks = <<>> /\ addWakeup = FALSE /\ txq = 0 /\ poll = FALSE
    /\ fw = "active" /\ nulls = <<>> /\ done = <<>> /\ irqs = FALSE
    /\ rxq = <<>> /\ ap = "awake" /\ buf = 0
    /\ left \in Budgets

-----------------------------------------------------------------------------
(* Helpers                                                                 *)

Free(t) == th[t] = idle
Spend(event) == left[event] > 0 /\ left' = [left EXCEPT ![event] = @ - 1]
Sleeping == ps # "AWAKE"
Queued == txq > 0 \/ poll

\* wifi_mac_pwrsave_is_sta_sleeping
StaSleeping == mode # "NONE" /\ Sleeping

\* Thread t finishes what it is doing.
Finish(t) == th' = [th EXCEPT ![t] = idle]

\* wifi_mac_pwrsave_set_state up to its test of the mode; then, where notify
\* says so, the rest of wifi_mac_pwrsave_wkup_and_NtfyAp.
Enter(t, new, notify) ==
    th' = [th EXCEPT ![t] =
             IF mode # "NONE"
             THEN [pc |-> "set", new |-> new, notify |-> notify]
             ELSE IF notify THEN [idle EXCEPT !.pc = "notify"] ELSE idle]

FullSleep(t)     == Enter(t, "FULL", FALSE)
WakeAndNotify(t) == Enter(t, "AWAKE", TRUE)

\* wifi_mac_add_work_task.  Bound: the work fifo holds each task once; one
\* queued again before it has run would only run twice.
AddTask(task) ==
    tasks' = IF \E i \in DOMAIN tasks : tasks[i] = task THEN tasks
             ELSE Append(tasks, task)

\* wifi_mac_send_nulldata.  A frame without the power bit wakes a sleeping
\* interface.  hi_set_cmd refuses the command, unnoticed, while the power
\* command of another thread is under way.
SendNull(t, kind) ==
    /\ Len(nulls) + Len(done) < MaxNulls
    /\ \/ nulls' = Append(nulls, kind) /\ UNCHANGED left
       \/ /\ \E u \in Threads \ {t} : th[u].pc = "set"
          /\ UNCHANGED nulls /\ Spend("fail")
    /\ IF kind = "NONPS" /\ Sleeping THEN AddTask("wake") ELSE tasks' = tasks

\* wifi_mac_pwrsave_restore_sleep
RestoreSleep(t) ==
    IF mode = "NONE" \/ (ps = "NET" /\ Queued) THEN WakeAndNotify(t)
    ELSE IF ps = "NET" THEN FullSleep(t)
    ELSE Finish(t)

-----------------------------------------------------------------------------
(* The change of state                                                     *)

Transitions ==
    {<<"AWAKE", "FULL">>, <<"NET", "AWAKE">>, <<"NET", "FULL">>,
     <<"FULL", "AWAKE">>, <<"FULL", "NET">>}

\* Mutant: a firmware that listens already is not told to be active.
SetStateListening(t) ==
    /\ th[t].pc = "set"
    /\ ps' = IF <<ps, th[t].new>> \in Transitions THEN th[t].new ELSE ps
    /\ IF th[t].new = "NET" THEN UNCHANGED <<fw, addWakeup>>
       ELSE /\ fw' = IF th[t].new = "AWAKE"
                     THEN (IF ps = "NET" THEN fw ELSE "active") ELSE "doze"
            /\ addWakeup' = FALSE
    /\ th' = [th EXCEPT ![t] = IF th[t].notify THEN [idle EXCEPT !.pc = "notify"]
                                               ELSE idle]
    /\ UNCHANGED <<mode, timers, tasks, txq, poll, nulls, done, irqs, rxq, ap,
                   buf, left>>

\* The body of wifi_mac_pwrsave_set_state, under the mutex.  The command is
\* given even when the state refuses the change; NET has no command.
SetState(t) ==
    /\ th[t].pc = "set"
    /\ ps' = IF <<ps, th[t].new>> \in Transitions THEN th[t].new ELSE ps
    /\ IF th[t].new = "NET" THEN UNCHANGED <<fw, addWakeup>>
       ELSE /\ fw' = IF th[t].new = "AWAKE" THEN "active" ELSE "doze"
            /\ addWakeup' = FALSE
    /\ th' = [th EXCEPT ![t] = IF th[t].notify THEN [idle EXCEPT !.pc = "notify"]
                                               ELSE idle]
    /\ UNCHANGED <<mode, timers, tasks, txq, poll, nulls, done, irqs, rxq, ap,
                   buf, left>>

\* The rest of wifi_mac_pwrsave_wkup_and_NtfyAp; the user's thread is in
\* wifi_mac_pwrsave_set_mode and stores the mode last.
NotifyAp(t) ==
    /\ th[t].pc = "notify"
    /\ presleep' = TRUE
    /\ SendNull(t, "NONPS")
    /\ mode' = IF t = "user" THEN "NONE" ELSE mode
    /\ Finish(t)
    /\ UNCHANGED <<ps, wait, waitBeacon, trigger, addWakeup, txq, poll,
                   fw, done, irqs, rxq, ap, buf>>

\* wifi_mac_pwrsave_set_mode
LeavePowerSave ==
    /\ Free("user") /\ mode # "NONE" /\ "NONE" \in UserModes
    /\ Spend("mode")
    /\ presleep' = FALSE
    /\ WakeAndNotify("user")
    /\ UNCHANGED <<mode, ps, wait, waitBeacon, trigger, tasks,
                   addWakeup, txq, poll, air>>

EnterPowerSave ==
    /\ Free("user")
    /\ Spend("mode")
    /\ \E m \in UserModes \ {"NONE", mode} : mode' = m
    /\ presleep' = (presleep \/ mode = "NONE")
    /\ UNCHANGED <<ps, th, wait, waitBeacon, trigger, tasks, addWakeup,
                   txq, poll, air>>

-----------------------------------------------------------------------------
(* Falling asleep                                                          *)

\* Bound: the inactivity time (hundreds of milliseconds) outlasts a handler
\* and a null frame, so it does not run out while one is under way.
Quiescent ==
    nulls = <<>> /\ done = <<>> /\ \A t \in Threads \ {"tx"} : Free(t)

\* Mutant: the work does not arm its timer again.
PresleepOnce ==
    /\ presleep /\ Quiescent
    /\ presleep' = FALSE
    /\ IF mode # "NONE" /\ ps = "AWAKE" /\ ~ Queued
       THEN th' = [th EXCEPT !["pswq"].pc = "send"]
       ELSE UNCHANGED th
    /\ UNCHANGED <<mode, ps, wait, waitBeacon, trigger, tasks, addWakeup, txq,
                   poll, air, left>>

\* wifi_mac_pwrsave_sleep_timer and wifi_mac_pwrsave_presleep up to its
\* unlock: inactive, awake and nothing queued.  Whatever it finds, it arms
\* the timer again at its end.
Presleep ==
    /\ presleep /\ Quiescent
    /\ IF mode # "NONE" /\ ps = "AWAKE" /\ ~ Queued
       THEN th' = [th EXCEPT !["pswq"].pc = "send"] /\ presleep' = FALSE
       ELSE presleep' = (mode # "NONE") /\ UNCHANGED th
    /\ UNCHANGED <<mode, ps, wait, waitBeacon, trigger, tasks, addWakeup, txq,
                   poll, air, left>>

\* Its null frame with the power bit.
PresleepNull ==
    /\ th["pswq"].pc = "send"
    /\ SendNull("pswq", "PS")
    /\ presleep' = TRUE
    /\ Finish("pswq")
    /\ UNCHANGED <<mode, ps, wait, waitBeacon, trigger, addWakeup, txq,
                   poll, fw, done, irqs, rxq, ap, buf>>

\* drv_intr_tx_null_data: asleep when the AP was told, awake when it was not.
NullCompleted ==
    /\ Free("txok") /\ done # <<>>
    /\ done' = Tail(done)
    /\ IF Head(done) = "ok" THEN FullSleep("txok") ELSE WakeAndNotify("txok")
    /\ UNCHANGED <<mode, ps, timers, tasks, addWakeup, txq, poll, fw, nulls,
                   irqs, rxq, ap, buf, left>>

-----------------------------------------------------------------------------
(* Waking                                                                  *)

\* drv_goto_wakeup: in full sleep, listen for a beacon, for a while.
GotoWakeup ==
    /\ Free("irq") /\ irqs
    /\ irqs' = FALSE
    /\ IF mode # "NONE" /\ ps = "FULL"
       THEN /\ wait' = TRUE /\ waitBeacon' = TRUE
            /\ Enter("irq", "NET", FALSE)
       ELSE UNCHANGED <<wait, waitBeacon, th>>
    /\ UNCHANGED <<mode, ps, presleep, trigger, tasks, addWakeup, txq,
                   poll, fw, nulls, done, rxq, ap, buf, left>>

\* wifi_mac_pwrsave_sleep_wait
SleepWaitTimer ==
    /\ wait
    /\ wait' = FALSE /\ waitBeacon' = FALSE /\ trigger' = FALSE
    /\ AddTask("wait")
    /\ UNCHANGED <<mode, ps, th, presleep, addWakeup, txq, poll, air,
                   left>>

\* wifi_mac_pwrsave_sleep_wait_ex
SleepWaitTask ==
    /\ Free("work") /\ tasks # <<>> /\ Head(tasks) = "wait"
    /\ tasks' = Tail(tasks)
    /\ RestoreSleep("work")
    /\ UNCHANGED <<mode, ps, timers, addWakeup, txq, poll, air, left>>

\* wifi_mac_pwrsave_wakeup_ex, with wifi_mac_pwrsave_sleep_wait_cancel
WakeupTask ==
    /\ Free("work") /\ tasks # <<>> /\ Head(tasks) = "wake"
    /\ tasks' = Tail(tasks)
    /\ waitBeacon' = FALSE /\ wait' = (wait /\ ~ waitBeacon)
    /\ Enter("work", "AWAKE", FALSE)
    /\ UNCHANGED <<mode, ps, presleep, trigger, addWakeup, txq, poll,
                   air, left>>

-----------------------------------------------------------------------------
(* Reception                                                               *)

\* Mutant: a beacon that announces frames is taken for one that does not.
RecvBeaconDeaf ==
    /\ Free("rx") /\ rxq # <<>> /\ Head(rxq).kind = "beacon"
    /\ rxq' = Tail(rxq)
    /\ waitBeacon' = FALSE /\ wait' = (wait /\ ~ waitBeacon)
    /\ IF StaSleeping THEN th' = [th EXCEPT !["rx"].pc = "noTim"]
                      ELSE UNCHANGED th
    /\ UNCHANGED <<mode, ps, presleep, trigger, tasks, addWakeup, txq, poll, fw,
                   nulls, done, irqs, ap, buf, left>>

\* A beacon, up to the test for a sleeping station; frames are announced
\* (more) or not.
RecvBeacon ==
    /\ Free("rx") /\ rxq # <<>> /\ Head(rxq).kind = "beacon"
    /\ rxq' = Tail(rxq)
    /\ waitBeacon' = FALSE /\ wait' = (wait /\ ~ waitBeacon)
    /\ IF StaSleeping
       THEN th' = [th EXCEPT !["rx"].pc =
                     IF Head(rxq).more THEN "tim" ELSE "noTim"]
       ELSE UNCHANGED th
    /\ UNCHANGED <<mode, ps, presleep, trigger, tasks, addWakeup, txq, poll, fw,
                   nulls, done, irqs, ap, buf, left>>

\* wifi_mac_pwrsave_proc_tim and wifi_mac_pwrsave_sta_trigger: a station that
\* is still asleep may poll, any other one tells the AP that it is awake.
ProcTim ==
    /\ th["rx"].pc = "tim"
    /\ IF Sleeping /\ mode = "NORMAL" /\ left.fetch = 1
       THEN wait' = TRUE /\ trigger' = TRUE /\ poll' = TRUE /\ Finish("rx")
       ELSE WakeAndNotify("rx") /\ UNCHANGED <<wait, trigger, poll>>
    /\ UNCHANGED <<mode, ps, presleep, waitBeacon, tasks, addWakeup, txq, air,
                   left>>

\* Nothing is announced: a station that listens may sleep.
NoTim ==
    /\ th["rx"].pc = "noTim"
    /\ IF ps = "NET" THEN AddTask("wait") ELSE tasks' = tasks
    /\ Finish("rx")
    /\ UNCHANGED <<mode, ps, timers, addWakeup, txq, poll, air, left>>

\* A data frame: wifi_mac_pwrsave_check_ps_end, and the inactivity begins anew.
RecvData ==
    /\ Free("rx") /\ rxq # <<>> /\ Head(rxq).kind = "data"
    /\ rxq' = Tail(rxq)
    /\ presleep' = TRUE
    /\ IF ~ trigger \/ ~ StaSleeping THEN UNCHANGED <<wait, trigger, poll, th>>
       ELSE IF Head(rxq).more
       THEN wait' = TRUE /\ poll' = TRUE /\ UNCHANGED <<trigger, th>>
       ELSE /\ wait' = FALSE /\ trigger' = FALSE
            /\ RestoreSleep("rx") /\ UNCHANGED poll
    /\ UNCHANGED <<mode, ps, waitBeacon, tasks, addWakeup, txq, fw,
                   nulls, done, irqs, ap, buf, left>>

-----------------------------------------------------------------------------
(* Transmission                                                            *)

\* drv_tx_start: a sleeping interface is woken, once.  Then the frame joins
\* the queues.
NewFrame ==
    /\ Free("tx")
    /\ Spend("frame")
    /\ presleep' = TRUE
    /\ IF ~ Sleeping THEN addWakeup' = FALSE /\ UNCHANGED tasks
       ELSE IF addWakeup THEN UNCHANGED <<addWakeup, tasks>>
       ELSE addWakeup' = TRUE /\ AddTask("wake")
    /\ th' = [th EXCEPT !["tx"].pc = "send"]
    /\ UNCHANGED <<mode, ps, wait, waitBeacon, trigger, txq, poll, air>>

QueueFrame ==
    /\ th["tx"].pc = "send"
    /\ txq' = txq + 1
    /\ Finish("tx")
    /\ UNCHANGED <<mode, ps, timers, tasks, addWakeup, poll, air, left>>

\* hal_tx_frame with a firmware that was not told to be active:
\* drv_pwrsave_wake_req.
HalWakeReq ==
    /\ Queued /\ fw # "active"
    /\ ~ addWakeup /\ Sleeping
    /\ addWakeup' = TRUE
    /\ AddTask("wake")
    /\ UNCHANGED <<mode, ps, th, timers, txq, poll, air, left>>

-----------------------------------------------------------------------------
(* The firmware and the AP (external)                                      *)

\* The firmware sends a data frame, whose power bit is clear, and the host
\* counts it out of the queues.
AirData ==
    /\ txq > 0 /\ fw = "active"
    /\ txq' = txq - 1
    /\ ap' = "awake"
    /\ UNCHANGED <<mode, ps, th, timers, tasks, addWakeup, poll, fw, nulls,
                   done, irqs, rxq, buf, left>>

AirRx(kind, more) == rxq' = Append(rxq, [kind |-> kind, more |-> more])

\* The firmware sends a PS-Poll; an AP that holds frames answers with one.
AirPoll ==
    /\ poll /\ fw = "active" /\ Len(rxq) < 2
    /\ poll' = FALSE
    /\ IF buf > 0 /\ ap = "asleep"
       THEN buf' = buf - 1 /\ AirRx("data", buf > 1)
       ELSE UNCHANGED <<buf, rxq>>
    /\ UNCHANGED <<mode, ps, th, timers, tasks, addWakeup, txq, fw, nulls,
                   done, irqs, ap, left>>

\* The firmware sends a null frame.  One that fails was not heard, or only
\* its acknowledgement was not.
AirNull ==
    /\ nulls # <<>> /\ fw # "doze"
    /\ nulls' = Tail(nulls)
    /\ LET told == IF Head(nulls) = "PS" THEN "asleep" ELSE "awake"
       IN  \/ /\ ap' = told
              /\ done' = IF Head(nulls) = "PS" THEN Append(done, "ok") ELSE done
              /\ UNCHANGED left
           \/ /\ ap' \in {ap, told}
              /\ done' = IF Head(nulls) = "PS" THEN Append(done, "fail") ELSE done
              /\ Spend("fail")
    /\ UNCHANGED <<mode, ps, th, timers, tasks, addWakeup, txq, poll, fw, irqs,
                   rxq, buf>>

\* In its doze the firmware wakes before a beacon.
FwListens ==
    /\ fw = "doze"
    /\ fw' = "listen" /\ irqs' = TRUE
    /\ UNCHANGED <<host, nulls, done, rxq, ap, buf, left>>

Beacon ==
    /\ fw # "doze" /\ rxq = <<>>
    /\ AirRx("beacon", buf > 0 /\ ap = "asleep")
    /\ UNCHANGED <<host, fw, nulls, done, irqs, ap, buf, left>>

ApFrame ==
    /\ Spend("down")
    /\ buf' = buf + 1
    /\ UNCHANGED <<host, fw, nulls, done, irqs, rxq, ap>>

\* To a station it believes awake the AP sends, until it is acknowledged.
ApDelivers ==
    /\ buf > 0 /\ ap = "awake" /\ fw # "doze" /\ Len(rxq) < 2
    /\ buf' = buf - 1
    /\ AirRx("data", buf > 1)
    /\ UNCHANGED <<host, fw, nulls, done, irqs, ap, left>>

-----------------------------------------------------------------------------
\* What each thread does next; at most one of its actions is enabled.
Changes(t)  == SetState(t) \/ NotifyAp(t)
Pswq        == Presleep \/ PresleepNull \/ Changes("pswq")
Work        == SleepWaitTask \/ WakeupTask \/ Changes("work")
TxOk        == NullCompleted \/ Changes("txok")
Irq         == GotoWakeup \/ Changes("irq")
Rx          == RecvBeacon \/ ProcTim \/ NoTim \/ RecvData \/ Changes("rx")
User        == LeavePowerSave \/ EnterPowerSave \/ Changes("user")
Tx          == NewFrame \/ QueueFrame
Hal         == HalWakeReq \/ SleepWaitTimer
Radio       == AirData \/ AirPoll \/ AirNull \/ FwListens \/ Beacon
Ap          == ApFrame \/ ApDelivers

Next == Pswq \/ Work \/ TxOk \/ Irq \/ Rx \/ User \/ Tx \/ Hal \/ Radio \/ Ap

Spec == Init /\ [][Next]_vars

\* Threads, timers and the firmware make progress, and a station that wakes
\* for beacons again and again hears one again and again.
Fairness ==
    /\ WF_vars(Pswq) /\ WF_vars(Work) /\ WF_vars(TxOk) /\ WF_vars(Irq)
    /\ WF_vars(Rx) /\ WF_vars(Changes("user")) /\ WF_vars(QueueFrame)
    /\ WF_vars(HalWakeReq) /\ WF_vars(SleepWaitTimer) /\ WF_vars(FwListens)
    /\ SF_vars(AirData) /\ SF_vars(AirPoll) /\ SF_vars(AirNull)
    /\ SF_vars(Beacon) /\ SF_vars(ApDelivers)

FairSpec == Spec /\ Fairness

-----------------------------------------------------------------------------
\* Not a property of the code: in full sleep "sta is recognized sleep by ap"
\* (wifi_mac_power.h:62).  TLC refutes it.
FullSleepMeansTold == ps = "FULL" => ap = "asleep"

\* Frames to send leave while power save is on.
FramesLeave == txq > 0 ~> (txq = 0 \/ mode = "NONE")

\* Frames the AP holds are fetched while power save is on.
BufferedFetched == buf > 0 ~> (buf = 0 \/ mode = "NONE")

\* A station with power save on that is idle sleeps again and again.
SleepsWhenIdle == <>[](mode # "NONE") => []<>(ps = "FULL")
=============================================================================
