------------------------------ MODULE FwPower ------------------------------
(***************************************************************************)
(* How the host puts the firmware to sleep, wakes it and suspends it.      *)
(*                                                                         *)
(* A change of the power state of an interface (wifi_mac_power.c) is a     *)
(* Power_Save command to the firmware.  Its issuer holds the interface's   *)
(* mutex, announces the command in hal_drv_ps_status under the power lock, *)
(* waits for the HAL lock, pushes the command into the mailbox and only    *)
(* then corrects hal_fw_ps_status, the host's picture of the firmware.     *)
(* Every access to the chip goes through hal_wake_fw_req, which trusts     *)
(* that picture.  Meanwhile other commands use the mailbox, the transmit   *)
(* thread sends frames and the system suspends and resumes.                *)
(*                                                                         *)
(* One action is what a thread does between taking and releasing a lock,   *)
(* or one access to the chip.  The threads are the work thread ("work"),   *)
(* the thread that handles completions ("txok"), a thread that issues some *)
(* other command ("param"), the transmit thread ("tx") and the one that    *)
(* suspends and resumes ("pm").                                            *)
(***************************************************************************)
EXTENDS Naturals, Sequences, FiniteSets

CONSTANTS
    VifNbr,         \* interfaces: wlan0 and p2p0 are 0 and 1
    Budgets,        \* bounds: records of the interfaces that are connected
                    \* and of how many dozes, other commands, frames and
                    \* suspends may happen; a behaviour has one of them
    PushFails       \* the commands that may find the mailbox full for all retries

ASSUME VifNbrAssumption == VifNbr \in Nat \ {0}

Vifs == 0 .. VifNbr - 1

Bounds == [up : (SUBSET Vifs) \ {{}}, doze : Nat, param : Nat, frame : Nat,
           suspend : Nat]

ASSUME BudgetsAssumption == Budgets \subseteq Bounds

Threads == {"work", "txok", "param", "tx", "pm"}
None == "none"

VARIABLES
    mac,        \* ips_state of each interface, network sleep counted as sleep
    mutex,      \* ips_mutex of each interface
    drvPs,      \* hal_drv_ps_status: the bits IN_SLEEPING and IN_ACTIVE
    fwPs,       \* hal_fw_ps_status
    halLock,    \* hal_phy_mutex
    hostReq,    \* HOST_SLEEP_REQ in the power management unit
    fwMode,     \* the last power command the firmware was given
    chip,       \* whether the chip can be accessed
    addWakeup,  \* add_wakeup_work
    tasks,      \* interfaces with a queued wifi_mac_pwrsave_wakeup_ex
    txq,        \* frames in the HAL's transmit queues
    suspend,    \* hal_suspend_mode, drv_suspend_cnt and wm_suspend_mode
    th,         \* where each thread is
    left        \* what is left of the budget

vars == <<mac, mutex, drvPs, fwPs, halLock, hostReq, fwMode, chip, addWakeup,
          tasks, txq, suspend, th, left>>

chipVars == <<hostReq, fwMode, chip>>
idle == [pc |-> "idle", vif |-> 0, cmd |-> None, ok |-> FALSE]

PowerCmds == {"DOZE", "ACTIVE"}
SuspendCmds == {"WOW_ON", "WOW_OFF"}

Pcs == {"idle", "power", "busy", "late", "hal", "set", "push", "req", "tail",
        "clear", "send", "check", "ask", "after"}

ThreadStates ==
    [pc : Pcs,
     vif : Vifs,
     cmd : PowerCmds \cup SuspendCmds \cup {None, "PARAM", "NULLDATA"},
     ok : BOOLEAN]

TypeOK ==
    /\ mac \in [Vifs -> {"AWAKE", "SLEEP"}]
    /\ mutex \in [Vifs -> Threads \cup {None}]
    /\ drvPs \subseteq {"SLEEPING", "ACTIVE"}
    /\ fwPs \in {"ACTIVE", "AWAKE", "SLEEP"}
    /\ halLock \in Threads \cup {None}
    /\ hostReq \in BOOLEAN
    /\ fwMode \in {"ACTIVE", "DOZE"}
    /\ chip \in {"awake", "asleep"}
    /\ addWakeup \in BOOLEAN
    /\ tasks \in Seq(Vifs)
    /\ txq \in Nat
    /\ suspend \in [wow : BOOLEAN, cnt : 0 .. 1, host : BOOLEAN]
    /\ th \in [Threads -> ThreadStates]
    /\ left \in Bounds

Init ==
    /\ mac = [v \in Vifs |-> "AWAKE"]
    /\ mutex = [v \in Vifs |-> None]
    /\ drvPs = {}
    /\ fwPs = "ACTIVE"
    /\ halLock = None
    /\ hostReq = FALSE
    /\ fwMode = "ACTIVE"
    /\ chip = "awake"
    /\ addWakeup = FALSE
    /\ tasks = <<>>
    /\ txq = 0
    /\ suspend = [wow |-> FALSE, cnt |-> 0, host |-> FALSE]
    /\ th = [t \in Threads |-> idle]
    /\ left \in Budgets

Goto(t, pc) == th' = [th EXCEPT ![t].pc = pc]
Finish(t) == th' = [th EXCEPT ![t] = idle]
Spend(event) == left[event] > 0 /\ left' = [left EXCEPT ![event] = @ - 1]

-----------------------------------------------------------------------------
(* Asking for a wakeup                                                     *)

First(vifs) == CHOOSE v \in vifs : \A u \in vifs : v <= u

\* The first sleeping interface is woken by a work task.
WakeReq(sleepers) ==
    IF sleepers = {}
    THEN UNCHANGED <<addWakeup, tasks>>
    ELSE /\ addWakeup' = TRUE
         /\ tasks' = Append(tasks, First(sleepers))

Sleepers == {v \in Vifs : mac[v] = "SLEEP"}

\* A doze that was refused gives the interface's mutex back; the transmit
\* thread has none.
EndAsking(t) ==
    /\ mutex' = [mutex EXCEPT ![th[t].vif] = IF @ = t THEN None ELSE @]
    /\ Finish(t)

\* drv_pwrsave_wake_req with power_save = 1: one critical section finds
\* whether a request is already outstanding, ...
IsOutstanding(t) ==
    /\ th[t].pc = "check"
    /\ IF addWakeup THEN EndAsking(t) ELSE Goto(t, "ask") /\ UNCHANGED mutex
    /\ UNCHANGED <<mac, drvPs, fwPs, halLock, chipVars, addWakeup, tasks, txq,
                   suspend, left>>

\* ... another one, later, makes the request.
AskWakeup(t) ==
    /\ th[t].pc = "ask"
    /\ WakeReq(Sleepers)
    /\ EndAsking(t)
    /\ UNCHANGED <<mac, drvPs, fwPs, halLock, chipVars, txq, suspend, left>>

\* hal_wake_fw_req, called before each access of the chip: a firmware
\* believed active is not looked at; otherwise the power management unit is
\* woken, the sleep request withdrawn and SLEEP becomes AWAKE.
WakeChip ==
    IF fwPs = "ACTIVE"
    THEN UNCHANGED <<fwPs, hostReq, chip>>
    ELSE /\ chip' = "awake"
         /\ hostReq' = FALSE
         /\ fwPs' = "AWAKE"

\* The access is refused while the driver is suspended.
AccessRefused == fwPs # "ACTIVE" /\ suspend.cnt # 0

-----------------------------------------------------------------------------
(* A change of state and its command                                       *)

\* wifi_mac_pwrsave_set_state and drv_pwrsave_set_state: under the mutex of
\* the interface the state is changed and the command follows.
SetState(t, v, new) ==
    /\ th[t].pc = "idle"
    /\ mutex[v] = None
    /\ mutex' = [mutex EXCEPT ![v] = t]
    /\ mac' = [mac EXCEPT ![v] = IF new = "DOZE" THEN "SLEEP" ELSE "AWAKE"]
    /\ th' = [th EXCEPT ![t] = [pc |-> "power", vif |-> v, cmd |-> new,
                                ok |-> FALSE]]
    /\ UNCHANGED <<drvPs, fwPs, halLock, chipVars, addWakeup, txq, suspend>>

\* wifi_mac_pwrsave_fullsleep, from the completion of a null data frame
FullSleep(v) ==
    /\ Spend("doze")
    /\ SetState("txok", v, "DOZE")
    /\ UNCHANGED tasks

\* wifi_mac_pwrsave_wakeup_ex, the task of wifi_mac_pwrsave_wakeup_for_tx
WakeupTask ==
    /\ tasks # <<>>
    /\ tasks' = Tail(tasks)
    /\ SetState("work", Head(tasks), "ACTIVE")
    /\ UNCHANGED left

\* The first part of phy_set_param_cmd, for Power_Save_Cmd: under the power
\* lock the command is announced, unless the driver is busy.
CommandAnnounced(t) ==
    /\ th[t].pc = "power" /\ th[t].cmd \in PowerCmds
    /\ drvPs = {} /\ drvPs' = {"SLEEPING"}
    /\ fwPs' = IF th[t].cmd = "DOZE" THEN "SLEEP" ELSE fwPs
    /\ Goto(t, "hal")
    /\ UNCHANGED <<mac, mutex, halLock, chipVars, addWakeup, tasks, txq,
                   suspend, left>>

\* A busy one is looked at again once the lock is released.
FindsBusy(t) ==
    /\ th[t].pc = "power" /\ th[t].cmd \in PowerCmds
    /\ drvPs # {}
    /\ Goto(t, "busy")
    /\ UNCHANGED <<mac, mutex, drvPs, fwPs, halLock, chipVars, addWakeup,
                   tasks, txq, suspend, left>>

\* Busy sending: a doze is given up and a wakeup is asked for.
Refusing(t) == th[t].cmd = "DOZE" /\ "ACTIVE" \in drvPs

DozeRefused(t) ==
    /\ th[t].pc = "busy" /\ Refusing(t)
    /\ Goto(t, "check")
    /\ UNCHANGED <<mac, mutex, drvPs, fwPs, halLock, chipVars, addWakeup,
                   tasks, txq, suspend, left>>

\* Another power command is under way: this one is dropped.
CommandDropped(t) ==
    /\ th[t].pc = "busy" /\ ~ Refusing(t)
    /\ "SLEEPING" \in drvPs
    /\ mutex' = [mutex EXCEPT ![th[t].vif] = None]
    /\ Finish(t)
    /\ UNCHANGED <<mac, drvPs, fwPs, halLock, chipVars, addWakeup, tasks, txq,
                   suspend, left>>

\* Otherwise it goes on unannounced: an ACTIVE command joins the sending, a
\* doze finds that the sending has ended and notes it without the lock.
CommandUnannounced(t) ==
    /\ th[t].pc = "busy" /\ ~ Refusing(t)
    /\ "SLEEPING" \notin drvPs
    /\ Goto(t, IF th[t].cmd = "DOZE" THEN "late" ELSE "hal")
    /\ UNCHANGED <<mac, mutex, drvPs, fwPs, halLock, chipVars, addWakeup,
                   tasks, txq, suspend, left>>

LateDoze(t) ==
    /\ th[t].pc = "late"
    /\ fwPs' = "SLEEP"
    /\ Goto(t, "hal")
    /\ UNCHANGED <<mac, mutex, drvPs, halLock, chipVars, addWakeup, tasks, txq,
                   suspend, left>>

-----------------------------------------------------------------------------
(* The mailbox: hi_set_cmd, under the HAL lock                             *)

TakeHalLock(t) ==
    /\ th[t].pc = "hal"
    /\ halLock = None
    /\ halLock' = t
    /\ Goto(t, "set")
    /\ UNCHANGED <<mac, mutex, drvPs, fwPs, chipVars, addWakeup, tasks, txq,
                   suspend, left>>

\* Mutant: the test of the suspended driver is missing.
CmdRefusedAwakeOnly(t) ==
    "SLEEPING" \in drvPs /\ th[t].cmd \notin PowerCmds \cup SuspendCmds

\* Commands other than Power_Save and WoW_Enable are refused while one of
\* those is under way, and every command while the driver is suspended.
CmdRefused(t) ==
    \/ "SLEEPING" \in drvPs /\ th[t].cmd \notin PowerCmds \cup SuspendCmds
    \/ suspend.cnt # 0

SetCmd(t) ==
    /\ th[t].pc = "set"
    /\ IF CmdRefused(t)
       THEN Goto(t, "tail") /\ UNCHANGED drvPs
       ELSE Goto(t, "push") /\ drvPs' = drvPs \cup {"ACTIVE"}
    /\ UNCHANGED <<mac, mutex, fwPs, halLock, chipVars, addWakeup, tasks, txq,
                   suspend, left>>

ModeAfter(cmd) ==
    CASE cmd \in {"DOZE", "WOW_ON"} -> "DOZE"
      [] cmd \in {"ACTIVE", "WOW_OFF"} -> "ACTIVE"
      [] OTHER -> fwMode

\* hi_push_down_fifo: the command is written into the firmware's memory.
Push(t) ==
    /\ th[t].pc = "push"
    /\ WakeChip
    /\ fwMode' = ModeAfter(th[t].cmd)
    /\ Goto(t, "req")
    /\ UNCHANGED <<mac, mutex, drvPs, halLock, addWakeup, tasks, txq, suspend,
                   left>>

\* The fifo stayed full for ten thousand tries.
PushFailed(t) ==
    /\ th[t].pc = "push" /\ th[t].cmd \in PushFails
    /\ drvPs' = drvPs \ {"ACTIVE"}
    /\ WakeChip
    /\ Goto(t, "tail")
    /\ UNCHANGED <<mac, mutex, halLock, fwMode, addWakeup, tasks, txq, suspend,
                   left>>

\* After a command that sends the firmware to sleep the sleep is requested.
RequestSleep(t) ==
    /\ th[t].pc = "req"
    /\ hostReq' = (hostReq \/ th[t].cmd \in {"DOZE", "WOW_ON"})
    /\ drvPs' = drvPs \ {"ACTIVE"}
    /\ th' = [th EXCEPT ![t].pc = "tail", ![t].ok = TRUE]
    /\ UNCHANGED <<mac, mutex, fwPs, halLock, fwMode, chip, addWakeup, tasks,
                   txq, suspend, left>>

-----------------------------------------------------------------------------
(* The end of a command                                                    *)

\* Mutant: the result of the command is taken the wrong way round for ACTIVE.
PictureAfterFailure(cmd, ok) ==
    IF ~ suspend.wow /\ ~ ok /\ cmd \in PowerCmds THEN "ACTIVE" ELSE fwPs

\* The end of phy_set_param_cmd: the picture of the firmware is corrected,
\* and IN_SLEEPING is cleared whatever the command was.
PictureAfter(cmd, ok) ==
    IF ~ suspend.wow /\ ((cmd = "ACTIVE" /\ ok) \/ (cmd = "DOZE" /\ ~ ok))
    THEN "ACTIVE" ELSE fwPs

CommandEnds(t) ==
    /\ th[t].pc = "tail"
    /\ th[t].cmd \in PowerCmds
    /\ fwPs' = PictureAfter(th[t].cmd, th[t].ok)
    /\ drvPs' = drvPs \ {"SLEEPING"}
    /\ halLock' = None
    /\ Goto(t, "clear")
    /\ UNCHANGED <<mac, mutex, chipVars, addWakeup, tasks, txq, suspend, left>>

\* Mutant: the outstanding request is forgotten.
ClearWakeReqNot(t) ==
    /\ th[t].pc = "clear"
    /\ mutex' = [mutex EXCEPT ![th[t].vif] = None]
    /\ Finish(t)
    /\ UNCHANGED <<mac, drvPs, fwPs, halLock, chipVars, addWakeup, tasks, txq,
                   suspend, left>>

\* drv_pwrsave_wake_req with power_save = 0, then the mutex is released.
ClearWakeReq(t) ==
    /\ th[t].pc = "clear"
    /\ addWakeup' = FALSE
    /\ mutex' = [mutex EXCEPT ![th[t].vif] = None]
    /\ Finish(t)
    /\ UNCHANGED <<mac, drvPs, fwPs, halLock, chipVars, tasks, txq, suspend,
                   left>>

\* Another command: phy_set_param_cmd again, or phy_send_null_data, which
\* leaves hal_drv_ps_status alone.
OtherCommand(cmd) ==
    /\ th["param"].pc = "idle"
    /\ Spend("param")
    /\ th' = [th EXCEPT !["param"].pc = "hal", !["param"].cmd = cmd]
    /\ UNCHANGED <<mac, mutex, drvPs, fwPs, halLock, chipVars, addWakeup,
                   tasks, txq, suspend>>

OtherCommandEnds ==
    /\ th["param"].pc = "tail"
    /\ drvPs' = IF th["param"].cmd = "PARAM" THEN drvPs \ {"SLEEPING"}
                                             ELSE drvPs
    /\ halLock' = None
    /\ Finish("param")
    /\ UNCHANGED <<mac, mutex, fwPs, chipVars, addWakeup, tasks, txq, suspend,
                   left>>

-----------------------------------------------------------------------------
(* Transmission                                                            *)

\* drv_tx_start: a frame for a sleeping interface asks for its wakeup.
NewFrame(v) ==
    /\ ~ suspend.host
    /\ Spend("frame")
    /\ txq' = txq + 1
    /\ IF mac[v] # "SLEEP" THEN addWakeup' = FALSE /\ UNCHANGED tasks
       ELSE IF addWakeup THEN UNCHANGED <<addWakeup, tasks>> ELSE WakeReq({v})
    /\ UNCHANGED <<mac, mutex, drvPs, fwPs, halLock, chipVars, suspend, th>>

\* The beginning of hal_tx_frame.  A firmware that is not active is woken;
\* IN_ACTIVE, set a moment before, is cleared again.
TxFindsSleeping ==
    /\ th["tx"].pc = "idle"
    /\ "SLEEPING" \notin drvPs
    /\ fwPs # "ACTIVE"
    /\ txq > 0
    /\ drvPs' = drvPs \ {"ACTIVE"}
    /\ Goto("tx", "check")
    /\ UNCHANGED <<mac, mutex, fwPs, halLock, chipVars, addWakeup, tasks, txq,
                   suspend, left>>

TxBegins ==
    /\ th["tx"].pc = "idle"
    /\ "SLEEPING" \notin drvPs
    /\ fwPs = "ACTIVE"
    /\ txq > 0
    /\ drvPs' = drvPs \cup {"ACTIVE"}
    /\ txq' = txq - 1
    /\ Goto("tx", "send")
    /\ UNCHANGED <<mac, mutex, fwPs, halLock, chipVars, addWakeup, tasks,
                   suspend, left>>

\* hi_tx_frame and the end of hal_tx_frame
TxSends ==
    /\ th["tx"].pc = "send"
    /\ IF AccessRefused THEN UNCHANGED <<fwPs, hostReq, chip>> ELSE WakeChip
    /\ drvPs' = drvPs \ {"ACTIVE"}
    /\ Finish("tx")
    /\ UNCHANGED <<mac, mutex, halLock, fwMode, addWakeup, tasks, txq,
                   suspend, left>>

-----------------------------------------------------------------------------
(* Suspend and resume: wifi_mac_pwrsave_wow_suspend, _resume and           *)
(* phy_set_suspend for one connected interface after the other, under the  *)
(* mutex of interface 0.                                                   *)

Suspend ==
    /\ th["pm"].pc = "idle" /\ ~ suspend.host
    /\ mutex[0] = None
    /\ Spend("suspend")
    /\ mutex' = [mutex EXCEPT ![0] = "pm"]
    /\ txq' = 0
    /\ th' = [th EXCEPT !["pm"] = [pc |-> "power", vif |-> First(left.up),
                                   cmd |-> "WOW_ON", ok |-> FALSE]]
    /\ UNCHANGED <<mac, drvPs, fwPs, halLock, chipVars, addWakeup, tasks,
                   suspend>>

\* A busy driver makes phy_set_suspend fail; nobody looks at the result.
SuspendBusy ==
    /\ th["pm"].pc = "power" /\ th["pm"].cmd = "WOW_ON"
    /\ drvPs # {}
    /\ suspend' = [suspend EXCEPT !.cnt = 0]
    /\ Goto("pm", "after")
    /\ UNCHANGED <<mac, mutex, drvPs, fwPs, halLock, chipVars, addWakeup,
                   tasks, txq, left>>

SuspendAnnounced ==
    /\ th["pm"].pc = "power" /\ th["pm"].cmd = "WOW_ON"
    /\ drvPs = {}
    /\ drvPs' = {"SLEEPING"}
    /\ suspend' = [suspend EXCEPT !.wow = TRUE]
    /\ Goto("pm", "hal")
    /\ UNCHANGED <<mac, mutex, fwPs, halLock, chipVars, addWakeup, tasks, txq,
                   left>>

Resume ==
    /\ th["pm"].pc = "idle" /\ suspend.host
    /\ mutex[0] = None
    /\ mutex' = [mutex EXCEPT ![0] = "pm"]
    /\ th' = [th EXCEPT !["pm"] = [pc |-> "power", vif |-> First(left.up),
                                   cmd |-> "WOW_OFF", ok |-> FALSE]]
    /\ UNCHANGED <<mac, drvPs, fwPs, halLock, chipVars, addWakeup, tasks, txq,
                   suspend, left>>

\* "last suspend fail, don't need resume": the interface's state stays.
ResumeOnePowered ==
    /\ th["pm"].pc = "power" /\ th["pm"].cmd = "WOW_OFF"
    /\ IF suspend.cnt = 0
       THEN Goto("pm", "after") /\ UNCHANGED suspend
       ELSE /\ Goto("pm", "hal")
            /\ suspend' = [suspend EXCEPT !.wow = FALSE, !.cnt = 0]
    /\ UNCHANGED <<mac, mutex, drvPs, fwPs, halLock, chipVars, addWakeup,
                   tasks, txq, left>>

\* The end of phy_set_suspend
SuspendCmdEnds ==
    LET on == th["pm"].cmd = "WOW_ON"
        ok == th["pm"].ok
    IN  /\ th["pm"].pc = "tail"
        /\ fwPs' = IF ok THEN IF on THEN "SLEEP" ELSE "ACTIVE" ELSE fwPs
        /\ suspend' = IF ok /\ on THEN [suspend EXCEPT !.cnt = 1] ELSE suspend
        /\ drvPs' = drvPs \ {"SLEEPING"}
        /\ halLock' = None
        /\ th' = [th EXCEPT !["pm"].pc = "after", !["pm"].ok = ~ on]
        /\ UNCHANGED <<mac, mutex, chipVars, addWakeup, tasks, txq, left>>

\* The state of the interface is set -- to sleep always, to awake when
\* phy_set_suspend returned 0 -- and the next interface follows; after the
\* last one wm_suspend_mode is set and the mutex released.
SuspendNext ==
    LET pm == th["pm"]
        on == pm.cmd = "WOW_ON"
        later == {v \in left.up : v > pm.vif}
    IN  /\ pm.pc = "after"
        /\ mac' = IF on THEN [mac EXCEPT ![pm.vif] = "SLEEP"]
                  ELSE IF pm.ok THEN [mac EXCEPT ![pm.vif] = "AWAKE"] ELSE mac
        /\ IF later = {}
           THEN /\ Finish("pm")
                /\ suspend' = [suspend EXCEPT !.host = on]
                /\ mutex' = [mutex EXCEPT ![0] = None]
           ELSE /\ th' = [th EXCEPT !["pm"] = [pc |-> "power", cmd |-> pm.cmd,
                                               vif |-> First(later), ok |-> FALSE]]
                /\ UNCHANGED <<suspend, mutex>>
        /\ UNCHANGED <<drvPs, fwPs, halLock, chipVars, addWakeup, tasks, txq,
                       left>>

-----------------------------------------------------------------------------
(* The chip                                                                *)

\* A dozing firmware whose host asked for it powers down, ...
ChipSleeps ==
    /\ fwMode = "DOZE" /\ hostReq /\ chip = "awake"
    /\ chip' = "asleep"
    /\ UNCHANGED <<mac, mutex, drvPs, fwPs, halLock, hostReq, fwMode,
                   addWakeup, tasks, txq, suspend, th, left>>

\* ... and wakes for a beacon: the interrupts GOTO_WAKEUP and BEACON_MISS.
ChipInterrupts ==
    /\ chip = "asleep"
    /\ chip' = "awake"
    /\ fwPs' = IF fwPs = "SLEEP" THEN "AWAKE" ELSE fwPs
    /\ UNCHANGED <<mac, mutex, drvPs, halLock, hostReq, fwMode, addWakeup,
                   tasks, txq, suspend, th, left>>

-----------------------------------------------------------------------------
PowerStep(t) ==
    \/ CommandAnnounced(t) \/ FindsBusy(t)
    \/ DozeRefused(t) \/ CommandDropped(t)
    \/ CommandUnannounced(t) \/ LateDoze(t)

AskStep(t) == IsOutstanding(t) \/ AskWakeup(t)

MailboxStep(t) ==
    TakeHalLock(t) \/ SetCmd(t) \/ Push(t) \/ PushFailed(t) \/ RequestSleep(t)

WorkThread ==
    \/ WakeupTask
    \/ PowerStep("work") \/ MailboxStep("work")
    \/ CommandEnds("work") \/ ClearWakeReq("work")

TxokThread ==
    \/ PowerStep("txok") \/ AskStep("txok") \/ MailboxStep("txok")
    \/ CommandEnds("txok") \/ ClearWakeReq("txok")

ParamThread == MailboxStep("param") \/ OtherCommandEnds

TxThread == TxFindsSleeping \/ AskStep("tx") \/ TxBegins \/ TxSends

PmThread ==
    \/ Resume \/ ResumeOnePowered
    \/ SuspendBusy \/ SuspendAnnounced \/ SuspendCmdEnds \/ SuspendNext
    \/ MailboxStep("pm")

Environment ==
    \/ \E v \in left.up : FullSleep(v) \/ NewFrame(v)
    \/ \E cmd \in {"PARAM", "NULLDATA"} : OtherCommand(cmd)
    \/ Suspend
    \/ ChipSleeps \/ ChipInterrupts

Next ==
    WorkThread \/ TxokThread \/ ParamThread \/ TxThread \/ PmThread \/ Environment

Spec == Init /\ [][Next]_vars

\* Each thread goes on when it can: they are kernel threads and work queues
\* that wait on nothing but the locks shown.
Fairness ==
    /\ WF_vars(WorkThread) /\ WF_vars(TxokThread) /\ WF_vars(ParamThread)
    /\ WF_vars(TxThread) /\ WF_vars(PmThread)

FairSpec == Spec /\ Fairness

-----------------------------------------------------------------------------
(* Properties                                                              *)

\* Not a property of the code: no command and no frame is written to a
\* sleeping chip because the host takes it for active and skips the wakeup
\* (the "BUG! fw_st" test of w1_sdio.c).  TLC refutes it.
AccessFindsAwake ==
    (\E t \in Threads : th[t].pc \in {"push", "send"}) /\ fwPs = "ACTIVE"
        => chip = "awake"

\* A wakeup request that is outstanding is no stale flag: a task is queued, the
\* work thread is at it, or a doze that was not refused will clear it.
\* Otherwise every later request would be swallowed.
WakeupOutstanding ==
    addWakeup => \/ tasks # <<>>
                 \/ th["work"].pc # "idle"
                 \/ th["txok"].pc \notin {"idle", "power", "busy", "check", "ask"}

AtMailbox == {"set", "push", "req", "tail"}

\* Only a suspend or a resume, which makes the command of a wakeup be dropped
\* while it is at the mailbox or on its way there, can leave a request stale.
RequestsKept ==
    [][WakeupOutstanding /\ th["pm"].pc \notin {"hal"} \cup AtMailbox
         => WakeupOutstanding']_vars

\* Once the driver is suspended, no command changes what the firmware does,
\* whoever had begun one ("during suspend, no cmd to fw").
QuietWhileSuspended == [][suspend.cnt = 1 => UNCHANGED fwMode]_vars

LeftSuspended == suspend.wow /\ ~ suspend.host /\ th["pm"].pc = "idle"

\* Every queued frame leaves the HAL: it is sent or a suspend flushes it.
FramesLeave == txq > 0 ~> (txq = 0 \/ LeftSuspended)
=============================================================================
