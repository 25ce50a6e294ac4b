-------------------------------- MODULE Scan --------------------------------
(***************************************************************************)
(* A scan of one station interface, from the request to its report.  The   *)
(* scan advances in tasks of the work thread; what queues them are the     *)
(* scan timer, the abort timer, the leaky-AP timer, the firmware's events  *)
(* (hi_irq thread), the end of transmission (txok thread), cancellations   *)
(* and the disconnection, each in its own thread.  wm_scanplayercnt tells  *)
(* a task that a later one was queued: it is only ever compared with the   *)
(* value a task was queued with, so a task carries whether it is the last. *)
(***************************************************************************)
EXTENDS Naturals, Sequences, FiniteSets

CONSTANTS Chans,      \* ss_chans: primary numbers of the channels to scan
          HomePri,    \* primary number of the channel of the connection
          HomeWide,   \* whether that channel is wider than 20 MHz
          MaxQueue,   \* bound: scan tasks in the work fifo
          MaxSwitch,  \* bound: channel switches the firmware has yet to report
          Scenarios   \* bound: which of data, cancel, connect, leave and one
                      \* TX_ERROR happen in a behaviour

ASSUME SomeChannel == Chans \in Seq(Nat) /\ Chans # <<>>
ASSUME Bounds      == MaxQueue \in Nat /\ MaxSwitch \in Nat

Home    == [pri |-> HomePri, wide |-> HomeWide]
Chan(i) == [pri |-> Chans[i], wide |-> FALSE]

StateFlags == {"START", "CANCEL", "WAIT_TBTT", "RESTORE", "NOTIFY_AP",
               "TX_DONE", "WAIT_PKT_CLEAR", "WAIT_SWITCH", "SWITCHED",
               "GET_AP"}

VARIABLES
    scanning,   \* WIFINET_F_SCAN in wm_flags
    cfg,        \* USERREQ and CONNECT of scan_CfgFlags
    flags,      \* scan_StateFlags
    next,       \* scan_next_chan_index + 1
    cur,        \* wm_curchan
    timer,      \* ss_scan_timer is armed
    abort,      \* ss_scan_abort_timer is armed
    leak,       \* scan_hr_timer is armed
    queue,      \* scan tasks in the work fifo
    work,       \* where the work thread is inside a task
    connected,  \* the interface is WIFINET_S_CONNECTED (wm_nrunning = 1)
    leaving,    \* a disconnection is between its two steps
    quiet,      \* WIFINET_PSQUEUE_PS4QUIET: the interface holds its frames
    ap,         \* what the AP was last told: "awake" or "asleep"
    hal,        \* kinds of frames the HAL holds: data, null (power save)
    status,     \* what the txok thread has been woken for
    switches,   \* switches whose event has not arrived
    irq,        \* where the hi_irq thread is
    env,        \* events of the scenario that may still happen
    request,    \* pwdev_priv->scan_request is set
    stolen,     \* wifi_mac_process_tx_error keeps the request
    caller,     \* where vm_cfg80211_scan is
    kernel,     \* the request as cfg80211 sees it
    ghost       \* races that have touched this request or this scan

tasks  == <<queue, work>>
radio  == <<cur, switches>>
link   == <<connected, leaving, quiet, ap, hal, status>>
users  == <<request, stolen, caller, kernel, ghost>>
chip   == <<irq, env>>
vars   == <<scanning, cfg, flags, next, cur, timer, abort, leak, queue, work,
            connected, leaving, quiet, ap, hal, status, switches, irq, env,
            request, stolen, caller, kernel, ghost>>

Init ==
    /\ scanning = FALSE /\ cfg = {} /\ flags = {} /\ next = 1
    /\ connected \in BOOLEAN /\ leaving = FALSE
    /\ cur = IF connected THEN Home ELSE Chan(1)
    /\ timer = FALSE /\ abort = FALSE /\ leak = FALSE
    /\ queue = <<>> /\ work = "idle"
    /\ quiet = FALSE /\ ap = "awake" /\ hal = {} /\ status = {}
    /\ switches = 0 /\ irq = "idle" /\ env \in Scenarios
    /\ request = FALSE /\ stolen = FALSE
    /\ caller = "idle" /\ kernel = "none" /\ ghost = {}

TypeOK ==
    /\ scanning \in BOOLEAN /\ cfg \subseteq {"USERREQ", "CONNECT"}
    /\ flags \subseteq StateFlags /\ next \in 1 .. Len(Chans) + 1
    /\ cur \in {Home} \cup {Chan(i) : i \in 1 .. Len(Chans)}
    /\ {timer, abort, leak, connected, leaving, quiet, request, stolen} \subseteq BOOLEAN
    /\ queue \in Seq([task : {"start", "timeout"}, last : BOOLEAN])
    /\ Len(queue) <= MaxQueue
    /\ work \in {"idle", "full", "end", "report", "restore", "wipe"}
    /\ ap \in {"awake", "asleep"}
    /\ hal \subseteq {"data", "null"} /\ status \subseteq {"clear", "null"}
    /\ switches \in 0 .. MaxSwitch /\ (\E s \in Scenarios : env \subseteq s)
    /\ irq \in {"idle", "post", "wait", "late", "restart"}
    /\ caller \in {"idle", "wait", "cancelled", "store", "start", "arm"}
    /\ kernel \in {"none", "asked", "answered"}
    /\ ghost \subseteq {"wiped", "late", "refused", "unheld"}

----------------------------------------------------------------------------
(* Helpers.                                                                 *)

Room == Len(queue) < MaxQueue

\* Every queued task is one call behind, except the one queued now.
Enqueue(task) ==
    queue' = Append([i \in DOMAIN queue |-> [queue[i] EXCEPT !.last = FALSE]],
                    [task |-> task, last |-> TRUE])

\* wifi_mac_scan_timeout_ex, called when scan_StateFlags is f.
TimeoutEx(f) ==
    /\ flags' = (f \ {"WAIT_TBTT", "WAIT_SWITCH"})
                  \cup {x \in {"SWITCHED"} : "WAIT_SWITCH" \in f}
    /\ Enqueue("timeout")

\* wifi_mac_cancel_scan, and the body of wifi_mac_scan_abort_ex.
CancelScan ==
    IF ~scanning THEN UNCHANGED <<flags, timer, queue>>
    ELSE IF "START" \in flags
         THEN timer' = FALSE /\ TimeoutEx(flags \cup {"CANCEL"})
         ELSE flags' = flags \cup {"CANCEL"} /\ UNCHANGED <<timer, queue>>

\* wifi_mac_start_scan once its tests have passed; the timer is armed later.
\* The test of WIFINET_F_SCAN and its set are one step: two starts that both
\* passed the test are left out.
StartScan(how) ==
    /\ scanning' = TRUE
    /\ cfg' = cfg \cup how
    /\ Enqueue("start")

\* vm_cfg80211_indicate_scan_done.
Answer ==
    IF ~request THEN UNCHANGED <<request, kernel, ghost>>
    ELSE /\ request' = FALSE
         /\ kernel' = IF caller = "idle" THEN "none" ELSE "answered"
         /\ ghost' = ghost \cap {"unheld"}

\* wifi_mac_ChangeChannel.
ChangeChannel(c) ==
    /\ cur' = c
    /\ switches' = IF switches < MaxSwitch THEN switches + 1 ELSE switches

\* wifi_mac_restore_wnet_vif_channel: back to the connection's channel, if
\* there is one, and tell the AP (wifi_mac_scan_notify_leave_or_back).
RestoreChannel ==
    IF ~connected THEN UNCHANGED <<cur, switches, quiet, ap, hal>>
    ELSE /\ IF cur = Home THEN UNCHANGED radio ELSE ChangeChannel(Home)
         /\ quiet' = FALSE /\ ap' = "awake" /\ hal' = hal \cup {"data"}

----------------------------------------------------------------------------
(* Tasks of the work thread.                                                *)

Run(task) ==
    /\ work = "idle" /\ queue # <<>> /\ Head(queue).task = task

\* scan_start_task, dropped: a later call, a scan under way, or none wanted.
StartDropped ==
    /\ Run("start")
    /\ ~Head(queue).last \/ "START" \in flags \/ ~scanning
    /\ queue' = Tail(queue)
    /\ UNCHANGED <<scanning, cfg, flags, next, radio, timer, abort, leak, work,
                   link, chip, users>>

\* scan_start_task: reset the state and wait for a beacon, or go at once.
StartTask ==
    /\ Run("start")
    /\ Head(queue).last /\ "START" \notin flags /\ scanning
    /\ next' = 1 /\ abort' = TRUE
    /\ IF connected
       THEN /\ flags' = {"START", "WAIT_TBTT"} /\ timer' = TRUE
            /\ queue' = Tail(queue)
       ELSE /\ flags' = {"START"} /\ timer' = FALSE
            /\ queue' = Append(Tail(queue), [task |-> "timeout", last |-> TRUE])
    /\ UNCHANGED <<scanning, cfg, radio, leak, work, link, chip, users>>

Done == next > Len(Chans) \/ "CANCEL" \in flags

\* The next channel is the one the radio is on, at the width of a scan.
AlreadyThere == cur.pri = Chans[next] /\ ~cur.wide

Restoring == connected /\ "RESTORE" \in flags
Advancing == "START" \in flags /\ "GET_AP" \notin flags
MustLeave == connected /\ ~AlreadyThere

\* The common part of wifi_mac_scan_timeout: it is the last task queued and
\* the scan is on; the timer has been cancelled.
Timeout(nexttimer) ==
    /\ Run("timeout") /\ Head(queue).last /\ scanning
    /\ queue' = Tail(queue) /\ timer' = nexttimer
    /\ UNCHANGED <<scanning, cfg, abort, leak, connected, leaving, status,
                   chip, request, stolen, caller, kernel>>

\* A task that was overtaken, or has no scan to serve, cancels the timer too.
TimeoutDropped ==
    /\ Run("timeout")
    /\ ~Head(queue).last \/ ~scanning
    /\ queue' = Tail(queue) /\ timer' = FALSE
    /\ UNCHANGED <<scanning, cfg, flags, next, radio, abort, leak, work, link,
                   chip, users>>

TimeoutEnds ==
    /\ Timeout(FALSE)
    /\ ~Advancing \/ (Done /\ ~Restoring)
    /\ work' = "end"
    /\ UNCHANGED <<flags, next, radio, quiet, ap, hal, ghost>>

\* Back on the home channel between two scanned ones, or for good.
TimeoutRestores ==
    /\ Timeout(~Done)
    /\ Advancing /\ Restoring
    /\ RestoreChannel
    /\ flags' = (flags \ {"RESTORE"}) \cup {x \in {"WAIT_TBTT"} : ~Done}
    /\ work' = IF Done THEN "end" ELSE "idle"
    /\ UNCHANGED <<next, ghost>>

Leaving == Advancing /\ ~Restoring /\ ~Done

\* wifi_mac_scan_buff_and_chk_tx finds frames in the HAL.
TimeoutFull ==
    /\ Timeout(FALSE)
    /\ Leaving /\ MustLeave /\ "TX_DONE" \notin flags /\ hal # {}
    /\ quiet' = TRUE /\ work' = "full"
    /\ UNCHANGED <<flags, next, radio, ap, hal, ghost>>

\* ... and only then asks to be told when they are gone.
WaitPktClear ==
    /\ work = "full" /\ work' = "idle"
    /\ flags' = (flags \cup {"WAIT_PKT_CLEAR"}) \ {"TX_DONE"}
    /\ UNCHANGED <<scanning, cfg, next, radio, timer, abort, leak, queue, link,
                   chip, users>>

MayNotify == "TX_DONE" \in flags \/ hal = {}

\* wifi_mac_scan_notify_ap: the AP is told, leave in LEAKY_AP_DET_WIN.
\* Mutant: the interface goes quiet but the null frame does not say so to the AP.
TimeoutNotifiesLate ==
    /\ Timeout(TRUE)
    /\ Leaving /\ MustLeave /\ MayNotify /\ "NOTIFY_AP" \notin flags
    /\ quiet' = (quiet \/ "TX_DONE" \notin flags)
    /\ UNCHANGED ap /\ hal' = hal \cup {"null"}
    /\ flags' = flags \cup {"TX_DONE", "NOTIFY_AP"}
    /\ ghost' = ghost \cup {x \in {"unheld"} : "WAIT_PKT_CLEAR" \in flags}
    /\ UNCHANGED <<next, radio, work>>

TimeoutNotifies ==
    /\ Timeout(TRUE)
    /\ Leaving /\ MustLeave /\ MayNotify /\ "NOTIFY_AP" \notin flags
    /\ quiet' = (quiet \/ "TX_DONE" \notin flags)
    /\ ap' = "asleep" /\ hal' = hal \cup {"null"}
    /\ flags' = flags \cup {"TX_DONE", "NOTIFY_AP"}
    /\ ghost' = ghost \cup {x \in {"unheld"} : "WAIT_PKT_CLEAR" \in flags}
    /\ UNCHANGED <<next, radio, work>>

Ready == Leaving /\ (MustLeave => MayNotify /\ "NOTIFY_AP" \in flags)

\* wifi_mac_switch_scan_channel: ask the firmware, wait at most 30 ms.
TimeoutSwitches ==
    /\ Timeout(TRUE)
    /\ Ready /\ "SWITCHED" \notin flags /\ cur.pri # Chans[next]
    /\ ChangeChannel(Chan(next))
    /\ flags' = flags \cup {"WAIT_SWITCH"}
    /\ UNCHANGED <<next, work, quiet, ap, hal, ghost>>

\* wifi_mac_scan_channel: send the probe requests and dwell.
Dwell(drop) ==
    /\ Timeout(TRUE)
    /\ Ready /\ ("SWITCHED" \in flags \/ cur.pri = Chans[next])
    /\ flags' = IF connected
                THEN (flags \ (drop \cup {"NOTIFY_AP", "TX_DONE"})) \cup {"RESTORE"}
                ELSE flags \ drop
    /\ next' = next + 1 /\ hal' = hal \cup {"data"}
    /\ UNCHANGED <<radio, work, quiet, ap, ghost>>

\* Mutant: CHANNEL_SWITCH_COMPLETE is not reset.
TimeoutDwellsStale == Dwell({"WAIT_SWITCH"})

TimeoutDwells == Dwell({"WAIT_SWITCH", "SWITCHED"})

\* wifi_mac_end_scan, in the steps other threads can come between.
EndStop ==
    /\ work = "end" /\ work' = "report"
    /\ timer' = FALSE /\ abort' = FALSE /\ flags' = {}
    /\ UNCHANGED <<scanning, cfg, next, radio, leak, queue, link, chip, users>>

EndReport ==
    /\ work = "report" /\ work' = "restore"
    /\ IF "USERREQ" \in cfg THEN Answer ELSE UNCHANGED <<request, kernel, ghost>>
    /\ cfg' = cfg \ {"USERREQ"}
    /\ UNCHANGED <<scanning, flags, next, radio, timer, abort, leak, queue,
                   link, chip, stolen, caller>>

EndRestore ==
    /\ work = "restore" /\ work' = "wipe"
    /\ RestoreChannel
    /\ scanning' = FALSE /\ ghost' = ghost \ {"unheld"}
    /\ UNCHANGED <<cfg, flags, next, timer, abort, leak, queue, connected,
                   leaving, status, chip, request, stolen, caller, kernel>>

\* A scan started since WIFINET_F_SCAN was cleared loses its flags here.
EndWipe ==
    /\ work = "wipe" /\ work' = "idle"
    /\ cfg' = {} /\ quiet' = FALSE
    /\ ghost' = ghost \cup {x \in {"wiped"} : "USERREQ" \in cfg}
    /\ UNCHANGED <<scanning, flags, next, radio, timer, abort, leak, queue,
                   connected, leaving, ap, hal, status, chip, request, stolen,
                   caller, kernel>>

Worker ==
    \/ StartDropped \/ StartTask
    \/ TimeoutDropped \/ TimeoutEnds \/ TimeoutRestores \/ TimeoutFull
    \/ TimeoutNotifies \/ TimeoutSwitches \/ TimeoutDwells
    \/ WaitPktClear
    \/ EndStop \/ EndReport \/ EndRestore \/ EndWipe

----------------------------------------------------------------------------
(* Timers.                                                                  *)

ScanTimer ==
    /\ timer /\ Room
    /\ timer' = FALSE /\ TimeoutEx(flags)
    /\ UNCHANGED <<scanning, cfg, next, radio, abort, leak, work, link, chip, users>>

\* wifi_mac_scan_abort_ex, after 10 s.
\* Mutant: the abort only leaves a mark.
AbortTimerMarks ==
    /\ abort /\ Room
    /\ abort' = FALSE
    /\ flags' = IF scanning THEN flags \cup {"CANCEL"} ELSE flags
    /\ UNCHANGED <<scanning, cfg, next, radio, timer, queue, leak, work, link, chip, users>>

AbortTimer ==
    /\ abort /\ Room
    /\ abort' = FALSE /\ CancelScan
    /\ UNCHANGED <<scanning, cfg, next, radio, leak, work, link, chip, users>>

\* wifi_mac_scan_chk_leakap_done_process, once it does not restart itself.
LeakTimer ==
    /\ leak /\ Room
    /\ leak' = FALSE
    /\ IF "SWITCHED" \in flags THEN UNCHANGED <<flags, timer, queue>>
       ELSE timer' = FALSE /\ TimeoutEx(flags)
    /\ UNCHANGED <<scanning, cfg, next, radio, abort, work, link, chip, users>>

Timers == ScanTimer \/ AbortTimer \/ LeakTimer

----------------------------------------------------------------------------
(* Transmission: the frames of the interface, and the txok thread.          *)

SendData ==
    /\ "data" \in env /\ connected /\ ~quiet /\ "data" \notin hal
    /\ hal' = hal \cup {"data"}
    /\ UNCHANGED <<scanning, cfg, flags, next, radio, timer, abort, leak, tasks,
                   connected, leaving, quiet, ap, status, chip, users>>

FrameSent(f) ==
    /\ f \in hal
    /\ hal' = hal \ {f}
    /\ status' = status \cup {x \in {"null"} : f = "null"} \cup {"clear"}
    /\ UNCHANGED <<scanning, cfg, flags, next, radio, timer, abort, leak, tasks,
                   connected, leaving, quiet, ap, chip, users>>

\* wifi_mac_notify_pkt_clear, at a wake-up that finds every page free.
NotifyPktClear ==
    /\ "clear" \in status /\ Room
    /\ status' = status \ {"clear"}
    /\ IF connected /\ scanning /\ "WAIT_PKT_CLEAR" \in flags /\ hal = {}
       THEN /\ TimeoutEx((flags \ {"WAIT_PKT_CLEAR"}) \cup {"TX_DONE"})
            /\ timer' = FALSE
       ELSE UNCHANGED <<flags, timer, queue>>
    /\ UNCHANGED <<scanning, cfg, next, radio, abort, leak, work, connected,
                   leaving, quiet, ap, hal, chip, users>>

\* wifi_mac_notify_ap_success, for the status of the null frame.
NotifyApSuccess ==
    /\ "null" \in status /\ "clear" \notin status
    /\ status' = status \ {"null"}
    /\ IF connected /\ scanning /\ "NOTIFY_AP" \in flags /\ hal = {}
       THEN timer' = FALSE /\ leak' = TRUE
       ELSE UNCHANGED <<timer, leak>>
    /\ UNCHANGED <<scanning, cfg, flags, next, radio, abort, tasks, connected,
                   leaving, quiet, ap, hal, chip, users>>

TxOk == NotifyPktClear \/ NotifyApSuccess

----------------------------------------------------------------------------
(* The hi_irq thread.                                                       *)

\* wifi_mac_tbtt_handle.
Tbtt ==
    /\ irq = "idle" /\ connected /\ "WAIT_TBTT" \in flags
    /\ flags' = flags \ {"WAIT_TBTT"} /\ timer' = TRUE
    /\ UNCHANGED <<scanning, cfg, next, radio, abort, leak, tasks, link, chip, users>>

\* wifi_mac_channel_switch_complete takes any switch for the awaited one.
SwitchComplete ==
    /\ irq = "idle" /\ switches > 0
    /\ switches' = switches - 1
    /\ IF "WAIT_SWITCH" \in flags
       THEN flags' = (flags \ {"WAIT_SWITCH"}) \cup {"SWITCHED"} /\ irq' = "post"
       ELSE UNCHANGED <<flags, irq>>
    /\ UNCHANGED <<scanning, cfg, next, cur, timer, abort, leak, tasks, link,
                   env, users>>

\* ... and queues the task after it has given up the lock.
SwitchPost ==
    /\ irq = "post" /\ irq' = "idle" /\ Room
    /\ TimeoutEx(flags)
    /\ UNCHANGED <<scanning, cfg, next, radio, timer, abort, leak, work, link,
                   env, users>>

\* wifi_mac_process_tx_error: take the request away, cancel the scan ...
TxError ==
    /\ irq = "idle" /\ irq' = "wait" /\ "error" \in env /\ scanning /\ Room
    /\ env' = env \ {"error"}
    /\ request' = FALSE /\ stolen' = (stolen \/ request)
    /\ CancelScan
    /\ UNCHANGED <<scanning, cfg, next, radio, abort, leak, work, link, caller,
                   kernel, ghost>>

\* ... wait for its end, 420 ms at most ...
TxErrorTimeout ==
    /\ irq = "wait" /\ irq' = "late" /\ scanning
    /\ UNCHANGED <<scanning, cfg, flags, next, radio, timer, abort, leak, tasks,
                   link, env, users>>

GiveBack == request' = (request \/ stolen) /\ stolen' = FALSE

TxErrorLate ==
    /\ irq = "late" /\ irq' = "idle"
    /\ GiveBack
    /\ ghost' = ghost \cup {x \in {"late"} : stolen}
    /\ UNCHANGED <<scanning, cfg, flags, next, radio, timer, abort, leak, tasks,
                   link, env, caller, kernel>>

TxErrorEnded ==
    /\ irq = "wait" /\ irq' = "restart" /\ ~scanning
    /\ GiveBack
    /\ UNCHANGED <<scanning, cfg, flags, next, radio, timer, abort, leak, tasks,
                   link, env, caller, kernel, ghost>>

\* ... and scan again, if nobody else has started to.
TxErrorRestart ==
    /\ irq = "restart" /\ irq' = "idle" /\ Room
    /\ IF scanning
       THEN /\ ghost' = ghost \cup {x \in {"refused"} : request}
            /\ UNCHANGED <<scanning, cfg, queue, timer>>
       ELSE StartScan({"USERREQ"}) /\ timer' = TRUE /\ UNCHANGED ghost
    /\ UNCHANGED <<flags, next, radio, abort, leak, work, link, env, request,
                   stolen, caller, kernel>>

Irq == SwitchPost \/ TxErrorTimeout \/ TxErrorLate \/ TxErrorEnded \/ TxErrorRestart

----------------------------------------------------------------------------
(* Users: cfg80211, suspend, and the state machine of the connection.       *)

\* vm_cfg80211_scan; cfg80211 makes one request at a time.
Request ==
    /\ caller = "idle" /\ kernel = "none"
    /\ caller' = IF ~scanning THEN "store"
                 ELSE IF "CONNECT" \in cfg \/ request THEN "idle" ELSE "wait"
    /\ kernel' = IF caller' = "idle" THEN "none" ELSE "asked"
    /\ request' = IF scanning /\ "CONNECT" \in cfg THEN FALSE ELSE request
    /\ UNCHANGED <<scanning, cfg, flags, next, radio, timer, abort, leak, tasks,
                   link, chip, stolen, ghost>>

\* wifi_mac_preempt_scan: after a grace period the scan is cancelled ...
Preempt ==
    /\ caller = "wait" /\ caller' = "cancelled" /\ scanning /\ Room
    /\ CancelScan
    /\ UNCHANGED <<scanning, cfg, next, radio, abort, leak, work, link, chip,
                   request, stolen, kernel, ghost>>

\* ... and its result, whether the scan has ended, is not looked at.
PreemptReturns ==
    /\ caller' = "store"
    /\ (caller = "wait" /\ ~scanning) \/ caller = "cancelled"
    /\ UNCHANGED <<scanning, cfg, flags, next, radio, timer, abort, leak, tasks,
                   link, chip, request, stolen, kernel, ghost>>

\* The request is stored before it is known whether a scan can start.
StoreRequest ==
    /\ caller = "store" /\ caller' = "start"
    /\ request' = TRUE
    /\ UNCHANGED <<scanning, cfg, flags, next, radio, timer, abort, leak, tasks,
                   link, chip, stolen, kernel, ghost>>

RequestStarts ==
    /\ caller = "start" /\ ~scanning /\ caller' = "arm" /\ Room
    /\ StartScan({"USERREQ"})
    /\ UNCHANGED <<flags, next, radio, timer, abort, leak, work, link, chip,
                   request, stolen, kernel, ghost>>

\* wifi_mac_start_scan arms the timer after the task may have run.
RequestArms ==
    /\ caller = "arm" /\ caller' = "idle"
    /\ timer' = TRUE
    /\ kernel' = IF kernel = "answered" THEN "none" ELSE kernel
    /\ UNCHANGED <<scanning, cfg, flags, next, radio, abort, leak, tasks, link,
                   chip, request, stolen, ghost>>

RequestRefused ==
    /\ caller = "start" /\ scanning /\ caller' = "idle"
    /\ request' = FALSE
    /\ kernel' = "none"
    /\ ghost' = ghost \cap {"unheld"}
    /\ UNCHANGED <<scanning, cfg, flags, next, radio, timer, abort, leak, tasks,
                   link, chip, stolen>>

Caller == PreemptReturns \/ StoreRequest \/ RequestStarts \/ RequestArms \/ RequestRefused

\* wifi_mac_cancel_scan, by a suspend or an interface going down.
Cancel ==
    /\ "cancel" \in env /\ scanning /\ Room /\ "CANCEL" \notin flags
    /\ CancelScan
    /\ UNCHANGED <<scanning, cfg, next, radio, abort, leak, work, link, chip, users>>

\* wifi_mac_chk_scan: look for the AP to connect to, unless it is known.
ConnectScan ==
    /\ "connect" \in env /\ ~scanning /\ ~connected /\ ~leaving /\ Room
    /\ \/ StartScan({"CONNECT"}) /\ timer' = TRUE
       \/ cfg' = {} /\ UNCHANGED <<scanning, queue, timer>>
    /\ UNCHANGED <<flags, next, radio, abort, leak, work, link, chip, users>>

\* A beacon of the wanted AP ends the scan at its next task.
FoundAp ==
    /\ "CONNECT" \in cfg /\ "START" \in flags
    /\ flags' = flags \cup {"GET_AP"}
    /\ UNCHANGED <<scanning, cfg, next, radio, timer, abort, leak, tasks, link,
                   chip, users>>

\* The connection is made on its channel.
Connect ==
    /\ "connect" \in env /\ ~scanning /\ ~connected /\ ~leaving
    /\ connected' = TRUE /\ ap' = "awake"
    /\ IF cur = Home THEN UNCHANGED radio ELSE ChangeChannel(Home)
    /\ UNCHANGED <<scanning, cfg, flags, next, timer, abort, leak, tasks,
                   leaving, quiet, hal, status, chip, users>>

\* wifi_mac_sub_sm: the interface no longer counts, the scan is cancelled ...
Leave ==
    /\ "leave" \in env /\ connected /\ ~leaving /\ Room
    /\ connected' = FALSE /\ leaving' = TRUE
    /\ CancelScan
    /\ UNCHANGED <<scanning, cfg, next, radio, abort, leak, work, quiet, ap, hal,
                   status, chip, users>>

\* ... and wifi_mac_sta_leave masks the flags with one that is never set.
LeaveMasks ==
    /\ leaving /\ leaving' = FALSE
    /\ flags' = IF scanning THEN {} ELSE flags
    /\ UNCHANGED <<scanning, cfg, next, radio, timer, abort, leak, tasks,
                   connected, quiet, ap, hal, status, chip, users>>

Next ==
    \/ Worker \/ Timers \/ TxOk \/ Irq \/ Caller
    \/ SendData \/ (\E f \in {"data", "null"} : FrameSent(f))
    \/ Tbtt \/ SwitchComplete \/ TxError
    \/ Request \/ Preempt
    \/ Cancel \/ ConnectScan \/ FoundAp \/ Connect \/ Leave \/ LeaveMasks

Spec == Init /\ [][Next]_vars

----------------------------------------------------------------------------
(* Properties.                                                              *)

(* While the radio is off the channel of a connection, the interface holds *)
(* its frames and its AP was told it sleeps (wifi_mac_scan_timeout asks    *)
(* for both before it switches), whatever cancels, times out or answers    *)
(* late in between.                                                        *)
AwayQuietly ==
    connected /\ cur # Home /\ "unheld" \notin ghost => quiet /\ ap = "asleep"

(* After a scan a connected interface is on its channel, sends again, and  *)
(* its AP knows (wifi_mac_end_scan restores all three).                    *)
BackAfterScan ==
    ~scanning /\ work = "idle" /\ connected => cur = Home /\ ~quiet /\ ap = "awake"

(* The connection is quiet while the radio is away, and only then.         *)
ConnectionKept == AwayQuietly /\ BackAfterScan

(* The switch a scan takes for complete is the one to its next channel:    *)
(* wifi_mac_scan_channel dwells without a look at the channel.             *)
SwitchedIsThere ==
    "SWITCHED" \in flags /\ "START" \in flags /\ ~Done => cur.pri = Chans[next]

(* A stored request always has a scan that will answer it, unless it was   *)
(* given back by a TX_ERROR that waited too long, refused to one, or lost  *)
(* its USERREQ flag to the end of the scan before.                         *)
RequestHasScan ==
    request /\ caller = "idle" /\ ghost \cap {"wiped", "late", "refused"} = {}
        => (scanning /\ "USERREQ" \in cfg) \/ irq = "restart"

(* The scan's own books agree: a switch taken for complete is there, and a *)
(* request that waits has a scan that answers it.                          *)
ScanSound == TypeOK /\ SwitchedIsThere /\ RequestHasScan

(* A scan is never stranded: between two tasks there is a task that will   *)
(* not be ignored, a timer that will queue one, or the abort timer while   *)
(* it can still do so, whatever is cancelled, masked or told too early.    *)
WakeupPending ==
    scanning /\ work = "idle" =>
        \/ \E i \in DOMAIN queue : queue[i].last
        \/ timer \/ caller = "arm" \/ irq = "post"
        \/ abort /\ "START" \in flags
=============================================================================
