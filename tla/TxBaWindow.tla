----------------------------- MODULE TxBaWindow -----------------------------
(***************************************************************************)
(* The transmit block-ack window of one TID and the aggregation that fills *)
(* it.  A sender queues a frame and, when enough are pending or a timeout  *)
(* says so, aggregates under the queue's lock; else it arms a high         *)
(* resolution timer, whose handler and the txok thread set                 *)
(* wait_mpdu_timeout and schedule the ampdu tasklet.  Completions come     *)
(* back through the txok thread, which moves the window.  Frames are       *)
(* numbered from 1 in the order they are queued; what HalTx shows in       *)
(* detail (ring, ids, pages) is here a count of frames on their way.       *)
(***************************************************************************)
EXTENDS Integers, SequencesExt

CONSTANTS SeqMax,     \* WIFINET_SEQ_MAX (4096)
          FirstSeq,   \* sequence number of the first frame
          BufNbr,     \* DRV_TID_MAX_BUFS (128)
          Baw,        \* baw_size, what the peer's ADDBA response named (64)
          Subframes,  \* cfg_ampdu_subframes (16)
          HalSize,    \* HI_AGG_TXD_NUM_PER_QUEUE (80)
          Queue,      \* the txlist of the TID, 0 .. HAL_WME_AC_VO
          MaxFrames   \* bound: frames queued in a run

ASSUME TxBaWindowAssumption ==
    /\ {SeqMax, BufNbr, Baw, Subframes, HalSize, MaxFrames} \subseteq Nat \ {0}
    /\ FirstSeq \in 0 .. SeqMax - 1
    /\ Baw + 1 < BufNbr /\ 2 * Baw < SeqMax
    /\ Queue \in 0 .. 3

VO     == 3      \* HAL_WME_AC_VO, the last list the tasklet visits
None   == 0      \* a NULL tx_desc
MPDUs  == 1 .. MaxFrames

VARIABLES
    made,    \* frames queued so far
    given,   \* frames given to the HAL so far; the others are pending
    down,    \* frames the HAL has downloaded, whose slots are free again
    chip,    \* external: frames the firmware has and has not reported
    status,  \* the status list of the txok thread
    txoksem, \* the count of txok_thread_sem
    win,     \* the scoreboard: seq_start, baw_head, baw_tail
    desc,    \* tx_desc: the frame in each place of the window
    qcnt,    \* txlist_qcnt
    wait,    \* wait_mpdu_timeout
    hr,      \* the hrtimer: off, armed, or its handler running; not off is
             \* also what g_hr_lock_timer_valid says
    sched,   \* the ampdu tasklet is scheduled
    lock,    \* who holds the txlist's lock: free, send or tasklet
    send,    \* the sender: idle, attach, cancel, loop
    tasklet, \* the tasklet: pc, list, its copy of wait, status_change
    txok,    \* the txok thread: pc and the frame it completes
    forced   \* history: frames taken out of the window unanswered

halVars == <<down, chip, status, txoksem>>
winVars == <<win, desc>>
bawVars == <<made, given, halVars, winVars, qcnt, wait, hr, sched, lock, send,
             tasklet, txok, forced>>

SeqNum(f) == (FirstSeq + f - 1) % SeqMax   \* what drv_tx_prepare numbers f
Pending   == made - given                  \* txds_pending_cnt, txds_queue
Burst     == Min({Baw \div 2, Subframes})
Used      == (win.tail - win.head) % BufNbr
Place(i)  == (win.head + i) % BufNbr

(* DRV_BA_INDEX.                                                           *)
Index(seq) == (seq - win.start) % SeqMax

(* BAW_WITHIN, which takes in the number baw_size places past the start.   *)
Within(seq) == Index(seq) <= Baw

BawInit == /\ made = 0 /\ given = 0 /\ down = 0
           /\ chip = {}
           /\ status = <<>>
           /\ txoksem = 0
           /\ win = [start |-> FirstSeq, head |-> 0, tail |-> 0]
           /\ desc = [s \in 0 .. BufNbr - 1 |-> None]
           /\ qcnt = 0
           /\ wait = TRUE
           /\ hr = "off"
           /\ sched = FALSE
           /\ lock = "free"
           /\ send = "idle"
           /\ tasklet = [pc |-> "off", list |-> 0, wait |-> FALSE,
                         change |-> FALSE]
           /\ txok = [pc |-> "down", frame |-> None]
           /\ forced = {}

-----------------------------------------------------------------------------
(* The sender.  drv_tx_prepare and drv_tx_send_ampdu, up to the test.      *)
Send ==
    /\ send = "idle"
    /\ lock = "free"
    /\ made < MaxFrames
    /\ made' = made + 1
    /\ lock' = "send"
    /\ send' = IF Pending + 1 < Subframes /\ ~wait THEN "attach" ELSE "cancel"
    /\ UNCHANGED <<given, halVars, winVars, qcnt, wait, hr, sched, tasklet,
                   txok, forced>>

(* wifi_mac_tx_lock_timer_cancel and _attach: too few are pending.         *)
Attach ==
    /\ send = "attach"
    /\ hr # "firing"          \* hrtimer_cancel waits for the handler
    /\ hr' = "armed"
    /\ send' = "idle"
    /\ lock' = "free"
    /\ UNCHANGED <<made, given, halVars, winVars, qcnt, wait, sched, tasklet,
                   txok, forced>>

(* wifi_mac_tx_lock_timer_cancel, before drv_txlist_task.                  *)
Cancel ==
    /\ send = "cancel"
    /\ hr # "firing"
    /\ hr' = "off"
    /\ send' = "loop"
    /\ UNCHANGED <<made, given, halVars, winVars, qcnt, wait, sched, lock,
                   tasklet, txok, forced>>

(* wifi_mac_set_tx_lock_timeout, which takes no lock, in two steps.        *)
TimerExpires ==
    /\ hr = "armed"
    /\ hr' = "firing"
    /\ wait' = TRUE
    /\ sched' = TRUE
    /\ UNCHANGED <<made, given, halVars, winVars, qcnt, lock, send, tasklet,
                   txok, forced>>

TimerEnds ==
    /\ hr = "firing"
    /\ hr' = "off"
    /\ UNCHANGED <<made, given, halVars, winVars, qcnt, wait, sched, lock, send,
                   tasklet, txok, forced>>

-----------------------------------------------------------------------------
(* drv_tx_sched_aggr, one turn of its loop at a time.  The caller is the   *)
(* sender or the tasklet, and holds the lock.                              *)

FreeSlots   == HalSize - 1 - (given - down)              \* hal_get_priv_cnt
HalFull(n)  == (IF FreeSlots >= 2 THEN FreeSlots - 1 ELSE 0) < n
HalBusy     == HalSize - FreeSlots >= Subframes

(* The test with which drv_txampdu_build begins.                           *)
Opens == Within(SeqNum(given + 1) + Burst)

TooFew == Pending < Subframes

Stops == \/ TooFew /\ ~wait
         \/ TooFew /\ HalBusy
         \/ Pending = 0
         \/ HalFull(Subframes)
         \/ ~Opens
         \/ Burst = 0

(* How many frames drv_txampdu_build may take: the aggregate's limit in    *)
(* bytes can end it after any frame but the first.                         *)
Sizes == {k \in 1 .. Min({Burst, Pending}) :
             \A i \in 1 .. k : Within(SeqNum(given + i))}

(* Mutant: the place at the tail does not extend the window.               *)
ExtendsPast(i) == i > Used

Extends(i) == i >= Used

(* drv_tx_add2baw of the k frames that are next.                           *)
Add2Baw(k) ==
    LET at(i) == Place(Index(SeqNum(given + i)))
        last  == Index(SeqNum(given + k))
    IN  /\ desc' = [s \in DOMAIN desc |->
                      IF \E i \in 1 .. k : at(i) = s
                      THEN given + (CHOOSE i \in 1 .. k : at(i) = s)
                      ELSE desc[s]]
        /\ win' = [win EXCEPT !.tail = IF Extends(last)
                                       THEN (at(k) + 1) % BufNbr ELSE @]

LoopOf(who) == /\ lock = who
               /\ \/ who = "send" /\ send = "loop"
                  \/ who = "tasklet" /\ tasklet.pc = "loop"

LeaveLoop(who) ==
    IF who = "send"
    THEN send' = "idle" /\ lock' = "free" /\ UNCHANGED tasklet
    ELSE tasklet' = [tasklet EXCEPT !.pc = "restore"] /\ UNCHANGED <<send, lock>>

(* wait_mpdu_timeout = 0 while the HAL still has an aggregate to send.     *)
WaitAfterStop == wait /\ ~(TooFew /\ HalBusy)

AggrStop(who) ==
    /\ LoopOf(who)
    /\ Stops
    /\ wait' = WaitAfterStop
    /\ LeaveLoop(who)
    /\ UNCHANGED <<made, given, halVars, winVars, qcnt, hr, sched, txok, forced>>

(* Mutant: an aggregate counts as one frame.                               *)
CountedOnce(k) == qcnt + 1

(* txlist_qcnt grows by txdesc_pktnum of the first frame.                  *)
Counted(k) == qcnt + k

(* drv_txampdu_build and drv_to_hal; an aggregate of one frame ends the    *)
(* loop.                                                                   *)
AggrBuild(who, k) ==
    /\ LoopOf(who)
    /\ ~Stops
    /\ k \in Sizes
    /\ Add2Baw(k)
    /\ given' = given + k
    /\ qcnt' = Counted(k)
    /\ wait' = FALSE
    /\ IF k = 1 THEN LeaveLoop(who) ELSE UNCHANGED <<send, lock, tasklet>>
    /\ UNCHANGED <<made, halVars, hr, sched, txok, forced>>

-----------------------------------------------------------------------------
(* drv_txampdu_tasklet.  Its copy of wait_mpdu_timeout is taken before the *)
(* timeout lock, which it then holds over all the lists.                   *)

TimeoutLocked == tasklet.pc \notin {"off", "begin"}

TaskletBegin ==
    /\ sched
    /\ tasklet.pc = "off"
    /\ sched' = FALSE
    /\ tasklet' = [pc |-> "begin", list |-> 0, wait |-> wait, change |-> FALSE]
    /\ UNCHANGED <<made, given, halVars, winVars, qcnt, wait, hr, lock, send,
                   txok, forced>>

(* The lists before and after the TID's own have nothing to send.          *)
TaskletLocks ==
    /\ tasklet.pc \in {"begin", "lists"}
    /\ IF tasklet.list = Queue
       THEN /\ lock = "free"
            /\ lock' = "tasklet"
            /\ tasklet' = [tasklet EXCEPT
                             !.pc = IF Pending = 0 THEN "restore" ELSE "loop"]
       ELSE /\ tasklet' = [tasklet EXCEPT !.pc = "restore"]
            /\ UNCHANGED lock
    /\ UNCHANGED <<made, given, halVars, winVars, qcnt, wait, hr, sched, send,
                   txok, forced>>

(* After each list the timeout is set again for the next; after the last   *)
(* it is cleared if any list had used it.                                  *)
TaskletRestores ==
    LET changed == tasklet.change \/ (tasklet.wait /\ ~wait)
        last    == tasklet.list = VO
    IN  /\ tasklet.pc = "restore"
        /\ wait' = ((wait \/ tasklet.wait) /\ ~(last /\ changed))
        /\ lock' = IF tasklet.list = Queue THEN "free" ELSE lock
        /\ tasklet' = IF last
                      THEN [pc |-> "off", list |-> 0, wait |-> FALSE,
                            change |-> FALSE]
                      ELSE [tasklet EXCEPT !.pc = "lists", !.list = @ + 1,
                                           !.change = changed]
        /\ UNCHANGED <<made, given, halVars, winVars, qcnt, hr, sched, send,
                       txok, forced>>

-----------------------------------------------------------------------------
(* External: HalTx and the firmware.  Frames are downloaded in order and   *)
(* reported in batches, in the order the firmware chooses.                 *)

Download ==
    /\ down < given
    /\ down' = down + 1
    /\ chip' = chip \cup {down + 1}
    /\ UNCHANGED <<made, given, status, txoksem, winVars, qcnt, wait, hr, sched,
                   lock, send, tasklet, txok, forced>>

(* hi_soft_tx_irq: the statuses of a batch, then one up().                 *)
Report(batch) ==
    /\ chip' = chip \ ToSet(batch)
    /\ status' = status \o batch
    /\ txoksem' = txoksem + 1
    /\ UNCHANGED <<made, given, down, winVars, qcnt, wait, hr, sched, lock, send,
                   tasklet, txok, forced>>

ReportSome == \E S \in (SUBSET chip) \ {{}} : \E b \in SetToSeqs(S) : Report(b)

-----------------------------------------------------------------------------
(* The txok thread.  hal_txok_thread wakes, and drv_tx_ok_timeout sets the *)
(* timeout unless the hrtimer will.                                        *)
TxOkWakes ==
    /\ txok.pc = "down"
    /\ txoksem > 0
    /\ ~TimeoutLocked
    /\ txoksem' = txoksem - 1
    /\ wait' = (wait \/ hr = "off")
    /\ txok' = [txok EXCEPT !.pc = "take"]
    /\ UNCHANGED <<made, given, down, chip, status, winVars, qcnt, hr, sched,
                   lock, send, tasklet, forced>>

TxOkSleeps ==
    /\ txok.pc = "take"
    /\ status = <<>>
    /\ txok' = [txok EXCEPT !.pc = "down"]
    /\ UNCHANGED <<made, given, halVars, winVars, qcnt, wait, hr, sched, lock,
                   send, tasklet, forced>>

(* drv_tx_irq_tasklet: one status less, one frame of the queue less.       *)
TxOkTakes ==
    /\ txok.pc = "take"
    /\ status # <<>>
    /\ lock = "free"
    /\ status' = Tail(status)
    /\ qcnt' = IF qcnt > 0 THEN qcnt - 1 ELSE 0
    /\ txok' = [pc |-> "update", frame |-> Head(status)]
    /\ UNCHANGED <<made, given, down, chip, txoksem, winVars, wait, hr, sched,
                   lock, send, tasklet, forced>>

(* drv_tx_update_ba_win returns at once for a frame that is not in the     *)
(* window.                                                                 *)
InWindow(f) == Index(SeqNum(f)) <= Baw

(* The window is so far used that its head may block the next aggregate.   *)
ForcesHead(d) == /\ Used >= Baw - 1 - Burst
                 /\ d[win.head] # None

(* The empty places at the head, which the window moves past.              *)
Advance(d) == CHOOSE n \in 0 .. Used :
                 /\ \A i \in 0 .. n - 1 : d[Place(i)] = None
                 /\ n = Used \/ d[Place(n)] # None

(* Mutant: a completion leaves the pending frames to the timer.            *)
NotRescheduled == sched

(* tasklet_schedule(&ampdu_tasklet).                                       *)
Rescheduled == TRUE

(* drv_tx_complete_task: the window, then the tasklet is scheduled.        *)
TxOkUpdates ==
    LET f      == txok.frame
        answer == [desc EXCEPT ![Place(Index(SeqNum(f)))] = None]
        force  == ForcesHead(answer)
        after  == IF force THEN [answer EXCEPT ![win.head] = None] ELSE answer
    IN  /\ txok.pc = "update"
        /\ lock = "free"
        /\ IF InWindow(f)
           THEN /\ desc' = after
                /\ win' = [start |-> (win.start + Advance(after)) % SeqMax,
                           head |-> Place(Advance(after)), tail |-> win.tail]
                /\ qcnt' = IF force /\ qcnt > 0 THEN qcnt - 1 ELSE qcnt
                /\ forced' = IF force THEN forced \cup {answer[win.head]}
                                      ELSE forced
           ELSE UNCHANGED <<winVars, qcnt, forced>>
        /\ sched' = Rescheduled
        /\ txok' = [pc |-> "take", frame |-> None]
        /\ UNCHANGED <<made, given, halVars, wait, hr, lock, send, tasklet>>

-----------------------------------------------------------------------------
Sender == Attach \/ Cancel \/ AggrStop("send")
             \/ \E k \in MPDUs : AggrBuild("send", k)
Timer == TimerExpires \/ TimerEnds
AmpduTasklet == TaskletBegin \/ TaskletLocks \/ TaskletRestores
             \/ AggrStop("tasklet")
             \/ \E k \in MPDUs : AggrBuild("tasklet", k)
TxOk == TxOkWakes \/ TxOkSleeps \/ TxOkTakes \/ TxOkUpdates
Hal == Download \/ ReportSome

BawNext == Send \/ Sender \/ Timer \/ AmpduTasklet \/ TxOk \/ Hal

BawSpec == BawInit /\ [][BawNext]_bawVars

(* Every thread goes on, the timer expires and the firmware answers; that  *)
(* another frame is sent is not assumed.                                   *)
BawFairness == /\ WF_bawVars(Sender)
               /\ WF_bawVars(TimerExpires) /\ WF_bawVars(TimerEnds)
               /\ WF_bawVars(AmpduTasklet)
               /\ WF_bawVars(TxOk)
               /\ WF_bawVars(Download)
               /\ WF_bawVars(ReportSome)

BawFairSpec == BawSpec /\ BawFairness

-----------------------------------------------------------------------------
BawTypeOK == /\ {made, given, down, txoksem} \subseteq 0 .. MaxFrames
             /\ chip \subseteq MPDUs /\ status \in Seq(MPDUs)
             /\ win \in [start : 0 .. SeqMax - 1, head : 0 .. BufNbr - 1,
                         tail : 0 .. BufNbr - 1]
             /\ desc \in [0 .. BufNbr - 1 -> {None} \cup MPDUs]
             /\ qcnt \in 0 .. MaxFrames
             /\ wait \in BOOLEAN /\ sched \in BOOLEAN
             /\ hr \in {"off", "armed", "firing"}
             /\ lock \in {"free", "send", "tasklet"}
             /\ send \in {"idle", "attach", "cancel", "loop"}
             /\ tasklet \in [pc : {"off", "begin", "loop", "restore", "lists"},
                             list : 0 .. VO, wait : BOOLEAN, change : BOOLEAN]
             /\ txok \in [pc : {"down", "take", "update"}, frame : {None} \cup MPDUs]
             /\ forced \subseteq MPDUs

(* Frames given to the HAL whose completion has not moved the window.      *)
Unanswered == ((down + 1) .. given) \cup chip \cup ToSet(status)
                \cup ({txok.frame} \ {None})

(* Frames of the queue that txlist_qcnt has not been told of.              *)
Uncounted == ((down + 1) .. given) \cup chip \cup ToSet(status)

(* The window is the frames the HAL still has: a place between head and    *)
(* tail holds the frame with its number or is answered, every other place  *)
(* is free, an unanswered frame that was not forced out has its place, and *)
(* the window is empty when every frame is answered (drv_tx_update_ba_win, *)
(* drv_tx_add2baw; the clean-up after a DELBA waits for that).             *)
WindowAccounts ==
    /\ BawTypeOK
    /\ \A i \in 0 .. BufNbr - 1 :
         desc[Place(i)] # None =>
            /\ i < Used
            /\ desc[Place(i)] \in Unanswered \ forced
            /\ SeqNum(desc[Place(i)]) = (win.start + i) % SeqMax
    /\ \A f \in Unanswered \ forced :
         Within(SeqNum(f)) /\ desc[Place(Index(SeqNum(f)))] = f
    /\ Used <= Baw + 1
    /\ win.head # win.tail => desc[win.head] # None

(* txlist_qcnt never counts a frame twice, and what it misses are the      *)
(* frames whose place was forced open, each of which takes it down twice.  *)
QcntBounds == /\ qcnt <= Cardinality(Uncounted)
              /\ qcnt >= Cardinality(Uncounted) - Cardinality(forced)

(* The books of aggregation: window and count are about the same frames.   *)
WindowSound == WindowAccounts /\ QcntBounds

(* As many frames as make an aggregate never stay pending, though no other *)
(* frame is sent: a full HAL and a closed window both open again with the  *)
(* completions, and each of those schedules the tasklet.  Fewer frames can *)
(* be left: TLC refutes []<>(Pending = 0).                                 *)
BurstsLeave == []<>(Pending < Subframes)
=============================================================================
