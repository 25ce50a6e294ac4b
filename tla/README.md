# A TLA+ model of the Amlogic W1 SDIO Wi-Fi driver

The driver (`src/project_w1/vmac`, Linux, about 76 000 lines of C) sits between
cfg80211 and the network stack on one side and the W1 chip's firmware on the
other, with an SDIO bus in between. Nearly everything that is hard about it is
the interplay of its threads: a frame changes hands five times on its way out,
a block-ack session is shared by five contexts, power save by seven and a scan
by eight. This directory models those parts in TLA+, model-checks them with TLC
on small instances, and proves with TLAPS, for every size, the safety of most
of them: the ring every queue is made of, the work queue, the host's receive
ring, the HAL transmit path until a flush, receive reordering, the transmit session
and its block-ack window, the scan, the power handshake, the timer, the power save of an AP's stations, and
what cfg80211 is told of a connection.

All source paths below are relative to `src/project_w1/vmac`.

## 1. The system

### Contexts that run

| Context | Code | Woken by |
| --- | --- | --- |
| hi_irq thread | `hi_irq_thread` wifi_hal.c:2850, `hi_irq_task`, `hi_top_task` wifi_hif.c | SDIO interrupt, drv_to_hal, hal_tx_frame's need for a turn |
| txok thread | `hal_txok_thread` wifi_hal.c:2624 | `hi_soft_tx_irq` after completions were fetched |
| rx thread | `hal_rx_thread` wifi_hal.c | received bytes |
| rx forward thread | wifi_mac_recv.c:52 | frames to be forwarded to another station |
| work thread | `hal_work_thread` wifi_hal.c:2553 | `drv_hal_add_workitem` |
| power save work queue | wifi_mac_power.c:25 | the presleep timer |
| ampdu tasklet | `drv_txampdu_tasklet` wifi_drv_xmit.c:2754 | senders, completions, resumes, a high resolution timer |
| amsdu tasklet | `wifi_mac_amsdu_tasklet_ex` wifi_mac_amsdu.c:271 | senders, a 4 ms timer |
| timers | wifi_drv_timer.c | the kernel's timer softirq |
| callers | netdev transmit, cfg80211, ioctls, suspend | user space, the network stack |

### Components, their state, operations and hazards

**Shared ring fifo** (wifi_share_fifo.c). State: for each of two or three
blocks an In and an Out index into one array. Operations: Get, Put and tests of
the number of elements. A block's In is advanced by the block before it; slots
travel from block to block. Used by the work queue (2 blocks) and the eight TX
queues (3 blocks). Hard: the wrap by compare-and-subtract, full and empty that
differ by one unused slot, and a test and a Get that are two critical sections.
Correct when no slot is lost, made up or in two hands.

**Work items** (wifi_drv_if.c, wifi_hal.c). State: the ring of items, a task
bit, a semaphore, a quit flag. Operations: add, wake, drain, stop. Hard: Get,
fill and Put are separate; the bit is set under a lock and cleared after a test
without it. Correct when nothing accepted waits while the thread sleeps, and
items run once, in order.

**Receive byte ring of the host** (wifi_hif.c:940-1080, wifi_hal.c:2750-2850).
State: a ring of bytes with FDT written by the irq thread and FDH by the rx
thread, the read position in the chip's ring. Operations: read in chunks and
whole SDIO blocks, commit, cut frames out, suspend, resume. Hard: a block runs
past the bytes asked for, and past the end of the ring; no lock. Correct when
what is cut out is what the firmware put in, frame by frame.

**HAL transmit path** (wifi_drv_xmit.c, wifi_hal.c, wifi_hif.c). State: eight
rings with stages GET, MAKE and SET, the table of 128 tx ids, the firmware's
page credit, three frame counters, the list of completion statuses, two
semaphores. Operations: fill, give ids, take turns, download, fetch
completions, hand back, pause, flush. Hard: rings are filled without the lock
the other stages use; ids, pages and counters are resources shared across
queues; a flush works in the middle of all this. Correct when no id or page is
lost or given twice, frames go down in order and aggregates whole, each frame
comes back once, and "tx is empty" means it.

**Transmit aggregation** (wifi_drv_xmit.c, wifi_mac_if.c). State of a TID: its
frames, the block-ack window (start, head, tail, a descriptor per place),
`txlist_qcnt`, and `wait_mpdu_timeout`, one flag that timer, txok thread, sender
and tasklet share. Operations: queue, arm or cancel the timer, aggregate, move
the window on a completion. Hard: three wraps of different length, completions
out of order, and nothing scheduled when the flag is used up at the wrong
moment. Correct when the window is what the HAL still has and frames leave.

**A-MSDU aggregation** (wifi_mac_amsdu.c). State of a TID: a list and a batch
per station, the queue of stations with work, the pool of nodes, a count.
Operations: queue, drain, aggregate, send, flush. Hard: sender and tasklet both
drain, two locks are taken in both orders, and an allocation may fail. Correct
when lists, marks, count and nodes agree and frames leave once and in order.

**Receive reordering** (wifi_drv_recv.c). State: window start and slots, next
number, a timer with its flags, a late work item. Operations: data frame, BAR,
timer, agreement made and deleted, station cleaned. Hard: numbers modulo 4096,
slots modulo 128, a work item that outlives its agreement. Correct when what
goes up is in order and only what was passed by is dropped as old.

**Transmit block-ack session** (wifi_drv_xmit.c, wifi_drv_timer.c). State of a
TID: exchange in progress or complete, attempts, pause count, pending frames,
frames in the window, buffered frames, cleanup under way, the request timer.
Operations: send, request, answer, refusal, expiry, DELBA, resume, flush, drain.
Hard: the exchange is published before the TID is paused, and undone in three
contexts. Correct when pauses pair up, every exchange ends and no frame is
stranded.

**Scan** (wifi_mac_scan.c with wifi_mac_chan.c, wifi_mac_if.c, wifi_cfg80211.c).
State: flags of the scan's progress, its configuration, the channel index, the
radio's channel, whether the interface is quiet and what its AP was told, the
request of cfg80211. Operations: start, tasks, timers, channel-switch events,
end of transmission, cancellation, end, restart after a TX_ERROR, disconnection.
Hard: any of eight contexts queues the next task, and only the last queued
counts. Correct when the radio leaves only a quiet interface whose AP knows,
always comes back, never strands, and answers every request.

**Power handshake with the firmware** (wifi_hal_cmd.c, wifi_hif.c:646-719,
wifi_hal.c:467-560, wifi_drv_power.c). State: the command announced
(`hal_drv_ps_status`), the host's picture of the firmware (`hal_fw_ps_status`), the
HAL lock, an outstanding wakeup request, the suspend. Operations: doze, wake,
another command, a frame, suspend, resume. Hard: picture and mailbox are under
different locks. Correct when a request does not get stuck, a suspended firmware
is left alone and every frame leaves.

**OS timer** (wifi_drv_timer.c). State: the kernel timer, a lock word, two flags.
Operations: start, cancel, delete, handler. Hard: only some of them take the
lock word. Correct when a cancelled timer stays quiet and an armed one runs.

**Power save of a station** (wifi_mac_power.c, wifi_drv_main.c). State: the
mode, AWAKE/FULL/NET, four timers, a wakeup request, what the AP was told.
Operations: presleep, null frame and its completion, beacon, PS-Poll, wakeup.
Hard: each of seven contexts changes the state after a test outside the mutex.
Correct when the station neither keeps frames nor leaves the AP's uncollected,
and sleeps again.

**Power save of the AP's stations** (wifi_mac_power.c, wifi_drv_uapsd.c). State:
flags of the station in one word, its held frames, the U-APSD queue, the
multicast queue, the TIM bit, the count of sleepers. Operations: hold, flush,
PS-Poll, trigger, service period, ageing, multicast, beacon. Hard: four contexts
without a common lock. Correct when held frames are announced and leave.

**Client connection** (wifi_mac_if.c, wifi_mac_recv.c, wifi_cfg80211.c). State:
vm_state, the phase bits, retries, three timers, queued tasks, what cfg80211
believes. Operations: connect, disconnect, frames of the AP, retries, the
connect timeout, the deauthentication's completion. Hard: vm_state is looked at
before the lock and reported after it. Correct when cfg80211 always gets an
answer, believes no connection that is not there, and nothing hangs.

### How they interact

* A sender queues its frame for A-MSDU aggregation, whose drainer gives batches
  to the driver; there it goes alone or is queued on its TID, which may be paused
  by the block-ack session and is limited by the window; `drv_to_hal` fills the
  queue's ring and wakes the hi_irq thread; the hi_irq thread wakes the firmware
  if need be, downloads, and fetches completions; the txok thread hands frames
  back, which moves windows, ends sessions, puts a station to sleep and tells
  the scan when the HAL is empty.
* A received frame goes through the byte ring and the reorder buffer; a gap
  starts a timer whose handler adds a work item.
* The work thread runs scan tasks, reorder work, ADDBA expiry, wakeups and
  channel restores one after the other: two tasks never interleave with each
  other, but each interleaves with everything else.
* The scan quiets the interface (senders then buffer), waits for the HAL to be
  empty (`hal_tx_empty`), and changes channel through the firmware.

## 2. Modules

| Module | Models | Uses |
| --- | --- | --- |
| `CoSharedFifo` | index arithmetic of wifi_share_fifo.c as operators on a ring record | |
| `SharedFifo` | concurrent clients of one ring: `Get`, `Put`, `Test` | `CoSharedFifo` |
| `FifoPipeline` | what the ring promises: a chain of queues of slots | |
| `WorkFifo` | work items and the work thread | `CoSharedFifo` |
| `HostRxFifo` | the receive byte ring between the irq and the rx thread | |
| `HalTx` | the HAL transmit path | `CoSharedFifo` |
| `TxBaWindow` | aggregation under the block-ack window, one TID | |
| `Amsdu` | A-MSDU aggregation, one TID of several stations | |
| `RxReorder` | the reorder buffer of one TID | |
| `AddbaExchange` | the transmit block-ack session of one TID | |
| `Scan` | a scan of one station interface | |
| `FwPower` | power commands, mailbox, wakeup, transmit gate, suspend | |
| `OsTimer` | the timer wrapper, access by access | |
| `PowerSave` | power save of a connected station | |
| `ApPowerSave` | an AP and one station that saves power | |
| `Mlme` | the connection state machine of a station interface | |
| `MCFifos` | the three rings in one run | `SharedFifo`, `WorkFifo`, `HostRxFifo` |
| `MCAmsduTimer` | the timer and the A-MSDU aggregation it drives, in one run | `OsTimer`, `Amsdu` |
| `MCHalTx`, `MCAddbaExchange`, `MCScan`, `MCFwPower`, `MCPowerSave`, `MCApPowerSave`, `MCMlme` | loads, scenarios, budgets and symmetry for TLC | |
| `FifoProofs` | theorems about the three rings: of `WorkFifo` and `HostRxFifo`, of the run that composes them, and of `SharedFifo` with its refinement of `FifoPipeline` | `MCFifos` |
| `RxReorderProofs` | theorems about the reorder buffer and, at its end, about the timer that every module takes as given | `RxReorder`, `OsTimer` |
| `AddbaProofs` | theorems about the transmit session and, in its second half, about the block-ack window | `AddbaExchange`, `TxBaWindow` |
| `HalTxProofs`, `ScanProofs`, `FwPowerProofs`, `ApPowerSaveProofs`, `MlmeProofs` | theorems about these modules | |

State and actions carry the source's names where TLA+ allows; every definition
that stands for code is tied to its lines in `PROJECT.json` under `map`.
Definitions marked *Mutant* are plausible mistakes in the definition that
follows them; each property of a run has one that breaks it.

**Grain of steps.** A step is a critical section, or a run of code during which
no other context touches what it reads and writes. Where the code reads state,
unlocks and acts on it later, the model has separate steps with a program
counter: a producer's Get, fill, Put, bit and wakeup in `WorkFifo`; each chunk
read, the commit and the wakeup in `HostRxFifo`; the irq thread's stages and
`drv_to_hal` in `HalTx`; every unlocked point of `AddbaExchange`; the busy HAL
found and then waited for, the four steps of `wifi_mac_end_scan`, and the
caller's and the irq thread's steps in `Scan`; the read and the write of
`sta_flags` in `ApPowerSave`; the mode tested and the mutex taken in `PowerSave`;
every test, load and store of vm_phase_flags in `Mlme`; the test for a wakeup
request and the request, a busy driver's two looks in `FwPower`;
every access to shared memory in `OsTimer`.

Two such places are still one step. `StartScan` (`Scan`) tests WIFINET_F_SCAN
(wifi_mac_scan.c:2045) and sets it (2075): two starts that both pass the test are
left out. `AskWakeup` (`FwPower`) looks
for the sleeping interface and sets the flag.

**What a data value is.** Frames are model values or small numbers; payloads,
addresses, rates and descriptor fields appear only where a decision reads them
(vid, aggregate size and tx id in `HalTx`; the sequence number in `RxReorder` and
`TxBaWindow`; whether a frame may be aggregated in `Amsdu`). Bytes that wrap keep
their width (`paused` in `AddbaExchange`, `psSta` in `ApPowerSave`, the counters'
difference in `HalTx`'s `MayTakeTurn`).

**Exceptions by name.** Where the code has a race that breaks a property, the
module has the race, marks it in a history variable (`ghost`, `hist.missed`,
`failed`, ...), and the property excepts exactly the behaviours that went through
it. The exceptions are explained below and each is reachable.

### CoSharedFifo, SharedFifo, FifoPipeline

`CoSharedFifo` has no state: `CanGet`, `AfterGet`, `AfterPut`, `HasElt`, `Pick`
are the C functions on a record of In and Out. `SharedFifo` adds the slots each
client holds. `FifoPipeline` is the abstract specification, in which a block
simply owns a sequence of slots; `SharedFifo` implements it under the mapping at
the end of that module (property `Pipeline`).

`CO_SharedFifoNbEltCont` adds EltNbr when In < Out (wifi_share_fifo.c:478), so it
counts wrapped elements as contiguous; the model does the same. It matters only
to a caller that takes several elements at once and the driver has none.

### WorkFifo

Two or more producers take `AddGet`, `FillParams`, `FillTask`, `AddPut`,
`CallTask`, `CallUp` in turn, or drop the item (`AddOverflow`); the thread goes
through `Down`, `TestFlag`, `ClearFlag`, `TestEmpty`, `TakeItem`, `RunTask`,
`RunCallback`, `PutItem`. `Kill` is `hal_kill_thread`. When two producers overlap,
the first Put exposes a slot the other may still be filling: the model has this
behaviour, so order and content are stated while no two producers overlapped.

### HostRxFifo

Memory is counted in cells, a frame is a header cell with its length and at
least one cell of data. The irq thread reads what RX_OK announced in chunks of
`Once`, each rounded up to `Block`, commits FDT and wakes the rx thread; the rx
thread works up to the FDT it saw and publishes FDH at the end. A suspend refuses
the reads; the resume takes the read position from the firmware in a later step.
`ghost.sure` ends with the first of four things after which the ring holds what
nobody sent: a read whose `host_wrapper_len` was never set (wifi_hif.c:1017), a
refused read that is committed all the same, a suspend that comes between the
reads, and a read between the resume and its synchronisation. After it frames
and suspends stop (a bound). `bhalOpen`, the stop of the thread and a header that
wraps are left out.

### HalTx

One queue's frames are numbered; `Fill` is `drv_to_hal` with its steps `FillGet`,
`FillPut` and `FillUp`, under the queue's lock. `Irq` gathers the steps of the
hi_irq thread: reading the status (`ReadStatus`, `SoftTxIrq`), the gate and turns
(`Gate`, `Enter`, `TakeTurn`, `Drain`), download (`Download`, `SendFrame`), and the
unlock between queues. `Firmware` completes any frame it was given, in any
order. `Txok` frees ids and hands back. `Pause` is `hal_txframe_pause`; the
`Flush` steps are `hal_tx_flush`. A behaviour has one of the `Loads`: frames per
queue, interfaces, whether there is a flush or a pause.

`hi_top_task` sets need_scheduling_tx each time (wifi_hif.c:1560), so every
wake-up tries `hal_tx_frame`. The page and frame counters are 8 bits wide in the
code while at most 224 pages and 128 frames are outstanding, so their
differences are exact. The branch for AggrNum = 0 cannot be reached. The
firmware is taken to be awake (`FwPower` has the gate); SDIO errors, null-data
statuses and the end of the threads are left out.

Excepted: the txok thread may test the request for an up just before it is made
(`hist.missed`); a flush may run while `drv_to_hal` is filling (`hist.mixed`); a
flush may leave MAKE for want of an id ("how to handle this situation",
wifi_hal.c:1779), after which the frames it kept are filled in behind newer ones
that wait in MAKE (`hist.starved`; with 2 ids and 4 frames of one interface, TLC
finds these downloaded out of order after a flush of another; the run has as many ids
as frames and stays short of it); and after a flush ids are not accounted for, as
it frees the id it reads from a descriptor that never had one (see
`NoCompletionLost` below).

### TxBaWindow

Frames of one TID are numbered in the order they are queued: `made`, `given` to
the HAL, `down` in the chip, answered. `Send` queues and decides (`LoopOf`,
`AggrStop`, `AggrBuild` are the loop under the queue's lock); `Attach` and `Cancel`
are the high resolution timer's start and stop after the lock, `TimerExpires` and
`TimerEnds` its handler; the tasklet takes a copy of `wait_mpdu_timeout`, visits
the queues and writes the copy back. `TxOk*` is the txok thread up to
`drv_tx_update_ba_win`. What `HalTx` shows in detail is a count here. `forced` are
the frames whose place was forced open when the window was nearly full; each
takes `txlist_qcnt` down twice, so the count may be short by as many.

One TID with an established session; `push_pending`, flush, the mother channel
and pauses are left out (`AddbaExchange` has pauses and flush). The timer's start
and its valid flag are one step. A peer whose buffer size is 0 or 1 is excluded:
with 1, TLC refutes `BurstsLeave` (wifi_drv_xmit.c:2104 does not check it).

### Amsdu

A sender's `SendQueues` is the part of `wifi_mac_amsdu_send` under the list's
lock, `SendCounts` the unlocked look at `msdu_cnt` that decides who drains. `Drain`
is `wifi_mac_amsdu_tasklet`, by a sender or the tasklet: `Lock`, `Dequeue`, one of
the three branches of `wifi_mac_amsdu_ex` (`ExAlone`, `ExAdds`, `ExReplaces`), the
two steps of `wifi_mac_amsdu_tx2drvlay` for each batch (`Account`, `TxStart`),
`Unlink`, `LoopEnds`, `Rest`, `Unlock`. `FreeAll` is `wifi_mac_txamsdu_free_all`,
called by the flush for another queue and then, with the lock of the TID's own
list held (`FlushLocks`), for its own. A frame is its number and whether it may be
aggregated; whether it fits is a choice, `filled` says that the length is not 0
(a flush leaves it behind) and `old` that `in_time` has passed.

Excepted: frames let past for want of a node or of memory (`ghost.past`), batches
that grew when an A-MSDU could not be allocated (`ghost.failed`), frames given up
without being counted down (`ghost.dropped`), batches a flush found no node for
(`ghost.kept`), and `Embrace`: the flush holds the list's lock and waits for the
tasklet lock, whose holder waits for the list's lock in `drv_tx_start`
(wifi_drv_xmit.c:1680). TLC reaches it; nothing leaves afterwards.

### RxReorder

"Real" numbers count frames and never wrap; the code sees them modulo SeqMax and
the buffer modulo Bufs, so the properties can say what was really sent. Handlers
hold the TID's lock and are one step; the timer's handler queues the work and
clears its flag in a later one (`TimerFire`, `HandlerReturn`), and the work item
runs at any time after, also when its agreement is gone.

### AddbaExchange

One TID, its frames, and five kinds of actors: senders (there are several, as
`wifi_mac_hardstart` is called from the network stack, the forward thread and
wifi_mac_xmit.c:3615), the receive thread, the work thread, the timer and the
tasklet. The `load` of a behaviour says how many frames, senders and DELBAs there
are and whether handlers `overlap`: without overlap the logic is checked, with it
the races. Sequence numbers, the HAL's fill levels and the removal of the station
are abstracted; ADDBA_EXCHANGE_ATTEMPTS is 2 instead of 10. `drv_addba_clear`,
`drv_nsta_update_pwrsave` and `drv_txrxampdu_del` have no callers.

### Scan

The work thread's actions are the tasks `scan_start_task` and
`wifi_mac_scan_timeout`, the latter split by what it does (drop, end, restore,
find the HAL busy, notify the AP, switch, dwell). A queued task carries whether
it is still the last one, which is all `wm_scanplayercnt` is used for. A wide
home channel is told apart from the same primary channel at a scan's width,
because wm_curchan is compared in both ways. The variable `env` holds the events
a behaviour may still contain (data, cancellations, connections, disconnections,
one TX_ERROR). `ghost` names four races the code has and the properties except:
`unheld` (a stale WAIT_PKT_CLEAR, wifi_mac_scan.c:1369), `wiped` (scan_CfgFlags
zeroed under a new scan, 1776), `late` and `refused` (the request given back by
`wifi_mac_process_tx_error` to nobody, 2267).

### FwPower

The issuer of a power command holds its interface's mutex, announces the command
under the power lock (`CommandAnnounced`), takes
the HAL lock (`TakeHalLock`), tests (`SetCmd`), writes the mailbox (`Push`,
`PushFailed`), asks the chip to sleep (`RequestSleep`) and corrects the picture
(`CommandEnds`, `ClearWakeReq`). The other threads are the transmit thread
(`TxFindsSleeping` to `TxSends`), one that issues another command, and the one that
suspends and resumes. Every access wakes a chip the picture has asleep
(`WakeChip`). A busy driver (`FindsBusy`) is looked at again after the power lock was
released (wifi_hal_cmd.c:84): the command is refused and a wakeup asked for
(`DozeRefused`), dropped (`CommandDropped`), or, when the sending has ended in
between or the command is ACTIVE, goes on without an announcement
(`CommandUnannounced`); such a doze writes hal_fw_ps_status without the lock
(`LateDoze`). Asking for a wakeup is a test (`IsOutstanding`) and, in a later critical
section, the request (`AskWakeup`); between finding the sleeping interface and
setting the flag there is no further step. A command that goes on this way releases
the power lock a second time (wifi_hal_cmd.c:107), possibly another thread's: here
every section under that lock is one step. The network sleep of `PowerSave` counts as sleep here. A failed push
of the command ACTIVE is outside the budgets: the frame that waited for it then
stays (liveness is lost); the theorems do not have this bound. With two
interfaces a suspend breaks two promises, and the properties except it by name: a
suspend at the mailbox holds the mutex of interface 0 only, so a wakeup of the
other interface that meets it there is dropped with its request outstanding
(wifi_hal_cmd.c:90; the guard of `RequestsKept`); and a second interface that is
found busy takes the count of the suspend back but leaves hal_suspend_mode, so
transmission never restarts (1192; `LeftSuspended`).

### OsTimer

The handler takes the lock word, tests the cancel flag, runs the function and
re-arms or clears; `Cancel` sets the flag, waits for the word up to a thousand
tries (`CancelGivesUp`), deletes and clears. `os_timer_ex_start` takes nothing.
`OsTimer`'s Init, Next and Spec carry the prefix Timer, so that the module can be extended
together with another. `raced` notes a start that overlapped another call or the handler, `gaveUp` a
cancel that went on without the word: the promises hold while neither happened.

### PowerSave

`Presleep` is the inactivity handler, `PresleepNull` the null frame that follows,
`NullCompleted` the completion that puts the station to sleep; `SetState` is
`wifi_mac_pwrsave_set_state` after its test of the mode; `GotoWakeup`, `RecvBeacon`
and, once it has found the station asleep, `ProcTim` or `NoTim`, `RecvData`,
`SleepWaitTimer`, `SleepWaitTask` bring the station that listens back to sleep or
awake; `NewFrame`, `QueueFrame`, `HalWakeReq`, `WakeupTask` wake it to
send. The firmware and the AP are external: null frames fail, the AP's belief
follows what it hears. `drv_goto_wakeup` arms its wait timer before the state is
NET, so a beacon in between cancels it: the next beacon heals this, and
`SleepsWhenIdle` shows it. With the mode NONE nothing moves any more
(wifi_mac_power.c:344), so the properties are stated while power save is on.

### ApPowerSave

`NewFrame` and `Sender` decide for a frame to the station or to the multicast
group; `Rx` is the receive thread: the power bit (`Receive`, `RxStore`), the flush
when the station wakes, PS-Poll, triggers and service periods; `Txok` the end of a
service period; `Ager` the timer that drops old frames. `sta_flags` is read and
written back in two steps by rx and txok. `ghost.torn` notes that one of them
overwrote the other's change; `ghost.stale` that a sender found the queue empty,
unlocked, and met somebody clearing the TIM. The two flag writes of
`chk_uapsd_trig` are one step, every beacon is a DTIM, the multicast ring has
room, and of an age beyond the list only the removal matters.

### Mlme

`prog[t]` is what thread t has still to do, one element for each stretch between
places where another thread may come in. `TopSm` is `wifi_mac_top_sm`, with the
vm_state its caller looked at; `RetryTimer`, `SwitchTimer`, `ConnectTimer` the three
timers; `DeauthDone` the fate of the deauthentication frame. vm_phase_flags has no
lock: the test in `vm_cfg80211_disconnect` (`UserDisconnect`) and the set
(`SetDisconnecting`) are two elements, as are the look for a request
(`IsRequested`) and the note to disconnect later (`SetDelay`), and each `|=` and
`&=` of these commands and of the receive thread stores either what was loaded an
element before or what is there now (`Load`, `Kept`, `Store`).

The wanted network is found or not; the end of a scan, the look at its results and
the start of the connection are one step; the retry timer does not fire between the
request and its own re-arming; the kernel asks to connect only while it has no
connection or attempt. Not modelled: PHASE_CONNECTING, which only makes cfg80211's
scans be refused (its clearing by the receive thread is, since it writes the other
phases back), and PHASE_TX_BUFF_QUEUE, which the power code sets and clears in the
same byte (wifi_mac_power.c:804); a move to AUTH with SUBTYPE_AUTH, which only an
IBSS asks for (wifi_mac_recv.c:1111); `wifi_mac_cancel_scan` at the start of the
switch, since a scan may end at any time anyway.

The properties except four things by name:

* `ghost.late`: the moment between the receive thread's question for the channel and
  its call of cfg80211 (wifi_mac_recv.c:4327).
* `ghost.silent`: a connect command that returns 0 and starts nothing, since Miracast
  holds the device (wifi_cfg80211.c:2869) or its own RSN element cannot be parsed
  (3072); and a connection of which cfg80211 is not told, since the channel (1537) or
  the network (1553) is unknown to it, when the request is gone already (1529).
* `ghost.stuck`, the frame not sent: PHASE_DISCONNECTING is set (3154) before a scan that
  may not be stopped (3165) or a missing buffer ends the command.
* `ghost.stuck`, the phase set too late: a beacon loss or a deauthentication between
  the test at 3153 and the set at 3154 leaves the network and clears the phase; it is
  then set in the scan, the deauthentication goes out, and the move to the scan that
  follows clears nothing, since only leaving a network does. The receive thread may
  also write the phase back (wifi_mac_recv.c:4326). Outside the states marked so,
  PHASE_DISCONNECTING is never set without a connection.

## 3. Runs

| Run | Module and instance | Properties |
| --- | --- | --- |
| `rings` | `MCFifos`: 5 slots, 3 blocks, batches of 2; 3 slots, 2 producers of 2 items; 9 cells, chip 6, block 3, frames of 2 and 4, one suspend, one failed allocation | `Exclusive`, `TestStaysValid`, `QueueSound`, `RxFifoSound`, `Pipeline`, `WorkEnds`, `CommittedGoesUp` |
| `rx_reorder` | window 2 of 4 slots, numbers modulo 20 | `ReorderSound`, `OrderKept` |
| `hal_tx` | 1 queue, 4 frames, aggregates of 2, 2 ids, 3 pages | `ResourcesConserved`, `OnceAndInOrder`, `EveryFrameHandedBack` |
| `hal_tx_shared` | 2 queues or 2 interfaces, 3 ids, 1 page; with pause, or with a flush | `AccountsHonest`, `KeptInOrder` |
| `tx_ba_window` | 4 frames, numbers modulo 16 from 13, 8 places, window 4, aggregates of 2 | `WindowSound`, `BurstsLeave` |
| `addba` | 3 loads: 3 frames without overlap; 2 frames, overlap, a DELBA; 2 senders, overlap | `SessionSound`, `PausesPairUp`, `ExchangeEnds`, `BufferIsDrained` |
| `scan` | 2 channels, 2 scenarios | `ScanSound`, `ConnectionKept`, `WakeupPending` |
| `fw_power` | 2 interfaces, 2 dozes, 2 frames; the same with 1 frame and a suspend; 1 interface, 2 dozes, another command, 2 frames, a suspend | `RequestsKept`, `QuietWhileSuspended`, `FramesLeave` |
| `amsdu_timer` | `MCAmsduTimer`: 2 callers, 4 calls; 2 stations, 1 or 2 senders, 2 or 3 frames, 1 or 2 nodes | `CancelledIsQuiet`, `ActiveIsArmed`, `ArmedRuns`, `AmsduSound`, `MsdusLeave` |
| `power_save` | 3 budgets of frames, held frames, changes of the mode, failing null frames | `FramesLeave`, `BufferedFetched`, `SleepsWhenIdle` |
| `ap_power_save` | 2 senders, 4 scenarios | `PeerSound`, `FramesReachPeer` |
| `mlme` | 1 retry, 1 connect and 1 lost connection, with 3 frames of the AP or with 2 and 1 disconnect | `HonestReport`, `Answered`, `DisconnectEnds`, `AttemptEnds` |

An invariant named `...Sound` or `...Honest` is a conjunction of named parts, the
module's types among them. In `MCFifos` and `MCAmsduTimer` a behaviour belongs
to one of the parts, chosen at its start; the others keep their initial values, so
each part is checked exactly as if it were alone.

What the properties show, part by part:

* *Rings*: no slot is lost or in two hands, an element seen is still there
  (`TestStaysValid` is the ASSERT of `drv_hal_workitem_task`); an item is never left
  while the thread sleeps, the thread always can be stopped; the host's ring
  delivers whole frames in order and does not keep any.
* *Transmission*: the accounts of ids, pages, frames, window, nodes and counts
  hold in every interleaving; frames leave once, in order, in whole aggregates;
  what makes an aggregate does not stay, what the A-MSDU queue accepted does not
  stay, and what the HAL was given comes back.
* *Reception*: upload in order, nothing dropped as old that was not passed.
* *Sessions, scan, connection*: pauses pair up, exchanges and attempts end, a
  scan never strands and never leaves a connection unquiet, cfg80211 is told the
  truth but for one moment, every attempt for a network it knows is answered, and a
  disconnect whose frame went out and whose phase was set in time ends.
* *Power*: only a suspend or resume at the mailbox can make a wakeup request a
  stale flag; no command changes a suspended firmware; frames leave and held frames are fetched, on either side of the air;
  a service period ends, the TIM tells, ages do not wrap.

Why these bounds are enough for the interesting cases:

* *Rings*: five slots and batches of two put every index through every phase of
  the others, across many wraps; the theorems then remove the bound. Three slots
  hold two items, so the third add overflows; two items per producer let an add
  meet each point of the drain loop. Nine cells take two of the longest frames
  but not three: the ring fills, blocks of three run over its end at each offset,
  and a frame of four is read in two chunks.
* *Reorder*: the sequence space (20) wraps inside a run that starts at 17, it is
  more than eight windows wide so old and new are told apart as with 4096, and
  four slots for a window of two wrap every four frames. Two waiting work items
  are one more than the agreement they belong to needs.
* *HAL*: four frames and two ids make ids run out; three pages make the credit
  run out; two queues and one page make queues skip their turn. The flush needs
  a frame before, of, and after the flushed interface: three.
* *Aggregation*: numbers wrap after the third frame; the window of four is full
  with four frames and its forced opening is reached; five places of the HAL make
  it refuse. In `Amsdu` one node makes senders bypass and the flush run out,
  three failed allocations fill `TmpMax` and drop the batch, and two stations
  give one that is held up by the other.
* *ADDBA*: two requests can be outstanding with an answer each, one DELBA, and a
  frame each for the window, the pending list and the buffer.
* *Scan*: two channels give a first, a last and the way between; one is the home
  channel's primary at another width. Two tasks in the fifo are one overtaken
  and one live. One unreported channel switch is one that can be taken for
  another.
* *Power handshake*: two dozes let a command of one interface overtake the
  other's; two frames let one arrive while the wakeup for the first is under way.
* *Timer*: four calls are a start, a cancel that races the handler, a start that
  races that cancel, and one more.
* *Power save*: one failed null frame, one held frame and a mode switched off and
  on are each one event out of turn; two null frames under way overtake each
  other. For the AP, two senders meet each other and the four contexts; a queue
  of two is full with two, and an age of two is one pass that keeps and one that
  drops.
* *Connection*: one retry is a first and a last; three frames are enough for
  authentication, association and one more that refuses or repeats; the loss is one
  by silence or by a deauthentication. With two frames a connection comes about, and
  the disconnect meets it, its loss and the end of the attempt at every element. One
  connect is enough, since what is left over of an attempt (timers, tasks, frames)
  meets that attempt's own later moves.

### Statements of the repository TLC refutes

These are defined in the modules, or easily added to a cfg, and are not among
the checked properties. They were run once each with TLC.

* `HeldGoesUp` (`RxReorder`): a frame is stored while the handler of a served timer
  has not yet cleared active_flag (wifi_drv_timer.c:56); no timer is started for it
  and nothing is queued. It waits for the next frame of the TID, against the
  comment at wifi_drv_recv.c:404.
* `NoCompletionLost` (`HalTx`): `hal_tx_flush` frees the id it reads from a descriptor
  that never had one (wifi_hal.c:1790); another interface's completion with that
  id is then dropped, against the comment at wifi_drv_xmit.c:510.
* `PausedWhenResumed` (`AddbaExchange`): the exchange is published at
  wifi_drv_xmit.c:2055 and the TID paused at 2064; an answer to an earlier request,
  or the expiry, in between undoes a pause that was not made.
  `ASSERT(tid->paused > 0)` (2256, 2297) only logs; the byte wraps to 255 and the
  late pause makes it 0 again.
* `AccessFindsAwake` (`FwPower`): `phy_set_param_cmd` clears HAL_DRV_IN_SLEEPING for a
  command that never set it (wifi_hal_cmd.c:122), and a transmission begins on a
  chip on its way to sleep, which w1_sdio/w1_sdio.c:297 prints as a bug.
* `FullSleepMeansTold` (`PowerSave`): "sta is recognized sleep by ap"
  (wifi_mac_power.h:62) does not hold when a data frame left after the null frame.
* `[]<>(Pending = 0)` (`TxBaWindow`): a frame fewer than an aggregate may stay until
  the next one is sent, against "scheduled by TX_OK" (wifi_drv_xmit.c:2512).

### Hazards beyond the list

`PROJECT.json` lists the forty hazards the properties are chosen for. These were
met too; the modules have most of them, the list has no room for them:

* Rings and work: `NbEltCont` (wifi_share_fifo.c:478), the wrap by subtraction and
  the unused slot (190), the item dropped at WORK_ITEM_NUM with 0 returned
  (wifi_drv_if.c:389). Host ring: a full ring returns without another trigger
  (wifi_hif.c:986), a failed allocation leaves the rest until the next wakeup
  (wifi_hal.c:2797), SDIO read errors are ignored (wifi_sdio.c:448).
* Reorder: the descriptor array that cannot be allocated (wifi_drv_recv.c:96), the
  first frame that replaces the start number (289), the clean-up that does not
  wait for queued sort work (549).
* HAL: the ring filled without the tx lock (wifi_hal.c:1631), the flush that leaves
  its loop with an element taken (1776) or frees a foreign id (1790), the kept
  frames' old id (1812), the unsigned difference of counters (1201), the 8-bit
  page credit (wifi_hif.c:773).
* Aggregation and session: the peer's buffer size of 0 or 1 (wifi_drv_xmit.c:2104),
  the lock given up for each frame in the flush (2313), a TID with frames on no
  list (2265), an ADDBA answer against its expiry (wifi_mac_recv.c:4577), the flush
  short of nodes (wifi_mac_amsdu.c:179), the length it leaves behind (176), the
  count read without the lock (602), `in_time` kept from the last batch (543), a
  station freed while it is on wm_amsdu_txq (the station's life is not modelled).
* Scan: wifi_mac_scan.c:1364, 1369, 2267; any CHANNEL_SWITCH event is taken
  (wifi_mac_if.c:3927); the request is stored before the scan is accepted
  (wifi_cfg80211.c:2128); `wifi_mac_buffer_txq_send` returns while channels switch
  (wifi_mac_power.c:760).
* Power: wifi_hal_cmd.c:107 (the lock released twice), 122 and 1192, wifi_mac_power.c:344, the completion that
  sleeps after a data frame (wifi_drv_main.c:2259). AP: the frame that carries EOSP
  chosen by the room (wifi_drv_uapsd.c:379), multicast stranded when the last
  sleeper wakes (wifi_mac_beacon.c:639), the queue's length read before its lock
  (wifi_mac_power.c:1203), `vm_legacyps_txframes` (1344-1361), a forwarded frame's
  power bit (wifi_mac_recv.c:420-426), one TIM bit for two queues.
* Connection: `connect_timeout_task` forgets the network after cfg80211 was told;
  `sta_leave` clears it when connect() reassociates; a stray switch to SCAN tears
  down a fresh connection; phase bits that stay set; the state read before the
  lock.

### Fairness

Kernel threads, work queues, tasklets and timers are scheduled; functions that
do not block return. Nothing is assumed of the network stack, of cfg80211 or of
a peer, except where said.

* `rings`: weak fairness of the work thread and of a producer's way from its Put to
  its wakeup; of the irq and the rx thread, which are real-time threads.
* `hal_tx`: weak fairness of filling, of the irq thread, the txok thread and of
  the firmware's completions: the firmware is trusted to complete what it was
  given; if it does not, the driver's repair task is what helps, and that is not
  modelled. `hal_tx_shared`, `rx_reorder` and `scan` check safety only.
* `tx_ba_window`: weak fairness of a sender inside its call, of the timer, the
  tasklet, the txok thread, downloads and reports. No further frame need be sent.
* `amsdu_timer`: of the timer's expiry and handler and of callers inside a call;
  of drainers, senders inside a call, tasklet, timer and flush, and of time.
* `addba`: weak fairness of senders already inside a call, of the receive
  and the work thread once they have something to do, and of the timer. The
  peer may never answer.
* `fw_power`: weak fairness of the five threads.
* `power_save`: weak fairness of the host's threads and of the firmware's waking
  for beacons; strong fairness of the air (data, polls, null frames, beacons, the
  AP's deliveries), each of which needs a station that is awake again and again:
  without it the AP may never be heard.
* `ap_power_save`: weak fairness of senders inside a call, the receive and the txok
  thread, completions of multicast, the ageing timer and the beacon. The station
  need not fetch anything.
* `mlme`: weak fairness of the four threads, the end of scans, the fate of the
  deauthentication frame and the timers. The AP may fall silent at any time.

## 4. Proofs

### The ring

The last part of `FifoProofs` proves, for every `EltNbr` of at least 2, two or three blocks
and every batch size (the assumptions named in `CoSharedFifo` and `SharedFifo`):

* `TypeCorrect`: indexes and slots stay inside the ring;
* `AccountingHolds`: what clients hold is exactly the gaps between neighbouring
  indexes, and all of it adds up to EltNbr - 1;
* `ExclusiveHolds`: a slot held by one client can be reached by no other;
* `TestStaysValidHolds`: elements a client has seen are still there when it gets,
  which is the ASSERT after each Get in the driver.

The inductive invariant is `TypeOK /\ Accounting /\ HeldInOrder /\
TestStaysValid`. `Accounting` alone is not inductive: that a Put gives on the
slots that were got first needs `HeldInOrder` (a client's slots are the run
behind its Out index), and that a Get finds what a test has seen needs that only
a block's own Get lowers its count. The steps rest on two lemmas on the
operators of `CoSharedFifo`, `GetEffect` and `PutEffect`: what a Get or Put does to each block's count and hand; these in turn on `DistGrow` and
`DistShrink`, arithmetic of distances around the ring. `ExclusiveHolds` follows
from `RunsDisjoint`: runs of a ring that add up to less than its length do not
meet.

Its last part proves the refinement for the same constants:

* `PipelineHolds`: every Get and Put is a step of `FifoPipeline`, and the tests
  are stutters.

Under the invariant both queues of the mapping are runs of consecutive slots
(`QueuesAreRuns`): the slots a block may take start at its Out index, those its
client holds end there. The proof is then about runs, which a Get cuts in two
(`RunCut`) and a Put joins (`RunJoin`); the last block's Put joins three, the
producer's queue, the spare slot and the slots put, and the last of them becomes
the spare (`PutRecycles`).

### The work thread

The first part of `FifoProofs`, for any number of slots (at least two), producers and items
(`WorkAssumption` of `MCFifos`, through which it speaks of the work ring as `W!`):

* `WorkFifoNoLostWakeup`: while an item is in the ring the work thread is on its way
  to it, or has a bit and a wakeup pending, or a producer is about to give it one;
* `WorkFifoQueueSound`: the slots producers fill and the one the thread works on
  are exactly the gaps between the indexes; a thread that sleeps with no producer
  on its way has given back every slot; and while no two producers filled at
  once, the accepted items are called in order, each with its own parameters;
* `FifosQueueSound`: the same of the specification that the run `rings` checks.

For the first, the inductive invariant adds only `Shape`: the ring has its two
blocks, each producer is at one of its places and the semaphore counts. What the
indexes are does not matter. For the second it does (`QueueInv`): `SlotsAccounted`
ties the indexes to who holds what; `Counted` says that the items accepted are
those finished, waiting, and being filled (`Filling`, a finite set, as its
cardinality is used); `Contents` says what each slot between the indexes holds,
counted from the thread's Out index. Every step moves one slot from one owner to
the next, and there is a lemma for each.

### The host's receive ring

The second part of `FifoProofs`, for every size of the host's and the chip's ring
and of an SDIO block, any lengths of frames of at least two cells and any
READ_LEN_PER_ONCE (`RxAssumption` of `MCFifos`, the work ring's way with `R!`):

* `HostRxFifoSound`, and `FifosRxFifoSound` of the specification that `rings` checks:
  what lies between the receive thread and FDT is what the firmware sent and the
  interrupt thread committed, in order, and each frame taken out is one whole
  frame, the next one.

The invariant is `HostInv`: the types, and, while none of the exceptions noted in
`sure` has happened, `HostSound`. Its parts follow a cell on its way: `OnChip`, what
was sent and not read lies from `rd` on; `InStep`, the driver's position is the chip's
unless cells were refused; `Batch`, what was read lies from FDT on, and the batch
with the rest of its last block stays clear of FDH (the Block in `Full`, without which
the mutant `FullTight` overwrites what is due); `DueInRing`, what was committed lies
from the receive thread to FDT; `Batched`, its copy of FDT is at the end of a frame,
so that the length in a header, which is not checked against what the
ring holds but for `Plausible`, never reaches past it. `Doomed` names the states in
which part of a batch was read and part refused, which only `Commit` makes an
exception. That frames stay whole (`Framed`) is said of each cell and its
neighbours, so that joining and cutting sequences (`FramedJoin`, `FramedBegin`,
`FramedRest`) needs no induction. `ReadWrites` is the heart: a turn of the loop
writes at no distance from FDT but those from what was read to the end of the
last block, and there writes what the chip held next, the cells moved from
behind the ring's end included.

### Receive reordering

`RxReorderProofs`, for every window, ring and sequence space that `RxReorder`'s
assumptions allow (a sequence space of more than eight windows; 4096 and 64 in
the code), and every first number:

* `RxReorderSound`: the slots mirror the sequence space, the buffer is there
  whenever it is used, active_flag can be believed;
* `RxOrderKept`: what goes up is in order and goes up once, and a frame is dropped
  for old exactly when the window has passed it.

`OrderKept` is not inductive: that what is sent up ascends needs the mirror, and
that index tells old from new needs the receiver to be in step with the peer
(`InStep`: seq_next is at most a window ahead of what the peer may still send, and
less than the sequence space minus four windows behind its end). This in turn
needs that a release ends at a frame (`FilledEnds`, `ExpiredIs`), for only then is it
the peer's sending that moved the window (`EndsAtFrame`). Without an agreement,
and before the first frame, the window is empty, which is why a late work item or
a BAR does no harm then. The arithmetic of remainders modulo a constant that
is not a numeral (`ModAdd`, `ModSub`, `ModSmall`) comes first; `IndexIs` is where it
is used.

### The HAL transmit path

`HalTxProofs`, for any rings (of three blocks and at least two slots), queues, interfaces,
id tables, page credit, thresholds and loads:

* `HalResourcesConserved`: until `hal_tx_flush` is called (`Unflushed`), the ids in use
  are those on the frames between SET and the txok thread, each on one frame, and the
  page credit and the pages of the frames that were taken add up;
* `HalAccountsHonest`: until then also, when the three counters of `hal_tx_empty`
  agree, no frame is in a ring, on the bus or in the chip;
* `HalOnceAndInOrder`: with loads that do not flush (`NoFlushes`), the frames of a
  queue are downloaded in order and in whole aggregates, and each is handed back
  once, when nothing on the way holds it any more;
* `HalKeptInOrder`: with any number of flushes, of any interfaces and at any time, the
  frames of each interface leave each queue in the order they were filled, none
  twice, as long as no flush has met a fill or run out of ids.

The inductive invariant of the first three is `UntilFlushed`: what a flush is given to do, and before it
`HalInv`. The frames of a queue are numbered as they are filled, so four numbers say
where they are: `Down`, `Prom`, `made` and `Got`. `RingAt` ties the three indexes of the
ring to them, modulo its size, and says which frame each slot of MAKE and SET holds;
this is where the rings' blocks are shown never to overtake each other
(`RingGot`, `RingPut`, `RingPromoted`, `RingSent`). `AggAt` says that all that was filled
is whole aggregates and the one in hand (`IsEnds`), and that the irq thread stops in the
middle of none: it looks at the descriptor of the first frame and at the number
of frames with an id (`Fits`), not at the number filled. `IdInv` ties the id table
to the frames that have been given an id and not handed back; `OutInv` says that
of these, those that left the ring are each in one place: in the scatter list, in the
chip, done, in the status list or in the txok thread's hand; `Counts` that the three
counters and the pages count these frames. The thread that reads the status and the one
that frees ids touch the same table without a lock, but never the same id, which is
`OutInv` again.

A flush ends all this on purpose: it frees ids it does not own and puts
frames behind others (see "Statements of the repository TLC refutes"). A frame's number
no longer says where it is, so `HalKeptInOrder` has an invariant of its own,
`OrderInv`, that counts places instead: d frames have left the ring, p have been given
an id and m were filled in, the ones filled in again counted again (`PlacesAre`).
`InLine` says in which order the frames of an interface stand: those that left, then
what the flush keeps (`e`, the places these frames had), then the ring; once the flush
has begun to fill them in again, the ring comes before what it still keeps. This is
right at the turn because the ring is empty then: SET has been taken out, and MAKE
had been emptied before, for which every frame must have got an id. Nor is what is
kept written over: a slot the flush took out is not reached by the frames it fills
in before (`m + i < e[i] + EltNbr`), which a fill in between would break. These two
are where the exceptions `hist.starved` and `hist.mixed` are needed.

### The transmit session

The first half of `AddbaProofs`, for any frames and senders, any loads and any number of attempts:

* `AddbaSessionSound`: however the handlers overlap, pending frames that may be sent
  are on a list the tasklet visits, and a clean-up has frames in the window whose
  completion ends it;
* `AddbaPausesPairUp`: where handlers do not overlap, an idle TID is paused once if
  an exchange is in progress, and not at all otherwise.

The first needs to know where everybody is (`Hands`: a frame is in one hand, a
thread that is busy sending has one, each thread is where its job can lead it) and
that a DELBA still has the session it found (`DelbaHasSession`): only the receive
thread begins a clean-up, so none can start between its test at
wifi_drv_xmit.c:2351 and its end at 2370. The states after `paused` has wrapped are
excepted, as in the run. The second follows the pause count through the steps of
the one busy thread (`Paired`): `Lacks` is the sender that has claimed the exchange
and not paused yet, `Owes` the thread that has ended it and not undone the pause.
What the longer actions can do to the flags and the frames at all is proved first
(`PutDoes`, `ResumeDoes`, `DrainDoes`, `FlushOneDoes`).

### The transmit window

The second half of `AddbaProofs`, for any length of the window, the numbers, the
aggregates and the HAL's queue and any number of frames:

* `BlockAckWindowSound`: at every interleaving of the sender, the timer, the tasklet,
  the txok thread and the firmware, the window is what the HAL still has, and
  `txlist_qcnt` misses no more than the frames whose place was forced open.

Window, sequence numbers and places wrap at three lengths, and a completion finds its
place by the first frame's number alone. The invariant (`BawInv`) speaks of frames
instead: the window begins with frame `First`, which follows from what was given and
what is used; its place `i` is for frame `First + i`, and holds it or nothing
(`Holds`); its head is held (`HeadHeld`); what was forced open lies before it; and a frame
is in one hand (`InOneHand`), so that no completion comes twice. That a number leads to
the frame's place and to no other is the lemmas about remainders (`Remainder`...,
`Round`..., `IndexOf`, `SeqNumOn`) and the assumption that two windows are fewer than
the numbers (64 and 4096 in the code). Then three lemmas say what becomes of such a
window when a place is emptied, the head moves on, the tail grows (`Emptied`,
`Moved`, `Filled`), and a step that touches it is one or more of these. The count is
tied to the cardinality of the frames it has not been told of (`Counts`).

The theorem has a hypothesis of its own, `Timely`. A frame that was forced out
unanswered is still with the firmware; `drv_tx_update_ba_win` takes its completion, when
it comes, for late by its number. If it came only after about 4030 later frames had been given
to the HAL, its number would lie in the window again, and the place of another frame
would be emptied. Nothing in the driver bounds this delay; that the firmware gives a frame
up long before is taken from outside. Without a forced frame nothing is assumed, and
in the run, with four frames, `Timely` always holds.

### The scan

`ScanProofs`, for any list of channels, any scenario of events and any bound on
the queue of tasks and on unreported switches:

* `ScanScanSound`, `ScanConnectionKept` and `ScanWakeupPending`.

They share one inductive invariant, `ScanInv`: the types; the books of the queue
(only its last task is not overtaken); `Phases`, what the state flags can be at each
place of the work thread, on which everything else depends; `Wakes`, that between
two tasks something is on its way, and that the flags START and CANCEL are set
together only with a task queued; `Switching`, that a switch awaited or taken for
complete is the one to the next channel; `Requested`, for the request of cfg80211,
which has to hold already while its caller has yet to arm the timer; `Kept` and
`Back`, for the connection: once it has announced itself it stays announced until
the end of the scan restores it. The scans a stale WAIT_PKT_CLEAR has touched and
the three ways a request gets lost stay excepted, as in the run. First it is
shown what each step can do to a variable at all (`QueueMoves`, `Moves`), then one
lemma for each part, one case for each action.

### The power handshake

`FwPowerProofs`, for any number of interfaces and any budgets:

* `FwPowerTypes`;
* `FwPowerQuietWhileSuspended`: no command changes the firmware's mode once the
  driver is suspended, whoever had begun one before;
* `FwPowerRequestsKept`: a wakeup request that somebody will answer stays so
  through every step but those of a suspend or resume at the mailbox.

The invariant of the second says that a thread between the test in `hi_set_cmd` and
the end of its command holds the HAL lock, so at most one is there (`LockHeld`),
and that none of them is about to push while the suspend is counted
(`NobodyPushes`): the suspend is counted under the lock, and whoever gets it later
is refused by the test. For the third, a request is given up only with a command
that is dropped because another is announced: `SleepingHeld` says that a thread
that announced a doze is still on its way to take it back, and `WorkWakes` that
what the work thread sends is the wakeup itself.

### The timer

The last part of `RxReorderProofs`, for any set of callers and any number of calls: `OsTimerTypes`,
`OsTimerCancelledIsQuiet` and `OsTimerActiveIsArmed`. The invariant follows who has
the lock word and where the others may be while nothing raced and nobody gave up.

### The power save of an AP's stations

`ApPowerSaveProofs`, for any finite set of senders and any scenarios:

* `PeerIsSound`: the types and the queue's bound; an open service period has its
  end on the way; a station at rest with frames held has its bit in the TIM;
  `psSta` counts the station that dozes; the ages of held frames grow along the queue.

What these say of the state at rest was decided several steps before. The
invariant `PeerInv` has a part for each, independent of the others but for the
types: `QueueBounded` counts the senders that have found room and not used it yet
together with the frames queued; `PeriodEnds` adds what the receive thread
carries between reading `sta_flags` and writing them back, a service period
closed or open; `TimKnows`, that who has found the queue empty and has not said so
yet still finds it empty, but for the sender that queued the first frame and
has yet to set the bit; `Counts` speaks of the power bit that the flags have or
will have (`PmNow`). The states after a race on `sta_flags` or on the bit are
excepted, as in the run. The senders are finitely many (`SendersAssumption`),
since they are counted, and a scenario has the shape the run gives it
(`ScenariosAssumption`).

### The connection

`MlmeProofs`, for any `Loads` (commands, frames, losses) and number of retries:

* `MlmeHonestReport`: cfg80211 believes in a connection only while the machine is
  connected, but for the moment the code leaves open (`ghost.late`).

The receive thread tells cfg80211 some steps after it gave up the lock. The
invariant says that its steps keep their order (`InOrder`), that while it still has
to look at the channel a channel that is there means the network has not been
left (`NetworkIsThere`: whoever leaves takes the channel away), and that it never
tells without having looked (`SeenBeforeTold`).

### What is only model-checked

`Amsdu` and `PowerSave`; of `HalTx`, that pages and the counters of `hal_tx_empty`
stay right after a flush; and all liveness, of every module, which is beyond the
prover (fairness needs ENABLED): among others `WorkEnds`, `EveryFrameHandedBack`,
`FramesLeave`, `Answered`, `DisconnectEnds`, `AttemptEnds`. Types and accounts of the
ring are proved and are not properties of a run of their own.

## 5. Plan

What would add most, in order:

1. **Proofs of what is checked.** `NodesKept` and `LinkedOnce` of `Amsdu`; then
   what a flush leaves true of the pages and counters of `HalTx`.
2. **BlockAckLink**: `TxBaWindow` and `RxReorder` over a lossy channel; its abstract
   specification is an in-order link that may skip.
3. **StationTable**: reference counts of stations across the threads that hold
   them, with the queues above losing a station while it is on them.
4. **ChannelSwitch** (wifi_mac_concurrent.c, wifi_mac_p2p.c): the slots of two
   interfaces; then **Recovery**.

**Not modelled, by choice**: frame building and parsing (wifi_mac_xmit.c, most of
wifi_mac_recv.c, beacons, action frames), descriptors' bit layouts, ioctl and
command parsing, cfg80211's translation of requests, rate control (Linux
minstrel), ciphers, SDIO register access, protocol-test mode, statistics and
dumps. They are pure I/O, stateless, taken over from elsewhere, or decide nothing
other parts depend on. **Not modelled, by size**: the station table, into which
every other part points, so that a faithful model needs the whole driver; the
AP's side of authentication and association; two concurrent interfaces and P2P,
whose decisions are timestamps of the TSF; recovery of the firmware, which takes
every other part down at once. `PROJECT.json` lists each with its reason, and what
a module leaves out of its own component.

## 6. Running

    tlc -config MCScan.cfg MCScan          # a run: its module and cfg are in PROJECT.json
    tlapm FifoProofs.tla
    tlapm RxReorderProofs.tla
    tlapm AddbaProofs.tla                   # four minutes
    tlapm ScanProofs.tla
    tlapm FwPowerProofs.tla
    tlapm HalTxProofs.tla                   # seven minutes
    tlapm ApPowerSaveProofs.tla
    tlapm MlmeProofs.tla

The largest runs take two to three minutes with two workers: `scan` (8 million
states), `hal_tx_shared` (4 million), `amsdu_timer` (0.4 million states and two
liveness properties), `addba` and `hal_tx`; the others a minute or less.
