----------------------------- MODULE ScanProofs -----------------------------
(***************************************************************************)
(* What a scan promises, for any list of channels, any bounds and any      *)
(* scenario: its books agree (ScanSound), the connection is quiet while    *)
(* the radio is away and only then (ConnectionKept), and no scan is ever   *)
(* stranded between two tasks (WakeupPending).  The three share one        *)
(* inductive invariant: what the state flags can be at each place of the   *)
(* work thread (Phases) is what the rest depends on.                       *)
(***************************************************************************)
EXTENDS Scan, TLAPS

(* The queue of tasks: the last one queued, and it alone, is not behind.   *)
QueueBooks ==
    /\ \A i \in DOMAIN queue : queue[i].last <=> i = Len(queue)
    /\ \A i \in DOMAIN queue :
         queue[i].task = "start" /\ queue[i].last => "START" \notin flags

(* Where the work thread is, and what the flags are before a scan's first  *)
(* task and after its last.                                                *)
Phases ==
    /\ work \in {"full", "end", "report", "restore"} => scanning
    /\ "START" \in flags => scanning /\ work \in {"idle", "full", "end"}
    /\ "START" \notin flags => flags \subseteq {"CANCEL", "WAIT_PKT_CLEAR"}
    /\ "START" \notin flags /\ ("WAIT_PKT_CLEAR" \in flags \/ work = "full")
         => ~connected /\ scanning /\ work \in {"idle", "full", "end"}
    /\ leaving => ~connected

(* What wakes the work thread for sure.                                    *)
Called == queue # <<>> \/ timer \/ caller = "arm" \/ irq = "post"

(* What keeps a scan from being stranded.                                  *)
Wakes ==
    /\ scanning /\ work = "idle" => Called \/ (abort /\ "START" \in flags)
    /\ scanning /\ work = "idle" /\ leaving => Called
    /\ scanning /\ work = "wipe" => queue # <<>>
    /\ work = "full" => "START" \in flags \/ queue # <<>>
    /\ work = "full" /\ leaving => queue # <<>>
    /\ "START" \in flags /\ "CANCEL" \in flags /\ work # "end" => queue # <<>>
    /\ "START" \in flags /\ "CANCEL" \notin flags => abort

(* A switch that is awaited, or was taken for complete.                    *)
Switching ==
    /\ flags \cap {"WAIT_SWITCH", "SWITCHED"} # {} /\ ~Done => cur.pri = Chans[next]
    /\ "RESTORE" \in flags => flags \cap {"WAIT_SWITCH", "SWITCHED"} = {}
    /\ "RESTORE" \in flags /\ "CANCEL" \notin flags => connected

(* A request, from the start of its scan on.                               *)
Requested ==
    /\ request /\ caller \in {"idle", "arm"}
         /\ ghost \cap {"wiped", "late", "refused"} = {}
         => (scanning /\ "USERREQ" \in cfg) \/ irq = "restart"
    /\ work = "restore" => "USERREQ" \notin cfg

(* The connection while a scan is at it.                                   *)
Held == connected /\ "unheld" \notin ghost
Kept ==
    /\ "NOTIFY_AP" \in flags => "TX_DONE" \in flags
    /\ work = "full" => "NOTIFY_AP" \notin flags
    /\ Held /\ (flags \cap {"WAIT_PKT_CLEAR", "TX_DONE"} # {} \/ work = "full")
         => quiet /\ "RESTORE" \notin flags
    /\ Held /\ ("WAIT_PKT_CLEAR" \in flags \/ work = "full")
         => "NOTIFY_AP" \notin flags /\ (next <= Len(Chans) => ~AlreadyThere)
    /\ Held /\ "NOTIFY_AP" \in flags => ap = "asleep"
    /\ AwayQuietly

Back ==
    /\ connected /\ (~scanning \/ work = "wipe") => cur = Home /\ ap = "awake"
    /\ ~scanning /\ work = "idle" => ~quiet

ScanInv == /\ TypeOK /\ QueueBooks /\ Phases /\ Wakes /\ Switching
           /\ Requested /\ Kept /\ Back

TaskRecords == [task : {"start", "timeout"}, last : BOOLEAN]

-----------------------------------------------------------------------------
(* The queue.                                                              *)
LEMMA Enqueued ==
    ASSUME NEW task \in {"start", "timeout"}, queue \in Seq(TaskRecords), Enqueue(task)
    PROVE  /\ queue' \in Seq(TaskRecords) /\ Len(queue') = Len(queue) + 1
           /\ queue' # <<>>
           /\ \A i \in DOMAIN queue' : queue'[i].last <=> i = Len(queue')
           /\ queue'[Len(queue')].task = task
  <1>. DEFINE behind == [i \in DOMAIN queue |-> [queue[i] EXCEPT !.last = FALSE]]
              new == [task |-> task, last |-> TRUE]
  <1>1. /\ behind \in Seq(TaskRecords) /\ Len(behind) = Len(queue)
        /\ \A i \in 1 .. Len(queue) : ~behind[i].last
    <2>1. ASSUME NEW r \in TaskRecords
          PROVE  [r EXCEPT !.last = FALSE] \in TaskRecords /\ ~[r EXCEPT !.last = FALSE].last
      BY DEF TaskRecords
    <2>2. /\ DOMAIN queue = 1 .. Len(queue) /\ Len(queue) \in Nat
          /\ \A i \in 1 .. Len(queue) : queue[i] \in TaskRecords
      OBVIOUS
    <2>. HIDE DEF TaskRecords
    <2>3. /\ behind = [i \in 1 .. Len(queue) |-> [queue[i] EXCEPT !.last = FALSE]]
          /\ \A i \in 1 .. Len(queue) : behind[i] = [queue[i] EXCEPT !.last = FALSE]
      BY <2>2
    <2>4. \A i \in 1 .. Len(queue) : behind[i] \in TaskRecords /\ ~behind[i].last
      BY <2>1, <2>2, <2>3
    <2>. HIDE DEF behind
    <2>5. behind \in Seq(TaskRecords) /\ Len(behind) = Len(queue)
      <3>1. DOMAIN behind = 1 .. Len(queue) /\ behind \in [1 .. Len(queue) -> TaskRecords]
        BY <2>2, <2>3, <2>4
      <3>. QED  BY <2>2, <3>1
    <2>. QED  BY <2>4, <2>5
  <1>2. new \in TaskRecords /\ new.last /\ new.task = task
    BY DEF TaskRecords
  <1>3. queue' = Append(behind, new)
    BY DEF Enqueue
  <1>. HIDE DEF behind, new
  <1>4. /\ queue' \in Seq(TaskRecords) /\ Len(queue') = Len(queue) + 1
        /\ queue'[Len(queue) + 1] = new /\ Len(queue) \in Nat
        /\ \A i \in 1 .. Len(queue) : queue'[i] = behind[i]
    BY <1>1, <1>2, <1>3
  <1>5. \A i \in DOMAIN queue' : queue'[i].last <=> i = Len(queue')
    <2>. SUFFICES ASSUME NEW i \in 1 .. Len(queue) + 1
                  PROVE  queue'[i].last <=> i = Len(queue) + 1
      BY <1>4
    <2>1. CASE i = Len(queue) + 1
      BY <1>2, <1>4, <2>1
    <2>2. CASE i \in 1 .. Len(queue)
      BY <1>1, <1>4, <2>2
    <2>. QED  BY <1>4, <2>1, <2>2
  <1>. QED  BY <1>2, <1>4, <1>5

(* Taking a task out leaves the last one the last.                         *)
LEMMA Dequeued ==
    ASSUME queue \in Seq(TaskRecords), queue # <<>>, queue' = Tail(queue),
           \A i \in DOMAIN queue : queue[i].last <=> i = Len(queue)
    PROVE  /\ queue' \in Seq(TaskRecords) /\ Len(queue') = Len(queue) - 1
           /\ \A i \in DOMAIN queue' : queue'[i].last <=> i = Len(queue')
           /\ \A i \in DOMAIN queue' : i + 1 \in DOMAIN queue /\ queue'[i] = queue[i + 1]
           /\ Head(queue).last <=> queue' = <<>>
  <1>1. /\ queue' \in Seq(TaskRecords) /\ Len(queue) \in Nat /\ Len(queue) >= 1
        /\ Len(queue') = Len(queue) - 1 /\ Head(queue) = queue[1]
        /\ DOMAIN queue = 1 .. Len(queue) /\ DOMAIN queue' = 1 .. Len(queue')
        /\ \A i \in 1 .. Len(queue) - 1 : queue'[i] = queue[i + 1]
    OBVIOUS
  <1>2. \A i \in DOMAIN queue' : i + 1 \in DOMAIN queue /\ queue'[i] = queue[i + 1]
    BY <1>1
  <1>3. \A i \in DOMAIN queue' : queue'[i].last <=> i = Len(queue')
    BY <1>1, <1>2
  <1>4. Head(queue).last <=> Len(queue) = 1
    BY <1>1
  <1>5. queue' = <<>> <=> Len(queue) = 1
    BY <1>1
  <1>. QED  BY <1>1, <1>2, <1>3, <1>4, <1>5

(* A sequence of no length is empty.                                       *)
LEMMA NoLength == ASSUME NEW S, NEW s \in Seq(S), Len(s) = 0 PROVE s = <<>>
  OBVIOUS

(* The task that starts a scan is alone in the queue, and leaves it either *)
(* empty or to the first task of the scan.                                 *)
LEMMA StartQueue ==
    ASSUME queue \in Seq(TaskRecords), StartTask,
           \A i \in DOMAIN queue : queue[i].last <=> i = Len(queue)
    PROVE  /\ queue' \in Seq(TaskRecords) /\ Len(queue') <= Len(queue)
           /\ \A i \in DOMAIN queue' : queue'[i].last <=> i = Len(queue')
           /\ \A i \in DOMAIN queue' : queue'[i].task = "timeout"
           /\ ~connected => queue' # <<>>
  <1>1. queue # <<>> /\ Head(queue).last
    BY DEF StartTask, Run
  <1>2. /\ Tail(queue) = <<>> /\ Len(queue) = 1
    <2>1. Len(queue) \in Nat /\ Len(queue) >= 1 /\ Head(queue) = queue[1]
          /\ DOMAIN queue = 1 .. Len(queue)
      BY <1>1
    <2>2. Len(queue) = 1
      <3>1. 1 \in DOMAIN queue /\ queue[1].last
        BY <1>1, <2>1
      <3>. QED  BY <3>1
    <2>3. Tail(queue) \in Seq(TaskRecords) /\ Len(Tail(queue)) = 0
      <3>1. Tail(queue) \in Seq(TaskRecords) /\ Len(Tail(queue)) = Len(queue) - 1
        BY <1>1
      <3>. QED  BY <2>2, <3>1
    <2>. QED  BY <2>2, <2>3, NoLength
  <1>3. CASE connected
    <2>1. queue' = <<>>
      BY <1>2, <1>3 DEF StartTask
    <2>. QED  BY <1>2, <1>3, <2>1
  <1>4. CASE ~connected
    <2>1. queue' = Append(<<>>, [task |-> "timeout", last |-> TRUE])
      BY <1>2, <1>4 DEF StartTask
    <2>2. queue' = <<[task |-> "timeout", last |-> TRUE]>>
      BY <2>1
    <2>. QED  BY <1>2, <2>2 DEF TaskRecords
  <1>. QED  BY <1>3, <1>4

(* What a step can do to the queue.                                        *)
LEMMA QueueMoves ==
    ASSUME [Next]_vars
    PROVE  \/ queue' = queue
           \/ Enqueue("timeout") /\ Room
           \/ Enqueue("start") /\ Room /\ ~scanning /\ scanning'
           \/ queue # <<>> /\ queue' = Tail(queue)
           \/ StartTask
  BY DEF Next, Worker, StartDropped, TimeoutDropped, TimeoutEnds, TimeoutRestores,
         TimeoutFull, TimeoutNotifies, TimeoutSwitches, TimeoutDwells, Dwell,
         Timeout, Run, WaitPktClear, EndStop, EndReport, EndRestore, EndWipe,
         Timers, ScanTimer, AbortTimer, LeakTimer, SendData, FrameSent, TxOk,
         NotifyPktClear, NotifyApSuccess, Tbtt, SwitchComplete, Irq, SwitchPost,
         TxError, TxErrorTimeout, TxErrorLate, TxErrorEnded, TxErrorRestart, Caller,
         Request, Preempt, PreemptReturns, StoreRequest, RequestStarts, RequestArms,
         RequestRefused, Cancel, ConnectScan, FoundAp, Connect, Leave, LeaveMasks,
         CancelScan, TimeoutEx, StartScan, tasks, radio, link, users, chip, vars

-----------------------------------------------------------------------------
(* What a step can do to each of the other variables.                      *)
LEMMA Moves ==
    ASSUME [Next]_vars
    PROVE  /\ cfg' \subseteq cfg \cup {"USERREQ", "CONNECT"}
           /\ flags' \subseteq flags \cup StateFlags
           /\ hal' \subseteq hal \cup {"data", "null"}
           /\ status' \subseteq status \cup {"clear", "null"}
           /\ env' \subseteq env
           /\ ghost' \subseteq ghost \cup {"wiped", "late", "refused", "unheld"}
           /\ work' = work \/ work' \in {"idle", "full", "end", "report", "restore", "wipe"}
           /\ ap' = ap \/ ap' \in {"awake", "asleep"}
           /\ scanning' = scanning \/ scanning' \in BOOLEAN
           /\ irq' = irq \/ irq' \in {"idle", "post", "wait", "late", "restart"}
           /\ \/ caller' = caller
              \/ caller' \in {"idle", "wait", "cancelled", "store", "start", "arm"}
           /\ kernel' = kernel \/ kernel' \in {"none", "asked", "answered"}
           /\ (timer' = timer \/ timer' \in BOOLEAN)
           /\ (abort' = abort \/ abort' \in BOOLEAN)
           /\ (leak' = leak \/ leak' \in BOOLEAN)
           /\ (leaving' = leaving \/ leaving' \in BOOLEAN)
           /\ connected' = connected \/ connected' \in BOOLEAN
           /\ quiet' = quiet \/ quiet' \in BOOLEAN
           /\ (request' = request \/ request' \in BOOLEAN)
           /\ (stolen' = stolen \/ stolen' \in BOOLEAN)
           /\ next' = next \/ next' = 1 \/ (~Done /\ next' = next + 1)
           /\ cur' = cur \/ cur' = Home \/ (~Done /\ cur' = Chan(next))
           /\ \/ switches' = switches
              \/ switches < MaxSwitch /\ switches' = switches + 1
              \/ switches > 0 /\ switches' = switches - 1
  <1>. USE DEF Next, Worker, StartDropped, TimeoutDropped, TimeoutEnds, TimeoutRestores,
         TimeoutFull, TimeoutNotifies, TimeoutSwitches, TimeoutDwells, Dwell,
         Timeout, Run, WaitPktClear, EndStop, EndReport, EndRestore, EndWipe,
         Timers, ScanTimer, AbortTimer, LeakTimer, SendData, FrameSent, TxOk,
         NotifyPktClear, NotifyApSuccess, Tbtt, SwitchComplete, Irq, SwitchPost,
         TxError, TxErrorTimeout, TxErrorLate, TxErrorEnded, TxErrorRestart, Caller,
         Request, Preempt, PreemptReturns, StoreRequest, RequestStarts, RequestArms,
         RequestRefused, Cancel, ConnectScan, FoundAp, Connect, Leave, LeaveMasks,
         CancelScan, TimeoutEx, StartScan, tasks, radio, link, users, chip, vars,
         StartTask, StateFlags, RestoreChannel, ChangeChannel, Ready, Leaving,
         Answer, GiveBack
  <1>1. cfg' \subseteq cfg \cup {"USERREQ", "CONNECT"}
    OBVIOUS
  <1>2. flags' \subseteq flags \cup StateFlags
    OBVIOUS
  <1>3. hal' \subseteq hal \cup {"data", "null"} /\ status' \subseteq status \cup {"clear", "null"}
    OBVIOUS
  <1>4. env' \subseteq env
    OBVIOUS
  <1>5. ghost' \subseteq ghost \cup {"wiped", "late", "refused", "unheld"}
    OBVIOUS
  <1>6. work' = work \/ work' \in {"idle", "full", "end", "report", "restore", "wipe"}
    OBVIOUS
  <1>7. (ap' = ap \/ ap' \in {"awake", "asleep"}) /\ (scanning' = scanning \/ scanning' \in BOOLEAN)
    OBVIOUS
  <1>8. irq' = irq \/ irq' \in {"idle", "post", "wait", "late", "restart"}
    OBVIOUS
  <1>9. caller' = caller \/ caller' \in {"idle", "wait", "cancelled", "store", "start", "arm"}
    OBVIOUS
  <1>10. kernel' = kernel \/ kernel' \in {"none", "asked", "answered"}
    OBVIOUS
  <1>11. (timer' = timer \/ timer' \in BOOLEAN) /\ (abort' = abort \/ abort' \in BOOLEAN)
    OBVIOUS
  <1>12. (leak' = leak \/ leak' \in BOOLEAN) /\ (leaving' = leaving \/ leaving' \in BOOLEAN)
    OBVIOUS
  <1>13. connected' = connected \/ connected' \in BOOLEAN
    OBVIOUS
  <1>14. quiet' = quiet \/ quiet' \in BOOLEAN
    OBVIOUS
  <1>15. (request' = request \/ request' \in BOOLEAN) /\ (stolen' = stolen \/ stolen' \in BOOLEAN)
    OBVIOUS
  <1>16. next' = next \/ next' = 1 \/ (~Done /\ next' = next + 1)
    OBVIOUS
  <1>17. cur' = cur \/ cur' = Home \/ (~Done /\ cur' = Chan(next))
    OBVIOUS
  <1>18. \/ switches' = switches
         \/ switches < MaxSwitch /\ switches' = switches + 1
         \/ switches > 0 /\ switches' = switches - 1
    OBVIOUS
  <1>. QED  BY ONLY <1>1, <1>2, <1>3, <1>4, <1>5, <1>6, <1>7, <1>8, <1>9, <1>10,
         <1>11, <1>12, <1>13, <1>14, <1>15, <1>16, <1>17, <1>18

(* So each keeps its type.                                                 *)
LEMMA OtherTypes ==
    ASSUME SomeChannel, MaxSwitch \in Nat, TypeOK, [Next]_vars
    PROVE  /\ cfg' \subseteq {"USERREQ", "CONNECT"} /\ flags' \subseteq StateFlags
           /\ hal' \subseteq {"data", "null"} /\ status' \subseteq {"clear", "null"}
           /\ (\E s \in Scenarios : env' \subseteq s)
           /\ ghost' \subseteq {"wiped", "late", "refused", "unheld"}
           /\ work' \in {"idle", "full", "end", "report", "restore", "wipe"}
           /\ ap' \in {"awake", "asleep"} /\ scanning' \in BOOLEAN
           /\ irq' \in {"idle", "post", "wait", "late", "restart"}
           /\ caller' \in {"idle", "wait", "cancelled", "store", "start", "arm"}
           /\ kernel' \in {"none", "asked", "answered"}
           /\ {timer, abort, leak, connected, leaving, quiet, request, stolen}'
                \subseteq BOOLEAN
           /\ next' \in 1 .. Len(Chans) + 1
           /\ cur' \in {Home} \cup {Chan(i) : i \in 1 .. Len(Chans)}
           /\ switches' \in 0 .. MaxSwitch
  <1>1. /\ cfg' \subseteq {"USERREQ", "CONNECT"} /\ flags' \subseteq StateFlags
        /\ hal' \subseteq {"data", "null"} /\ status' \subseteq {"clear", "null"}
        /\ (\E s \in Scenarios : env' \subseteq s)
        /\ ghost' \subseteq {"wiped", "late", "refused", "unheld"}
    BY Moves DEF TypeOK
  <1>2. /\ work' \in {"idle", "full", "end", "report", "restore", "wipe"}
        /\ irq' \in {"idle", "post", "wait", "late", "restart"}
        /\ caller' \in {"idle", "wait", "cancelled", "store", "start", "arm"}
        /\ kernel' \in {"none", "asked", "answered"}
        /\ ap' \in {"awake", "asleep"}
    BY Moves DEF TypeOK
  <1>3. /\ scanning \in BOOLEAN /\ timer \in BOOLEAN /\ abort \in BOOLEAN
        /\ leak \in BOOLEAN /\ connected \in BOOLEAN /\ leaving \in BOOLEAN
        /\ quiet \in BOOLEAN /\ request \in BOOLEAN /\ stolen \in BOOLEAN
    BY Zenon DEF TypeOK
  <1>4. /\ scanning' \in BOOLEAN /\ timer' \in BOOLEAN /\ abort' \in BOOLEAN
        /\ leak' \in BOOLEAN /\ connected' \in BOOLEAN /\ leaving' \in BOOLEAN
        /\ quiet' \in BOOLEAN /\ request' \in BOOLEAN /\ stolen' \in BOOLEAN
    BY <1>3, Moves
  <1>5. /\ Len(Chans) \in Nat /\ next \in 1 .. Len(Chans) + 1
        /\ cur \in {Home} \cup {Chan(i) : i \in 1 .. Len(Chans)}
        /\ switches \in 0 .. MaxSwitch
    BY DEF SomeChannel, TypeOK
  <1>6. ~Done => next \in 1 .. Len(Chans)
    BY <1>5 DEF Done
  <1>7. next' \in 1 .. Len(Chans) + 1 /\ switches' \in 0 .. MaxSwitch
    BY <1>5, <1>6, Moves
  <1>8. cur' \in {Home} \cup {Chan(i) : i \in 1 .. Len(Chans)}
    BY <1>5, <1>6, Moves
  <1>. QED  BY <1>1, <1>2, <1>4, <1>7, <1>8

(* The queue keeps its type and its books.                                 *)
LEMMA QueueStep ==
    ASSUME MaxQueue \in Nat, TypeOK, QueueBooks, [Next]_vars
    PROVE  /\ queue' \in Seq(TaskRecords) /\ Len(queue') <= MaxQueue
           /\ \A i \in DOMAIN queue' : queue'[i].last <=> i = Len(queue')
  <1>0. /\ queue \in Seq(TaskRecords) /\ Len(queue) <= MaxQueue
        /\ \A i \in DOMAIN queue : queue[i].last <=> i = Len(queue)
        /\ Len(queue) \in Nat
    BY DEF TypeOK, QueueBooks, TaskRecords
  <1>1. CASE queue' = queue
    BY <1>0, <1>1
  <1>2. CASE \E task \in {"start", "timeout"} : Enqueue(task) /\ Room
    <2>1. /\ queue' \in Seq(TaskRecords) /\ Len(queue') = Len(queue) + 1
          /\ \A i \in DOMAIN queue' : queue'[i].last <=> i = Len(queue')
      BY <1>0, <1>2, Enqueued
    <2>. QED  BY <1>0, <1>2, <2>1 DEF Room
  <1>3. CASE queue # <<>> /\ queue' = Tail(queue)
    <2>1. /\ queue' \in Seq(TaskRecords) /\ Len(queue') = Len(queue) - 1
          /\ \A i \in DOMAIN queue' : queue'[i].last <=> i = Len(queue')
      BY <1>0, <1>3, Dequeued
    <2>. QED  BY <1>0, <2>1
  <1>4. CASE StartTask
    <2>1. /\ queue' \in Seq(TaskRecords) /\ Len(queue') <= Len(queue)
          /\ \A i \in DOMAIN queue' : queue'[i].last <=> i = Len(queue')
          /\ Len(queue') \in Nat
      BY <1>0, <1>4, StartQueue
    <2>. QED  BY <1>0, <2>1
  <1>. QED  BY <1>1, <1>2, <1>3, <1>4, QueueMoves

(* The type invariant is kept.                                             *)
LEMMA TypeStep ==
    ASSUME SomeChannel, MaxQueue \in Nat, MaxSwitch \in Nat,
           TypeOK, QueueBooks, [Next]_vars
    PROVE  TypeOK'
  BY OtherTypes, QueueStep DEF TypeOK, TaskRecords

(* The places of the work thread and the flags.                            *)
LEMMA PhasesStep ==
    ASSUME TypeOK, Phases, [Next]_vars
    PROVE  Phases'
  <1>1. CASE StartTask
    BY <1>1 DEF StartTask, Phases, link, Run
  <1>2. CASE TimeoutEnds
    BY <1>2 DEF TimeoutEnds, Timeout, Phases
  <1>3. CASE TimeoutRestores
    BY <1>3 DEF TimeoutRestores, Timeout, Phases, Restoring
  <1>4. CASE TimeoutFull
    BY <1>4 DEF TimeoutFull, Timeout, Phases, Advancing, Leaving
  <1>5. CASE TimeoutNotifies
    BY <1>5 DEF TimeoutNotifies, Timeout, Phases, Advancing, Leaving
  <1>6. CASE TimeoutSwitches
    BY <1>6 DEF TimeoutSwitches, Timeout, Phases, Advancing, Leaving, Ready
  <1>7. CASE TimeoutDwells
    BY <1>7 DEF TimeoutDwells, Dwell, Timeout, Phases, Advancing, Leaving, Ready
  <1>8. CASE WaitPktClear
    BY <1>8 DEF WaitPktClear, Phases, link
  <1>9. CASE EndStop
    BY <1>9 DEF EndStop, Phases, link
  <1>10. CASE EndReport
    BY <1>10 DEF EndReport, Phases, link
  <1>11. CASE EndRestore
    BY <1>11 DEF EndRestore, Phases
  <1>12. CASE EndWipe
    BY <1>12 DEF EndWipe, Phases
  <1>13. CASE ScanTimer
    BY <1>13 DEF ScanTimer, Phases, link, TimeoutEx
  <1>14. CASE AbortTimer
    BY <1>14 DEF AbortTimer, CancelScan, Phases, link, TimeoutEx
  <1>15. CASE LeakTimer
    BY <1>15 DEF LeakTimer, Phases, link, TimeoutEx
  <1>16. CASE NotifyPktClear
    BY <1>16 DEF NotifyPktClear, Phases, TimeoutEx
  <1>17. CASE Tbtt
    BY <1>17 DEF Tbtt, Phases, link, tasks
  <1>18. CASE SwitchComplete
    BY <1>18 DEF SwitchComplete, Phases, link, tasks
  <1>19. CASE SwitchPost
    BY <1>19 DEF SwitchPost, Phases, link, TimeoutEx
  <1>20. CASE TxError
    BY <1>20 DEF TxError, CancelScan, Phases, link, TimeoutEx
  <1>21. CASE TxErrorRestart
    BY <1>21 DEF TxErrorRestart, StartScan, Phases, link
  <1>22. CASE Preempt
    BY <1>22 DEF Preempt, CancelScan, Phases, link, TimeoutEx
  <1>23. CASE RequestStarts
    BY <1>23 DEF RequestStarts, StartScan, Phases, link
  <1>24. CASE Cancel
    BY <1>24 DEF Cancel, CancelScan, Phases, link, TimeoutEx
  <1>25. CASE ConnectScan
    BY <1>25 DEF ConnectScan, StartScan, Phases, link
  <1>26. CASE FoundAp
    BY <1>26 DEF FoundAp, Phases, link, tasks
  <1>27. CASE Connect
    BY <1>27 DEF Connect, Phases, tasks
  <1>28. CASE Leave
    BY <1>28 DEF Leave, CancelScan, Phases, TimeoutEx
  <1>29. CASE LeaveMasks
    BY <1>29 DEF LeaveMasks, Phases, tasks
  <1>30. ASSUME StartDropped \/ TimeoutDropped \/ SendData \/ (\E f \in {"data",
              "null"} : FrameSent(f)) \/ NotifyApSuccess \/
              TxErrorTimeout \/ TxErrorLate \/ TxErrorEnded \/
              Request \/ PreemptReturns \/ StoreRequest \/
              RequestArms \/ RequestRefused \/ UNCHANGED vars
        PROVE  Phases'
    <2>1. UNCHANGED <<scanning, flags, work, connected, leaving>>
      BY <1>30 DEF StartDropped, link, tasks, FrameSent, vars, TimeoutDropped,
             SendData, NotifyApSuccess, TxErrorTimeout, TxErrorEnded, Request,
             PreemptReturns, StoreRequest, RequestArms, TxErrorLate,
             RequestRefused
    <2>. QED  BY <2>1 DEF Phases
  <1>. QED  BY <1>1, <1>2, <1>3, <1>4, <1>5, <1>6, <1>7, <1>8, <1>9, <1>10,
         <1>11, <1>12, <1>13, <1>14, <1>15, <1>16, <1>17, <1>18, <1>19, <1>20,
         <1>21, <1>22, <1>23, <1>24, <1>25, <1>26, <1>27, <1>28, <1>29, <1>30
         DEF Next, Worker, Timers, TxOk, Irq, Caller

(* Only a scan's first task sets START.                                    *)
LEMMA StartSets ==
    ASSUME [Next]_vars
    PROVE  "START" \in flags' => "START" \in flags \/ StartTask
  <1>1. CASE StartTask
    BY <1>1 DEF StartTask
  <1>2. CASE TimeoutRestores
    BY <1>2 DEF TimeoutRestores, Timeout
  <1>3. CASE TimeoutNotifies
    BY <1>3 DEF TimeoutNotifies, Timeout
  <1>4. CASE TimeoutSwitches
    BY <1>4 DEF TimeoutSwitches, Timeout
  <1>5. CASE TimeoutDwells
    BY <1>5 DEF TimeoutDwells, Dwell, Timeout
  <1>6. CASE WaitPktClear
    BY <1>6 DEF WaitPktClear
  <1>7. CASE EndStop
    BY <1>7 DEF EndStop
  <1>8. CASE ScanTimer
    BY <1>8 DEF ScanTimer, TimeoutEx
  <1>9. CASE AbortTimer
    BY <1>9 DEF AbortTimer, CancelScan
  <1>10. CASE LeakTimer
    BY <1>10 DEF LeakTimer, TimeoutEx
  <1>11. CASE NotifyPktClear
    BY <1>11 DEF NotifyPktClear, TimeoutEx
  <1>12. CASE Tbtt
    BY <1>12 DEF Tbtt
  <1>13. CASE SwitchComplete
    BY <1>13 DEF SwitchComplete
  <1>14. CASE SwitchPost
    BY <1>14 DEF SwitchPost, TimeoutEx
  <1>15. CASE TxError
    BY <1>15 DEF TxError, CancelScan
  <1>16. CASE Preempt
    BY <1>16 DEF Preempt, CancelScan
  <1>17. CASE Cancel
    BY <1>17 DEF Cancel, CancelScan
  <1>18. CASE FoundAp
    BY <1>18 DEF FoundAp
  <1>19. CASE Leave
    BY <1>19 DEF Leave, CancelScan
  <1>20. CASE LeaveMasks
    BY <1>20 DEF LeaveMasks
  <1>21. ASSUME StartDropped \/ TimeoutDropped \/ TimeoutEnds \/ TimeoutFull \/
              EndReport \/ EndRestore \/ EndWipe \/ SendData \/
              (\E f \in {"data", "null"} : FrameSent(f)) \/
              NotifyApSuccess \/ TxErrorTimeout \/ TxErrorLate \/
              TxErrorEnded \/ TxErrorRestart \/ Request \/
              PreemptReturns \/ StoreRequest \/ RequestStarts \/
              RequestArms \/ RequestRefused \/ ConnectScan \/
              Connect \/ UNCHANGED vars
        PROVE  "START" \in flags' => "START" \in flags \/ StartTask
    <2>1. UNCHANGED <<flags>>
      BY <1>21 DEF StartDropped, Timeout, StartScan, FrameSent, vars,
             TimeoutDropped, SendData, NotifyApSuccess, TxErrorTimeout,
             TxErrorEnded, Request, PreemptReturns, StoreRequest, RequestArms,
             TxErrorLate, RequestRefused, RequestStarts, ConnectScan,
             TimeoutEnds, TimeoutFull, EndReport, EndWipe, TxErrorRestart,
             Connect, EndRestore
    <2>. QED  BY <2>1   <1>. QED  BY <1>1, <1>2, <1>3, <1>4, <1>5, <1>6, <1>7,
           <1>8, <1>9, <1>10, <1>11, <1>12, <1>13, <1>14, <1>15, <1>16, <1>17,
           <1>18, <1>19, <1>20, <1>21 DEF Next, Worker, Timers, TxOk, Irq,
           Caller

LEMMA BooksStep ==
    ASSUME MaxQueue \in Nat, TypeOK, QueueBooks, Phases, [Next]_vars
    PROVE  QueueBooks'
  <1>0. /\ queue \in Seq(TaskRecords)
        /\ \A i \in DOMAIN queue : queue[i].last <=> i = Len(queue)
    BY DEF TypeOK, QueueBooks, TaskRecords
  <1>1. \A i \in DOMAIN queue' : queue'[i].last <=> i = Len(queue')
    BY QueueStep
  <1>2. SUFFICES ASSUME NEW i \in DOMAIN queue', queue'[i].task = "start",
                        queue'[i].last, "START" \in flags'
                 PROVE  FALSE
    BY <1>1 DEF QueueBooks
  <1>3. CASE StartTask
    BY <1>0, <1>2, <1>3, StartQueue
  <1>4. CASE "START" \in flags
    <2>1. scanning
      BY <1>4 DEF Phases
    <2>2. CASE queue' = queue
      BY <1>2, <1>4, <2>2 DEF QueueBooks
    <2>3. CASE Enqueue("timeout")
      <3>1. /\ Len(queue') = Len(queue) + 1 /\ i = Len(queue')
            /\ queue'[Len(queue')].task = "timeout"
        BY <1>0, <1>1, <1>2, <2>3, Enqueued
      <3>. QED  BY <1>2, <3>1
    <2>4. CASE queue # <<>> /\ queue' = Tail(queue)
      <3>1. /\ i + 1 \in DOMAIN queue /\ queue'[i] = queue[i + 1]
        BY <1>0, <1>2, <2>4, Dequeued
      <3>. QED  BY <1>2, <1>4, <3>1 DEF QueueBooks
    <2>. QED  BY <1>0, <1>2, <1>3, <2>1, <2>2, <2>3, <2>4, QueueMoves
  <1>. QED  BY <1>2, <1>3, <1>4, StartSets

(* A call leaves a task in the queue; a task that is taken leaves none     *)
(* exactly when it was the last.                                           *)
LEMMA QueueEnds ==
    ASSUME TypeOK, QueueBooks
    PROVE  /\ Enqueue("start") \/ Enqueue("timeout") => queue' # <<>>
           /\ queue # <<>> /\ queue' = Tail(queue) => (Head(queue).last <=> queue' = <<>>)
           /\ StartTask /\ ~connected => queue' # <<>>
           /\ Run("start") /\ Head(queue).last => "START" \notin flags
  <1>1. /\ queue \in Seq(TaskRecords)
        /\ \A i \in DOMAIN queue : queue[i].last <=> i = Len(queue)
    BY DEF TypeOK, QueueBooks, TaskRecords
  <1>2. Enqueue("start") => queue' # <<>>
    BY <1>1, Enqueued
  <1>3. Enqueue("timeout") => queue' # <<>>
    BY <1>1, Enqueued
  <1>4. queue # <<>> /\ queue' = Tail(queue) => (Head(queue).last <=> queue' = <<>>)
    BY <1>1, Dequeued
  <1>5. StartTask /\ ~connected => queue' # <<>>
    BY <1>1, StartQueue
  <1>6. Run("start") /\ Head(queue).last => "START" \notin flags
    <2>1. queue # <<>> => Head(queue) = queue[1] /\ 1 \in DOMAIN queue
      BY <1>1
    <2>. QED  BY <2>1 DEF Run, QueueBooks
  <1>. QED  BY <1>2, <1>3, <1>4, <1>5, <1>6

(* What wakes the work thread.                                             *)
LEMMA WakesStep ==
    ASSUME TypeOK, QueueBooks, Phases, Wakes, [Next]_vars
    PROVE  Wakes'
  <1>1. CASE StartDropped
    BY <1>1, QueueEnds DEF StartDropped, Wakes, Called, Run
  <1>2. CASE StartTask
    BY <1>2 DEF StartTask, Wakes, Called, Run
  <1>3. CASE TimeoutDropped
    BY <1>3, QueueEnds DEF TimeoutDropped, Phases, Wakes, Called, Run
  <1>4. CASE TimeoutEnds
    BY <1>4 DEF TimeoutEnds, Timeout, Wakes
  <1>5. CASE TimeoutRestores
    BY <1>5 DEF TimeoutRestores, Timeout, Wakes, Done, Called
  <1>6. CASE TimeoutFull
    BY <1>6 DEF TimeoutFull, Timeout, Phases, Wakes, Done, Advancing, Leaving,
           MustLeave
  <1>7. CASE TimeoutNotifies
    BY <1>7 DEF TimeoutNotifies, Timeout, Wakes, Done, Called, Leaving, Run
  <1>8. CASE TimeoutSwitches
    BY <1>8 DEF TimeoutSwitches, Timeout, Wakes, Done, Called, Leaving, Ready,
           Run
  <1>9. CASE TimeoutDwells
    BY <1>9 DEF TimeoutDwells, Dwell, Timeout, Wakes, Done, Called, Leaving,
           Ready, Run
  <1>10. CASE WaitPktClear
    BY <1>10 DEF WaitPktClear, link, Wakes, Called
  <1>11. CASE EndStop
    BY <1>11 DEF EndStop, Wakes
  <1>12. CASE EndReport
    BY <1>12 DEF EndReport, Wakes
  <1>13. CASE EndRestore
    BY <1>13 DEF EndRestore, Wakes
  <1>14. CASE EndWipe
    BY <1>14 DEF EndWipe, Wakes, Called
  <1>15. CASE ScanTimer
    BY <1>15, QueueEnds DEF ScanTimer, Wakes, Called, TimeoutEx
  <1>16. CASE AbortTimer
    BY <1>16, QueueEnds DEF AbortTimer, CancelScan, Phases, chip, users, Wakes,
           Called, TimeoutEx
  <1>17. CASE LeakTimer
    BY <1>17, QueueEnds DEF LeakTimer, chip, link, users, Wakes, Called,
           TimeoutEx
  <1>18. CASE NotifyPktClear
    BY <1>18, QueueEnds DEF NotifyPktClear, chip, users, Wakes, Called,
           TimeoutEx
  <1>19. CASE NotifyApSuccess
    BY <1>19 DEF NotifyApSuccess, Phases, chip, users, Wakes, tasks, Called
  <1>20. CASE Tbtt
    BY <1>20 DEF Tbtt, link, Wakes, tasks, Called
  <1>21. CASE SwitchComplete
    BY <1>21 DEF SwitchComplete, link, users, Wakes, tasks, Called
  <1>22. CASE SwitchPost
    BY <1>22, QueueEnds DEF SwitchPost, Wakes, Called, TimeoutEx
  <1>23. CASE TxError
    BY <1>23, QueueEnds DEF TxError, CancelScan, Wakes, Called, TimeoutEx
  <1>24. CASE TxErrorTimeout
    BY <1>24 DEF TxErrorTimeout, link, users, Wakes, tasks, Called
  <1>25. CASE TxErrorLate
    BY <1>25 DEF TxErrorLate, link, Wakes, tasks, Called
  <1>26. CASE TxErrorEnded
    BY <1>26 DEF TxErrorEnded, link, Wakes, tasks
  <1>27. CASE TxErrorRestart
    BY <1>27, QueueEnds DEF TxErrorRestart, StartScan, link, Wakes, Called
  <1>28. CASE Request
    BY <1>28 DEF Request, chip, link, Wakes, tasks, Called
  <1>29. CASE Preempt
    BY <1>29, QueueEnds DEF Preempt, CancelScan, chip, Wakes, Called, TimeoutEx
  <1>30. CASE PreemptReturns
    BY <1>30 DEF PreemptReturns, chip, link, Wakes, tasks, Called
  <1>31. CASE StoreRequest
    BY <1>31 DEF StoreRequest, chip, link, Wakes, tasks, Called
  <1>32. CASE RequestStarts
    BY <1>32, QueueEnds DEF RequestStarts, StartScan, Wakes, Called
  <1>33. CASE RequestArms
    BY <1>33 DEF RequestArms, link, Wakes, tasks, Called
  <1>34. CASE RequestRefused
    BY <1>34 DEF RequestRefused, chip, link, Wakes, tasks, Called
  <1>35. CASE Cancel
    BY <1>35, QueueEnds DEF Cancel, CancelScan, chip, users, Wakes, Called,
           TimeoutEx
  <1>36. CASE ConnectScan
    BY <1>36, QueueEnds DEF ConnectScan, StartScan, link, Wakes, Called
  <1>37. CASE FoundAp
    BY <1>37 DEF FoundAp, chip, link, users, Wakes, tasks, Called
  <1>38. CASE Connect
    BY <1>38 DEF Connect, Wakes, tasks
  <1>39. CASE Leave
    BY <1>39, QueueEnds DEF Leave, CancelScan, Phases, chip, users, Wakes,
           Called, TimeoutEx
  <1>40. CASE LeaveMasks
    BY <1>40 DEF LeaveMasks, chip, users, Wakes, tasks, Called
  <1>41. ASSUME SendData \/ (\E f \in {"data", "null"} : FrameSent(f)) \/
              UNCHANGED vars
        PROVE  Wakes'
    <2>1. UNCHANGED <<scanning, flags, timer, abort, queue, work, connected,
           leaving, irq, caller>>
      BY <1>41 DEF SendData, chip, users, tasks, FrameSent, vars
    <2>. QED  BY <2>1 DEF Wakes, Called
  <1>. QED  BY <1>1, <1>2, <1>3, <1>4, <1>5, <1>6, <1>7, <1>8, <1>9, <1>10,
         <1>11, <1>12, <1>13, <1>14, <1>15, <1>16, <1>17, <1>18, <1>19, <1>20,
         <1>21, <1>22, <1>23, <1>24, <1>25, <1>26, <1>27, <1>28, <1>29, <1>30,
         <1>31, <1>32, <1>33, <1>34, <1>35, <1>36, <1>37, <1>38, <1>39, <1>40,
         <1>41 DEF Next, Worker, Timers, TxOk, Irq, Caller

(* The index of the next channel is one of the list, or one past it.       *)
LEMMA NextChannel ==
    ASSUME SomeChannel, TypeOK
    PROVE  Len(Chans) \in Nat /\ next \in Nat /\ next >= 1
  BY DEF SomeChannel, TypeOK

(* The switch that is awaited.                                             *)
LEMMA SwitchingStep ==
    ASSUME SomeChannel, ScanInv, [Next]_vars
    PROVE  Switching'
  <1>1. CASE StartTask
    BY <1>1 DEF StartTask, radio, Phases, Back, Switching
  <1>2. CASE TimeoutRestores
    BY <1>2 DEF TimeoutRestores, Timeout, Switching, Restoring, ScanInv
  <1>3. CASE TimeoutNotifies
    BY <1>3 DEF TimeoutNotifies, Timeout, radio, Switching, Leaving, ScanInv
  <1>4. CASE TimeoutSwitches
    BY <1>4 DEF TimeoutSwitches, Timeout, Done, Switching, Chan, Restoring,
           Leaving, Ready, ScanInv, ChangeChannel
  <1>5. CASE TimeoutDwells
    BY <1>5 DEF TimeoutDwells, Dwell, Timeout, Switching, ScanInv
  <1>6. CASE WaitPktClear
    BY <1>6 DEF WaitPktClear, radio, link, Done, Switching, ScanInv
  <1>7. CASE EndStop
    BY <1>7 DEF EndStop, Switching
  <1>8. CASE EndRestore
    BY <1>8 DEF EndRestore, Phases, Switching, ScanInv
  <1>9. CASE ScanTimer
    BY <1>9 DEF ScanTimer, radio, link, Done, Switching, ScanInv, TimeoutEx
  <1>10. CASE AbortTimer
    BY <1>10 DEF AbortTimer, CancelScan, Phases, Done, Switching, ScanInv,
           TimeoutEx
  <1>11. CASE LeakTimer
    BY <1>11 DEF LeakTimer, radio, link, Done, Switching, ScanInv, TimeoutEx
  <1>12. CASE NotifyPktClear
    BY <1>12 DEF NotifyPktClear, radio, Done, Switching, ScanInv, TimeoutEx
  <1>13. CASE Tbtt
    BY <1>13 DEF Tbtt, radio, link, Done, Switching, ScanInv
  <1>14. CASE SwitchComplete
    BY <1>14 DEF SwitchComplete, link, Done, Switching, ScanInv
  <1>15. CASE SwitchPost
    BY <1>15 DEF SwitchPost, radio, link, Done, Switching, ScanInv, TimeoutEx
  <1>16. CASE TxError
    BY <1>16 DEF TxError, CancelScan, Done, Switching, ScanInv, TimeoutEx
  <1>17. CASE Preempt
    BY <1>17 DEF Preempt, CancelScan, Done, Switching, ScanInv, TimeoutEx
  <1>18. CASE Cancel
    BY <1>18 DEF Cancel, CancelScan, Done, Switching, ScanInv, TimeoutEx
  <1>19. CASE FoundAp
    BY <1>19 DEF FoundAp, radio, link, Done, Switching, ScanInv
  <1>20. CASE Connect
    BY <1>20 DEF Connect, Phases, Switching, ScanInv
  <1>21. CASE Leave
    BY <1>21 DEF Leave, CancelScan, Phases, Done, Switching, ScanInv, TimeoutEx
  <1>22. CASE LeaveMasks
    BY <1>22 DEF LeaveMasks, Phases, Switching, ScanInv
  <1>23. ASSUME StartDropped \/ TimeoutDropped \/ TimeoutEnds \/ TimeoutFull \/
              EndReport \/ EndWipe \/ SendData \/ (\E f \in
              {"data", "null"} : FrameSent(f)) \/ NotifyApSuccess
              \/ TxErrorTimeout \/ TxErrorLate \/ TxErrorEnded \/
              TxErrorRestart \/ Request \/ PreemptReturns \/
              StoreRequest \/ RequestStarts \/ RequestArms \/
              RequestRefused \/ ConnectScan \/ UNCHANGED vars
        PROVE  Switching'
    <2>1. UNCHANGED <<flags, next, cur, connected>>
      BY <1>23 DEF StartDropped, Timeout, StartScan, radio, link, FrameSent,
             vars, TimeoutDropped, SendData, NotifyApSuccess, TxErrorTimeout,
             TxErrorEnded, Request, PreemptReturns, StoreRequest, RequestArms,
             TxErrorLate, RequestRefused, RequestStarts, ConnectScan,
             TimeoutEnds, TimeoutFull, EndReport, EndWipe, TxErrorRestart
    <2>. QED  BY <2>1 DEF ScanInv, Done, Switching
  <1>. QED  BY <1>1, <1>2, <1>3, <1>4, <1>5, <1>6, <1>7, <1>8, <1>9, <1>10,
         <1>11, <1>12, <1>13, <1>14, <1>15, <1>16, <1>17, <1>18, <1>19, <1>20,
         <1>21, <1>22, <1>23 DEF Next, Worker, Timers, TxOk, Irq, Caller

(* The stored request.                                                     *)
LEMMA RequestedStep ==
    ASSUME SomeChannel, ScanInv, [Next]_vars
    PROVE  Requested'
  <1>1. CASE TimeoutEnds
    BY <1>1 DEF TimeoutEnds, Timeout, chip, Requested, ScanInv
  <1>2. CASE TimeoutRestores
    BY <1>2 DEF TimeoutRestores, Timeout, chip, Requested, ScanInv
  <1>3. CASE TimeoutFull
    BY <1>3 DEF TimeoutFull, Timeout, chip, Requested, ScanInv
  <1>4. CASE TimeoutNotifies
    BY <1>4 DEF TimeoutNotifies, Timeout, chip, Requested, ScanInv
  <1>5. CASE WaitPktClear
    BY <1>5 DEF WaitPktClear, chip, users, Requested, ScanInv
  <1>6. CASE EndStop
    BY <1>6 DEF EndStop, chip, users, Requested, ScanInv
  <1>7. CASE EndReport
    BY <1>7 DEF EndReport, chip, Requested, Answer, ScanInv
  <1>8. CASE EndRestore
    BY <1>8 DEF EndRestore, chip, Requested, ScanInv
  <1>9. CASE EndWipe
    BY <1>9 DEF EndWipe, chip, Requested, ScanInv
  <1>10. CASE SwitchComplete
    BY <1>10 DEF SwitchComplete, users, tasks, Requested, ScanInv
  <1>11. CASE SwitchPost
    BY <1>11 DEF SwitchPost, users, Requested, ScanInv
  <1>12. CASE TxError
    BY <1>12 DEF TxError, CancelScan, Requested, ScanInv
  <1>13. CASE TxErrorTimeout
    BY <1>13 DEF TxErrorTimeout, users, tasks, Requested, ScanInv
  <1>14. CASE TxErrorLate
    BY <1>14 DEF TxErrorLate, tasks, Requested, GiveBack, ScanInv
  <1>15. CASE TxErrorEnded
    BY <1>15 DEF TxErrorEnded, tasks, Requested, ScanInv
  <1>16. CASE TxErrorRestart
    BY <1>16 DEF TxErrorRestart, StartScan, Phases, Requested, ScanInv
  <1>17. CASE Request
    BY <1>17 DEF Request, chip, tasks, Requested, ScanInv
  <1>18. CASE Preempt
    BY <1>18 DEF Preempt, CancelScan, Requested, ScanInv
  <1>19. CASE PreemptReturns
    BY <1>19 DEF PreemptReturns, tasks, Requested, ScanInv
  <1>20. CASE StoreRequest
    BY <1>20 DEF StoreRequest, tasks, Requested, ScanInv
  <1>21. CASE RequestStarts
    BY <1>21 DEF RequestStarts, StartScan, Phases, Requested, ScanInv
  <1>22. CASE RequestArms
    BY <1>22 DEF RequestArms, chip, tasks, Requested, ScanInv
  <1>23. CASE RequestRefused
    BY <1>23 DEF RequestRefused, tasks, Requested, ScanInv
  <1>24. CASE ConnectScan
    BY <1>24 DEF ConnectScan, StartScan, chip, users, Requested, ScanInv
  <1>25. ASSUME StartDropped \/ StartTask \/ TimeoutDropped \/ TimeoutSwitches \/
              TimeoutDwells \/ ScanTimer \/ AbortTimer \/
              LeakTimer \/ SendData \/ (\E f \in {"data", "null"}
              : FrameSent(f)) \/ NotifyPktClear \/ NotifyApSuccess
              \/ Tbtt \/ Cancel \/ FoundAp \/ Connect \/ Leave \/
              LeaveMasks \/ UNCHANGED vars
        PROVE  Requested'
    <2>1. UNCHANGED <<scanning, cfg, work, irq, request, caller, ghost>>
      BY <1>25 DEF StartDropped, Timeout, Dwell, CancelScan, chip, users, tasks,
             FrameSent, vars, TimeoutDropped, SendData, NotifyApSuccess,
             Connect, StartTask, TimeoutDwells, ScanTimer, AbortTimer,
             LeakTimer, NotifyPktClear, Tbtt, Cancel, FoundAp, LeaveMasks,
             TimeoutSwitches, Leave
    <2>. QED  BY <2>1 DEF ScanInv, Requested
  <1>. QED  BY <1>1, <1>2, <1>3, <1>4, <1>5, <1>6, <1>7, <1>8, <1>9, <1>10,
         <1>11, <1>12, <1>13, <1>14, <1>15, <1>16, <1>17, <1>18, <1>19, <1>20,
         <1>21, <1>22, <1>23, <1>24, <1>25 DEF Next, Worker, Timers, TxOk, Irq,
         Caller

(* The connection during a scan.                                           *)
LEMMA KeptStep ==
    ASSUME SomeChannel, ScanInv, [Next]_vars
    PROVE  Kept'
  <1>1. CASE StartTask
    BY <1>1 DEF StartTask, radio, link, users, Wakes, Kept, Held, Back,
           AwayQuietly, ScanInv, Run
  <1>2. CASE TimeoutEnds
    BY <1>2 DEF TimeoutEnds, Timeout, radio, Kept, Held, AlreadyThere,
           AwayQuietly, ScanInv
  <1>3. CASE TimeoutRestores
    BY <1>3 DEF TimeoutRestores, Timeout, radio, Kept, Held, AwayQuietly,
           Restoring, ScanInv, RestoreChannel, ChangeChannel
  <1>4. CASE TimeoutFull
    BY <1>4 DEF TimeoutFull, Timeout, radio, Kept, AlreadyThere, AwayQuietly,
           Restoring, Leaving, MustLeave, ScanInv
  <1>5. CASE TimeoutNotifies
    BY <1>5 DEF TimeoutNotifies, Timeout, Kept, Held, AwayQuietly, Restoring,
           Leaving, ScanInv, Run
  <1>6. CASE TimeoutSwitches
    BY <1>6 DEF TimeoutSwitches, Timeout, Kept, Held, AlreadyThere, AwayQuietly,
           MustLeave, Ready, ScanInv
  <1>7. CASE TimeoutDwells
    BY <1>7, NextChannel DEF TimeoutDwells, Dwell, Timeout, radio, Kept, Held,
           Done, AwayQuietly, Leaving, MustLeave, Ready, ScanInv
  <1>8. CASE WaitPktClear
    BY <1>8 DEF WaitPktClear, radio, link, users, Kept, Held, AlreadyThere,
           AwayQuietly, ScanInv
  <1>9. CASE EndStop
    BY <1>9 DEF EndStop, radio, link, users, Kept, AwayQuietly, ScanInv
  <1>10. CASE EndReport
    BY <1>10 DEF EndReport, radio, link, Kept, Held, AlreadyThere, AwayQuietly,
           Answer, ScanInv
  <1>11. CASE EndRestore
    BY <1>11 DEF EndRestore, radio, Phases, Kept, AwayQuietly, ScanInv,
           RestoreChannel, ChangeChannel
  <1>12. CASE EndWipe
    BY <1>12 DEF EndWipe, radio, Phases, Kept, Back, AwayQuietly, ScanInv
  <1>13. CASE ScanTimer
    BY <1>13 DEF ScanTimer, radio, link, users, Kept, Held, AlreadyThere,
           AwayQuietly, ScanInv, TimeoutEx
  <1>14. CASE AbortTimer
    BY <1>14 DEF AbortTimer, CancelScan, radio, link, users, Kept, Held,
           AlreadyThere, AwayQuietly, ScanInv, TimeoutEx
  <1>15. CASE LeakTimer
    BY <1>15 DEF LeakTimer, radio, link, users, Kept, Held, AlreadyThere,
           AwayQuietly, ScanInv, TimeoutEx
  <1>16. CASE NotifyPktClear
    BY <1>16 DEF NotifyPktClear, radio, users, Kept, Held, AlreadyThere,
           AwayQuietly, ScanInv, TimeoutEx
  <1>17. CASE Tbtt
    BY <1>17 DEF Tbtt, radio, link, users, Kept, Held, AlreadyThere,
           AwayQuietly, tasks, ScanInv
  <1>18. CASE SwitchComplete
    BY <1>18 DEF SwitchComplete, link, users, Kept, Held, AlreadyThere,
           AwayQuietly, tasks, ScanInv
  <1>19. CASE SwitchPost
    BY <1>19 DEF SwitchPost, radio, link, users, Kept, Held, AlreadyThere,
           AwayQuietly, ScanInv, TimeoutEx
  <1>20. CASE TxError
    BY <1>20 DEF TxError, CancelScan, radio, link, Kept, Held, AlreadyThere,
           AwayQuietly, ScanInv, TimeoutEx
  <1>21. CASE TxErrorLate
    BY <1>21 DEF TxErrorLate, radio, link, Kept, Held, AlreadyThere,
           AwayQuietly, tasks, ScanInv
  <1>22. CASE TxErrorRestart
    BY <1>22 DEF TxErrorRestart, StartScan, radio, link, Kept, Held,
           AlreadyThere, AwayQuietly, ScanInv
  <1>23. CASE Preempt
    BY <1>23 DEF Preempt, CancelScan, radio, link, Kept, Held, AlreadyThere,
           AwayQuietly, ScanInv, TimeoutEx
  <1>24. CASE RequestRefused
    BY <1>24 DEF RequestRefused, radio, link, Kept, Held, AlreadyThere,
           AwayQuietly, tasks, ScanInv
  <1>25. CASE Cancel
    BY <1>25 DEF Cancel, CancelScan, radio, link, users, Kept, Held,
           AlreadyThere, AwayQuietly, ScanInv, TimeoutEx
  <1>26. CASE FoundAp
    BY <1>26 DEF FoundAp, radio, link, users, Kept, Held, AlreadyThere,
           AwayQuietly, tasks, ScanInv
  <1>27. CASE Connect
    BY <1>27 DEF Connect, radio, Phases, Kept, AwayQuietly, tasks, ScanInv,
           ChangeChannel
  <1>28. CASE Leave
    BY <1>28 DEF Leave, CancelScan, Kept, Held, AwayQuietly, ScanInv, TimeoutEx
  <1>29. CASE LeaveMasks
    BY <1>29 DEF LeaveMasks, Phases, Kept, Held, AwayQuietly, ScanInv
  <1>30. ASSUME StartDropped \/ TimeoutDropped \/ SendData \/ (\E f \in {"data",
              "null"} : FrameSent(f)) \/ NotifyApSuccess \/
              TxErrorTimeout \/ TxErrorEnded \/ Request \/
              PreemptReturns \/ StoreRequest \/ RequestStarts \/
              RequestArms \/ ConnectScan \/ UNCHANGED vars
        PROVE  Kept'
    <2>1. UNCHANGED <<flags, next, cur, work, connected, quiet, ap, ghost>>
      BY <1>30 DEF StartDropped, StartScan, radio, link, users, tasks,
             FrameSent, vars, TimeoutDropped, SendData, NotifyApSuccess,
             TxErrorTimeout, TxErrorEnded, Request, PreemptReturns,
             StoreRequest, RequestArms, RequestStarts, ConnectScan
    <2>. QED  BY <2>1 DEF ScanInv, Kept, Held, AlreadyThere, AwayQuietly
  <1>. QED  BY <1>1, <1>2, <1>3, <1>4, <1>5, <1>6, <1>7, <1>8, <1>9, <1>10,
         <1>11, <1>12, <1>13, <1>14, <1>15, <1>16, <1>17, <1>18, <1>19, <1>20,
         <1>21, <1>22, <1>23, <1>24, <1>25, <1>26, <1>27, <1>28, <1>29, <1>30
         DEF Next, Worker, Timers, TxOk, Irq, Caller

(* The connection after a scan.                                            *)
LEMMA BackStep ==
    ASSUME SomeChannel, ScanInv, [Next]_vars
    PROVE  Back'
  <1>1. CASE TimeoutEnds
    BY <1>1 DEF TimeoutEnds, Timeout, Back
  <1>2. CASE TimeoutRestores
    BY <1>2 DEF TimeoutRestores, Timeout, Back
  <1>3. CASE TimeoutFull
    BY <1>3 DEF TimeoutFull, Timeout, Back
  <1>4. CASE TimeoutNotifies
    BY <1>4 DEF TimeoutNotifies, Timeout, Back, Run
  <1>5. CASE TimeoutSwitches
    BY <1>5 DEF TimeoutSwitches, Timeout, Back, Run
  <1>6. CASE WaitPktClear
    BY <1>6 DEF WaitPktClear, Phases, Back, ScanInv
  <1>7. CASE EndStop
    BY <1>7 DEF EndStop, Phases, Back, ScanInv
  <1>8. CASE EndReport
    BY <1>8 DEF EndReport, Phases, Back, ScanInv
  <1>9. CASE EndRestore
    BY <1>9 DEF EndRestore, radio, Back, RestoreChannel, ChangeChannel
  <1>10. CASE EndWipe
    BY <1>10 DEF EndWipe, radio, Back, ScanInv
  <1>11. CASE TxErrorRestart
    BY <1>11 DEF TxErrorRestart, StartScan, radio, link, Back, ScanInv
  <1>12. CASE RequestStarts
    BY <1>12 DEF RequestStarts, StartScan, radio, link, Back, ScanInv
  <1>13. CASE ConnectScan
    BY <1>13 DEF ConnectScan, StartScan, link, Back, ScanInv
  <1>14. CASE Connect
    BY <1>14 DEF Connect, radio, Back, tasks, ScanInv, ChangeChannel
  <1>15. CASE Leave
    BY <1>15 DEF Leave, CancelScan, Back, ScanInv
  <1>16. ASSUME StartDropped \/ StartTask \/ TimeoutDropped \/ TimeoutDwells \/
              ScanTimer \/ AbortTimer \/ LeakTimer \/ SendData \/
              (\E f \in {"data", "null"} : FrameSent(f)) \/
              NotifyPktClear \/ NotifyApSuccess \/ Tbtt \/
              SwitchComplete \/ SwitchPost \/ TxError \/
              TxErrorTimeout \/ TxErrorLate \/ TxErrorEnded \/
              Request \/ Preempt \/ PreemptReturns \/ StoreRequest
              \/ RequestArms \/ RequestRefused \/ Cancel \/
              FoundAp \/ LeaveMasks \/ UNCHANGED vars
        PROVE  Back'
    <2>1. UNCHANGED <<scanning, cur, work, connected, quiet, ap>>
      BY <1>16 DEF StartDropped, Dwell, Timeout, CancelScan, radio, link, tasks,
             FrameSent, vars, TimeoutDropped, SendData, NotifyApSuccess,
             TxErrorTimeout, TxErrorEnded, Request, PreemptReturns,
             StoreRequest, RequestArms, TxErrorLate, RequestRefused, StartTask,
             TimeoutDwells, ScanTimer, AbortTimer, LeakTimer, NotifyPktClear,
             Tbtt, Cancel, FoundAp, LeaveMasks, SwitchComplete, SwitchPost,
             TxError, Preempt
    <2>. QED  BY <2>1 DEF ScanInv, Back
  <1>. QED  BY <1>1, <1>2, <1>3, <1>4, <1>5, <1>6, <1>7, <1>8, <1>9, <1>10,
         <1>11, <1>12, <1>13, <1>14, <1>15, <1>16 DEF Next, Worker, Timers,
         TxOk, Irq, Caller

-----------------------------------------------------------------------------
(* The inductive invariant and the theorems.                               *)
LEMMA Initially == ASSUME SomeChannel, Bounds, Init PROVE ScanInv
  <1>0. Len(Chans) \in Nat /\ Len(Chans) >= 1
    <2>1. Chans \in Seq(Nat) /\ Chans # <<>>
      BY DEF SomeChannel
    <2>. QED  BY <2>1
  <1>1. TypeOK
    <2>1. {timer, abort, leak, connected, leaving, quiet, request, stolen} \subseteq BOOLEAN
      BY Zenon DEF Init
    <2>2. /\ next \in 1 .. Len(Chans) + 1 /\ switches \in 0 .. MaxSwitch
          /\ queue \in Seq([task : {"start", "timeout"}, last : BOOLEAN])
          /\ Len(queue) <= MaxQueue
      BY <1>0 DEF Init, Bounds
    <2>3. cur \in {Home} \cup {Chan(i) : i \in 1 .. Len(Chans)}
      BY <1>0 DEF Init
    <2>4. \E s \in Scenarios : env \subseteq s
      BY DEF Init
    <2>. QED  BY <2>1, <2>2, <2>3, <2>4 DEF Init, TypeOK
  <1>2. QueueBooks
    BY DEF Init, QueueBooks
  <1>3. Phases /\ Wakes /\ Requested
    BY DEF Init, Phases, Wakes, Called, Requested
  <1>4. Switching
    BY DEF Init, Switching
  <1>5. Kept /\ Back
    BY DEF Init, Kept, Held, AwayQuietly, Back
  <1>. QED  BY <1>1, <1>2, <1>3, <1>4, <1>5 DEF ScanInv

(* Every step keeps the invariant.                                         *)
LEMMA Inductive == ASSUME SomeChannel, Bounds, ScanInv, [Next]_vars PROVE ScanInv'
  <1>1. TypeOK' /\ QueueBooks'
    BY TypeStep, BooksStep DEF ScanInv, Bounds
  <1>2. Phases' /\ Wakes'
    BY PhasesStep, WakesStep DEF ScanInv
  <1>. QED
    BY <1>1, <1>2, SwitchingStep, RequestedStep, KeptStep, BackStep DEF ScanInv

(* Every reachable state satisfies it.                                     *)
LEMMA Invariant == Spec => []ScanInv
  BY SomeChannel, Bounds, Initially, Inductive, PTL DEF Spec

(* ScanSound: a switch taken for complete is the one to the next channel,  *)
(* and a stored request has a scan that will answer it.                    *)
THEOREM ScanScanSound == Spec => []ScanSound
  <1>1. ScanInv => ScanSound
    <2>1. Switching => SwitchedIsThere
      BY DEF Switching, SwitchedIsThere
    <2>2. Requested => RequestHasScan
      BY DEF Requested, RequestHasScan
    <2>. QED  BY <2>1, <2>2 DEF ScanInv, ScanSound
  <1>2. Spec => []ScanInv
    BY Invariant
  <1>. QED  BY <1>1, <1>2, PTL

(* ConnectionKept: the interface is quiet and the AP was told while the    *)
(* radio is off the channel of the connection, and after the scan the      *)
(* radio is back, the interface sends and the AP knows.                    *)
THEOREM ScanConnectionKept == Spec => []ConnectionKept
  <1>1. ScanInv => ConnectionKept
    BY DEF ScanInv, Kept, Back, ConnectionKept, BackAfterScan
  <1>2. Spec => []ScanInv
    BY Invariant
  <1>. QED  BY <1>1, <1>2, PTL

(* WakeupPending: between two tasks of a scan there is a task that will    *)
(* not be ignored, a timer, a thread about to queue one, or the abort      *)
(* timer while it can still do so.                                         *)
THEOREM ScanWakeupPending == Spec => []WakeupPending
  <1>1. TypeOK /\ QueueBooks /\ queue # <<>> => \E i \in DOMAIN queue : queue[i].last
    <2>1. TypeOK /\ queue # <<>> => Len(queue) \in DOMAIN queue
      BY DEF TypeOK
    <2>. QED  BY <2>1 DEF QueueBooks
  <1>2. ScanInv => WakeupPending
    BY <1>1 DEF ScanInv, Wakes, Called, WakeupPending
  <1>3. Spec => []ScanInv
    BY Invariant
  <1>. QED  BY <1>2, <1>3, PTL
=============================================================================
