--------------------------- MODULE FwPowerProofs ---------------------------
(***************************************************************************)
(* What holds of the power handshake for any number of interfaces and any  *)
(* budget: the types, that a suspended driver gives the firmware no        *)
(* command, and that nothing but a suspend leaves a wakeup request stale.  *)
(***************************************************************************)
EXTENDS FwPower, WellFoundedInduction, TLAPS

USE VifNbrAssumption, BudgetsAssumption

(* The lowest of some interfaces exists.                                   *)
LEMMA FirstIsOne ==
    ASSUME NEW vifs \in SUBSET Vifs, vifs # {}
    PROVE  First(vifs) \in vifs
  <1>1. vifs \subseteq Nat
    BY DEF Vifs
  <1>2. PICK m \in vifs : \A v \in vifs : <<v, m>> \notin OpToRel(<, Nat)
    BY <1>1, WFMin, NatLessThanWellFounded, Zenon
  <1>3. \A v \in vifs : ~ (v < m)
    BY <1>1, <1>2, Zenon DEF OpToRel
  <1>4. \A v \in vifs : m <= v
    BY <1>1, <1>3
  <1>. QED  BY <1>4 DEF First

(* A wakeup request queues an interface.                                   *)
LEMMA WakeReqType ==
    ASSUME addWakeup \in BOOLEAN, tasks \in Seq(Vifs),
           NEW sleepers \in SUBSET Vifs, WakeReq(sleepers)
    PROVE  addWakeup' \in BOOLEAN /\ tasks' \in Seq(Vifs)
  <1>1. CASE sleepers = {}
    BY <1>1 DEF WakeReq
  <1>2. CASE sleepers # {}
    <2>1. First(sleepers) \in Vifs
      BY <1>2, FirstIsOne
    <2>2. addWakeup' = TRUE /\ tasks' = Append(tasks, First(sleepers))
      BY <1>2 DEF WakeReq
    <2>. QED  BY <2>1, <2>2
  <1>. QED  BY <1>1, <1>2

(* A thread that moves on stays in one of the states a thread can be in.   *)
LEMMA GotoType ==
    ASSUME TypeOK, NEW t \in Threads, NEW pc \in Pcs, Goto(t, pc)
    PROVE  th' \in [Threads -> ThreadStates]
  <1>1. th \in [Threads -> ThreadStates]
    BY DEF TypeOK
  <1>2. [th[t] EXCEPT !.pc = pc] \in ThreadStates
    BY <1>1 DEF ThreadStates
  <1>3. th' = [th EXCEPT ![t] = [th[t] EXCEPT !.pc = pc]]
    BY DEF Goto
  <1>. QED  BY <1>1, <1>2, <1>3, Zenon

LEMMA IdleType == idle \in ThreadStates
  BY DEF idle, ThreadStates, Pcs, Vifs

LEMMA FinishType ==
    ASSUME TypeOK, NEW t \in Threads, Finish(t)
    PROVE  th' \in [Threads -> ThreadStates]
  BY IdleType, Zenon DEF TypeOK, Finish

(* A budget that is drawn on stays one.                                    *)
LEMMA SpendType ==
    ASSUME TypeOK, NEW event \in {"doze", "param", "frame", "suspend"},
           Spend(event)
    PROVE  left' \in Bounds
  <1>1. left \in Bounds
    BY DEF TypeOK
  <1>2. left[event] \in Nat /\ left[event] > 0
    BY <1>1 DEF Bounds, Spend
  <1>3. left' = [left EXCEPT ![event] = left[event] - 1]
    BY DEF Spend
  <1>4. CASE event = "doze"
    BY <1>1, <1>2, <1>3, <1>4 DEF Bounds
  <1>5. CASE event = "param"
    BY <1>1, <1>2, <1>3, <1>5 DEF Bounds
  <1>6. CASE event = "frame"
    BY <1>1, <1>2, <1>3, <1>6 DEF Bounds
  <1>7. CASE event = "suspend"
    BY <1>1, <1>2, <1>3, <1>7 DEF Bounds
  <1>. QED  BY <1>4, <1>5, <1>6, <1>7

(* The wakeup before an access keeps the types of what it touches.         *)
LEMMA WakeChipType ==
    ASSUME TypeOK, WakeChip
    PROVE  /\ fwPs' \in {"ACTIVE", "AWAKE", "SLEEP"}
           /\ hostReq' \in BOOLEAN
           /\ chip' \in {"awake", "asleep"}
  BY DEF TypeOK, WakeChip

(* Every step keeps the types.                                             *)
LEMMA TypeStep == TypeOK /\ [Next]_vars => TypeOK'
  <1>. SUFFICES ASSUME TypeOK, [Next]_vars PROVE TypeOK'
    OBVIOUS
  <1>. USE DEF chipVars
  <1>pc. /\ "hal" \in Pcs /\ "set" \in Pcs /\ "push" \in Pcs
         /\ "req" \in Pcs /\ "tail" \in Pcs /\ "clear" \in Pcs
         /\ "send" \in Pcs /\ "check" \in Pcs /\ "after" \in Pcs
         /\ "busy" \in Pcs /\ "late" \in Pcs /\ "ask" \in Pcs
    BY DEF Pcs
  <1>th. th \in [Threads -> ThreadStates] /\ left \in Bounds
    BY DEF TypeOK
  <1>up. left.up \in SUBSET Vifs /\ left.up # {}
    <2>1. left.up \in (SUBSET Vifs) \ {{}}
      BY <1>th DEF Bounds
    <2>. QED  BY <2>1, Zenon
  <1>1. ASSUME NEW v \in Vifs, FullSleep(v) PROVE TypeOK'
    <2>1. left' \in Bounds
      BY <1>1, SpendType DEF FullSleep
    <2>2. th' \in [Threads -> ThreadStates]
      BY <1>1, <1>th DEF FullSleep, SetState, ThreadStates, Pcs, PowerCmds, Threads
    <2>. QED  BY <1>1, <2>1, <2>2 DEF TypeOK, FullSleep, SetState, Threads
  <1>2. ASSUME WakeupTask PROVE TypeOK'
    <2>1. Head(tasks) \in Vifs /\ tasks' \in Seq(Vifs)
      BY <1>2 DEF TypeOK, WakeupTask
    <2>2. th' \in [Threads -> ThreadStates]
      BY <1>2, <2>1, <1>th DEF WakeupTask, SetState, ThreadStates, Pcs, PowerCmds, Threads
    <2>. QED  BY <1>2, <2>1, <2>2 DEF TypeOK, WakeupTask, SetState, Threads
  <1>3. ASSUME NEW t \in Threads, FindsBusy(t) \/ DozeRefused(t) PROVE TypeOK'
    <2>1. th' \in [Threads -> ThreadStates]
      BY <1>3, <1>pc, GotoType DEF FindsBusy, DozeRefused
    <2>. QED  BY <1>3, <2>1 DEF TypeOK, FindsBusy, DozeRefused
  <1>4. ASSUME NEW t \in Threads, CommandDropped(t) PROVE TypeOK'
    <2>1. th' \in [Threads -> ThreadStates]
      BY <1>4, FinishType DEF CommandDropped
    <2>. QED  BY <1>4, <2>1 DEF TypeOK, CommandDropped
  <1>5. ASSUME NEW t \in Threads,
               CommandAnnounced(t) \/ CommandUnannounced(t) \/ LateDoze(t)
        PROVE  TypeOK'
    <2>1. th' \in [Threads -> ThreadStates]
      BY <1>5, <1>pc, GotoType DEF CommandAnnounced, CommandUnannounced, LateDoze
    <2>. QED
      BY <1>5, <2>1 DEF TypeOK, CommandAnnounced, CommandUnannounced, LateDoze
  <1>6. ASSUME NEW t \in Threads, TakeHalLock(t) PROVE TypeOK'
    <2>1. th' \in [Threads -> ThreadStates]
      BY <1>6, <1>pc, GotoType DEF TakeHalLock
    <2>. QED  BY <1>6, <2>1 DEF TypeOK, TakeHalLock
  <1>7. ASSUME NEW t \in Threads, SetCmd(t) PROVE TypeOK'
    <2>1. th' \in [Threads -> ThreadStates]
      BY <1>7, <1>pc, GotoType DEF SetCmd
    <2>. QED  BY <1>7, <2>1 DEF TypeOK, SetCmd
  <1>8. ASSUME NEW t \in Threads, Push(t) PROVE TypeOK'
    <2>1. th' \in [Threads -> ThreadStates]
      BY <1>8, <1>pc, GotoType DEF Push
    <2>2. fwPs' \in {"ACTIVE", "AWAKE", "SLEEP"} /\ hostReq' \in BOOLEAN
         /\ chip' \in {"awake", "asleep"}
      BY <1>8, WakeChipType DEF Push
    <2>. QED  BY <1>8, <2>1, <2>2 DEF TypeOK, Push, ModeAfter
  <1>9. ASSUME NEW t \in Threads, PushFailed(t) PROVE TypeOK'
    <2>1. th' \in [Threads -> ThreadStates]
      BY <1>9, <1>pc, GotoType DEF PushFailed
    <2>2. fwPs' \in {"ACTIVE", "AWAKE", "SLEEP"} /\ hostReq' \in BOOLEAN
         /\ chip' \in {"awake", "asleep"}
      BY <1>9, WakeChipType DEF PushFailed
    <2>. QED  BY <1>9, <2>1, <2>2 DEF TypeOK, PushFailed
  <1>10. ASSUME NEW t \in Threads, RequestSleep(t) PROVE TypeOK'
    <2>1. th' \in [Threads -> ThreadStates]
      BY <1>10, <1>pc, <1>th DEF RequestSleep, ThreadStates
    <2>. QED  BY <1>10, <2>1 DEF TypeOK, RequestSleep
  <1>11. ASSUME NEW t \in Threads, CommandEnds(t) PROVE TypeOK'
    <2>1. th' \in [Threads -> ThreadStates]
      BY <1>11, <1>pc, GotoType DEF CommandEnds
    <2>. QED  BY <1>11, <2>1 DEF TypeOK, CommandEnds, PictureAfter
  <1>12. ASSUME NEW t \in Threads, ClearWakeReq(t) PROVE TypeOK'
    <2>1. th' \in [Threads -> ThreadStates]
      BY <1>12, FinishType DEF ClearWakeReq
    <2>. QED  BY <1>12, <2>1 DEF TypeOK, ClearWakeReq
  <1>13. ASSUME NEW cmd \in {"PARAM", "NULLDATA"}, OtherCommand(cmd) PROVE TypeOK'
    <2>1. left' \in Bounds
      BY <1>13, SpendType DEF OtherCommand
    <2>2. th' \in [Threads -> ThreadStates]
      <3>. DEFINE s == [th["param"] EXCEPT !.pc = "hal", !.cmd = cmd]
      <3>1. th["param"] \in ThreadStates
        BY <1>th DEF Threads
      <3>2. s \in ThreadStates
        BY <3>1, <1>pc DEF ThreadStates
      <3>3. th' = [th EXCEPT !["param"] = s]
        BY <1>13 DEF OtherCommand
      <3>. HIDE DEF s
      <3>. QED  BY <1>th, <3>2, <3>3, Zenon
    <2>. QED  BY <1>13, <2>1, <2>2 DEF TypeOK, OtherCommand
  <1>14. ASSUME OtherCommandEnds PROVE TypeOK'
    <2>1. th' \in [Threads -> ThreadStates]
      BY <1>14, FinishType DEF OtherCommandEnds, Threads
    <2>. QED  BY <1>14, <2>1 DEF TypeOK, OtherCommandEnds
  <1>15. ASSUME NEW v \in Vifs, NewFrame(v) PROVE TypeOK'
    <2>1. left' \in Bounds
      BY <1>15, SpendType DEF NewFrame
    <2>2. addWakeup' \in BOOLEAN /\ tasks' \in Seq(Vifs)
      <3>1. addWakeup \in BOOLEAN /\ tasks \in Seq(Vifs) /\ {v} \in SUBSET Vifs
        BY DEF TypeOK
      <3>2. WakeReq({v}) \/ (addWakeup' \in {FALSE, addWakeup} /\ tasks' = tasks)
        BY <1>15, Zenon DEF NewFrame
      <3>. QED  BY <3>1, <3>2, WakeReqType
    <2>. QED  BY <1>15, <2>1, <2>2 DEF TypeOK, NewFrame
  <1>16. ASSUME TxFindsSleeping PROVE TypeOK'
    <2>1. th' \in [Threads -> ThreadStates]
      BY <1>16, <1>pc, GotoType DEF TxFindsSleeping, Threads
    <2>. QED  BY <1>16, <2>1 DEF TypeOK, TxFindsSleeping
  <1>17. ASSUME NEW t \in Threads, AskStep(t) PROVE TypeOK'
    <2>1. addWakeup' \in BOOLEAN /\ tasks' \in Seq(Vifs)
      <3>1. addWakeup \in BOOLEAN /\ tasks \in Seq(Vifs) /\ Sleepers \in SUBSET Vifs
        BY DEF TypeOK, Sleepers
      <3>2. WakeReq(Sleepers) \/ UNCHANGED <<addWakeup, tasks>>
        BY <1>17 DEF AskStep, IsOutstanding, AskWakeup
      <3>. QED  BY <3>1, <3>2, WakeReqType
    <2>2. EndAsking(t) \/ (Goto(t, "ask") /\ mutex' = mutex)
      BY <1>17, Zenon DEF AskStep, IsOutstanding, AskWakeup
    <2>3. th' \in [Threads -> ThreadStates]
      BY <2>2, <1>pc, GotoType, FinishType DEF EndAsking
    <2>4. mutex' \in [Vifs -> Threads \cup {None}]
      BY <2>2 DEF EndAsking, TypeOK
    <2>. QED
      BY <1>17, <2>1, <2>3, <2>4 DEF TypeOK, AskStep, IsOutstanding, AskWakeup
  <1>18. ASSUME TxBegins PROVE TypeOK'
    <2>1. th' \in [Threads -> ThreadStates]
      BY <1>18, <1>pc, GotoType DEF TxBegins, Threads
    <2>. QED  BY <1>18, <2>1 DEF TypeOK, TxBegins
  <1>19. ASSUME TxSends PROVE TypeOK'
    <2>1. th' \in [Threads -> ThreadStates]
      BY <1>19, FinishType DEF TxSends, Threads
    <2>2. fwPs' \in {"ACTIVE", "AWAKE", "SLEEP"} /\ hostReq' \in BOOLEAN
         /\ chip' \in {"awake", "asleep"}
      BY <1>19, WakeChipType DEF TxSends, TypeOK
    <2>. QED  BY <1>19, <2>1, <2>2 DEF TypeOK, TxSends
  <1>20. ASSUME Suspend PROVE TypeOK'
    <2>1. First(left.up) \in Vifs
      BY <1>up, FirstIsOne
    <2>2. left' \in Bounds
      BY <1>20, SpendType DEF Suspend
    <2>3. th' \in [Threads -> ThreadStates]
      BY <1>20, <2>1, <1>th DEF Suspend, ThreadStates, Pcs, SuspendCmds
    <2>. QED  BY <1>20, <2>1, <2>2, <2>3 DEF TypeOK, Suspend, Threads
  <1>21. ASSUME SuspendBusy PROVE TypeOK'
    <2>1. th' \in [Threads -> ThreadStates]
      BY <1>21, <1>pc, GotoType DEF SuspendBusy, Threads
    <2>. QED  BY <1>21, <2>1 DEF TypeOK, SuspendBusy
  <1>22. ASSUME SuspendAnnounced PROVE TypeOK'
    <2>1. th' \in [Threads -> ThreadStates]
      BY <1>22, <1>pc, GotoType DEF SuspendAnnounced, Threads
    <2>. QED  BY <1>22, <2>1 DEF TypeOK, SuspendAnnounced
  <1>23. ASSUME Resume PROVE TypeOK'
    <2>1. First(left.up) \in Vifs
      BY <1>up, FirstIsOne
    <2>2. th' \in [Threads -> ThreadStates]
      BY <1>23, <2>1, <1>th DEF Resume, ThreadStates, Pcs, SuspendCmds
    <2>. QED  BY <1>23, <2>1, <2>2 DEF TypeOK, Resume, Threads
  <1>24. ASSUME ResumeOnePowered PROVE TypeOK'
    <2>1. th' \in [Threads -> ThreadStates]
      BY <1>24, <1>pc, GotoType DEF ResumeOnePowered, Threads
    <2>2. suspend' = suspend \/ suspend' = [suspend EXCEPT !.wow = FALSE, !.cnt = 0]
      BY <1>24, Zenon DEF ResumeOnePowered
    <2>3. suspend' \in [wow : BOOLEAN, cnt : 0 .. 1, host : BOOLEAN]
      <3>1. suspend \in [wow : BOOLEAN, cnt : 0 .. 1, host : BOOLEAN]
        BY DEF TypeOK
      <3>2. CASE suspend' = [suspend EXCEPT !.wow = FALSE, !.cnt = 0]
        <4>1. suspend.host \in BOOLEAN
          BY <3>1
        <4>2. suspend' = [wow |-> FALSE, cnt |-> 0, host |-> suspend.host]
          BY <3>1, <3>2
        <4>. QED  BY <4>1, <4>2
      <3>. QED  BY <2>2, <3>1, <3>2
    <2>. QED  BY <1>24, <2>1, <2>3 DEF TypeOK, ResumeOnePowered
  <1>25. ASSUME SuspendCmdEnds PROVE TypeOK'
    <2>1. th' \in [Threads -> ThreadStates]
      BY <1>25, <1>pc, <1>th DEF SuspendCmdEnds, ThreadStates, Threads
    <2>. QED  BY <1>25, <2>1 DEF TypeOK, SuspendCmdEnds
  <1>26. ASSUME SuspendNext PROVE TypeOK'
    <2>1. th["pm"] \in ThreadStates
      BY <1>th DEF Threads
    <2>. DEFINE later == {v \in left.up : v > th["pm"].vif}
    <2>2. /\ mac' \in [Vifs -> {"AWAKE", "SLEEP"}]
          /\ UNCHANGED <<drvPs, fwPs, halLock, chipVars, addWakeup, tasks, txq, left>>
      <3>1. mac \in [Vifs -> {"AWAKE", "SLEEP"}]
        BY DEF TypeOK
      <3>2. \/ mac' = mac
            \/ mac' = [mac EXCEPT ![th["pm"].vif] = "SLEEP"]
            \/ mac' = [mac EXCEPT ![th["pm"].vif] = "AWAKE"]
        BY <1>26, Zenon DEF SuspendNext
      <3>3. UNCHANGED <<drvPs, fwPs, halLock, chipVars, addWakeup, tasks, txq, left>>
        BY <1>26, Zenon DEF SuspendNext
      <3>. QED  BY <3>1, <3>2, <3>3
    <2>3. suspend' \in [wow : BOOLEAN, cnt : 0 .. 1, host : BOOLEAN]
          /\ mutex' \in [Vifs -> Threads \cup {None}]
      <3>1. suspend \in [wow : BOOLEAN, cnt : 0 .. 1, host : BOOLEAN]
            /\ mutex \in [Vifs -> Threads \cup {None}]
        BY DEF TypeOK
      <3>2. \/ suspend' = suspend /\ mutex' = mutex
            \/ /\ suspend' = [suspend EXCEPT !.host = (th["pm"].cmd = "WOW_ON")]
               /\ mutex' = [mutex EXCEPT ![0] = None]
        BY <1>26, Zenon DEF SuspendNext
      <3>. QED  BY <3>1, <3>2
    <2>4. th' \in [Threads -> ThreadStates]
      <3>1. CASE later = {}
        <4>1. Finish("pm")
          BY <1>26, <3>1, Zenon DEF SuspendNext
        <4>. QED  BY <4>1, FinishType DEF Threads
      <3>2. CASE later # {}
        <4>1. First(later) \in Vifs
          BY <1>up, <3>2, FirstIsOne
        <4>2. th' = [th EXCEPT !["pm"] = [pc |-> "power", cmd |-> th["pm"].cmd,
                                          vif |-> First(later), ok |-> FALSE]]
          BY <1>26, <3>2, Zenon DEF SuspendNext
        <4>. HIDE DEF later
        <4>. QED  BY <2>1, <4>1, <4>2, <1>th DEF ThreadStates, Pcs
      <3>. QED  BY <3>1, <3>2
    <2>. QED  BY <2>2, <2>3, <2>4, Zenon DEF TypeOK
  <1>27. ASSUME ChipSleeps PROVE TypeOK'
    BY <1>27 DEF TypeOK, ChipSleeps
  <1>28. ASSUME ChipInterrupts PROVE TypeOK'
    BY <1>28 DEF TypeOK, ChipInterrupts
  <1>29. ASSUME UNCHANGED vars PROVE TypeOK'
    BY <1>29 DEF TypeOK, vars
  <1>. QED
    BY <1>1, <1>2, <1>3, <1>4, <1>5, <1>6, <1>7, <1>8, <1>9, <1>10, <1>11, <1>12, <1>13, <1>14, <1>15, <1>16, <1>17, <1>18, <1>19, <1>20, <1>21, <1>22, <1>23, <1>24, <1>25, <1>26, <1>27, <1>28, <1>29,
       <1>th DEF Next, WorkThread, TxokThread, ParamThread, TxThread, PmThread,
                 Environment, PowerStep, AskStep, MailboxStep, Threads, Bounds

(* The initial states have the types.                                      *)
LEMMA InitTypes == Init => TypeOK
  <1>. SUFFICES ASSUME Init PROVE TypeOK
    OBVIOUS
  <1>1. th \in [Threads -> ThreadStates]
    BY IdleType, Zenon DEF Init
  <1>2. left \in Bounds
    BY DEF Init
  <1>3. tasks \in Seq(Vifs)
    BY DEF Init
  <1>4. mac \in [Vifs -> {"AWAKE", "SLEEP"}] /\ mutex \in [Vifs -> Threads \cup {None}]
    BY DEF Init
  <1>5. suspend \in [wow : BOOLEAN, cnt : 0 .. 1, host : BOOLEAN]
    BY DEF Init
  <1>6. /\ drvPs \subseteq {"SLEEPING", "ACTIVE"}
        /\ fwPs \in {"ACTIVE", "AWAKE", "SLEEP"} /\ halLock \in Threads \cup {None}
        /\ hostReq \in BOOLEAN /\ fwMode \in {"ACTIVE", "DOZE"}
        /\ chip \in {"awake", "asleep"} /\ addWakeup \in BOOLEAN /\ txq \in Nat
    BY DEF Init
  <1>. QED  BY <1>1, <1>2, <1>3, <1>4, <1>5, <1>6, Zenon DEF TypeOK

(* The types hold in every behaviour, for any number of interfaces.        *)
THEOREM FwPowerTypes == Spec => []TypeOK
  <1>. QED  BY InitTypes, TypeStep, PTL DEF Spec

-----------------------------------------------------------------------------
(* The argument for the suspend: the driver counts as suspended only once  *)
(* the suspend command has been through the mailbox, under the HAL lock,   *)
(* so that no other thread is between the test in hi_set_cmd and the       *)
(* write; and until it is resumed that test lets nobody pass.              *)
LockHeld == \A t \in Threads : th[t].pc \in AtMailbox => halLock = t

NobodyPushes == suspend.cnt = 1 => \A t \in Threads : th[t].pc # "push"

MailboxInv == TypeOK /\ LockHeld /\ NobodyPushes

(* Who is at the mailbox, and the suspend count, after a step that moves   *)
(* one thread to a place away from the mailbox.                            *)
LEMMA LeavesMailbox ==
    ASSUME MailboxInv, NEW t \in Threads, NEW s, s.pc \notin AtMailbox,
           th' = [th EXCEPT ![t] = s], halLock' = halLock,
           suspend'.cnt = 0 \/ suspend'.cnt = suspend.cnt
    PROVE  LockHeld' /\ NobodyPushes'
  BY DEF MailboxInv, TypeOK, LockHeld, NobodyPushes, AtMailbox

(* A step in which the holder of the HAL lock lets it go.                  *)
LEMMA Releases ==
    ASSUME MailboxInv, NEW t \in Threads, NEW s, s.pc \notin AtMailbox,
           th[t].pc \in AtMailbox, th' = [th EXCEPT ![t] = s]
    PROVE  LockHeld' /\ NobodyPushes'
  <1>1. halLock = t
    BY DEF MailboxInv, LockHeld
  <1>2. \A u \in Threads : u # t => th[u].pc \notin AtMailbox
    BY <1>1 DEF MailboxInv, LockHeld
  <1>3. \A u \in Threads : th'[u].pc \notin AtMailbox
    BY <1>2 DEF MailboxInv, TypeOK
  <1>. QED  BY <1>3 DEF LockHeld, NobodyPushes, AtMailbox

(* A step that moves one thread towards or at the mailbox.                 *)
LEMMA AtTheMailbox ==
    ASSUME MailboxInv, NEW t \in Threads, NEW s,
           th' = [th EXCEPT ![t] = s], halLock' = t,
           halLock \in {t, None}, suspend' = suspend,
           s.pc = "push" => suspend.cnt = 0
    PROVE  LockHeld' /\ NobodyPushes'
  BY DEF MailboxInv, TypeOK, LockHeld, NobodyPushes, AtMailbox, Threads, None

(* The same, for a thread that only moves.                                 *)
LEMMA GotoIs ==
    ASSUME TypeOK, NEW t \in Threads, NEW pc \in Pcs, Goto(t, pc)
    PROVE  \E s : s.pc = pc /\ th' = [th EXCEPT ![t] = s]
  <1>. DEFINE s == [th[t] EXCEPT !.pc = pc]
  <1>1. s.pc = pc
    BY DEF TypeOK, ThreadStates
  <1>2. th' = [th EXCEPT ![t] = s]
    BY DEF Goto
  <1>. QED  BY <1>1, <1>2, Zenon

LEMMA GoesFromMailbox ==
    ASSUME MailboxInv, NEW t \in Threads, NEW pc \in Pcs, pc \notin AtMailbox,
           Goto(t, pc), halLock' = halLock,
           suspend'.cnt = 0 \/ suspend'.cnt = suspend.cnt
    PROVE  LockHeld' /\ NobodyPushes'
  <1>1. PICK s : s.pc = pc /\ th' = [th EXCEPT ![t] = s]
    BY GotoIs DEF MailboxInv
  <1>. QED  BY <1>1, LeavesMailbox

LEMMA GoesReleasing ==
    ASSUME MailboxInv, NEW t \in Threads, NEW pc \in Pcs, pc \notin AtMailbox,
           th[t].pc \in AtMailbox, Goto(t, pc)
    PROVE  LockHeld' /\ NobodyPushes'
  <1>1. PICK s : s.pc = pc /\ th' = [th EXCEPT ![t] = s]
    BY GotoIs DEF MailboxInv
  <1>. QED  BY <1>1, Releases

LEMMA GoesAtMailbox ==
    ASSUME MailboxInv, NEW t \in Threads, NEW pc \in Pcs, Goto(t, pc),
           halLock' = t, halLock \in {t, None}, suspend' = suspend,
           pc = "push" => suspend.cnt = 0
    PROVE  LockHeld' /\ NobodyPushes'
  <1>1. PICK s : s.pc = pc /\ th' = [th EXCEPT ![t] = s]
    BY GotoIs DEF MailboxInv
  <1>. QED  BY <1>1, AtTheMailbox

(* A step that leaves the threads, the lock and the suspend alone.         *)
LEMMA MailboxUntouched ==
    ASSUME MailboxInv, UNCHANGED <<th, halLock, suspend>>
    PROVE  LockHeld' /\ NobodyPushes'
  BY DEF MailboxInv, LockHeld, NobodyPushes

(* Every step keeps the invariant.                                         *)
LEMMA MailboxStepInv == MailboxInv /\ [Next]_vars => MailboxInv'
  <1>. SUFFICES ASSUME MailboxInv, [Next]_vars
                PROVE  LockHeld' /\ NobodyPushes'
    BY TypeStep DEF MailboxInv
  <1>. USE DEF chipVars
  <1>0. TypeOK /\ th \in [Threads -> ThreadStates]
    BY DEF MailboxInv, TypeOK
  <1>pc. /\ "hal" \in Pcs /\ "set" \in Pcs /\ "push" \in Pcs
         /\ "req" \in Pcs /\ "tail" \in Pcs /\ "clear" \in Pcs
         /\ "send" \in Pcs /\ "check" \in Pcs /\ "after" \in Pcs
         /\ "busy" \in Pcs /\ "late" \in Pcs /\ "ask" \in Pcs
    BY DEF Pcs
  <1>tx. "tx" \in Threads /\ "pm" \in Threads /\ "work" \in Threads
         /\ "txok" \in Threads /\ "param" \in Threads
    BY DEF Threads
  <1>idle. idle.pc \notin AtMailbox
    BY DEF idle, AtMailbox
  <1>held. \A t \in Threads : th[t].pc \in AtMailbox => halLock = t
    BY DEF MailboxInv, LockHeld
  <1>1. ASSUME NEW v \in Vifs, FullSleep(v) PROVE LockHeld' /\ NobodyPushes'
    <2>1. th' = [th EXCEPT !["txok"] = [pc |-> "power", vif |-> v, cmd |-> "DOZE", ok |-> FALSE]]
          /\ halLock' = halLock /\ suspend' = suspend
      BY <1>1 DEF FullSleep, SetState
    <2>2. [pc |-> "power", vif |-> v, cmd |-> "DOZE", ok |-> FALSE].pc \notin AtMailbox
      BY DEF AtMailbox
    <2>. QED  BY <2>1, <2>2, <1>tx, LeavesMailbox
  <1>2. ASSUME WakeupTask PROVE LockHeld' /\ NobodyPushes'
    <2>1. th' = [th EXCEPT !["work"] = [pc |-> "power", vif |-> Head(tasks), cmd |-> "ACTIVE", ok |-> FALSE]]
          /\ halLock' = halLock /\ suspend' = suspend
      BY <1>2 DEF WakeupTask, SetState
    <2>2. [pc |-> "power", vif |-> Head(tasks), cmd |-> "ACTIVE", ok |-> FALSE].pc \notin AtMailbox
      BY DEF AtMailbox
    <2>. QED  BY <2>1, <2>2, <1>tx, LeavesMailbox
  <1>3. ASSUME NEW t \in Threads,
               FindsBusy(t) \/ DozeRefused(t) \/ CommandUnannounced(t) \/ LateDoze(t)
        PROVE  LockHeld' /\ NobodyPushes'
    <2>1. /\ \E pc \in {"busy", "check", "late", "hal"} : Goto(t, pc)
          /\ halLock' = halLock /\ suspend' = suspend
      BY <1>3 DEF FindsBusy, DozeRefused, CommandUnannounced, LateDoze
    <2>2. {"busy", "check", "late", "hal"} \cap AtMailbox = {}
      BY DEF AtMailbox
    <2>. QED  BY <2>1, <2>2, <1>pc, GoesFromMailbox
  <1>4. ASSUME NEW t \in Threads, CommandDropped(t) PROVE LockHeld' /\ NobodyPushes'
    <2>1. Finish(t) /\ halLock' = halLock /\ suspend' = suspend
      BY <1>4 DEF CommandDropped
    <2>. QED  BY <2>1, <1>idle, <1>tx, LeavesMailbox DEF Finish
  <1>5. ASSUME NEW t \in Threads, CommandAnnounced(t) PROVE LockHeld' /\ NobodyPushes'
    <2>1. Goto(t, "hal") /\ halLock' = halLock
          /\ (suspend'.cnt = 0 \/ suspend'.cnt = suspend.cnt)
      BY <1>5, <1>0 DEF CommandAnnounced, TypeOK
    <2>2. "hal" \notin AtMailbox
      BY DEF AtMailbox
    <2>. QED  BY <2>1, <2>2, <1>pc, <1>tx, GoesFromMailbox
  <1>6. ASSUME NEW t \in Threads, TakeHalLock(t) PROVE LockHeld' /\ NobodyPushes'
    <2>1. Goto(t, "set") /\ halLock = None /\ halLock' = t /\ suspend' = suspend
      BY <1>6 DEF TakeHalLock
    <2>. QED  BY <2>1, <1>pc, GoesAtMailbox
  <1>7. ASSUME NEW t \in Threads, SetCmd(t) PROVE LockHeld' /\ NobodyPushes'
    <2>1. halLock = t /\ halLock' = t /\ suspend' = suspend
      BY <1>7, <1>held DEF SetCmd, AtMailbox
    <2>2. CASE CmdRefused(t)
      <3>1. Goto(t, "tail")
        BY <1>7, <2>2 DEF SetCmd
      <3>. QED  BY <2>1, <3>1, <1>pc, GoesAtMailbox
    <2>3. CASE ~ CmdRefused(t)
      <3>1. Goto(t, "push") /\ suspend.cnt = 0
        BY <1>7, <2>3 DEF SetCmd, CmdRefused
      <3>. QED  BY <2>1, <3>1, <1>pc, GoesAtMailbox
    <2>. QED  BY <2>2, <2>3
  <1>8. ASSUME NEW t \in Threads, Push(t) PROVE LockHeld' /\ NobodyPushes'
    <2>1. Goto(t, "req") /\ halLock = t /\ halLock' = t /\ suspend' = suspend
      BY <1>8, <1>held DEF Push, AtMailbox
    <2>. QED  BY <2>1, <1>pc, GoesAtMailbox
  <1>9. ASSUME NEW t \in Threads, PushFailed(t) PROVE LockHeld' /\ NobodyPushes'
    <2>1. Goto(t, "tail") /\ halLock = t /\ halLock' = t /\ suspend' = suspend
      BY <1>9, <1>held DEF PushFailed, AtMailbox
    <2>. QED  BY <2>1, <1>pc, GoesAtMailbox
  <1>10. ASSUME NEW t \in Threads, RequestSleep(t) PROVE LockHeld' /\ NobodyPushes'
    <2>1. halLock = t /\ halLock' = t /\ suspend' = suspend
      BY <1>10, <1>held DEF RequestSleep, AtMailbox
    <2>. DEFINE s == [th[t] EXCEPT !.pc = "tail", !.ok = TRUE]
    <2>2. th' = [th EXCEPT ![t] = s] /\ s.pc = "tail"
      BY <1>10, <1>0 DEF RequestSleep, ThreadStates
    <2>. QED  BY <2>1, <2>2, AtTheMailbox
  <1>11. ASSUME NEW t \in Threads, CommandEnds(t) PROVE LockHeld' /\ NobodyPushes'
    <2>1. th[t].pc \in AtMailbox /\ Goto(t, "clear") /\ "clear" \notin AtMailbox
      BY <1>11 DEF CommandEnds, AtMailbox
    <2>. QED  BY <2>1, <1>pc, <1>tx, GoesReleasing
  <1>12. ASSUME NEW t \in Threads, ClearWakeReq(t) PROVE LockHeld' /\ NobodyPushes'
    <2>1. Finish(t) /\ halLock' = halLock /\ suspend' = suspend
      BY <1>12 DEF ClearWakeReq
    <2>. QED  BY <2>1, <1>idle, <1>tx, LeavesMailbox DEF Finish
  <1>13. ASSUME NEW cmd \in {"PARAM", "NULLDATA"}, OtherCommand(cmd) PROVE LockHeld' /\ NobodyPushes'
    <2>. DEFINE s == [th["param"] EXCEPT !.pc = "hal", !.cmd = cmd]
    <2>1. th' = [th EXCEPT !["param"] = s] /\ s.pc = "hal"
      BY <1>13, <1>0, <1>tx DEF OtherCommand, ThreadStates
    <2>2. halLock' = halLock /\ suspend' = suspend /\ "hal" \notin AtMailbox
      BY <1>13 DEF OtherCommand, AtMailbox
    <2>. QED  BY <2>1, <2>2, <1>tx, LeavesMailbox
  <1>14. ASSUME OtherCommandEnds PROVE LockHeld' /\ NobodyPushes'
    <2>1. th["param"].pc \in AtMailbox /\ Finish("param")
      BY <1>14 DEF OtherCommandEnds, AtMailbox
    <2>. QED  BY <2>1, <1>idle, <1>tx, Releases DEF Finish
  <1>15. ASSUME NEW v \in Vifs, NewFrame(v) PROVE LockHeld' /\ NobodyPushes'
    BY <1>15, MailboxUntouched DEF NewFrame
  <1>16. ASSUME TxFindsSleeping PROVE LockHeld' /\ NobodyPushes'
    <2>1. Goto("tx", "check") /\ halLock' = halLock
          /\ (suspend'.cnt = 0 \/ suspend'.cnt = suspend.cnt)
      BY <1>16, <1>0 DEF TxFindsSleeping, TypeOK
    <2>2. "check" \notin AtMailbox
      BY DEF AtMailbox
    <2>. QED  BY <2>1, <2>2, <1>pc, <1>tx, GoesFromMailbox
  <1>17. ASSUME NEW t \in Threads, AskStep(t) PROVE LockHeld' /\ NobodyPushes'
    <2>1. (Finish(t) \/ Goto(t, "ask")) /\ halLock' = halLock /\ suspend' = suspend
      BY <1>17, Zenon DEF AskStep, IsOutstanding, AskWakeup, EndAsking
    <2>2. "ask" \notin AtMailbox
      BY DEF AtMailbox
    <2>3. CASE Finish(t)
      BY <2>1, <2>3, <1>idle, LeavesMailbox DEF Finish
    <2>. QED  BY <2>1, <2>2, <2>3, <1>pc, GoesFromMailbox
  <1>18. ASSUME TxBegins PROVE LockHeld' /\ NobodyPushes'
    <2>1. Goto("tx", "send") /\ halLock' = halLock
          /\ (suspend'.cnt = 0 \/ suspend'.cnt = suspend.cnt)
      BY <1>18, <1>0 DEF TxBegins, TypeOK
    <2>2. "send" \notin AtMailbox
      BY DEF AtMailbox
    <2>. QED  BY <2>1, <2>2, <1>pc, <1>tx, GoesFromMailbox
  <1>19. ASSUME TxSends PROVE LockHeld' /\ NobodyPushes'
    <2>1. Finish("tx") /\ halLock' = halLock /\ suspend' = suspend
      BY <1>19 DEF TxSends
    <2>. QED  BY <2>1, <1>idle, <1>tx, LeavesMailbox DEF Finish
  <1>20. ASSUME Suspend PROVE LockHeld' /\ NobodyPushes'
    <2>1. th' = [th EXCEPT !["pm"] = [pc |-> "power", vif |-> First(left.up), cmd |-> "WOW_ON", ok |-> FALSE]]
          /\ halLock' = halLock /\ suspend' = suspend
      BY <1>20 DEF Suspend
    <2>2. [pc |-> "power", vif |-> First(left.up), cmd |-> "WOW_ON", ok |-> FALSE].pc \notin AtMailbox
      BY DEF AtMailbox
    <2>. QED  BY <2>1, <2>2, <1>tx, LeavesMailbox
  <1>21. ASSUME SuspendBusy PROVE LockHeld' /\ NobodyPushes'
    <2>1. Goto("pm", "after") /\ halLock' = halLock
          /\ (suspend'.cnt = 0 \/ suspend'.cnt = suspend.cnt)
      BY <1>21, <1>0 DEF SuspendBusy, TypeOK
    <2>2. "after" \notin AtMailbox
      BY DEF AtMailbox
    <2>. QED  BY <2>1, <2>2, <1>pc, <1>tx, GoesFromMailbox
  <1>22. ASSUME SuspendAnnounced PROVE LockHeld' /\ NobodyPushes'
    <2>1. Goto("pm", "hal") /\ halLock' = halLock
          /\ (suspend'.cnt = 0 \/ suspend'.cnt = suspend.cnt)
      BY <1>22, <1>0 DEF SuspendAnnounced, TypeOK
    <2>2. "hal" \notin AtMailbox
      BY DEF AtMailbox
    <2>. QED  BY <2>1, <2>2, <1>pc, <1>tx, GoesFromMailbox
  <1>23. ASSUME Resume PROVE LockHeld' /\ NobodyPushes'
    <2>1. th' = [th EXCEPT !["pm"] = [pc |-> "power", vif |-> First(left.up), cmd |-> "WOW_OFF", ok |-> FALSE]]
          /\ halLock' = halLock /\ suspend' = suspend
      BY <1>23 DEF Resume
    <2>2. [pc |-> "power", vif |-> First(left.up), cmd |-> "WOW_OFF", ok |-> FALSE].pc \notin AtMailbox
      BY DEF AtMailbox
    <2>. QED  BY <2>1, <2>2, <1>tx, LeavesMailbox
  <1>24. ASSUME ResumeOnePowered PROVE LockHeld' /\ NobodyPushes'
    <2>1. CASE suspend.cnt = 0
      <3>1. Goto("pm", "after") /\ halLock' = halLock /\ suspend' = suspend
        BY <1>24, <2>1 DEF ResumeOnePowered
      <3>2. "after" \notin AtMailbox
        BY DEF AtMailbox
      <3>. QED  BY <3>1, <3>2, <1>pc, <1>tx, GoesFromMailbox
    <2>2. CASE suspend.cnt # 0
      <3>1. Goto("pm", "hal") /\ halLock' = halLock /\ suspend'.cnt = 0
        BY <1>24, <2>2, <1>0 DEF ResumeOnePowered, TypeOK
      <3>2. "hal" \notin AtMailbox
        BY DEF AtMailbox
      <3>. QED  BY <3>1, <3>2, <1>pc, <1>tx, GoesFromMailbox
    <2>. QED  BY <2>1, <2>2
  <1>25. ASSUME SuspendCmdEnds PROVE LockHeld' /\ NobodyPushes'
    <2>. DEFINE s == [th["pm"] EXCEPT !.pc = "after",
                                      !.ok = ~ (th["pm"].cmd = "WOW_ON")]
    <2>1. th' = [th EXCEPT !["pm"] = s] /\ s.pc = "after"
      BY <1>25, <1>0, <1>tx DEF SuspendCmdEnds, ThreadStates
    <2>2. th["pm"].pc \in AtMailbox /\ "after" \notin AtMailbox
      BY <1>25 DEF SuspendCmdEnds, AtMailbox
    <2>. QED  BY <2>1, <2>2, <1>tx, Releases
  <1>26. ASSUME SuspendNext PROVE LockHeld' /\ NobodyPushes'
    <2>. DEFINE later == {v \in left.up : v > th["pm"].vif}
                s == [pc |-> "power", cmd |-> th["pm"].cmd,
                      vif |-> First(later), ok |-> FALSE]
    <2>1. CASE later = {}
      <3>1. Finish("pm") /\ halLock' = halLock /\ suspend'.cnt = suspend.cnt
        BY <1>26, <2>1, <1>0 DEF SuspendNext, TypeOK
      <3>. QED  BY <3>1, <1>idle, <1>tx, LeavesMailbox DEF Finish
    <2>2. CASE later # {}
      <3>1. th' = [th EXCEPT !["pm"] = s] /\ halLock' = halLock /\ suspend' = suspend
        BY <1>26, <2>2 DEF SuspendNext
      <3>2. s.pc \notin AtMailbox
        BY DEF AtMailbox
      <3>. QED  BY <3>1, <3>2, <1>tx, LeavesMailbox
    <2>. QED  BY <2>1, <2>2
  <1>27. ASSUME ChipSleeps PROVE LockHeld' /\ NobodyPushes'
    BY <1>27, MailboxUntouched DEF ChipSleeps
  <1>28. ASSUME ChipInterrupts PROVE LockHeld' /\ NobodyPushes'
    BY <1>28, MailboxUntouched DEF ChipInterrupts
  <1>29. ASSUME UNCHANGED vars PROVE LockHeld' /\ NobodyPushes'
    BY <1>29, MailboxUntouched DEF vars
  <1>. QED
    BY <1>1, <1>2, <1>3, <1>4, <1>5, <1>6, <1>7, <1>8, <1>9, <1>10, <1>11, <1>12, <1>13, <1>14, <1>15, <1>16, <1>17, <1>18, <1>19, <1>20, <1>21, <1>22, <1>23, <1>24, <1>25, <1>26, <1>27, <1>28, <1>29,
       <1>tx, <1>0 DEF Next, WorkThread, TxokThread, ParamThread, TxThread, PmThread,
                 Environment, PowerStep, AskStep, MailboxStep, TypeOK, Bounds

(* During a suspend the firmware's power mode does not change: a command   *)
(* that was begun before it waits for the HAL lock and is then refused.    *)
THEOREM FwPowerQuietWhileSuspended == Spec => QuietWhileSuspended
  <1>1. Init => MailboxInv
    <2>. SUFFICES ASSUME Init PROVE LockHeld /\ NobodyPushes
      BY InitTypes DEF MailboxInv
    <2>1. \A t \in Threads : th[t].pc = "idle"
      BY DEF Init, idle
    <2>. QED  BY <2>1 DEF LockHeld, NobodyPushes, AtMailbox
  <1>2. MailboxInv /\ [Next]_vars => [suspend.cnt = 1 => UNCHANGED fwMode]_vars
    <2>. SUFFICES ASSUME MailboxInv, [Next]_vars, suspend.cnt = 1
                  PROVE  fwMode' = fwMode
      OBVIOUS
    <2>1. \A t \in Threads : ~ Push(t)
      BY DEF MailboxInv, NobodyPushes, Push
    <2>. QED
      BY <2>1 DEF Next, vars, chipVars, WorkThread, TxokThread, ParamThread,
         TxThread, PmThread, Environment, PowerStep, AskStep, MailboxStep, Threads,
         AskStep, FullSleep, WakeupTask, SetState, FindsBusy, DozeRefused,
         CommandDropped, CommandAnnounced, CommandUnannounced, LateDoze,
         IsOutstanding, AskWakeup, TakeHalLock, SetCmd, PushFailed, RequestSleep,
         CommandEnds, ClearWakeReq, OtherCommand, OtherCommandEnds, NewFrame,
         TxFindsSleeping, TxBegins, TxSends, Suspend,
         SuspendBusy, SuspendAnnounced, Resume, ResumeOnePowered,
         SuspendCmdEnds, SuspendNext, ChipSleeps, ChipInterrupts
  <1>. QED  BY <1>1, <1>2, MailboxStepInv, PTL DEF Spec, QuietWhileSuspended

-----------------------------------------------------------------------------
(* The argument for the requests: a request is given up only with a        *)
(* command that is dropped because another one is announced, and the one   *)
(* that announced is still on its way to clear it -- unless it suspends.   *)
Announced == {"hal"} \cup AtMailbox

Announcers == {"work", "txok", "pm"}

SleepingHeld ==
    "SLEEPING" \in drvPs => \E t \in Announcers : th[t].pc \in Announced

WorkWakes == th["work"].pc # "idle" => th["work"].cmd = "ACTIVE"

RequestInv == TypeOK /\ SleepingHeld /\ WorkWakes

(* A thread that only moves keeps its command, and the others theirs.      *)
LEMMA GotoMoves ==
    ASSUME TypeOK, NEW t \in Threads, NEW pc \in Pcs, Goto(t, pc)
    PROVE  /\ th'[t].pc = pc
           /\ \A u \in Threads : th'[u].cmd = th[u].cmd
           /\ \A u \in Threads \ {t} : th'[u] = th[u]
  BY DEF TypeOK, ThreadStates, Goto

LEMMA FinishMoves ==
    ASSUME TypeOK, NEW t \in Threads, Finish(t)
    PROVE  /\ th'[t].pc = "idle"
           /\ \A u \in Threads \ {t} : th'[u] = th[u]
  BY DEF TypeOK, Finish, idle

(* A step that moves one thread on, and announces nothing, unless by that. *)
LEMMA MovesOn ==
    ASSUME RequestInv, NEW t \in Threads, NEW pc \in Pcs, Goto(t, pc),
           t = "work" => th[t].pc # "idle",
           "SLEEPING" \in drvPs' =>
              \/ t \in Announcers /\ pc \in Announced
              \/ "SLEEPING" \in drvPs /\ (t \notin Announcers \/ th[t].pc \notin Announced)
    PROVE  SleepingHeld' /\ WorkWakes'
  <1>1. /\ th'[t].pc = pc
        /\ \A u \in Threads : th'[u].cmd = th[u].cmd
        /\ \A u \in Threads \ {t} : th'[u] = th[u]
    BY GotoMoves DEF RequestInv
  <1>2. WorkWakes'
    BY <1>1 DEF RequestInv, WorkWakes, Threads
  <1>3. ASSUME "SLEEPING" \in drvPs' PROVE \E u \in Announcers : th'[u].pc \in Announced
    <2>1. CASE t \in Announcers /\ pc \in Announced
      BY <1>1, <2>1
    <2>2. CASE "SLEEPING" \in drvPs /\ (t \notin Announcers \/ th[t].pc \notin Announced)
      <3>1. PICK u \in Announcers : th[u].pc \in Announced
        BY <2>2 DEF RequestInv, SleepingHeld
      <3>2. u # t /\ u \in Threads
        BY <2>2, <3>1 DEF Announcers, Threads
      <3>3. th'[u] = th[u]
        BY <1>1, <3>2
      <3>. QED  BY <3>1, <3>3
    <2>. QED  BY <1>3, <2>1, <2>2
  <1>. QED  BY <1>2, <1>3 DEF SleepingHeld

(* A step that ends what a thread does away from the mailbox.              *)
LEMMA EndsAway ==
    ASSUME RequestInv, NEW t \in Threads, Finish(t),
           "SLEEPING" \in drvPs' =>
              "SLEEPING" \in drvPs /\ (t \notin Announcers \/ th[t].pc \notin Announced)
    PROVE  SleepingHeld' /\ WorkWakes'
  <1>1. /\ th'[t].pc = "idle"
        /\ \A u \in Threads \ {t} : th'[u] = th[u]
    BY FinishMoves DEF RequestInv
  <1>2. WorkWakes'
    BY <1>1 DEF RequestInv, WorkWakes, Threads
  <1>3. ASSUME "SLEEPING" \in drvPs' PROVE \E u \in Announcers : th'[u].pc \in Announced
    <2>1. PICK u \in Announcers : th[u].pc \in Announced
      BY <1>3 DEF RequestInv, SleepingHeld
    <2>2. u # t /\ u \in Threads
      BY <1>3, <2>1 DEF Announcers, Threads
    <2>3. th'[u] = th[u]
      BY <1>1, <2>2
    <2>. QED  BY <2>1, <2>3
  <1>. QED  BY <1>2, <1>3 DEF SleepingHeld

(* A step that puts a thread that was not announced into another state.    *)
LEMMA Begins ==
    ASSUME RequestInv, NEW t \in Threads, NEW s, th' = [th EXCEPT ![t] = s],
           t = "work" => s.cmd = "ACTIVE",
           "SLEEPING" \in drvPs' =>
              \/ t \in Announcers /\ s.pc \in Announced
              \/ "SLEEPING" \in drvPs /\ (t \notin Announcers \/ th[t].pc \notin Announced)
    PROVE  SleepingHeld' /\ WorkWakes'
  <1>1. th'[t] = s /\ \A u \in Threads \ {t} : th'[u] = th[u]
    BY DEF RequestInv, TypeOK
  <1>2. WorkWakes'
    BY <1>1 DEF RequestInv, WorkWakes, Threads
  <1>3. ASSUME "SLEEPING" \in drvPs' PROVE \E u \in Announcers : th'[u].pc \in Announced
    <2>1. CASE t \in Announcers /\ s.pc \in Announced
      BY <1>1, <2>1
    <2>2. CASE "SLEEPING" \in drvPs /\ (t \notin Announcers \/ th[t].pc \notin Announced)
      <3>1. PICK u \in Announcers : th[u].pc \in Announced
        BY <2>2 DEF RequestInv, SleepingHeld
      <3>2. u # t /\ u \in Threads
        BY <2>2, <3>1 DEF Announcers, Threads
      <3>3. th'[u] = th[u]
        BY <1>1, <3>2
      <3>. QED  BY <3>1, <3>3
    <2>. QED  BY <1>3, <2>1, <2>2
  <1>. QED  BY <1>2, <1>3 DEF SleepingHeld

(* Every step keeps the invariant.                                         *)
LEMMA RequestStep == RequestInv /\ [Next]_vars => RequestInv'
  <1>. SUFFICES ASSUME RequestInv, [Next]_vars
                PROVE  SleepingHeld' /\ WorkWakes'
    BY TypeStep DEF RequestInv
  <1>0. TypeOK /\ th \in [Threads -> ThreadStates] /\ left \in Bounds
    BY DEF RequestInv, TypeOK
  <1>pc. /\ "hal" \in Pcs /\ "set" \in Pcs /\ "push" \in Pcs
         /\ "req" \in Pcs /\ "tail" \in Pcs /\ "clear" \in Pcs
         /\ "send" \in Pcs /\ "check" \in Pcs /\ "after" \in Pcs
         /\ "busy" \in Pcs /\ "late" \in Pcs /\ "ask" \in Pcs
    BY DEF Pcs
  <1>tx. "tx" \in Threads /\ "pm" \in Threads /\ "work" \in Threads
         /\ "txok" \in Threads /\ "param" \in Threads
    BY DEF Threads
  <1>away. /\ "idle" \notin Announced /\ "power" \notin Announced
           /\ "clear" \notin Announced /\ "send" \notin Announced
           /\ "check" \notin Announced /\ "after" \notin Announced
           /\ "busy" \notin Announced /\ "late" \notin Announced
           /\ "ask" \notin Announced
    BY DEF Announced, AtMailbox
  <1>at. /\ "hal" \in Announced /\ "set" \in Announced /\ "push" \in Announced
         /\ "req" \in Announced /\ "tail" \in Announced
    BY DEF Announced, AtMailbox
  <1>1. ASSUME NEW v \in Vifs, FullSleep(v) PROVE SleepingHeld' /\ WorkWakes'
    <2>1. th' = [th EXCEPT !["txok"] = [pc |-> "power", vif |-> v, cmd |-> "DOZE", ok |-> FALSE]]
          /\ drvPs' = drvPs /\ th["txok"].pc = "idle"
      BY <1>1 DEF FullSleep, SetState
    <2>. QED  BY <2>1, <1>tx, <1>away, Begins
  <1>2. ASSUME WakeupTask PROVE SleepingHeld' /\ WorkWakes'
    <2>1. th' = [th EXCEPT !["work"] = [pc |-> "power", vif |-> Head(tasks), cmd |-> "ACTIVE", ok |-> FALSE]]
          /\ drvPs' = drvPs /\ th["work"].pc = "idle"
      BY <1>2 DEF WakeupTask, SetState
    <2>. QED  BY <2>1, <1>tx, <1>away, Begins
  <1>3. ASSUME NEW t \in Threads, FindsBusy(t) \/ DozeRefused(t)
        PROVE  SleepingHeld' /\ WorkWakes'
    <2>1. /\ \E pc \in {"busy", "check"} : Goto(t, pc)
          /\ drvPs' = drvPs /\ th[t].pc \in {"power", "busy"}
      BY <1>3 DEF FindsBusy, DozeRefused
    <2>. QED  BY <2>1, <1>pc, <1>away, MovesOn
  <1>4. ASSUME NEW t \in Threads, CommandDropped(t) PROVE SleepingHeld' /\ WorkWakes'
    <2>1. Finish(t) /\ drvPs' = drvPs /\ th[t].pc = "busy"
      BY <1>4 DEF CommandDropped
    <2>. QED  BY <2>1, <1>away, EndsAway
  <1>5. ASSUME NEW t \in {"work", "txok"},
               CommandAnnounced(t) \/ CommandUnannounced(t) \/ LateDoze(t)
        PROVE  SleepingHeld' /\ WorkWakes'
    <2>1. t \in Announcers /\ t \in Threads
      BY <1>tx DEF Announcers
    <2>2. CASE CommandAnnounced(t) \/ LateDoze(t)
      <3>1. Goto(t, "hal") /\ th[t].pc \in {"power", "late"}
        BY <2>2 DEF CommandAnnounced, LateDoze
      <3>. QED  BY <2>1, <3>1, <1>pc, <1>at, MovesOn
    <2>3. CASE CommandUnannounced(t)
      <3>1. /\ \E pc \in {"late", "hal"} : Goto(t, pc)
            /\ th[t].pc = "busy" /\ "SLEEPING" \notin drvPs'
        BY <2>3 DEF CommandUnannounced
      <3>. QED  BY <2>1, <3>1, <1>pc, MovesOn
    <2>. QED  BY <1>5, <2>2, <2>3
  <1>6. ASSUME NEW t \in Threads, TakeHalLock(t) PROVE SleepingHeld' /\ WorkWakes'
    <2>1. Goto(t, "set") /\ th[t].pc = "hal" /\ drvPs' = drvPs
      BY <1>6 DEF TakeHalLock
    <2>. QED  BY <2>1, <1>pc, <1>at, MovesOn
  <1>7. ASSUME NEW t \in Threads, SetCmd(t) PROVE SleepingHeld' /\ WorkWakes'
    <2>1. th[t].pc = "set" /\ (Goto(t, "tail") \/ Goto(t, "push"))
          /\ drvPs' \in {drvPs, drvPs \cup {"ACTIVE"}}
      BY <1>7 DEF SetCmd
    <2>. QED  BY <2>1, <1>pc, <1>at, MovesOn
  <1>8. ASSUME NEW t \in Threads, Push(t) PROVE SleepingHeld' /\ WorkWakes'
    <2>1. Goto(t, "req") /\ th[t].pc = "push" /\ drvPs' = drvPs
      BY <1>8 DEF Push
    <2>. QED  BY <2>1, <1>pc, <1>at, MovesOn
  <1>9. ASSUME NEW t \in Threads, PushFailed(t) PROVE SleepingHeld' /\ WorkWakes'
    <2>1. Goto(t, "tail") /\ th[t].pc = "push" /\ drvPs' = drvPs \ {"ACTIVE"}
      BY <1>9 DEF PushFailed
    <2>. QED  BY <2>1, <1>pc, <1>at, MovesOn
  <1>10. ASSUME NEW t \in Threads, RequestSleep(t) PROVE SleepingHeld' /\ WorkWakes'
    <2>. DEFINE s == [th[t] EXCEPT !.pc = "tail", !.ok = TRUE]
    <2>1. th[t].pc = "req" /\ drvPs' = drvPs \ {"ACTIVE"} /\ th' = [th EXCEPT ![t] = s]
      BY <1>10 DEF RequestSleep
    <2>2. s.pc = "tail" /\ s.cmd = th[t].cmd
      BY <1>0 DEF ThreadStates
    <2>3. t = "work" => s.cmd = "ACTIVE"
      BY <2>1, <2>2 DEF RequestInv, WorkWakes
    <2>. HIDE DEF s
    <2>. QED  BY <2>1, <2>2, <2>3, <1>at, Begins
  <1>11. ASSUME NEW t \in Threads, CommandEnds(t) PROVE SleepingHeld' /\ WorkWakes'
    <2>1. Goto(t, "clear") /\ th[t].pc = "tail" /\ "SLEEPING" \notin drvPs'
      BY <1>11 DEF CommandEnds
    <2>. QED  BY <2>1, <1>pc, MovesOn
  <1>12. ASSUME NEW t \in Threads, ClearWakeReq(t) PROVE SleepingHeld' /\ WorkWakes'
    <2>1. Finish(t) /\ drvPs' = drvPs /\ th[t].pc = "clear"
      BY <1>12 DEF ClearWakeReq
    <2>. QED  BY <2>1, <1>away, EndsAway
  <1>13. ASSUME NEW cmd \in {"PARAM", "NULLDATA"}, OtherCommand(cmd)
         PROVE  SleepingHeld' /\ WorkWakes'
    <2>. DEFINE s == [th["param"] EXCEPT !.pc = "hal", !.cmd = cmd]
    <2>1. th' = [th EXCEPT !["param"] = s] /\ drvPs' = drvPs /\ "param" \notin Announcers
      BY <1>13 DEF OtherCommand, Announcers
    <2>. HIDE DEF s
    <2>. QED  BY <2>1, <1>tx, Begins
  <1>14. ASSUME OtherCommandEnds PROVE SleepingHeld' /\ WorkWakes'
    <2>1. Finish("param") /\ "param" \notin Announcers /\ drvPs' \in {drvPs, drvPs \ {"SLEEPING"}}
      BY <1>14 DEF OtherCommandEnds, Announcers
    <2>. QED  BY <2>1, <1>tx, EndsAway
  <1>15. CASE UNCHANGED <<th, drvPs>>
    BY <1>15 DEF RequestInv, SleepingHeld, WorkWakes
  <1>16. ASSUME TxFindsSleeping PROVE SleepingHeld' /\ WorkWakes'
    <2>1. Goto("tx", "check") /\ th["tx"].pc = "idle" /\ drvPs' = drvPs \ {"ACTIVE"}
      BY <1>16 DEF TxFindsSleeping
    <2>. QED  BY <2>1, <1>pc, <1>tx, <1>away, MovesOn
  <1>17. ASSUME NEW t \in Threads, AskStep(t) PROVE SleepingHeld' /\ WorkWakes'
    <2>1. (Finish(t) \/ Goto(t, "ask")) /\ drvPs' = drvPs /\ th[t].pc \in {"check", "ask"}
      BY <1>17, Zenon DEF AskStep, IsOutstanding, AskWakeup, EndAsking
    <2>. QED  BY <2>1, <1>pc, <1>away, EndsAway, MovesOn
  <1>18. ASSUME TxBegins PROVE SleepingHeld' /\ WorkWakes'
    <2>1. Goto("tx", "send") /\ th["tx"].pc = "idle" /\ drvPs' = drvPs \cup {"ACTIVE"}
      BY <1>18 DEF TxBegins
    <2>. QED  BY <2>1, <1>pc, <1>tx, <1>away, MovesOn
  <1>19. ASSUME TxSends PROVE SleepingHeld' /\ WorkWakes'
    <2>1. Finish("tx") /\ drvPs' = drvPs \ {"ACTIVE"} /\ th["tx"].pc = "send"
      BY <1>19 DEF TxSends
    <2>. QED  BY <2>1, <1>tx, <1>away, EndsAway
  <1>20. ASSUME Suspend PROVE SleepingHeld' /\ WorkWakes'
    <2>1. th' = [th EXCEPT !["pm"] = [pc |-> "power", vif |-> First(left.up), cmd |-> "WOW_ON", ok |-> FALSE]]
          /\ drvPs' = drvPs /\ th["pm"].pc = "idle"
      BY <1>20 DEF Suspend
    <2>. QED  BY <2>1, <1>tx, <1>away, Begins
  <1>21. ASSUME SuspendBusy PROVE SleepingHeld' /\ WorkWakes'
    <2>1. Goto("pm", "after") /\ th["pm"].pc = "power" /\ drvPs' = drvPs
      BY <1>21 DEF SuspendBusy
    <2>. QED  BY <2>1, <1>pc, <1>tx, <1>away, MovesOn
  <1>22. ASSUME SuspendAnnounced PROVE SleepingHeld' /\ WorkWakes'
    <2>1. Goto("pm", "hal") /\ "pm" \in Announcers
      BY <1>22 DEF SuspendAnnounced, Announcers
    <2>. QED  BY <2>1, <1>pc, <1>tx, <1>at, MovesOn
  <1>23. ASSUME Resume PROVE SleepingHeld' /\ WorkWakes'
    <2>1. th' = [th EXCEPT !["pm"] = [pc |-> "power", vif |-> First(left.up), cmd |-> "WOW_OFF", ok |-> FALSE]]
          /\ drvPs' = drvPs /\ th["pm"].pc = "idle"
      BY <1>23 DEF Resume
    <2>. QED  BY <2>1, <1>tx, <1>away, Begins
  <1>24. ASSUME ResumeOnePowered PROVE SleepingHeld' /\ WorkWakes'
    <2>1. (Goto("pm", "hal") \/ Goto("pm", "after")) /\ th["pm"].pc = "power"
          /\ drvPs' = drvPs
      BY <1>24, Zenon DEF ResumeOnePowered
    <2>. QED  BY <2>1, <1>pc, <1>tx, <1>at, <1>away, MovesOn
  <1>25. ASSUME SuspendCmdEnds PROVE SleepingHeld' /\ WorkWakes'
    <2>. DEFINE s == [th["pm"] EXCEPT !.pc = "after",
                                      !.ok = ~ (th["pm"].cmd = "WOW_ON")]
    <2>1. th' = [th EXCEPT !["pm"] = s] /\ "SLEEPING" \notin drvPs'
      BY <1>25 DEF SuspendCmdEnds
    <2>. HIDE DEF s
    <2>. QED  BY <2>1, <1>tx, Begins
  <1>26. ASSUME SuspendNext PROVE SleepingHeld' /\ WorkWakes'
    <2>1. th["pm"].pc = "after" /\ drvPs' = drvPs
      BY <1>26 DEF SuspendNext
    <2>2. Finish("pm") \/ \E s : th' = [th EXCEPT !["pm"] = s]
      BY <1>26, Zenon DEF SuspendNext
    <2>. QED  BY <2>1, <2>2, <1>tx, <1>away, EndsAway, Begins
  <1>. QED
    BY <1>1, <1>2, <1>3, <1>4, <1>5, <1>6, <1>7, <1>8, <1>9, <1>10, <1>11, <1>12, <1>13, <1>14, <1>15, <1>16, <1>17, <1>18, <1>19, <1>20, <1>21, <1>22, <1>23, <1>24, <1>25, <1>26,
       <1>tx, <1>0 DEF Next, vars, WorkThread, TxokThread, ParamThread, TxThread, PmThread,
                 Environment, PowerStep, AskStep, MailboxStep, Bounds, NewFrame, ChipSleeps, ChipInterrupts

(* Asking for a wakeup leaves a task when it leaves a request.             *)
LEMMA RequestQueues ==
    ASSUME tasks \in Seq(Vifs), NEW sleepers \in SUBSET Vifs, WakeReq(sleepers)
    PROVE  \/ UNCHANGED <<addWakeup, tasks>>
           \/ tasks' # <<>>
  <1>1. CASE sleepers = {}
    BY <1>1 DEF WakeReq
  <1>2. CASE sleepers # {}
    <2>1. First(sleepers) \in Vifs
      BY <1>2, FirstIsOne
    <2>2. tasks' = Append(tasks, First(sleepers))
      BY <1>2 DEF WakeReq
    <2>. QED  BY <2>1, <2>2
  <1>. QED  BY <1>1, <1>2

(* No step that happens while nobody suspends makes a request stale.       *)
LEMMA KeepsRequest ==
    ASSUME RequestInv, Next, WakeupOutstanding, th["pm"].pc \notin Announced
    PROVE  WakeupOutstanding'
  <1>. SUFFICES ASSUME addWakeup' PROVE WakeupOutstanding'
    BY DEF WakeupOutstanding
  <1>. DEFINE Away == {"idle", "power", "busy", "check", "ask"}
              Pending == \/ tasks # <<>>
                         \/ th["work"].pc # "idle"
                         \/ th["txok"].pc \notin Away
  <1>0. /\ TypeOK /\ tasks \in Seq(Vifs) /\ Sleepers \in SUBSET Vifs
        /\ th \in [Threads -> ThreadStates] /\ left \in Bounds
    BY DEF RequestInv, TypeOK, Sleepers
  <1>tx. "tx" \in Threads /\ "pm" \in Threads /\ "work" \in Threads
         /\ "txok" \in Threads /\ "param" \in Threads
    BY DEF Threads
  <1>was. addWakeup => Pending
    BY DEF WakeupOutstanding
  <1>end. Pending' => WakeupOutstanding'
    BY DEF WakeupOutstanding
  <1>pc. /\ "hal" \in Pcs /\ "set" \in Pcs /\ "push" \in Pcs
         /\ "req" \in Pcs /\ "tail" \in Pcs /\ "clear" \in Pcs
         /\ "send" \in Pcs /\ "check" \in Pcs /\ "after" \in Pcs
         /\ "busy" \in Pcs /\ "late" \in Pcs /\ "ask" \in Pcs
    BY DEF Pcs
  <1>other. ASSUME UNCHANGED <<addWakeup, tasks>>,
                   th'["work"] = th["work"], th'["txok"] = th["txok"]
            PROVE  Pending'
    BY <1>other, <1>was
  <1>on. ASSUME NEW t \in {"work", "txok"}, th'[t].pc \notin Away
         PROVE  Pending'
    BY <1>on
  <1>1. ASSUME NEW v \in Vifs, FullSleep(v) PROVE Pending'
    <2>1. UNCHANGED <<addWakeup, tasks>> /\ th["txok"].pc = "idle"
          /\ th'["work"] = th["work"]
      BY <1>1, <1>0, <1>tx DEF FullSleep, SetState
    <2>. QED  BY <2>1, <1>was
  <1>2. ASSUME WakeupTask PROVE Pending'
    <2>1. th'["work"].pc = "power"
      BY <1>2, <1>0, <1>tx DEF WakeupTask, SetState
    <2>. QED  BY <2>1
  <1>3. ASSUME NEW t \in {"work", "txok"}, FindsBusy(t) \/ DozeRefused(t)
        PROVE  Pending'
    <2>1. /\ \E pc \in {"busy", "check"} : Goto(t, pc)
          /\ UNCHANGED <<addWakeup, tasks>> /\ th[t].pc \in {"power", "busy"}
      BY <1>3 DEF FindsBusy, DozeRefused
    <2>2. th'[t].pc # "idle" /\ \A u \in Threads \ {t} : th'[u] = th[u]
      BY <2>1, <1>0, <1>tx, <1>pc, GotoMoves
    <2>3. CASE t = "work"
      BY <2>2, <2>3
    <2>4. CASE t = "txok"
      BY <2>1, <2>2, <2>4, <1>tx, <1>was
    <2>. QED  BY <2>3, <2>4
  <1>4. ASSUME NEW t \in {"work", "txok"}, CommandDropped(t) PROVE Pending'
    <2>1. th[t].pc = "busy" /\ "SLEEPING" \in drvPs /\ Finish(t)
          /\ UNCHANGED <<addWakeup, tasks>>
      BY <1>4 DEF CommandDropped
    <2>2. CASE t = "work"
      <3>1. PICK u \in Announcers : th[u].pc \in Announced
        BY <2>1 DEF RequestInv, SleepingHeld
      <3>2. u = "txok"
        BY <2>1, <2>2, <3>1 DEF Announcers, Announced, AtMailbox
      <3>3. th'["txok"] = th["txok"]
        BY <2>1, <2>2, <1>0, <1>tx, FinishMoves
      <3>. QED  BY <3>1, <3>2, <3>3 DEF Announced, AtMailbox
    <2>3. CASE t = "txok"
      <3>1. th'["work"] = th["work"]
        BY <2>1, <2>3, <1>0, <1>tx, FinishMoves
      <3>. QED  BY <2>1, <2>3, <3>1, <1>was
    <2>. QED  BY <2>2, <2>3
  <1>5. ASSUME NEW t \in {"work", "txok"},
               \/ CommandAnnounced(t) \/ CommandUnannounced(t) \/ LateDoze(t)
               \/ MailboxStep(t) \/ CommandEnds(t)
        PROVE  Pending'
    <2>1. t \in Threads
      BY <1>tx
    <2>2. ASSUME NEW pc \in Pcs \ Away, Goto(t, pc) PROVE Pending'
      <3>1. th'[t].pc = pc
        BY <2>1, <2>2, <1>0, GotoMoves
      <3>. QED  BY <3>1, <1>on
    <2>3. ASSUME RequestSleep(t) PROVE Pending'
      <3>1. th'[t].pc = "tail"
        BY <2>1, <2>3, <1>0 DEF RequestSleep, ThreadStates
      <3>. QED  BY <3>1, <1>on
    <2>4. RequestSleep(t) \/ \E pc \in Pcs \ Away : Goto(t, pc)
      BY <1>5, <1>pc DEF MailboxStep, CommandAnnounced, CommandUnannounced,
         LateDoze, TakeHalLock, SetCmd,
         Push, PushFailed, CommandEnds
    <2>. QED  BY <2>2, <2>3, <2>4
  <1>6. ASSUME NEW t \in {"work", "txok"}, ClearWakeReq(t) PROVE FALSE
    BY <1>6 DEF ClearWakeReq
  <1>7. ASSUME NEW t \in {"param", "tx", "pm"}, UNCHANGED <<addWakeup, tasks>>,
               \/ Finish(t)
               \/ \E pc : Goto(t, pc)
               \/ \E s : th' = [th EXCEPT ![t] = s]
        PROVE  Pending'
    <2>1. th'["work"] = th["work"] /\ th'["txok"] = th["txok"]
      BY <1>7, <1>0, <1>tx DEF Finish, Goto
    <2>. QED  BY <2>1, <1>7, <1>other
  <1>8. ASSUME NEW t \in {"param", "pm"}, MailboxStep(t) PROVE Pending'
    <2>1. UNCHANGED <<addWakeup, tasks>>
      BY <1>8 DEF MailboxStep, TakeHalLock, SetCmd, Push, PushFailed, RequestSleep
    <2>2. (\E pc : Goto(t, pc)) \/ (\E s : th' = [th EXCEPT ![t] = s])
      BY <1>8 DEF MailboxStep, TakeHalLock, SetCmd, Push, PushFailed, RequestSleep
    <2>. QED  BY <2>1, <2>2, <1>7
  <1>9. ASSUME OtherCommandEnds \/ \E cmd \in {"PARAM", "NULLDATA"} : OtherCommand(cmd)
        PROVE  Pending'
    <2>1. UNCHANGED <<addWakeup, tasks>>
          /\ (Finish("param") \/ \E s : th' = [th EXCEPT !["param"] = s])
      BY <1>9 DEF OtherCommandEnds, OtherCommand
    <2>. QED  BY <2>1, <1>7
  <1>10. ASSUME TxFindsSleeping \/ TxBegins \/ TxSends PROVE Pending'
    <2>1. UNCHANGED <<addWakeup, tasks>> /\ (Finish("tx") \/ \E pc : Goto("tx", pc))
      BY <1>10 DEF TxFindsSleeping, TxBegins, TxSends
    <2>. QED  BY <2>1, <1>7
  <1>11. ASSUME NEW t \in {"tx", "txok"}, AskStep(t) PROVE Pending'
    <2>1. /\ th[t].pc \in Away /\ (Finish(t) \/ Goto(t, "ask"))
          /\ WakeReq(Sleepers) \/ UNCHANGED <<addWakeup, tasks>>
      BY <1>11, Zenon DEF AskStep, IsOutstanding, AskWakeup, EndAsking
    <2>2. \A u \in Threads \ {t} : th'[u] = th[u]
      BY <2>1, <1>0, <1>tx, <1>pc, FinishMoves, GotoMoves
    <2>3. CASE UNCHANGED <<addWakeup, tasks>>
      BY <2>1, <2>2, <2>3, <1>tx, <1>was
    <2>. QED  BY <2>1, <2>3, <1>0, RequestQueues
  <1>12. ASSUME NEW v \in Vifs, NewFrame(v) PROVE Pending'
    <2>1. th' = th /\ (WakeReq({v}) \/ UNCHANGED <<addWakeup, tasks>>)
      BY <1>12, Zenon DEF NewFrame
    <2>2. CASE UNCHANGED <<addWakeup, tasks>>
      BY <2>1, <2>2, <1>other
    <2>. QED  BY <2>1, <2>2, <1>0, RequestQueues
  <1>13. ASSUME Suspend \/ Resume \/ ResumeOnePowered \/ SuspendBusy
                \/ SuspendAnnounced \/ SuspendCmdEnds \/ SuspendNext
         PROVE  Pending'
    <2>1. UNCHANGED <<addWakeup, tasks>>
      BY <1>13 DEF Suspend, Resume, ResumeOnePowered, SuspendBusy,
         SuspendAnnounced, SuspendCmdEnds, SuspendNext
    <2>2. \/ Finish("pm")
          \/ \E pc : Goto("pm", pc)
          \/ \E s : th' = [th EXCEPT !["pm"] = s]
      BY <1>13, Zenon DEF Suspend, Resume, ResumeOnePowered, SuspendBusy,
         SuspendAnnounced, SuspendCmdEnds, SuspendNext
    <2>. QED  BY <2>1, <2>2, <1>7
  <1>14. ASSUME ChipSleeps \/ ChipInterrupts PROVE Pending'
    <2>1. UNCHANGED <<addWakeup, tasks, th>>
      BY <1>14 DEF ChipSleeps, ChipInterrupts
    <2>. QED  BY <2>1, <1>other
  <1>. HIDE DEF Pending
  <1>15. Pending'
    BY <1>1, <1>2, <1>3, <1>4, <1>5, <1>6, <1>8, <1>9, <1>10, <1>11, <1>12, <1>13, <1>14, <1>0
       DEF Next, WorkThread, TxokThread, ParamThread, TxThread, PmThread,
           Environment, PowerStep, Bounds
  <1>. QED  BY <1>15, <1>end

(* A wakeup request that somebody will answer is not made stale by any     *)
(* step but those of a suspend or resume at the mailbox, for any number of *)
(* interfaces: drv_pwrsave_wake_req goes on queueing wakeups.              *)
THEOREM FwPowerRequestsKept == Spec => RequestsKept
  <1>1. Init => RequestInv
    <2>. SUFFICES ASSUME Init PROVE SleepingHeld /\ WorkWakes
      BY InitTypes DEF RequestInv
    <2>. QED  BY DEF Init, idle, SleepingHeld, WorkWakes, Threads
  <1>2. RequestInv /\ [Next]_vars
          => [WakeupOutstanding /\ th["pm"].pc \notin {"hal"} \cup AtMailbox
                => WakeupOutstanding']_vars
    BY KeepsRequest DEF Announced
  <1>. QED  BY <1>1, <1>2, RequestStep, PTL DEF Spec, RequestsKept
=============================================================================
