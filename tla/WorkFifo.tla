------------------------------ MODULE WorkFifo ------------------------------
(***************************************************************************)
(* Deferred work of the driver: any context (timers in softirq, cfg80211   *)
(* calls, the work thread itself) queues a task with drv_hal_add_workitem; *)
(* the one work thread runs it.  The queue is a two-block ring; the wakeup *)
(* is a flag bit plus a semaphore.  Adding an item takes three critical    *)
(* sections (Get a slot, Put it, set the flag) with the slot filled        *)
(* between the first two outside any lock, so producers interleave there.  *)
(***************************************************************************)
EXTENDS Integers, Sequences, FiniteSets

CONSTANTS EltNbr,     \* slots of the ring (WORK_ITEM_NUM)
          Producers,  \* contexts that call drv_hal_add_workitem
          MaxItems    \* items one producer adds in a run of the model

INSTANCE CoSharedFifo WITH BlockNbr <- 2

GET  == 0   \* CO_WORK_GET: slots free to fill
FREE == 1   \* CO_WORK_FREE: items to run

NoItem == [by |-> "nobody", nr |-> 0]
Items  == [by : Producers, nr : 1 .. MaxItems]

VARIABLES
    idx,       \* WorkFifo.IdxTab
    mem,       \* WorkFifoBuf: per slot its param, taskcallback and task
    ppc,       \* ppc[p]: where producer p is in drv_hal_add_workitem
    pslot,     \* pslot[p]: the EltPtr of p
    added,     \* added[p]: items p has tried to add
    flag,      \* the work fifo's bit of ctrl_wait_flag
    sem,       \* the count of work_thread_sem
    wpc,       \* where the work thread is
    wslot,     \* the EltPtr of drv_hal_workitem_task
    quit,      \* work_thread_quit
    accepted,  \* history: items that got a slot, in the order of their Gets
    ran,       \* history: what the thread called, in order
    finished,  \* history: slots the thread has put back
    overlap    \* history: two producers have been between Get and Put at once

producerVars == <<mem, ppc, pslot, added, accepted, overlap>>
workerVars   == <<wpc, wslot, ran, finished>>
vars == <<idx, flag, sem, quit, producerVars, workerVars>>

ItemOf(p) == [by |-> p, nr |-> added[p]]

Init == /\ idx = RingInit
        /\ mem = [s \in Slots |->
                    [param |-> NoItem, callback |-> NoItem, task |-> NoItem]]
        /\ ppc = [p \in Producers |-> "idle"]
        /\ pslot = [p \in Producers |-> 0]
        /\ added = [p \in Producers |-> 0]
        /\ flag = FALSE
        /\ sem = 0
        /\ wpc = "down"
        /\ wslot = 0
        /\ quit = FALSE
        /\ accepted = <<>>
        /\ ran = <<>>
        /\ finished = 0
        /\ overlap = FALSE

Goto(p, from, to) == ppc[p] = from /\ ppc' = [ppc EXCEPT ![p] = to]

Filling == {p \in Producers : ppc[p] \in {"params", "task", "put"}}

-----------------------------------------------------------------------------
(* drv_hal_add_workitem.                                                   *)

AddGet(p) ==
    /\ added[p] < MaxItems
    /\ CanGet(idx, GET, 1)
    /\ Goto(p, "idle", "params")
    /\ pslot' = [pslot EXCEPT ![p] = Pick(idx, GET)]
    /\ idx' = AfterGet(idx, GET, 1)
    /\ added' = [added EXCEPT ![p] = @ + 1]
    /\ accepted' = Append(accepted, [by |-> p, nr |-> added[p] + 1])
    /\ overlap' = (overlap \/ Filling # {})
    /\ UNCHANGED <<mem, flag, sem, quit, workerVars>>

(* "work fifo overflow": the pointer is NULL, the item is dropped and the  *)
(* caller still gets 0.                                                    *)
AddOverflow(p) ==
    /\ ppc[p] = "idle"
    /\ added[p] < MaxItems
    /\ ~ CanGet(idx, GET, 1)
    /\ added' = [added EXCEPT ![p] = @ + 1]
    /\ UNCHANGED <<idx, mem, ppc, pslot, flag, sem, quit, accepted, overlap,
                   workerVars>>

FillParams(p) ==
    /\ Goto(p, "params", "task")
    /\ mem' = [mem EXCEPT ![pslot[p]].param = ItemOf(p),
                          ![pslot[p]].callback = ItemOf(p)]
    /\ UNCHANGED <<idx, pslot, added, flag, sem, quit, accepted, overlap,
                   workerVars>>

FillTask(p) ==
    /\ Goto(p, "task", "put")
    /\ mem' = [mem EXCEPT ![pslot[p]].task = ItemOf(p)]
    /\ UNCHANGED <<idx, pslot, added, flag, sem, quit, accepted, overlap,
                   workerVars>>

AddPut(p) ==
    /\ Goto(p, "put", "call")
    /\ idx' = AfterPut(idx, GET, 1)
    /\ UNCHANGED <<mem, pslot, added, flag, sem, quit, accepted, overlap,
                   workerVars>>

(* Mutant: the thread is not woken.                                        *)
CallUpSilent(p) ==
    /\ Goto(p, "up", "idle")
    /\ UNCHANGED <<idx, mem, pslot, added, flag, sem, quit, accepted, overlap,
                   workerVars>>

(* Mutant: the bit is not set.                                             *)
CallTaskNoBit(p) ==
    /\ Goto(p, "call", "up")
    /\ UNCHANGED <<idx, mem, pslot, added, flag, sem, quit, accepted, overlap,
                   workerVars>>

(* hal_call_task: the bit under COMMON_LOCK, the semaphore after it.       *)
CallTask(p) ==
    /\ Goto(p, "call", "up")
    /\ flag' = TRUE
    /\ UNCHANGED <<idx, mem, pslot, added, sem, quit, accepted, overlap,
                   workerVars>>

CallUp(p) ==
    /\ Goto(p, "up", "idle")
    /\ sem' = sem + 1
    /\ UNCHANGED <<idx, mem, pslot, added, flag, quit, accepted, overlap,
                   workerVars>>

Finish(p) == \/ FillParams(p) \/ FillTask(p) \/ AddPut(p)
             \/ CallTask(p) \/ CallUp(p)

-----------------------------------------------------------------------------
(* hal_work_thread and, from "drain" on, drv_hal_workitem_task.            *)

Work(from, to) == wpc = from /\ wpc' = to

Down ==
    /\ sem > 0
    /\ Work("down", IF quit THEN "exit" ELSE "test")
    /\ sem' = sem - 1
    /\ UNCHANGED <<idx, flag, quit, producerVars, wslot, ran, finished>>

(* The head of the thread's loop.                                          *)
LoopHead == IF quit THEN "exit" ELSE "down"

(* The bit is read without the lock.                                       *)
TestFlag ==
    /\ Work("test", IF flag THEN "clear" ELSE LoopHead)
    /\ UNCHANGED <<idx, flag, sem, quit, producerVars, wslot, ran, finished>>

ClearFlag ==
    /\ Work("clear", "drain")
    /\ flag' = FALSE
    /\ UNCHANGED <<idx, sem, quit, producerVars, wslot, ran, finished>>

TestEmpty ==
    /\ Work("drain", IF HasElt(idx, FREE) THEN "get" ELSE LoopHead)
    /\ UNCHANGED <<idx, flag, sem, quit, producerVars, wslot, ran, finished>>

(* Mutant: the pointer is read after the Out index has moved.              *)
TakeItemLate ==
    /\ CanGet(idx, FREE, 1)
    /\ Work("get", "run")
    /\ wslot' = Pick(AfterGet(idx, FREE, 1), FREE)
    /\ idx' = AfterGet(idx, FREE, 1)
    /\ UNCHANGED <<flag, sem, quit, producerVars, ran, finished>>

TakeItem ==
    /\ CanGet(idx, FREE, 1)
    /\ Work("get", "run")
    /\ wslot' = Pick(idx, FREE)
    /\ idx' = AfterGet(idx, FREE, 1)
    /\ UNCHANGED <<flag, sem, quit, producerVars, ran, finished>>

(* A task pointer that is NULL is skipped.                                 *)
RunTask ==
    /\ Work("run", "callback")
    /\ LET e == mem[wslot] IN
         ran' = IF e.task = NoItem THEN ran ELSE Append(ran, <<e.task, e.param>>)
    /\ UNCHANGED <<idx, flag, sem, quit, producerVars, wslot, finished>>

RunCallback ==
    /\ Work("callback", "put")
    /\ LET e == mem[wslot] IN
         ran' = IF e.callback = NoItem THEN ran
                                       ELSE Append(ran, <<e.callback, e.param>>)
    /\ UNCHANGED <<idx, flag, sem, quit, producerVars, wslot, finished>>

PutItem ==
    /\ Work("put", "drain")
    /\ idx' = AfterPut(idx, FREE, 1)
    /\ finished' = finished + 1
    /\ UNCHANGED <<flag, sem, quit, producerVars, wslot, ran>>

Worker == \/ Down \/ TestFlag \/ ClearFlag \/ TestEmpty \/ TakeItem
          \/ RunTask \/ RunCallback \/ PutItem

(* Mutant: the sleeping thread is not woken to see that it must quit.      *)
KillSilent ==
    /\ ~ quit
    /\ quit' = TRUE
    /\ UNCHANGED <<idx, flag, sem, producerVars, workerVars>>

(* hal_kill_thread: only the thread reads work_thread_quit, so setting it  *)
(* and the up that follows are one step.                                   *)
Kill ==
    /\ ~ quit
    /\ quit' = TRUE
    /\ sem' = sem + 1
    /\ UNCHANGED <<idx, flag, producerVars, workerVars>>

Next == \/ \E p \in Producers : AddGet(p) \/ AddOverflow(p) \/ Finish(p)
        \/ Worker
        \/ Kill

Spec == Init /\ [][Next]_vars

(* A producer that has begun to add an item goes on (no loop, no sleep),   *)
(* and the scheduler runs the work thread (SCHED_RR, or FIFO).             *)
FairSpec == /\ Spec
            /\ WF_vars(Worker)
            /\ \A p \in Producers : WF_vars(Finish(p))

-----------------------------------------------------------------------------
Working == wpc \in {"run", "callback", "put"}

(* Types, and the accounts of the ring: the slots producers are filling    *)
(* and the slot the thread is working on are exactly the gaps between the  *)
(* indexes, whatever the interleaving of the producers.                    *)
TypeOK ==
    /\ idx \in Rings
    /\ mem \in [Slots -> [param : Items \cup {NoItem},
                         callback : Items \cup {NoItem},
                         task : Items \cup {NoItem}]]
    /\ ppc \in [Producers -> {"idle", "params", "task", "put", "call", "up"}]
    /\ pslot \in [Producers -> Slots]
    /\ added \in [Producers -> 0 .. MaxItems]
    /\ flag \in BOOLEAN /\ sem \in Nat /\ quit \in BOOLEAN
    /\ wpc \in {"down", "test", "clear", "drain", "get", "run", "callback",
               "put", "exit"}
    /\ wslot \in Slots
    /\ overlap \in BOOLEAN

SlotsAccounted ==
    /\ RingConserved(idx)
    /\ HandNbr(idx, GET) = Cardinality(Filling)
    /\ HandNbr(idx, FREE) = IF Working THEN 1 ELSE 0

(* No lost wakeup: while an item waits, the thread is in its drain loop,   *)
(* or the bit is set and the thread will come by to test it, or a producer *)
(* is on its way to set the bit.                                           *)
WakeupPending == \/ sem > 0
                 \/ \E p \in Producers : ppc[p] = "up"
                 \/ wpc \in {"test", "clear"}

NoLostWakeup ==
    HasElt(idx, FREE) =>
        \/ wpc \in {"clear", "drain", "get", "exit"} \/ Working
        \/ quit
        \/ flag /\ WakeupPending
        \/ \E p \in Producers : ppc[p] = "call"

(* As long as no two producers have been between their Get and their Put   *)
(* at the same time, what the thread calls is the accepted items in order, *)
(* each once, its task with its own parameters and then its callback.      *)
InOrderWithoutOverlap ==
    ~ overlap =>
        \A k \in 1 .. Len(ran) :
            LET i == (k + 1) \div 2 IN
              i <= Len(accepted) /\ ran[k] = <<accepted[i], accepted[i]>>

(* However producers interleave, a thread that sleeps with no producer on  *)
(* its way has given back as many slots as were accepted, and none waits.  *)
NothingLeftBehind ==
    (wpc = "down" /\ sem = 0 /\ \A p \in Producers : ppc[p] = "idle")
      => finished = Len(accepted) /\ ~ HasElt(idx, FREE)

(* The queue is sound: its accounts are right, neither an item nor the     *)
(* wakeup for one is ever lost, and what runs is what was queued, in order.*)
QueueSound == /\ TypeOK /\ SlotsAccounted /\ NoLostWakeup /\ NothingLeftBehind
              /\ InOrderWithoutOverlap

(* Every item a producer has put is taken, unless the thread is stopped.   *)
EveryItemTaken == HasElt(idx, FREE) ~> (~ HasElt(idx, FREE) \/ quit)

(* hal_kill_thread waits for the thread to complete: it does.              *)
KillCompletes == quit ~> (wpc = "exit")

(* The work thread does what it is there for.                              *)
WorkEnds == EveryItemTaken /\ KillCompletes
=============================================================================
