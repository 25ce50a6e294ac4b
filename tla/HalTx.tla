------------------------------- MODULE HalTx -------------------------------
(***************************************************************************)
(* The transmit path of the HAL.  drv_to_hal fills a queue's ring under    *)
(* the queue's lock; the hi_irq thread gives each frame a tx id (MAKE),    *)
(* downloads what the firmware has pages for (SET) and fetches the         *)
(* firmware's completions; the txok thread frees the ids and hands the     *)
(* frames back; hal_tx_flush removes the frames of an interface.  The ring *)
(* is filled without the tx spinlock under which the other two stages and  *)
(* the flush work, and the id table has a lock of its own.                 *)
(***************************************************************************)
EXTENDS CoSharedFifo, Sequences, FiniteSets

CONSTANTS QueueNbr,   \* HAL_NUM_TX_QUEUES (8)
          MaxFrames,  \* bound: frames one queue can have
          MaxAgg,     \* frames of the largest aggregate (16)
          Vids,       \* interfaces whose frames share the queues
          IdNbr,      \* WIFI_MAX_TXFRAME (128)
          Nodes,      \* nodes of tx_status_list (2 * WIFI_MAX_TXFRAME)
          PageNbr,    \* DEFAULT_TXPAGENUM (224)
          FramePages, \* pages every frame needs
          SgMax,      \* SDIO_MAXSG_SIZE (32)
          SgPages,    \* SG_PAGE_MAX (80)
          SkipOver,   \* frames of a queue below which it gets a turn (16)
          NoQosOver,  \* frames in the chip that stop the NOQOS queue (32)
          UpAt,       \* free ids at which the irq thread is woken (32)
          Loads       \* bound: what a behaviour may be given to do, each
                      \* with frames of each queue and their interfaces,
                      \* the arguments of hal_tx_flush, a call for each, and
                      \* whether hal_txframe_pause is called

ASSUME ThreeBlocks == BlockNbr = 3
ASSUME HalTxAssumption ==
    /\ {QueueNbr, MaxFrames, MaxAgg, IdNbr} \subseteq Nat \ {0}
    /\ Nodes \in Nat /\ Nodes >= IdNbr
    /\ {PageNbr, FramePages, SgMax, SgPages, SkipOver, NoQosOver, UpAt} \subseteq Nat

GET  == 0   \* CO_TX_BUFFER_GET: slots free to fill
MAKE == 1   \* CO_TX_BUFFER_MAKE: filled, without an id
SET  == 2   \* CO_TX_BUFFER_SET: with an id, to be downloaded

MaxSemCnt == 2       \* MAX_SEM_CNT
AllVids   == "all"   \* the vid 3 of hal_tx_flush

Queues == 0 .. QueueNbr - 1
TopQ   == QueueNbr - 1
NoQos  == TopQ               \* the queue that plays HAL_WME_NOQOS
Ids    == 0 .. IdNbr - 1
Frames == [q : Queues, n : 1 .. MaxFrames]

ASSUME LoadsAssumption ==
    Loads \subseteq [frames : [Queues -> 0 .. MaxFrames], vids : SUBSET Vids,
                     flushes : SUBSET Vids, pauses : BOOLEAN]

VARIABLES
    idx,     \* txds_trista_fifo[q]: the indexes of the ring
    slot,    \* txds_trista_fifo_buf: the frame each slot points to
    desc,    \* what the frames' hi_tx_desc hold: vid, AggrNum, hostcallbackid
    made,    \* frames drv_to_hal has filled for q
    fill,    \* fill[q]: where drv_to_hal is, and the batch it works on
    sem,     \* the count of hi_irq_thread_sem
    irq,     \* the hi_irq thread: pc, queue, turns left, scat request
    lock,    \* who holds the tx spinlock
    lastq,   \* tx_queueid_downloadok
    ids,     \* tx_frames_map and tx_frames: id -> frame, for ids in use
    pages,   \* txPageFreeNum
    num,     \* HiStatus: Tx_Send_num, Tx_Done_num, Tx_Free_num
    event,   \* TX_DOWNLOAD_OK_EVENT_num and TX_SEND_OK_EVENT_num of q
    upreq,   \* tx_up_required
    drop,    \* bhaltxdrop
    paused,  \* bhalPowerSave
    chip,    \* external: frames in the firmware, completions, TX_OK bit
    status,  \* the status list: entries for the txok thread
    txok,    \* the txok thread: pc and the entry it holds
    txsem,   \* the count of txok_thread_sem
    flush,   \* hal_tx_flush: pc, vid, queue, frames it keeps, calls
    load,    \* which of the Loads this behaviour has
    hist     \* history: handled, lost, down, missed, mixed, starved

irqVars   == <<irq, lastq>>
fillVars  == <<made, fill>>
txokVars  == <<txok, txsem>>
vars == <<idx, slot, desc, fillVars, sem, irqVars, lock, ids, pages, num,
          event, upreq, drop, paused, chip, status, txokVars, flush, load,
          hist>>

Entry(f, id) == [frame |-> f, id |-> id]
NoEntry == Entry([q |-> 0, n |-> 0], 0)
IdsUsed == DOMAIN ids

NoBatch == [pc |-> "idle", left |-> 0, agg |-> 0, vid |-> AllVids,
            slot |-> 0, first |-> 1]

Init == /\ load \in Loads
        /\ idx = [q \in Queues |-> RingInit]
        /\ slot = [q \in Queues |-> [s \in Slots |-> [q |-> q, n |-> 1]]]
        /\ desc = [f \in Frames |-> [vid |-> AllVids, agg |-> 0, id |-> 0]]
        /\ made = [q \in Queues |-> 0]
        /\ fill = [q \in Queues |-> NoBatch]
        /\ sem = 0
        /\ irq = [pc |-> "down", q |-> 0, turns |-> 0, scat |-> <<>>]
        /\ lock = "free"
        /\ lastq = 0
        /\ ids = <<>>
        /\ pages = PageNbr
        /\ num = [send |-> 0, done |-> 0, free |-> 0]
        /\ event = [q \in Queues |-> [down |-> 0, ok |-> 0]]
        /\ upreq = FALSE
        /\ drop = FALSE
        /\ paused = FALSE
        /\ chip = [has |-> {}, done |-> <<>>, bit |-> FALSE]
        /\ status = <<>>
        /\ txok = [pc |-> "down", entry |-> NoEntry]
        /\ txsem = 0
        /\ flush = [pc |-> "off", vid |-> AllVids, q |-> 0, keep |-> <<>>,
                    calls |-> 0]
        /\ hist = [handled |-> <<>>, lost |-> {}, down |-> [q \in Queues |-> <<>>],
                   missed |-> FALSE, mixed |-> FALSE, starved |-> FALSE]

-----------------------------------------------------------------------------
(* drv_to_hal, under the lock of queue q: a batch of n frames of one       *)
(* interface, if aml_tx_hal_buffer_full finds room for all of them.        *)

HasRoom(q, n) == LET space == NbElt(idx[q], GET)
                 IN  (IF space >= 2 THEN space - 1 ELSE 0) >= n

FillBegin(q, v, n) ==
    /\ fill[q].pc = "idle"
    /\ v \in load.vids
    /\ made[q] + n <= load.frames[q]
    /\ HasRoom(q, n)
    /\ fill' = [fill EXCEPT ![q] = [pc |-> "get", left |-> n, agg |-> n,
                                    vid |-> v, slot |-> 0,
                                    first |-> made[q] + 1]]
    /\ UNCHANGED <<idx, slot, desc, made, sem, irqVars, lock, ids, pages, num,
                   event, upreq, drop, paused, chip, status, txokVars, flush,
                   hist>>

(* hal_fill_agg_start and hal_fill_priv, up to the Get.                    *)
FillGet(q) ==
    /\ fill[q].pc = "get"
    /\ CanGet(idx[q], GET, 1)
    /\ fill' = [fill EXCEPT ![q].pc = "put", ![q].slot = Pick(idx[q], GET)]
    /\ idx' = [idx EXCEPT ![q] = AfterGet(@, GET, 1)]
    /\ hist' = [hist EXCEPT !.mixed = @ \/ flush.pc # "off"]
    /\ UNCHANGED <<slot, desc, made, sem, irqVars, lock, ids, pages, num,
                   event, upreq, drop, paused, chip, status, txokVars, flush>>

(* Mutant: the frame is not counted.                                       *)
SentUncounted == num.send

Sent == num.send + 1

(* The rest: the first frame's descriptor is built with id 0, the others   *)
(* copy that of the first as it is by then, id included.                   *)
FillPut(q) ==
    LET f     == [q |-> q, n |-> made[q] + 1]
        first == [q |-> q, n |-> fill[q].first]
        d     == IF f = first
                 THEN [vid |-> fill[q].vid, agg |-> fill[q].agg, id |-> 0]
                 ELSE desc[first]
    IN
    /\ fill[q].pc = "put"
    /\ made' = [made EXCEPT ![q] = @ + 1]
    /\ slot' = [slot EXCEPT ![q][fill[q].slot] = f]
    /\ desc' = [desc EXCEPT ![f] = d]
    /\ num' = [num EXCEPT !.send = Sent]
    /\ idx' = [idx EXCEPT ![q] = AfterPut(@, GET, 1)]
    /\ fill' = [fill EXCEPT ![q].pc = IF fill[q].left = 1 THEN "up" ELSE "get",
                            ![q].left = @ - 1]
    /\ hist' = [hist EXCEPT !.mixed = @ \/ flush.pc # "off"]
    /\ UNCHANGED <<sem, irqVars, lock, ids, pages, event, upreq, drop, paused,
                   chip, status, txokVars, flush>>

FillUp(q) ==
    /\ fill[q].pc = "up"
    /\ fill' = [fill EXCEPT ![q] = NoBatch]
    /\ sem' = sem + 1
    /\ UNCHANGED <<idx, slot, desc, made, irqVars, lock, ids, pages, num,
                   event, upreq, drop, paused, chip, status, txokVars, flush,
                   hist>>

Fill(q) == FillGet(q) \/ FillPut(q) \/ FillUp(q)

-----------------------------------------------------------------------------
(* The id table, under COMMON_LOCK: hal_alloc_tx_id takes the first free   *)
(* id, or fails (TXID_INVALID).                                            *)
IdsLeft == IdsUsed # Ids
FirstFree == CHOOSE i \in Ids \ IdsUsed : \A j \in Ids \ IdsUsed : i <= j

WithId(f) == [i \in IdsUsed \cup {FirstFree} |->
                IF i = FirstFree THEN f ELSE ids[i]]

WithoutId(id) == [i \in IdsUsed \ {id} |-> ids[i]]

(* hal_free_tx_id; it frees nothing and returns -1 when the id is not in   *)
(* use.                                                                    *)
FreeId(id) ==
    IF id \in IdsUsed
    THEN /\ ids' = WithoutId(id)
         /\ event' = [event EXCEPT ![ids[id].q].ok = @ + 1]
         /\ drop' = (drop /\ IdsUsed # {id})
    ELSE UNCHANGED <<ids, event, drop>>

-----------------------------------------------------------------------------
(* The hi_irq thread.                                                      *)

(* down, and the cap on the ups that have piled up.                        *)
IrqDown ==
    /\ irq.pc = "down"
    /\ sem > 0
    /\ sem' = IF sem - 1 > MaxSemCnt THEN 0 ELSE sem - 1
    /\ irq' = [irq EXCEPT !.pc = "status"]
    /\ UNCHANGED <<idx, slot, desc, fillVars, lock, lastq, ids, pages, num,
                   event, upreq, drop, paused, chip, status, txokVars, flush,
                   hist>>

(* hi_irq_task: hi_get_irq_status, whose read clears the TX_OK bit.        *)
ReadStatus ==
    /\ irq.pc = "status"
    /\ irq' = [irq EXCEPT !.pc = IF chip.bit THEN "softtx" ELSE "gate"]
    /\ chip' = [chip EXCEPT !.bit = FALSE]
    /\ UNCHANGED <<idx, slot, desc, fillVars, sem, lock, lastq, ids, pages,
                   num, event, upreq, drop, paused, status, txokVars, flush,
                   hist>>

FreeNodes == Nodes - Len(status) - (IF txok.pc = "free" THEN 1 ELSE 0)

(* Mutant: the pages are credited for one frame.                           *)
CreditOne(done) == FramePages

Credit(done) == FramePages * Len(done)

(* Mutant: the txok thread is not woken.                                   *)
TxokUpsNone == 0

TxokUps == 1

(* hi_soft_tx_irq: pages back, a status node for each completion as long   *)
(* as there are nodes, and the txok thread woken.                          *)
SoftTxIrq ==
    LET got == IF Len(chip.done) <= FreeNodes THEN Len(chip.done) ELSE FreeNodes
    IN
    /\ irq.pc = "softtx"
    /\ lock # "flush"
    /\ pages' = pages + Credit(chip.done)
    /\ status' = status \o SubSeq(chip.done, 1, got)
    /\ num' = [num EXCEPT !.free = @ + got]
    /\ chip' = [chip EXCEPT !.done = <<>>]
    /\ txsem' = txsem + TxokUps
    /\ irq' = [irq EXCEPT !.pc = "gate"]
    /\ UNCHANGED <<idx, slot, desc, fillVars, sem, lock, lastq, ids, event,
                   upreq, drop, paused, txok, flush, hist>>

(* hal_tx_frame: the test of bhaltxdrop and bhalPowerSave.                 *)
Gate ==
    /\ irq.pc = "gate"
    /\ lock # "flush"
    /\ irq' = [irq EXCEPT !.pc = IF drop \/ paused THEN "down" ELSE "enter"]
    /\ UNCHANGED <<idx, slot, desc, fillVars, sem, lock, lastq, ids, pages,
                   num, event, upreq, drop, paused, chip, status, txokVars,
                   flush, hist>>

(* The lock is taken again after the power state was looked at; then       *)
(* hal_txframe_pre begins.                                                 *)
Enter ==
    /\ irq.pc = "enter"
    /\ lock = "free"
    /\ lock' = "irq"
    /\ irq' = [irq EXCEPT !.pc = "turns", !.q = lastq, !.turns = 2 * QueueNbr]
    /\ UNCHANGED <<idx, slot, desc, fillVars, sem, lastq, ids, pages, num,
                   event, upreq, drop, paused, chip, status, txokVars, flush,
                   hist>>

(* A frame of q that waits in MAKE gets an id and moves on to SET.         *)
Promote(q) ==
    LET f == slot[q][Pick(idx[q], MAKE)] IN
    /\ IdsLeft
    /\ ids' = WithId(f)
    /\ desc' = [desc EXCEPT ![f].id = FirstFree]
    /\ idx' = [idx EXCEPT ![q] = AfterPut(AfterGet(@, MAKE, 1), MAKE, 1)]

Waits(q) == HasElt(idx[q], MAKE)

(* The counters are unsigned: a queue with more SEND_OK than DOWNLOAD_OK   *)
(* events is skipped as well.                                              *)
MayTakeTurn(q) == event[q].down - event[q].ok \in 0 .. SkipOver

NoQosStops(q) == q = NoQos /\ num.done - num.free > NoQosOver

Prev(q) == IF q = 0 THEN TopQ ELSE q - 1

(* hal_txframe_pre, first part: one frame of each queue in turn, twice.    *)
TakeTurn ==
    LET q == Prev(irq.q)
        left == irq.turns - 1
    IN
    /\ irq.pc = "turns"
    /\ IF MayTakeTurn(q) /\ Waits(q) /\ NoQosStops(q)
       THEN irq' = [irq EXCEPT !.pc = "set", !.q = TopQ]
       ELSE IF MayTakeTurn(q) /\ Waits(q) /\ ~ IdsLeft
       THEN irq' = [irq EXCEPT !.pc = "full", !.q = TopQ]
       ELSE irq' = [irq EXCEPT !.pc = IF left = 0 THEN "drain" ELSE @,
                               !.q = IF left = 0 THEN TopQ ELSE q,
                               !.turns = left]
    /\ IF MayTakeTurn(q) /\ Waits(q) /\ ~ NoQosStops(q) /\ IdsLeft
       THEN Promote(q)
       ELSE UNCHANGED <<ids, desc, idx>>
    /\ UNCHANGED <<slot, fillVars, sem, lock, lastq, pages, num, event, upreq,
                   drop, paused, chip, status, txokVars, flush, hist>>

(* Second part: each queue until it is empty.                              *)
Drain ==
    /\ irq.pc = "drain"
    /\ IF Waits(irq.q) /\ IdsLeft
       THEN Promote(irq.q) /\ UNCHANGED irq
       ELSE /\ irq' = IF Waits(irq.q)
                      THEN [irq EXCEPT !.pc = "full", !.q = TopQ]
                      ELSE IF irq.q = 0
                      THEN [irq EXCEPT !.pc = "set", !.q = TopQ]
                      ELSE [irq EXCEPT !.q = @ - 1]
            /\ UNCHANGED <<ids, desc, idx>>
    /\ UNCHANGED <<slot, fillVars, sem, lock, lastq, pages, num, event, upreq,
                   drop, paused, chip, status, txokVars, flush, hist>>

(* No id was left.  If nothing is in the chip, no TX_OK will bring the     *)
(* thread back, and the txok thread is asked to.                           *)
AskForUp ==
    /\ irq.pc = "full"
    /\ upreq' = (upreq \/ num.done = num.free)
    /\ hist' = [hist EXCEPT !.missed =
                  @ \/ /\ num.done = num.free
                       /\ txok.pc = "down" /\ txsem = 0 /\ sem = 0]
    /\ irq' = [irq EXCEPT !.pc = "set"]
    /\ UNCHANGED <<idx, slot, desc, fillVars, sem, lock, lastq, ids, pages,
                   num, event, drop, paused, chip, status, txokVars, flush>>

(* The aggregate at the head of SET.                                       *)
HeadAgg(q) == desc[slot[q][Pick(idx[q], SET)]].agg

(* Mutant: the aggregate need not be complete.                             *)
FitsIncomplete(q, n) ==
    /\ n * FramePages <= pages
    /\ Len(irq.scat) + n < SgMax
    /\ irq.scat = <<>> \/ (Len(irq.scat) + n) * FramePages <= SgPages

Fits(q, n) ==
    /\ n * FramePages <= pages
    /\ n <= NbEltCont(idx[q], SET)
    /\ Len(irq.scat) + n < SgMax
    /\ irq.scat = <<>> \/ (Len(irq.scat) + n) * FramePages <= SgPages

Downloads(q) == HasElt(idx[q], SET) /\ Fits(q, HeadAgg(q))

(* An aggregate leaves the ring for the scatter request.                   *)
Download ==
    LET q == irq.q
        n == HeadAgg(q)
        at(k) == slot[q][Wrap(Pick(idx[q], SET) + k - 1)]
        taken == [k \in 1 .. n |-> Entry(at(k), desc[at(k)].id)]
    IN
    /\ irq.pc = "set"
    /\ Downloads(q)
    /\ irq' = [irq EXCEPT !.scat = @ \o taken]
    /\ idx' = [idx EXCEPT ![q] = AfterPut(AfterGet(@, SET, n), SET, n)]
    /\ pages' = pages - n * FramePages
    /\ event' = [event EXCEPT ![q].down = @ + n]
    /\ num' = [num EXCEPT !.done = @ + n]
    /\ lastq' = q
    /\ hist' = [hist EXCEPT !.down[q] = @ \o [k \in 1 .. n |-> at(k)]]
    /\ UNCHANGED <<slot, desc, fillVars, sem, lock, ids, upreq, drop, paused,
                   chip, status, txokVars, flush>>

(* Nothing more of this queue fits: what was taken is sent without the     *)
(* lock, or the next queue is looked at; after the last one the lock is    *)
(* given up and the thread sleeps.                                         *)
QueueDone ==
    /\ irq.pc = "set"
    /\ ~ Downloads(irq.q)
    /\ IF irq.scat # <<>>
       THEN irq' = [irq EXCEPT !.pc = "send"] /\ lock' = "free"
       ELSE IF irq.q # 0
       THEN irq' = [irq EXCEPT !.q = @ - 1] /\ UNCHANGED lock
       ELSE irq' = [irq EXCEPT !.pc = "down"] /\ lock' = "free"
    /\ UNCHANGED <<idx, slot, desc, fillVars, sem, lastq, ids, pages, num,
                   event, upreq, drop, paused, chip, status, txokVars, flush,
                   hist>>

(* hi_send_frame.                                                          *)
SendFrame ==
    /\ irq.pc = "send"
    /\ chip' = [chip EXCEPT
                  !.has = @ \cup {irq.scat[k] : k \in DOMAIN irq.scat}]
    /\ irq' = [irq EXCEPT !.pc = "relock", !.scat = <<>>]
    /\ UNCHANGED <<idx, slot, desc, fillVars, sem, lock, lastq, ids, pages,
                   num, event, upreq, drop, paused, status, txokVars, flush,
                   hist>>

Relock ==
    /\ irq.pc = "relock"
    /\ lock = "free"
    /\ IF irq.q # 0
       THEN irq' = [irq EXCEPT !.pc = "set", !.q = @ - 1] /\ lock' = "irq"
       ELSE irq' = [irq EXCEPT !.pc = "down"] /\ UNCHANGED lock
    /\ UNCHANGED <<idx, slot, desc, fillVars, sem, lastq, ids, pages, num,
                   event, upreq, drop, paused, chip, status, txokVars, flush,
                   hist>>

Irq == \/ IrqDown \/ ReadStatus \/ SoftTxIrq \/ Gate \/ Enter \/ TakeTurn
       \/ Drain \/ AskForUp \/ Download \/ QueueDone \/ SendFrame \/ Relock

-----------------------------------------------------------------------------
(* The firmware (external): it completes the frames it has in any order,   *)
(* each with the id it came with, and raises an interrupt (hal_irq_top).   *)
Complete(e) ==
    /\ e \in chip.has
    /\ chip' = [has |-> chip.has \ {e}, done |-> Append(chip.done, e),
                bit |-> TRUE]
    /\ sem' = sem + 1
    /\ UNCHANGED <<idx, slot, desc, fillVars, irqVars, lock, ids, pages, num,
                   event, upreq, drop, paused, status, txokVars, flush, hist>>

Firmware == \E e \in chip.has : Complete(e)

-----------------------------------------------------------------------------
(* The txok thread.                                                        *)
TxokDown ==
    /\ txok.pc = "down"
    /\ txsem > 0
    /\ txsem' = txsem - 1
    /\ txok' = [txok EXCEPT !.pc = "take"]
    /\ UNCHANGED <<idx, slot, desc, fillVars, sem, irqVars, lock, ids, pages,
                   num, event, upreq, drop, paused, chip, status, flush, hist>>

TxokTake ==
    /\ txok.pc = "take"
    /\ IF status = <<>>
       THEN txok' = [txok EXCEPT !.pc = "test"] /\ UNCHANGED status
       ELSE txok' = [pc |-> "free", entry |-> Head(status)] /\ status' = Tail(status)
    /\ UNCHANGED <<idx, slot, desc, fillVars, sem, irqVars, lock, ids, pages,
                   num, event, upreq, drop, paused, chip, txsem, flush, hist>>

(* The id is freed and the frame the id table names is handed to           *)
(* intr_tx_handle, or, when the id is not in use, the entry is dropped.    *)
TxokFree ==
    LET e == txok.entry IN
    /\ txok.pc = "free"
    /\ FreeId(e.id)
    /\ hist' = IF e.id \in IdsUsed
               THEN [hist EXCEPT !.handled = Append(@, ids[e.id])]
               ELSE [hist EXCEPT !.lost = @ \cup {e.frame}]
    /\ txok' = [txok EXCEPT !.pc = "take"]
    /\ UNCHANGED <<idx, slot, desc, fillVars, sem, irqVars, lock, pages, num,
                   upreq, paused, chip, status, txsem, flush>>

(* hal_get_free_tx_id_num, and the up if the irq thread asked for it.      *)
TxokTest ==
    LET up == upreq /\ Cardinality(Ids \ IdsUsed) >= UpAt IN
    /\ txok.pc = "test"
    /\ txok' = [txok EXCEPT !.pc = "down"]
    /\ upreq' = (upreq /\ ~ up)
    /\ sem' = IF up THEN sem + 1 ELSE sem
    /\ UNCHANGED <<idx, slot, desc, fillVars, irqVars, lock, ids, pages, num,
                   event, drop, paused, chip, status, txsem, flush, hist>>

Txok == TxokDown \/ TxokTake \/ TxokFree \/ TxokTest

-----------------------------------------------------------------------------
(* hal_txframe_pause.                                                      *)
Pause ==
    /\ load.pauses
    /\ lock = "free"
    /\ paused' = ~ paused
    /\ UNCHANGED <<idx, slot, desc, fillVars, sem, irqVars, lock, ids, pages,
                   num, event, upreq, drop, chip, status, txokVars, flush,
                   hist>>

-----------------------------------------------------------------------------
(* hal_tx_flush(v).                                                        *)

FlushUnchanged == UNCHANGED <<fillVars, sem, irqVars, pages, upreq, paused,
                              chip, status, txokVars>>

(* bhaltxdrop is set while ids are in use.                                 *)
FlushBegin(v) ==
    /\ flush.pc = "off"
    /\ flush.calls < Cardinality(load.flushes)
    /\ drop' = (IdsUsed # {})
    /\ flush' = [pc |-> "lock", vid |-> v, q |-> 0, keep |-> <<>>,
                 calls |-> flush.calls + 1]
    /\ hist' = [hist EXCEPT !.mixed =
                  @ \/ \E q \in Queues : fill[q].pc \in {"get", "put"}]
    /\ UNCHANGED <<idx, slot, desc, lock, ids, num, event>>
    /\ FlushUnchanged

FlushLock ==
    /\ flush.pc = "lock"
    /\ lock = "free"
    /\ lock' = "flush"
    /\ flush' = [flush EXCEPT !.pc = "make"]
    /\ UNCHANGED <<idx, slot, desc, ids, num, event, drop, hist>>
    /\ FlushUnchanged

Flushed(f) == flush.vid = AllVids \/ desc[f].vid = flush.vid

(* MAKE: a frame to be flushed moves on as it is, another one gets an id   *)
(* first; when none is left, the frame taken is not put and the loop ends. *)
FlushMake ==
    LET q == flush.q
        f == slot[q][Pick(idx[q], MAKE)]
    IN
    /\ flush.pc = "make"
    /\ IF ~ Waits(q)
       THEN /\ flush' = [flush EXCEPT !.pc = "set"]
            /\ UNCHANGED <<idx, ids, desc, hist>>
       ELSE IF Flushed(f)
       THEN /\ idx' = [idx EXCEPT ![q] = AfterPut(AfterGet(@, MAKE, 1), MAKE, 1)]
            /\ UNCHANGED <<ids, desc, flush, hist>>
       ELSE IF IdsLeft
       THEN Promote(q) /\ UNCHANGED <<flush, hist>>
       ELSE /\ idx' = [idx EXCEPT ![q] = AfterGet(@, MAKE, 1)]
            /\ flush' = [flush EXCEPT !.pc = "set"]
            /\ hist' = [hist EXCEPT !.starved = TRUE]
            /\ UNCHANGED <<ids, desc>>
    /\ UNCHANGED <<slot, lock, num, event, drop>>
    /\ FlushUnchanged

(* SET: a frame to be flushed has its id freed, whatever its descriptor    *)
(* says that is, and is handed back; the others are remembered.            *)
FlushSet ==
    LET q == flush.q
        s == Pick(idx[q], SET)
        f == slot[q][s]
    IN
    /\ flush.pc = "set"
    /\ IF ~ HasElt(idx[q], SET)
       THEN /\ flush' = [flush EXCEPT !.pc = "requeue"]
            /\ UNCHANGED <<idx, ids, event, drop, num, hist>>
       ELSE /\ idx' = [idx EXCEPT ![q] = AfterPut(AfterGet(@, SET, 1), SET, 1)]
            /\ IF Flushed(f)
               THEN /\ FreeId(desc[f].id)
                    /\ num' = [num EXCEPT !.done = @ + 1, !.free = @ + 1]
                    /\ hist' = [hist EXCEPT !.handled = Append(@, f)]
                    /\ UNCHANGED flush
               ELSE /\ flush' = [flush EXCEPT !.keep = Append(@, s)]
                    /\ UNCHANGED <<ids, event, drop, num, hist>>
    /\ UNCHANGED <<slot, desc, lock>>
    /\ FlushUnchanged

(* Mutant: the remembered frames are put back from the last to the first.  *)
FirstKeptLast(keep) == keep[Len(keep)]

FirstKept(keep) == Head(keep)

(* The frames of the other interfaces are filled in again, without an id.  *)
FlushRequeue ==
    LET q == flush.q IN
    /\ flush.pc = "requeue"
    /\ flush.keep # <<>>
    /\ CanGet(idx[q], GET, 1)
    /\ slot' = [slot EXCEPT ![q][Pick(idx[q], GET)] = slot[q][FirstKept(flush.keep)]]
    /\ idx' = [idx EXCEPT ![q] = AfterPut(AfterGet(@, GET, 1), GET, 1)]
    /\ flush' = [flush EXCEPT !.keep = Tail(@)]
    /\ UNCHANGED <<desc, lock, ids, num, event, drop, hist>>
    /\ FlushUnchanged

FlushNext ==
    /\ flush.pc = "requeue"
    /\ flush.keep = <<>>
    /\ IF flush.q = TopQ
       THEN /\ flush' = [flush EXCEPT !.pc = "off"]
            /\ lock' = "free"
            /\ drop' = FALSE
       ELSE /\ flush' = [flush EXCEPT !.pc = "make", !.q = @ + 1]
            /\ UNCHANGED <<lock, drop>>
    /\ UNCHANGED <<idx, slot, desc, ids, num, event, hist>>
    /\ FlushUnchanged

Flush == \/ \E v \in load.flushes : FlushBegin(v)
         \/ FlushLock \/ FlushMake \/ FlushSet \/ FlushRequeue \/ FlushNext

-----------------------------------------------------------------------------
Step == \/ \E q \in Queues : \E v \in Vids, n \in 1 .. MaxAgg : FillBegin(q, v, n)
        \/ \E q \in Queues : Fill(q)
        \/ Irq \/ Firmware \/ Txok \/ Pause \/ Flush

Next == Step /\ UNCHANGED load

Spec == Init /\ [][Next]_vars

(* A batch that was begun is finished, both threads are scheduled          *)
(* (SCHED_FIFO), and the firmware completes what it was given.             *)
FairSpec == /\ Spec
            /\ \A q \in Queues : WF_vars(Fill(q) /\ UNCHANGED load)
            /\ WF_vars(Irq /\ UNCHANGED load) /\ WF_vars(Txok /\ UNCHANGED load)
            /\ WF_vars(Firmware /\ UNCHANGED load)

-----------------------------------------------------------------------------
TypeOK ==
    /\ idx \in [Queues -> Rings]
    /\ slot \in [Queues -> [Slots -> Frames]]
    /\ desc \in [Frames -> [vid : Vids \cup {AllVids}, agg : 0 .. MaxAgg, id : Ids]]
    /\ made \in [Queues -> 0 .. MaxFrames]
    /\ sem \in Nat /\ txsem \in Nat
    /\ lock \in {"free", "irq", "flush"}
    /\ (lock = "irq") = (irq.pc \in {"turns", "drain", "full", "set"})
    /\ (lock = "flush") = (flush.pc \in {"make", "set", "requeue"})
    /\ lastq \in Queues
    /\ IdsUsed \subseteq Ids /\ \A i \in IdsUsed : ids[i] \in Frames
    /\ pages \in 0 .. PageNbr
    /\ \A k \in {"send", "done", "free"} : num[k] \in Nat
    /\ upreq \in BOOLEAN /\ drop \in BOOLEAN /\ paused \in BOOLEAN

RangeOf(s) == {s[k] : k \in DOMAIN s}

(* The entries of frames that have an id, from SET to the txok thread.     *)
InSet(q) == {slot[q][s] : s \in OwnedSlots(idx[q], SET)}
InHand == IF txok.pc = "free" THEN <<txok.entry>> ELSE <<>>
Queued == irq.scat \o chip.done \o status \o InHand

Carried == {Entry(f, desc[f].id) : f \in UNION {InSet(q) : q \in Queues}}
             \cup chip.has \cup RangeOf(Queued)

(* Every place on the way holds something else.                            *)
NothingTwice ==
    /\ \A q, r \in Queues :
         \A s \in OwnedSlots(idx[q], SET), t \in OwnedSlots(idx[r], SET) :
           slot[q][s] = slot[r][t] => q = r /\ s = t
    /\ \A j, k \in DOMAIN Queued : Queued[j] = Queued[k] => j = k
    /\ chip.has \cap RangeOf(Queued) = {}
    /\ \A q \in Queues : \A e \in chip.has \cup RangeOf(Queued) :
         e.frame \notin InSet(q)

(* An id in use is on exactly one frame between SET and the txok thread,   *)
(* the one the id table will hand back when the firmware reports that id;  *)
(* no id is lost and none is on two frames.                                *)
IdsAccounted ==
    flush.calls = 0 =>
      Carried = {Entry(ids[i], i) : i \in IdsUsed} /\ NothingTwice

(* The page credit: what is not free is with the frames that were taken    *)
(* from the rings and whose completion was not yet fetched.                *)
PagesConserved ==
    pages + FramePages * (Len(irq.scat) + Cardinality(chip.has) + Len(chip.done))
      = PageNbr

(* Until the first flush no tx id, and with flushes no page, is lost or    *)
(* counted twice.                                                          *)
ResourcesConserved == TypeOK /\ IdsAccounted /\ PagesConserved

(* hal_tx_empty, on which power save, scan and channel switch rely: when   *)
(* its three counters agree no frame is in a ring, on the bus or in the    *)
(* chip.                                                                   *)
TxEmpty == num.send = num.free /\ num.send = num.done

TxEmptyMeansIdle ==
    TxEmpty => /\ \A q \in Queues : ~ Waits(q) /\ ~ HasElt(idx[q], SET)
               /\ irq.scat = <<>> /\ chip.has = {} /\ chip.done = <<>>

(* The transmitter's accounts: nothing is lost, and idle is idle.          *)
AccountsHonest == ResourcesConserved /\ TxEmptyMeansIdle

(* A queue's frames leave the ring in the order drv_to_hal filled them and *)
(* in whole aggregates, although the irq thread may see the first frames   *)
(* of an aggregate before the last is filled.                              *)
WholeAggregates(q) ==
    LET all == Len(hist.down[q])
    IN  \E ends \in SUBSET (0 .. all) :
          /\ {0, all} \subseteq ends
          /\ \A e \in ends \ {all} :
               LET agg == desc[[q |-> q, n |-> e + 1]].agg
               IN  agg > 0 /\ e + agg \in ends

DownloadsInOrder ==
    \A q \in Queues :
      /\ \A k \in DOMAIN hist.down[q] : hist.down[q][k] = [q |-> q, n |-> k]
      /\ WholeAggregates(q)

(* A frame is handed back once, and only when it is nowhere in the         *)
(* pipeline any more.                                                      *)
HandedBackOnce ==
    /\ \A j, k \in DOMAIN hist.handled :
         hist.handled[j] = hist.handled[k] => j = k
    /\ \A q \in Queues : \A s \in OwnedSlots(idx[q], MAKE) :
         slot[q][s] \notin RangeOf(hist.handled)
    /\ {e.frame : e \in Carried} \cap RangeOf(hist.handled) = {}

(* A frame goes to the chip once and in turn, and comes back once.         *)
OnceAndInOrder == DownloadsInOrder /\ HandedBackOnce

(* Every frame given to the HAL is handed back (all of them, as a run has  *)
(* finitely many), unless the up that should follow an exhausted id table  *)
(* was asked for after the txok thread had looked for the request, with    *)
(* nothing left that wakes either thread.                                  *)
AllHandedBack == \A f \in Frames :
                    f.n <= made[f.q] => f \in RangeOf(hist.handled)

EveryFrameHandedBack == []<>(AllHandedBack \/ hist.missed)

(* Not a property of the code: "Saving txdesc which are sent to hal layer. *)
(* And will be freed when txcomplete" (drv_to_hal), so that no completion  *)
(* the firmware reports is dropped.  TLC refutes it after a flush.         *)
NoCompletionLost == hist.lost = {}

(* With a flush: as long as drv_to_hal does not fill a frame while one is  *)
(* going on, and no flush leaves MAKE for want of an id ("how to handle    *)
(* this situation", wifi_hal.c:1779), the frames of each interface that    *)
(* are downloaded are in the order they were filled, none of them twice.   *)
KeptInOrder ==
    ~ hist.mixed /\ ~ hist.starved =>
      \A q \in Queues : \A j, k \in DOMAIN hist.down[q] :
        (j < k /\ desc[hist.down[q][j]].vid = desc[hist.down[q][k]].vid)
          => hist.down[q][j].n < hist.down[q][k].n
=============================================================================
