------------------------------ MODULE RxReorder ------------------------------
(***************************************************************************)
(* The receive reorder buffer of one TID under a Block Ack agreement       *)
(* (wifi_drv_recv.c).  Frames arrive with a sequence number modulo SeqMax, *)
(* are held until the ones before them have come, and go up in order.  A   *)
(* gap is given up when the window moves past it, when a BlockAckReq says  *)
(* so, or when the frames behind it have waited DRV_RX_TIMEOUT: the timer's*)
(* handler queues a work item (module WorkFifo), the work thread releases. *)
(*                                                                         *)
(* Every operation holds the TID's lock and is one step.  Only the timer's *)
(* handler does not: it queues the work item, and clears active_flag in a  *)
(* later step (os_timer_ex_handler).                                       *)
(*                                                                         *)
(* The properties need the number a frame really has: "real" numbers count *)
(* frames without wrapping, and the code sees them modulo SeqMax.          *)
(***************************************************************************)
EXTENDS Integers, Sequences, FiniteSets, FiniteSetsExt

CONSTANTS Win,      \* baw_size (WME_MAX_BA, 64)
          Bufs,     \* DRV_TID_MAX_BUFS (128), a power of two
          SeqMax,   \* WIFINET_SEQ_MAX (4096)
          FirstReal, \* the peer's first number
          MaxReal,  \* bound: highest real number sent in a run of the model
          MaxWork,  \* bound: sort work items waiting at once
          Overflow  \* whether the work fifo may drop a sort work item

ASSUME WinAssumption    == Win \in Nat \ {0}
ASSUME BufsAssumption   == Bufs \in Nat /\ Bufs > Win
ASSUME SeqMaxAssumption == SeqMax \in Nat /\ SeqMax > 8 * Win /\ SeqMax % Bufs = 0
ASSUME BoundAssumption  == FirstReal \in Nat \ {0} /\ MaxReal \in Nat
                           /\ MaxWork \in Nat \ {0} /\ Overflow \in BOOLEAN

Slots == 0 .. Bufs - 1
Empty == 0              \* rx_wbuf = NULL; real numbers start at 1

VARIABLES
    exch,      \* rx_addba_exchangecomplete
    desc,      \* pRxDesc # NULL
    reset,     \* seq_reset
    win,       \* [head, tail, seq, real, buf]: baw_head, baw_tail, seq_next,
               \* the real number of seq_next, and per slot the frame held
    aged,      \* slots whose frame has waited DRV_RX_TIMEOUT or more
    timer,     \* [armed, active, cancel]: pending in the kernel, and the flags
    handler,   \* the timer's handler has queued its work and not yet returned
    work,      \* sort work items waiting in the work fifo
    txStart,   \* environment: lowest number the peer may still (re)send
    last,      \* history: last frame sent up in this agreement, 0 for none
    inOrder,   \* history: all frames sent up followed the one before
    tooNew     \* history: a frame not yet passed by was dropped as old

winVars == <<exch, desc, reset, win, aged>>
timerVars == <<timer, handler, work>>
history == <<last, inOrder, tooNew>>
vars == <<winVars, timerVars, txStart, history>>

-----------------------------------------------------------------------------
(* The window record.                                                      *)

SlotAt(w, i) == (w.head + i) % Bufs

At(w, i) == w.buf[SlotAt(w, i)]

(* (baw_tail - baw_head) & (DRV_TID_MAX_BUFS - 1)                          *)
Gap(w) == (w.tail - w.head) % Bufs

Dist(w, s) == (s - w.head) % Bufs

(* DRV_BA_INDEX                                                            *)
BAIndex(w, seq) == (seq - w.seq) % SeqMax

(* What the first k positions hold, oldest first, holes included.  Past    *)
(* one round the slots have been emptied.                                  *)
FramesIn(w, k) == [i \in 1 .. Min({k, Bufs}) |-> At(w, i - 1)]

(* The places of such a list where there is a frame.                       *)
Held(frames) == {i \in DOMAIN frames : frames[i] # Empty}

(* Take the first k positions out of the window.                           *)
Advance(w, k) ==
    [w EXCEPT !.head = (@ + k) % Bufs,
              !.seq  = (@ + k) % SeqMax,
              !.real = @ + k,
              !.buf = [s \in Slots |-> IF Dist(w, s) < k THEN Empty ELSE @[s]]]

(* How many positions from head on are filled without a hole before tail.  *)
Filled(w) ==
    Min({k \in 0 .. Gap(w) : k = Gap(w) \/ At(w, k) = Empty})

(* Put frame n at position i; the tail moves only if i is at or past it.   *)
Store(w, i, n) ==
    [w EXCEPT !.buf[SlotAt(w, i)] = n,
              !.tail = IF i >= Gap(w) THEN SlotAt(w, i + 1) ELSE @]

(* Each frame follows those sent up before it.                            *)
FollowOn(frames) ==
    \A i \in Held(frames) :
        /\ frames[i] > last
        /\ \A j \in Held(frames) : j < i => frames[j] < frames[i]

(* wifi_mac_input of the frames, in this order.                            *)
SendUp(frames) ==
    /\ last' = IF Held(frames) = {} THEN last ELSE frames[Max(Held(frames))]
    /\ inOrder' = (inOrder /\ FollowOn(frames))

(* The window becomes w; a frame that stays where it was keeps its age.    *)
SetWindow(w) ==
    /\ win' = w
    /\ aged' = {s \in aged : w.buf[s] = win.buf[s]}

-----------------------------------------------------------------------------
(* wifi_drv_timer.c, as far as this timer uses it.                         *)

Started == [armed |-> TRUE, active |-> TRUE, cancel |-> FALSE]

(* os_timer_ex_cancel: an inactive timer is only marked.                   *)
Cancelled == IF timer.active
             THEN [armed |-> FALSE, active |-> FALSE, cancel |-> TRUE]
             ELSE [timer EXCEPT !.cancel = TRUE]

(* Cancelling an active timer spins until its handler has returned.        *)
CanCancel == timer.active => ~ handler

(* The handler of a fired timer: drv_rx_sort_timer queues the work item.   *)
TimerFire ==
    /\ timer.armed /\ ~ handler
    /\ timer' = [timer EXCEPT !.armed = FALSE]
    /\ IF timer.cancel
       THEN UNCHANGED <<handler, work>>
       ELSE /\ handler' = TRUE
            /\ \/ work < MaxWork /\ work' = work + 1
               \/ Overflow /\ UNCHANGED work
    /\ UNCHANGED <<winVars, txStart, history>>

HandlerReturn ==
    /\ handler
    /\ handler' = FALSE
    /\ timer' = [timer EXCEPT !.active = FALSE]
    /\ UNCHANGED <<work, winVars, txStart, history>>

-----------------------------------------------------------------------------
Init ==
    /\ exch = FALSE
    /\ desc = FALSE
    /\ reset = TRUE
    /\ win = [head |-> 0, tail |-> 0, seq |-> 0, real |-> 0,
              buf |-> [s \in Slots |-> Empty]]
    /\ aged = {}
    /\ timer = [armed |-> FALSE, active |-> FALSE, cancel |-> FALSE]
    /\ handler = FALSE
    /\ work = 0
    /\ txStart = FirstReal
    /\ last = 0
    /\ inOrder = TRUE
    /\ tooNew = FALSE

(* drv_rx_flush_tid: the whole run from head to tail.                      *)
Flushed == Advance(win, Gap(win))

(* drv_rx_addbareq, accepted.  (A refusal changes only the answer.)  The   *)
(* peer names the lowest number it will still send; a new agreement may    *)
(* carry frames the old one carried too.                                   *)
AddbaReq ==
    /\ exch => CanCancel
    /\ LET w == IF exch /\ desc THEN Flushed ELSE win IN
          SetWindow([w EXCEPT !.seq = txStart % SeqMax, !.real = txStart])
    /\ inOrder' = (inOrder /\ (exch => FollowOn(FramesIn(win, Gap(win)))))
    /\ timer' = IF exch THEN Cancelled ELSE timer
    /\ \E allocated \in (IF desc THEN {TRUE} ELSE BOOLEAN) :
          /\ desc' = allocated
          /\ exch' = allocated
    /\ last' = 0
    /\ UNCHANGED <<reset, handler, work, txStart, tooNew>>

(* drv_rx_input of a QoS data frame under an agreement, real number n.     *)
(* The first frame ever sets seq_next, whatever the agreement named.       *)
FirstSets(n) ==
    IF reset THEN [win EXCEPT !.seq = n % SeqMax, !.real = n] ELSE win

(* Mutant: no frame is too old.                                            *)
TooOldNever(index) == index > SeqMax

TooOld(index) == index > SeqMax - 4 * Win

RxOld(n) ==
    /\ exch
    /\ LET w == FirstSets(n) IN
         /\ TooOld(BAIndex(w, n % SeqMax))
         /\ SetWindow(w)
         /\ tooNew' = (tooNew \/ n >= w.real)
    /\ reset' = FALSE
    /\ UNCHANGED <<exch, desc, timerVars, txStart, last, inOrder>>

(* How far a frame at this index pushes the window.                        *)
Push(index) == IF index >= Win THEN index - Win + 1 ELSE 0

(* The slot is taken: a duplicate.                                         *)
RxDuplicate(n) ==
    /\ exch
    /\ LET w     == FirstSets(n)
           index == BAIndex(w, n % SeqMax)
           moved == Advance(w, Push(index))
       IN /\ ~ TooOld(index)
          /\ At(moved, index - Push(index)) # Empty
          /\ SetWindow(moved)
          /\ SendUp(FramesIn(w, Push(index)))
    /\ reset' = FALSE
    /\ UNCHANGED <<exch, desc, timerVars, txStart, tooNew>>

RxStore(n) ==
    /\ exch
    /\ LET w      == FirstSets(n)
           index  == BAIndex(w, n % SeqMax)
           moved  == Advance(w, Push(index))
           stored == Store(moved, index - Push(index), n)
           after  == Advance(stored, Filled(stored))
       IN /\ ~ TooOld(index)
          /\ At(moved, index - Push(index)) = Empty
          /\ SetWindow(after)
          /\ SendUp(FramesIn(w, Push(index)) \o FramesIn(stored, Filled(stored)))
          /\ \/ /\ after.head # after.tail
                /\ timer' = IF timer.active THEN timer ELSE Started
             \/ /\ after.head = after.tail
                /\ CanCancel
                /\ timer' = Cancelled
    /\ reset' = FALSE
    /\ UNCHANGED <<exch, desc, handler, work, txStart, tooNew>>

(* The peer sends, or sends again, a frame of its window.                  *)
Receive ==
    \E n \in txStart .. Min({txStart + Win - 1, MaxReal}) :
        RxOld(n) \/ RxDuplicate(n) \/ RxStore(n)

(* drv_rx_bar: everything before the number goes up, and what follows it   *)
(* without a hole.  A BAR that is too old changes nothing.                 *)
Bar ==
    /\ LET index == BAIndex(win, txStart % SeqMax)
           k     == Min({Gap(win), index % Bufs})
           moved == Advance(win, k)
       IN /\ ~ (index > Win /\ TooOld(index))
          /\ SetWindow(Advance(moved, Filled(moved)))
          /\ SendUp(FramesIn(win, k) \o FramesIn(moved, Filled(moved)))
    /\ UNCHANGED <<exch, desc, reset, timerVars, txStart, tooNew>>

(* The first position whose frame has not waited long enough.              *)
FirstFresh(w) ==
    Min({i \in 0 .. Gap(w) :
            i = Gap(w) \/ (At(w, i) # Empty /\ SlotAt(w, i) \notin aged)})

(* Positions up to the last frame that has.                                *)
Expired(w) ==
    Max({0} \cup {i + 1 : i \in {j \in 0 .. FirstFresh(w) - 1 : At(w, j) # Empty}})

(* Mutant: the holes before a frame that is released are not counted.      *)
SortTimerNoSkip ==
    /\ work > 0
    /\ work' = work - 1
    /\ LET k == Expired(win)
           w == Advance(win, k)
       IN /\ SetWindow([w EXCEPT !.seq = (win.seq + Cardinality(Held(FramesIn(win, k)))) % SeqMax])
          /\ SendUp(FramesIn(win, k))
          /\ timer' = IF w.head # w.tail THEN Started ELSE timer
    /\ UNCHANGED <<exch, desc, reset, handler, txStart, tooNew>>

(* drv_rx_sort_timer_ex, on the work thread, some time after the timer.    *)
SortTimer ==
    /\ work > 0
    /\ work' = work - 1
    /\ LET k == Expired(win)
           w == Advance(win, k)
       IN /\ SetWindow(w)
          /\ SendUp(FramesIn(win, k))
          /\ timer' = IF w.head # w.tail THEN Started ELSE timer
    /\ UNCHANGED <<exch, desc, reset, handler, txStart, tooNew>>

(* drv_rxampdu_del: DELBA, or the station's entry used again.              *)
Delete ==
    /\ exch
    /\ CanCancel
    /\ timer' = Cancelled
    /\ SetWindow(Flushed)
    /\ SendUp(FramesIn(win, Gap(win)))
    /\ exch' = FALSE
    /\ desc' = FALSE
    /\ UNCHANGED <<reset, handler, work, txStart, tooNew>>

(* drv_rx_nsta_clean: the station goes, its frames are dropped.            *)
Clean ==
    /\ exch
    /\ CanCancel
    /\ timer' = IF timer.active THEN Cancelled ELSE timer
    /\ SetWindow(Flushed)
    /\ exch' = FALSE
    /\ desc' = FALSE
    /\ UNCHANGED <<reset, handler, work, txStart, history>>

(* The peer gives up, or has confirmed, its oldest frame.  It never gets   *)
(* so far ahead that a frame of its window looks old to the receiver.      *)
PeerMoves ==
    /\ txStart < MaxReal
    /\ exch => txStart + Win - win.real <= SeqMax - 4 * Win
    /\ txStart' = txStart + 1
    /\ UNCHANGED <<winVars, timerVars, history>>

(* DRV_RX_TIMEOUT passes for the frames held.                              *)
Age ==
    /\ aged' = {s \in Slots : win.buf[s] # Empty}
    /\ aged' # aged
    /\ UNCHANGED <<exch, desc, reset, win, timerVars, txStart, history>>

Next == \/ AddbaReq \/ Receive \/ Bar \/ SortTimer \/ Delete \/ Clean
        \/ TimerFire \/ HandlerReturn \/ PeerMoves \/ Age

Spec == Init /\ [][Next]_vars

(* Time passes, armed timers fire, the handler returns, the work thread    *)
(* runs what is queued.  Nothing obliges the peer to send.                 *)
FairSpec == /\ Spec
            /\ WF_vars(Age) /\ WF_vars(TimerFire) /\ WF_vars(HandlerReturn)
            /\ WF_vars(SortTimer)

-----------------------------------------------------------------------------
TypeOK ==
    /\ exch \in BOOLEAN /\ desc \in BOOLEAN /\ reset \in BOOLEAN
    /\ win \in [head : Slots, tail : Slots, seq : 0 .. SeqMax - 1, real : Nat,
                buf : [Slots -> Nat]]
    /\ aged \subseteq Slots
    /\ timer \in [armed : BOOLEAN, active : BOOLEAN, cancel : BOOLEAN]
    /\ handler \in BOOLEAN
    /\ work \in 0 .. MaxWork
    /\ txStart \in Nat
    /\ last \in Nat /\ inOrder \in BOOLEAN /\ tooNew \in BOOLEAN

(* The slots mirror the sequence space: a frame held at distance d from    *)
(* head is the frame with number seq_next + d, it lies between head and    *)
(* tail, and it lies inside the Block Ack window.  This is what makes a    *)
(* taken slot a duplicate and a flush complete (the ASSERT of              *)
(* drv_rx_nsta_clean), whatever mix of gaps, jumps and wraps came before.  *)
WindowMirrorsSequence ==
    /\ exch => win.seq = win.real % SeqMax
    /\ \A s \in Slots : win.buf[s] # Empty =>
          /\ Dist(win, s) < Gap(win)
          /\ Dist(win, s) < Win
          /\ win.buf[s] = win.real + Dist(win, s)

(* What goes up to the MAC layer under one agreement goes up in the order  *)
(* it was sent, and nothing goes up twice, across timeouts, BARs, jumps of *)
(* the window and the wrap of the sequence number.                         *)
UploadsInOrder == inOrder

(* A frame is taken for old only if the window has passed it.              *)
OnlyPassedIsOld == ~ tooNew

(* Nothing goes up late or twice, and nothing is dropped as such too soon. *)
OrderKept == UploadsInOrder /\ OnlyPassedIsOld

(* The buffer exists whenever a frame may be put in or looked for, also    *)
(* for a work item that runs after the agreement has been deleted.         *)
BufferBehindWindow == (exch \/ win.head # win.tail) => desc

(* If frames wait and nothing is under way to release them, the next frame *)
(* stored restarts the timer: active_flag never claims a timer that is not *)
(* there, except while the handler that will clear it is still running.    *)
ActiveFlagHonest ==
    (exch /\ timer.active) => (timer.armed /\ ~ timer.cancel) \/ handler

(* The buffer is sound: it is there when it is needed, its slots are the    *)
(* window of sequence numbers, and its timer's flag can be believed.       *)
ReorderSound == /\ TypeOK /\ WindowMirrorsSequence
                /\ BufferBehindWindow /\ ActiveFlagHonest

(* Not a property of the code: the comment of drv_rx_sort_timer_ex says    *)
(* that a frame that may not go up yet waits for a set timer and goes up   *)
(* in the next time period, and TLC refutes it under FairSpec.             *)
HeldGoesUp ==
    \A n \in FirstReal .. MaxReal :
        (\E s \in Slots : win.buf[s] = n) ~> ~ (\E s \in Slots : win.buf[s] = n)
=============================================================================
