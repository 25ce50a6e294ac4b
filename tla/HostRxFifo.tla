----------------------------- MODULE HostRxFifo -----------------------------
(***************************************************************************)
(* The host's receive byte ring.  The firmware puts frames one after the   *)
(* other into the receive ring of the chip and raises RX_OK; the interrupt *)
(* thread reads all that is there over SDIO into the host's ring, in whole *)
(* blocks, and wakes the receive thread, which copies frame after frame    *)
(* out.  Only the interrupt thread writes FDT, only the receive thread     *)
(* writes FDH, and no lock protects either.                                *)
(*                                                                         *)
(* Memory is counted in cells: a frame is a header cell, which holds its   *)
(* length, and at least one cell of data.  A suspend refuses the accesses  *)
(* to the chip; the resume takes the read position from the firmware.      *)
(***************************************************************************)
EXTENDS Naturals, Sequences

CONSTANTS
    FDN,          \* cells of the host's ring (RX_FIFO_SIZE)
    Sram,         \* cells of the chip's ring (rxmax_offset)
    Block,        \* cells of an SDIO block (FUNC6_BLKSIZE)
    Once,         \* READ_LEN_PER_ONCE
    Bufferable,   \* READ_BUFFERABLE_LEN
    Lengths,      \* lengths of a frame, its header cell included
    MaxFrames,    \* frames the firmware sends in a behaviour
    MaxSuspends,  \* suspends in a behaviour
    MaxNoMemory   \* failed allocations in a behaviour

VARIABLES
    sram,     \* the chip's ring
    wr,       \* where the firmware writes next
    rd,       \* the chip's read position, which SDIO reads advance
    rxok,     \* RX_OK is raised
    off,      \* rx_host_offset
    fifo,     \* the host's ring and the slack of blocks behind it
    FDT, FDH, \* rx_fifo.FDT and rx_fifo.FDH
    irq,      \* the interrupt thread in hi_soft_rx_irq
    rx,       \* hal_rx_thread
    semRx,    \* the count of rx_thread_sem
    suspend,  \* "no", "yes" (drv_suspend_cnt is 1), "resuming" (0 again)
    ghost     \* history, see Init

chipVars == <<sram, wr, rd, rxok>>
hostVars == <<fifo, FDT, FDH>>
vars == <<chipVars, off, hostVars, irq, rx, semRx, suspend, ghost>>

Slack == 2 * Block
Cells == [id : 0 .. MaxFrames, part : Nat, len : Nat]
NoCell == [id |-> 0, part |-> 0, len |-> 0]

IrqIdle == [pc |-> "idle", total |-> 0, remain |-> 0, fdt |-> 0, first |-> TRUE,
            read |-> FALSE, refused |-> FALSE]
RxIdle == [pc |-> "down", fdh |-> 0, fdt |-> 0]

Init == /\ sram = [i \in 0 .. Sram - 1 |-> NoCell]
        /\ wr = 0 /\ rd = 0 /\ rxok = FALSE
        /\ off = 0
        /\ fifo = [i \in 0 .. FDN + Slack - 1 |-> NoCell]
        /\ FDT = 0 /\ FDH = 0
        /\ irq = IrqIdle
        /\ rx = RxIdle
        /\ semRx = 0
        /\ suspend = "no"
        /\ ghost = [frames   |-> 0,     \* frames the firmware has sent
                    suspends |-> 0, noMemory |-> 0,
                    sent     |-> <<>>,  \* cells on the chip
                    due      |-> <<>>,  \* cells in the host's ring
                    whole    |-> TRUE,  \* all frames handed up were the ones due
                    starved  |-> FALSE, \* no memory for the frame at FDH
                    unsynced |-> FALSE, \* off is past cells that were refused
                    sure     |-> TRUE]  \* none of the exceptions of Commit

\* CIRCLE_Subtract2, with l for equal positions, and CIRCLE_Addition2.
Distance(a, b, l) == IF a > b THEN a - b ELSE l + a - b
Advance(a, n, l) == IF a + n < l THEN a + n ELSE a + n - l
Aligned(n) == ((n + Block - 1) \div Block) * Block
Lesser(a, b) == IF a < b THEN a ELSE b
First(n, s) == SubSeq(s, 1, Lesser(n, Len(s)))

-----------------------------------------------------------------------------
(* The firmware: it keeps one cell free, and sends n cells.  Bounds: a few *)
(* frames, and none after one of the exceptions of Commit.                 *)
Frame(id, n) == [k \in 1 .. n |-> [id |-> id, part |-> k, len |-> n]]

FwSend(n) ==
    /\ ghost.frames < MaxFrames /\ ghost.sure
    /\ ((wr + Sram - rd) % Sram) + n < Sram
    /\ LET f == Frame(ghost.frames + 1, n)
           at(i) == ((i + Sram - wr) % Sram) + 1 IN
         /\ sram' = [i \in DOMAIN sram |-> IF at(i) <= n THEN f[at(i)] ELSE sram[i]]
         /\ ghost' = [ghost EXCEPT !.frames = @ + 1, !.sent = @ \o f]
    /\ wr' = (wr + n) % Sram
    /\ rxok' = TRUE
    /\ UNCHANGED <<rd, off, hostVars, irq, rx, semRx, suspend>>

-----------------------------------------------------------------------------
(* The interrupt thread.                                                   *)

(* A suspended driver does not look at the interrupt, and an awake one     *)
(* does nothing when it has read up to the firmware's position.            *)
IrqNothing ==
    /\ irq.pc = "idle" /\ rxok
    /\ suspend = "yes" \/ off = wr
    /\ rxok' = FALSE
    /\ UNCHANGED <<sram, wr, rd, off, hostVars, irq, rx, semRx, suspend, ghost>>

Empty == Distance(FDH, FDT, FDN)

\* Mutant: no room is kept for the end of the last block.
FullTight(total) == Empty <= total

\* The last block that is read may reach past the cells asked for.
Full(total) == Empty <= total + Block

(* Without room the thread only wakes the receive thread: what is on the   *)
(* chip stays there until the next RX_OK.                                  *)
IrqFull ==
    /\ irq.pc = "idle" /\ rxok /\ suspend # "yes"
    /\ off # wr
    /\ Full(Distance(wr, off, Sram))
    /\ rxok' = FALSE
    /\ semRx' = semRx + 1
    /\ UNCHANGED <<sram, wr, rd, off, hostVars, irq, rx, suspend, ghost>>

IrqStart ==
    /\ irq.pc = "idle" /\ rxok /\ suspend # "yes"
    /\ off # wr
    /\ LET total == Distance(wr, off, Sram) IN
         /\ ~ Full(total)
         /\ irq' = [IrqIdle EXCEPT !.pc = "read", !.total = total,
                                   !.remain = total, !.fdt = FDT]
    /\ rxok' = FALSE
    /\ ghost' = [ghost EXCEPT !.sure = @ /\ ~ ghost.unsynced]
    /\ UNCHANGED <<sram, wr, rd, off, hostVars, rx, semRx, suspend>>

\* A turn asks for at most Once cells, and stops at the end of the ring.
AtEnd == FDN - irq.fdt
Wanted == IF irq.remain > Once + Bufferable THEN Once ELSE irq.remain
AskedFor == Lesser(Wanted, AtEnd)

\* What host_wrapper_len is before the minimum with what remains: the cells
\* of the last block that fell behind the end of the ring; otherwise zero, but
\* in the first turn the variable has not been initialised.
Wrapped == IF Wanted >= AtEnd THEN {Aligned(AtEnd) - AtEnd}
           ELSE IF irq.first THEN {0, 1, FDN}
           ELSE {0}

\* The memcpy from FDB + FDN to FDB.
Moved(ring, w) == [i \in DOMAIN ring |->
                     IF i < w /\ FDN + i \in DOMAIN ring THEN ring[FDN + i]
                     ELSE ring[i]]

(* One turn of the loop: a read of whole blocks, then the copy.  The chip  *)
(* refuses it while the driver is suspended, which nobody notices.         *)
Read ==
    /\ irq.pc = "read"
    /\ \E w0 \in Wrapped :
         LET w    == Lesser(w0, irq.remain - AskedFor)
             n    == AskedFor + w
             ok   == suspend # "yes"
             into == irq.fdt .. irq.fdt + Aligned(AskedFor) - 1
             got  == [i \in DOMAIN fifo |->
                        IF ok /\ i \in into THEN sram[(off + i - irq.fdt) % Sram]
                        ELSE fifo[i]]
         IN /\ fifo' = Moved(got, w)
            /\ off' = Advance(off, n, Sram)
            /\ rd' = IF ok THEN Advance(rd, n, Sram) ELSE rd
            /\ irq' = [irq EXCEPT !.pc = IF irq.remain = n THEN "commit" ELSE "read",
                                  !.remain = @ - n,
                                  !.fdt = Advance(@, n, FDN),
                                  !.first = FALSE,
                                  !.read = @ \/ ok,
                                  !.refused = @ \/ ~ ok]
            /\ ghost' = [ghost EXCEPT !.sure = @ /\ (w > 0 => Wanted >= AtEnd)]
    /\ UNCHANGED <<sram, wr, rxok, FDT, FDH, rx, semRx, suspend>>

(* The cells become the receive thread's, unless the driver is suspended   *)
(* by now.  What may go wrong is noted in "sure": a length that was not    *)
(* initialised has moved cells (Read), cells that were refused are taken   *)
(* as read, part was read and part refused, or the next read begins before *)
(* the resume has corrected the position (IrqStart).                       *)
Commit ==
    /\ irq.pc = "commit"
    /\ irq' = [irq EXCEPT !.pc = "wake"]
    /\ FDT' = IF suspend # "yes" THEN Advance(FDT, irq.total, FDN) ELSE FDT
    /\ LET sent == SubSeq(ghost.sent, irq.total + 1, Len(ghost.sent)) IN
         ghost' =
           IF suspend # "yes"
           THEN [ghost EXCEPT !.due = @ \o First(irq.total, ghost.sent),
                              !.sent = sent,
                              !.sure = @ /\ ~ irq.refused]
           ELSE [ghost EXCEPT !.sent = IF irq.refused THEN @ ELSE sent,
                              !.unsynced = @ \/ irq.refused,
                              !.sure = @ /\ ~ (irq.read /\ irq.refused)]
    /\ UNCHANGED <<chipVars, off, fifo, FDH, rx, semRx, suspend>>

\* Mutant: the receive thread is not woken.
WakeNot ==
    /\ irq.pc = "wake"
    /\ irq' = IrqIdle
    /\ UNCHANGED <<chipVars, off, hostVars, rx, semRx, suspend, ghost>>

Wake ==
    /\ irq.pc = "wake"
    /\ irq' = IrqIdle
    /\ semRx' = semRx + 1
    /\ UNCHANGED <<chipVars, off, hostVars, rx, suspend, ghost>>

Irq == IrqNothing \/ IrqFull \/ IrqStart \/ Read \/ Commit \/ Wake

-----------------------------------------------------------------------------
(* The receive thread.  It works on copies of FDH and FDT.                 *)

RxDown ==
    /\ rx.pc = "down" /\ semRx > 0
    /\ semRx' = semRx - 1
    /\ rx' = [pc |-> "frames", fdh |-> FDH, fdt |-> FDT]
    /\ ghost' = [ghost EXCEPT !.starved = FALSE]
    /\ UNCHANGED <<chipVars, off, hostVars, irq, suspend>>

\* The length in the header: of cells that are no header it may be anything.
LengthsAt(i) == IF fifo[i].part = 1 THEN {fifo[i].len} ELSE {1} \cup Lengths

Present == Distance(rx.fdt, rx.fdh, FDN)
Plausible(n) == n # 1 /\ n - 1 <= Present

\* The cells of a frame of n cells, of which some may be at the ring's start.
Copied(n) == [k \in 1 .. n |-> fifo[Advance(rx.fdh, k - 1, FDN)]]

\* A frame leaves the ring: it should be the one that is due.
Passed(n) ==
    [ghost EXCEPT !.due = SubSeq(@, n + 1, Len(@)),
                  !.whole = @ /\ Copied(n) = First(n, ghost.due)
                              /\ \A k \in 1 .. n : /\ Copied(n)[k].part = k
                                                   /\ Copied(n)[k].len = n]

(* A frame is handed up, or skipped if the firmware meant it for itself    *)
(* (upload2host_flag).                                                     *)
RxFrame ==
    /\ rx.pc = "frames" /\ rx.fdh # rx.fdt
    /\ \E n \in LengthsAt(rx.fdh) :
         /\ Plausible(n)
         /\ rx' = [rx EXCEPT !.fdh = Advance(@, n, FDN)]
         /\ ghost' = Passed(n)
    /\ UNCHANGED <<chipVars, off, hostVars, irq, semRx, suspend>>

(* A length that cannot be: everything is thrown away.                     *)
RxDiscard ==
    /\ rx.pc = "frames" /\ rx.fdh # rx.fdt
    /\ \E n \in LengthsAt(rx.fdh) : ~ Plausible(n)
    /\ rx' = [rx EXCEPT !.fdh = rx.fdt]
    /\ ghost' = [ghost EXCEPT !.due = SubSeq(@, Present + 1, Len(@)),
                              !.whole = FALSE]
    /\ UNCHANGED <<chipVars, off, hostVars, irq, semRx, suspend>>

(* No memory: the frame and those behind it wait for the next wakeup.      *)
RxNoMemory ==
    /\ rx.pc = "frames" /\ rx.fdh # rx.fdt
    /\ ghost.noMemory < MaxNoMemory
    /\ \E n \in LengthsAt(rx.fdh) : Plausible(n)
    /\ rx' = [rx EXCEPT !.pc = "publish"]
    /\ ghost' = [ghost EXCEPT !.starved = TRUE, !.noMemory = @ + 1]
    /\ UNCHANGED <<chipVars, off, hostVars, irq, semRx, suspend>>

RxEnd ==
    /\ rx.pc = "frames" /\ rx.fdh = rx.fdt
    /\ rx' = [rx EXCEPT !.pc = "publish"]
    /\ UNCHANGED <<chipVars, off, hostVars, irq, semRx, suspend, ghost>>

RxPublish ==
    /\ rx.pc = "publish"
    /\ FDH' = rx.fdh
    /\ rx' = RxIdle
    /\ UNCHANGED <<chipVars, off, fifo, FDT, irq, semRx, suspend, ghost>>

Rx == RxDown \/ RxFrame \/ RxDiscard \/ RxNoMemory \/ RxEnd \/ RxPublish

-----------------------------------------------------------------------------
(* Suspend and resume, at any time: the resume clears drv_suspend_cnt and  *)
(* then asks the firmware for the read position.                           *)
Suspend ==
    /\ suspend = "no" /\ ghost.suspends < MaxSuspends /\ ghost.sure
    /\ suspend' = "yes"
    /\ ghost' = [ghost EXCEPT !.suspends = @ + 1]
    /\ UNCHANGED <<chipVars, off, hostVars, irq, rx, semRx>>

Resume ==
    /\ suspend = "yes"
    /\ suspend' = "resuming"
    /\ UNCHANGED <<chipVars, off, hostVars, irq, rx, semRx, ghost>>

(* The position is set whether the interrupt thread is reading or not.     *)
Sync ==
    /\ suspend = "resuming"
    /\ suspend' = "no"
    /\ off' = rd
    /\ ghost' = [ghost EXCEPT !.unsynced = FALSE]
    /\ UNCHANGED <<chipVars, hostVars, irq, rx, semRx>>

Next == \/ \E n \in Lengths : FwSend(n)
        \/ Irq
        \/ Rx
        \/ Suspend \/ Resume \/ Sync

Spec == Init /\ [][Next]_vars

(* Both threads are real-time threads of the host.                         *)
FairSpec == Spec /\ WF_vars(Irq) /\ WF_vars(Rx)

-----------------------------------------------------------------------------
TypeOK ==
    /\ wr \in DOMAIN sram /\ rd \in DOMAIN sram /\ off \in DOMAIN sram
    /\ FDT \in 0 .. FDN - 1 /\ FDH \in 0 .. FDN - 1
    /\ irq.pc \in {"idle", "read", "commit", "wake"}
    /\ irq.remain \in 0 .. irq.total /\ irq.fdt \in 0 .. FDN - 1
    /\ rx.pc \in {"down", "frames", "publish"}

(* What the receive thread has still to read: the cells from where it is   *)
(* up to FDT.                                                              *)
Front == IF rx.pc = "down" THEN FDH ELSE rx.fdh
InRing == [k \in 1 .. (FDT + FDN - Front) % FDN |->
              fifo[Advance(Front, k - 1, FDN)]]

(* The ring holds exactly the cells the firmware sent and that were        *)
(* committed, in their order, whatever the interrupt thread is writing     *)
(* meanwhile and wherever blocks and frames fall on the end of the ring;   *)
(* and each frame taken out is one whole frame, the next one.              *)
RxFifoSound == /\ TypeOK
               /\ ghost.sure => InRing = ghost.due /\ ghost.whole

(* What has been committed is taken out, unless there was no memory for it.*)
CommittedGoesUp == FDH # FDT ~> (FDH = FDT \/ ghost.starved \/ ~ ghost.sure)
=============================================================================
