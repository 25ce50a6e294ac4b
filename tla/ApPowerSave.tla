----------------------------- MODULE ApPowerSave -----------------------------
(***************************************************************************)
(* An AP and one of its stations that saves power (wifi_mac_power.c,       *)
(* wifi_drv_uapsd.c).  For a dozing station the AP holds frames back: on   *)
(* sta_pstxqueue, to be fetched by PS-Poll, or, under U-APSD, on the       *)
(* driver's queue, to be fetched by a trigger that opens a service period. *)
(* The station's bit of the TIM says that there is something to fetch.     *)
(* Multicast frames wait for the beacon while any station dozes.           *)
(*                                                                         *)
(* Four contexts meet here without a common lock: senders, the receive     *)
(* thread (rx), completions (txok) and the timer that ages frames (ager).  *)
(* What one reads, unlocks and uses later is two steps.  sta_flags is a    *)
(* word that rx and txok both read, change and write back: the read and    *)
(* the write are two steps.  A frame that is not held is given to the HAL  *)
(* and leaves the model, except on the rings of U-APSD and multicast,      *)
(* whose completions matter.  P2P (notice of absence, opportunistic sleep, *)
(* vm_legacyps_txframes that only it reads) is left out, and so are the    *)
(* station's leaving and receptions from the reorder timer.                *)
(***************************************************************************)
EXTENDS Naturals, Sequences, FiniteSets

CONSTANTS
    Senders,    \* threads that send
    Scenarios,  \* what a behaviour may contain, see left
    MaxSp,      \* sta_uapsd_maxsp
    AgeInit,    \* the age a frame gets (listen interval in seconds)
    MaxQueue    \* WIFINET_PS_MAX_QUEUE

ASSUME BoundsAssumption ==
    MaxSp \in Nat \ {0} /\ AgeInit \in Nat \ {0} /\ MaxQueue \in Nat \ {0}
ASSUME SendersAssumption == IsFiniteSet(Senders)

Scenario == [frame : Nat, mcast : Nat, turn : Nat, trigger : Nat, forward : Nat,
             uapsd : {"none", "some", "all"}, room : Nat \ {0}]

ASSUME ScenariosAssumption == Scenarios \subseteq Scenario

VARIABLES
    flags,      \* of sta_flags: pm (PWR_MGT), trig (UAPSD_TRIG), sp (UAPSD_SP)
    psSta,      \* vm_ps_sta
    tim,        \* the station's bit in vm_tim_bitmap
    psq,        \* sta_pstxqueue: the ages of its frames
    uapsdq,     \* sta_uapsd_queuecnt
    mcq,        \* txlist_backup_qcnt of the multicast list
    mcFlag,     \* MCAST_SEND_FLAG_BEACON_DTIM
    uapsdHal,   \* the U-APSD ring of the HAL: frames with EOSP or without
    mcHal,      \* multicast frames in the HAL
    snd, rx, txok, ager,  \* where each thread is
    doze,       \* whether the station dozes
    air,        \* its frames that the AP has not handled
    left,       \* the scenario, and what is left of it: frames, multicast
                \* frames, turns of the station, triggers it sends unasked,
                \* frames that are forwarded; uapsd: for which of its access
                \* categories it uses U-APSD; room: slots of the HAL's ring
    ghost       \* races that happened; no action reads it

queues == <<psq, uapsdq, mcq>>
hal    == <<uapsdHal, mcHal>>
peer   == <<doze, air>>
vars   == <<flags, psSta, tim, queues, mcFlag, hal, snd, rx, txok, ager, peer,
            left, ghost>>

Flags == [pm : BOOLEAN, trig : BOOLEAN, sp : BOOLEAN]
PeerFrames == {"on", "off", "poll", "trigger"}

rxIdle   == [pc |-> "idle", k |-> "on", n |-> 0, then |-> "idle",
             old |-> [pm |-> FALSE, trig |-> FALSE, sp |-> FALSE],
             new |-> [pm |-> FALSE, trig |-> FALSE, sp |-> FALSE]]
txokIdle == [pc |-> "idle", old |-> rxIdle.old]

Init ==
    /\ flags = [pm |-> FALSE, trig |-> FALSE, sp |-> FALSE]
    /\ psSta = 0 /\ tim = FALSE
    /\ psq = <<>> /\ uapsdq = 0 /\ mcq = 0 /\ mcFlag = FALSE
    /\ uapsdHal = <<>> /\ mcHal = 0
    /\ snd = [s \in Senders |-> "idle"]
    /\ rx = rxIdle /\ txok = txokIdle
    /\ ager = [pc |-> "idle", len |-> 0]
    /\ doze = FALSE /\ air = <<>>
    /\ left \in Scenarios
    /\ ghost = [torn |-> FALSE, stale |-> FALSE]

TypeOK ==
    /\ flags \in Flags /\ psSta \in Nat /\ psSta < 65536 /\ tim \in BOOLEAN
    /\ psq \in Seq(0..AgeInit) /\ Len(psq) < MaxQueue + Cardinality(Senders)
    /\ uapsdq \in Nat /\ mcq \in Nat /\ mcHal \in Nat /\ mcFlag \in BOOLEAN
    /\ uapsdHal \in Seq({"more", "eosp"}) /\ Len(uapsdHal) < left.room
    /\ snd \in [Senders -> {"idle", "tim", "uapsd", "data", "hold", "first",
                            "mcast", "mcastps"}]
    /\ rx.pc \in {"idle", "store", "trigger", "send", "input", "flush", "clear"}
    /\ rx.k \in PeerFrames /\ rx.n \in Nat
    /\ txok.pc \in {"idle", "store"}
    /\ ager.pc \in {"idle", "pass", "check", "clear"}
    /\ doze \in BOOLEAN /\ air \in Seq(PeerFrames)

-----------------------------------------------------------------------------
(* Helpers                                                                 *)

Spend(event) == left[event] > 0 /\ left' = [left EXCEPT ![event] = @ - 1]

Uapsd == left.uapsd # "none"
AllAcs == left.uapsd = "all"

\* aml_tx_hal_buffer_full of the U-APSD ring, which keeps one slot in hand.
HalFull(n) ==
    LET free == left.room - Len(uapsdHal)
    IN  (IF free >= 2 THEN free - 1 ELSE 0) < n

\* rx reads sta_flags to write new flags back, and goes on at pc.
RxChanges(new, pc) ==
    rx' = [rx EXCEPT !.pc = "store", !.old = flags, !.new = new, !.then = pc]

RxGoes(pc) == rx' = [rx EXCEPT !.pc = pc]

\* Clears the TIM bit, and goes on at pc.
RxClears(pc) == rx' = [rx EXCEPT !.pc = "clear", !.then = pc, !.n = 0]

RxDone == rx' = rxIdle

\* Somebody has found a queue empty and is about to say so in the TIM.
Clearing == rx.pc = "clear" \/ rx.then = "clear" \/ ager.pc = "clear"

-----------------------------------------------------------------------------
(* Senders                                                                 *)

\* wifi_mac_pwrsave_txpre: under U-APSD the frame is marked, and the TIM set
\* when all categories use U-APSD.  A multicast frame is marked when a
\* station dozes (wifi_mac_build_txinfo).
NewFrame(s) ==
    /\ snd[s] = "idle"
    /\ \/ /\ Spend("frame")
          /\ \/ /\ flags.trig /\ Uapsd
                /\ snd' = [snd EXCEPT ![s] = IF AllAcs THEN "tim" ELSE "uapsd"]
             \/ /\ ~ (flags.trig /\ AllAcs)
                /\ snd' = [snd EXCEPT ![s] = "data"]
       \/ /\ Spend("mcast")
          /\ snd' = [snd EXCEPT ![s] = IF psSta # 0 THEN "mcastps" ELSE "mcast"]
    /\ UNCHANGED <<flags, psSta, tim, queues, mcFlag, hal, rx, txok, ager, peer,
                   ghost>>

TimForUapsd(s) ==
    /\ snd[s] = "tim"
    /\ tim' = TRUE
    /\ snd' = [snd EXCEPT ![s] = "uapsd"]
    /\ UNCHANGED <<flags, psSta, queues, mcFlag, hal, rx, txok, ager, peer,
                   left, ghost>>

\* drv_tx_queue_uapsd_nsta
QueueUapsd(s) ==
    /\ snd[s] = "uapsd"
    /\ uapsdq' = uapsdq + 1
    /\ snd' = [snd EXCEPT ![s] = "idle"]
    /\ ghost' = [ghost EXCEPT !.stale =
                   @ \/ Clearing \/ ~ flags.trig \/ (AllAcs /\ ~ tim)]
    /\ UNCHANGED <<flags, psSta, tim, psq, mcq, mcFlag, hal, rx, txok, ager,
                   peer, left>>

\* drv_tx_start: a frame to a station in power save is held, unless the queue
\* is full; another goes to the HAL.
StartData(s) ==
    /\ snd[s] = "data"
    /\ snd' = [snd EXCEPT ![s] =
                 IF flags.pm /\ Len(psq) < MaxQueue THEN "hold" ELSE "idle"]
    /\ UNCHANGED <<flags, psSta, tim, queues, mcFlag, hal, rx, txok, ager, peer,
                   left, ghost>>

\* wifi_mac_pwrsave_psqueue_enqueue up to its unlock.
HoldFrame(s) ==
    /\ snd[s] = "hold"
    /\ psq' = Append(psq, AgeInit)
    /\ snd' = [snd EXCEPT ![s] = IF psq = <<>> THEN "first" ELSE "idle"]
    /\ ghost' = [ghost EXCEPT !.stale = @ \/ (psq = <<>> /\ Clearing) \/ AllAcs]
    /\ UNCHANGED <<flags, psSta, tim, uapsdq, mcq, mcFlag, hal, rx, txok, ager,
                   peer, left>>

\* Its rest: the first frame sets the TIM.
TimForFirst(s) ==
    /\ snd[s] = "first"
    /\ tim' = TRUE
    /\ snd' = [snd EXCEPT ![s] = "idle"]
    /\ UNCHANGED <<flags, psSta, queues, mcFlag, hal, rx, txok, ager, peer,
                   left, ghost>>

\* drv_send of a multicast frame
SendMcast(s) ==
    /\ snd[s] \in {"mcast", "mcastps"}
    /\ IF snd[s] = "mcastps" THEN mcq' = mcq + 1 /\ UNCHANGED mcHal
       ELSE mcHal' = mcHal + 1 /\ UNCHANGED mcq
    /\ snd' = [snd EXCEPT ![s] = "idle"]
    /\ UNCHANGED <<flags, psSta, tim, psq, uapsdq, mcFlag, uapsdHal, rx, txok,
                   ager, peer, left, ghost>>

-----------------------------------------------------------------------------
(* The receive thread                                                      *)

\* wifi_mac_pwrsave_chk_uapsd_trig, for every frame of the station: a change
\* of its power bit ends the service period and starts or ends the use of
\* triggers (two writes of the flags, taken as one), and a trigger outside a
\* service period opens one.
Receive ==
    /\ rx.pc = "idle" /\ air # <<>>
    /\ air' = Tail(air)
    /\ LET k   == Head(air)
           dozes == k # "off"
           at(pc) == [rxIdle EXCEPT !.pc = pc, !.k = k]
           store(new, pc) == [at("store") EXCEPT !.old = flags, !.new = new,
                                                 !.then = pc]
       IN  rx' = IF Uapsd /\ dozes # flags.trig
                 THEN store([flags EXCEPT !.sp = FALSE, !.trig = dozes],
                            IF dozes THEN "input" ELSE "trigger")
                 ELSE IF Uapsd /\ k = "trigger" /\ ~ flags.sp
                 THEN store([flags EXCEPT !.sp = TRUE], "trigger")
                 ELSE at("input")
    /\ UNCHANGED <<flags, psSta, tim, queues, mcFlag, hal, snd, txok, ager,
                   doze, left, ghost>>

\* rx writes the flags back.
RxStore ==
    /\ rx.pc = "store"
    /\ flags' = rx.new
    /\ ghost' = [ghost EXCEPT !.torn = @ \/ flags # rx.old]
    /\ rx' = IF rx.then = "idle" THEN rxIdle
             ELSE [rxIdle EXCEPT !.pc = rx.then, !.k = rx.k, !.then = "input"]
    /\ UNCHANGED <<psSta, tim, queues, mcFlag, hal, snd, txok, ager, peer, left>>

\* drv_process_uapsd_nsta_trigger up to its loop.  With nothing to send, or no
\* room, the service period ends at once with a QoS null frame and 0 is
\* returned; the end of the use of triggers (flush) needs no answer.
Trigger ==
    /\ rx.pc = "trigger"
    /\ IF uapsdq # 0 /\ ~ HalFull(1)
       THEN rx' = [rx EXCEPT !.pc = "send",
                             !.n = IF rx.k = "off" \/ uapsdq < MaxSp
                                   THEN uapsdq ELSE MaxSp]
       ELSE IF rx.k = "off" THEN RxGoes("input")
       ELSE RxChanges([flags EXCEPT !.sp = FALSE],
                      IF AllAcs THEN "clear" ELSE "input")
    /\ ghost' = [ghost EXCEPT !.stale = @ \/ (uapsdq # 0 /\ HalFull(1))]
    /\ UNCHANGED <<flags, psSta, tim, queues, mcFlag, hal, snd, txok, ager, peer,
                   left>>

\* Mutant: no frame carries EOSP for want of room.
TriggerSendLate ==
    /\ rx.pc = "send" /\ rx.n # 0 /\ uapsdq # 0 /\ ~ HalFull(1)
    /\ LET eosp == rx.k # "off" /\ rx.n = 1
       IN  /\ uapsdHal' = Append(uapsdHal, IF eosp THEN "eosp" ELSE "more")
           /\ rx' = [rx EXCEPT !.n = IF eosp THEN 0 ELSE @ - 1]
    /\ uapsdq' = uapsdq - 1
    /\ UNCHANGED <<flags, psSta, tim, psq, mcq, mcFlag, mcHal, snd, txok, ager,
                   peer, left, ghost>>

\* One turn of its loop.  The last frame of a service period, or the last but
\* one for which there is room, carries EOSP and ends the loop.
TriggerSend ==
    /\ rx.pc = "send" /\ rx.n # 0 /\ uapsdq # 0 /\ ~ HalFull(1)
    /\ LET eosp == rx.k # "off" /\ (rx.n = 1 \/ HalFull(3))
       IN  /\ uapsdHal' = Append(uapsdHal, IF eosp THEN "eosp" ELSE "more")
           /\ rx' = [rx EXCEPT !.n = IF eosp THEN 0 ELSE @ - 1]
    /\ uapsdq' = uapsdq - 1
    /\ UNCHANGED <<flags, psSta, tim, psq, mcq, mcFlag, mcHal, snd, txok, ager,
                   peer, left, ghost>>

\* Its end, and the rest of wifi_mac_pwrsave_chk_uapsd_trig up to vm_set_tim.
TriggerEnd ==
    /\ rx.pc = "send"
    /\ rx.n = 0 \/ uapsdq = 0 \/ HalFull(1)
    /\ IF rx.k # "off" /\ uapsdq = 0 /\ AllAcs THEN RxClears("input")
       ELSE rx' = [rx EXCEPT !.pc = "input", !.n = 0]
    /\ ghost' = [ghost EXCEPT !.stale = @ \/ (rx.k = "off" /\ uapsdq # 0)]
    /\ UNCHANGED <<flags, psSta, tim, queues, mcFlag, hal, snd, txok, ager, peer,
                   left>>

\* wifi_mac_input and wifi_mac_pwrsave_state_change: a changed power bit is
\* counted and stored, and a station that wakes gets what was held.
Input ==
    /\ rx.pc = "input" /\ rx.k # "poll"
    /\ LET dozes == rx.k # "off"
       IN  IF dozes = flags.pm THEN RxDone /\ UNCHANGED psSta
           ELSE /\ psSta' = (IF dozes THEN psSta + 1 ELSE psSta + 65535) % 65536
                /\ RxChanges([flags EXCEPT !.pm = dozes],
                             IF dozes THEN "idle" ELSE "flush")
    /\ UNCHANGED <<flags, tim, queues, mcFlag, hal, snd, txok, ager, peer, left,
                   ghost>>

\* A frame that is only forwarded leaves wifi_mac_input before that.
InputForwards ==
    /\ rx.pc = "input" /\ rx.k # "poll"
    /\ Spend("forward")
    /\ RxDone
    /\ UNCHANGED <<flags, psSta, tim, queues, mcFlag, hal, snd, txok, ager, peer,
                   ghost>>

\* wifi_mac_pwrsave_psqueue_flush: one wifi_mac_pwrsave_psqueue_send; after
\* the last frame the TIM is cleared.
FlushOne ==
    /\ rx.pc = "flush"
    /\ IF Len(psq) > 1 THEN UNCHANGED rx ELSE RxClears("idle")
    /\ psq' = IF psq = <<>> THEN psq ELSE Tail(psq)
    /\ UNCHANGED <<flags, psSta, tim, uapsdq, mcq, mcFlag, hal, snd, txok, ager,
                   peer, left, ghost>>

\* wifi_mac_pwrsave_recv_pspoll up to vm_set_tim: one frame, or a null frame.
RecvPsPoll ==
    /\ rx.pc = "input" /\ rx.k = "poll"
    /\ IF Len(psq) > 1 THEN RxDone ELSE RxClears("idle")
    /\ psq' = IF psq = <<>> THEN psq ELSE Tail(psq)
    /\ UNCHANGED <<flags, psSta, tim, uapsdq, mcq, mcFlag, hal, snd, txok, ager,
                   peer, left, ghost>>

RxClearTim ==
    /\ rx.pc = "clear"
    /\ tim' = FALSE
    /\ rx' = IF rx.then = "idle" THEN rxIdle ELSE [rx EXCEPT !.pc = rx.then]
    /\ UNCHANGED <<flags, psSta, queues, mcFlag, hal, snd, txok, ager, peer,
                   left, ghost>>

-----------------------------------------------------------------------------
(* Completions                                                             *)

\* drv_tx_complete of a U-APSD frame and wifi_mac_pwrsave_eosp_indicate, which
\* reads the flags to end the service period.
CompleteUapsd ==
    /\ txok.pc = "idle" /\ uapsdHal # <<>>
    /\ uapsdHal' = Tail(uapsdHal)
    /\ txok' = IF Head(uapsdHal) = "eosp" THEN [pc |-> "store", old |-> flags]
               ELSE txok
    /\ UNCHANGED <<flags, psSta, tim, queues, mcFlag, mcHal, snd, rx, ager, peer,
                   left, ghost>>

\* txok writes the flags back.
TxokStore ==
    /\ txok.pc = "store"
    /\ flags' = [txok.old EXCEPT !.sp = FALSE]
    /\ ghost' = [ghost EXCEPT !.torn = @ \/ flags # txok.old]
    /\ txok' = txokIdle
    /\ UNCHANGED <<psSta, tim, queues, mcFlag, hal, snd, rx, ager, peer, left>>

\* A multicast frame completes; with nobody dozing drv_tx_mcastq_send sends
\* those that wait.
CompleteMcast ==
    /\ mcHal # 0
    /\ IF mcq # 0 /\ psSta = 0 THEN mcHal' = mcHal - 1 + mcq /\ mcq' = 0
       ELSE mcHal' = mcHal - 1 /\ UNCHANGED mcq
    /\ UNCHANGED <<flags, psSta, tim, psq, uapsdq, mcFlag, uapsdHal, snd, rx,
                   txok, ager, peer, left, ghost>>

-----------------------------------------------------------------------------
(* The timer: wifi_mac_TimeoutStations                                     *)

\* wifi_mac_pwrsave_psqueue_age reads the length before it takes the lock.
AgeLook ==
    /\ ager.pc = "idle" /\ psq # <<>>
    /\ ager' = [pc |-> "pass", len |-> Len(psq)]
    /\ UNCHANGED <<flags, psSta, tim, queues, mcFlag, hal, snd, rx, txok, peer,
                   left, ghost>>

\* The frames at its head that have reached the age 0.
Expired == {i \in DOMAIN psq : \A j \in 1..i : psq[j] = 0}

Discards == Cardinality(Expired)

\* Mutant: discarded frames are not taken off the length.
AgePassAll ==
    /\ ager.pc = "pass"
    /\ psq' = [i \in 1..(Len(psq) - Discards) |-> psq[i + Discards]]
    /\ ager' = [pc |-> IF Discards = 0 THEN "idle" ELSE "check", len |-> 0]
    /\ UNCHANGED <<flags, psSta, tim, uapsdq, mcq, mcFlag, hal, snd, rx, txok,
                   peer, left, ghost>>

\* Its body under the lock: discard these, and take one from the age of each
\* of the others, as many as the length that was read says.  When frames left
\* in between the loop runs past the end of the list; what it does there to
\* memory is not modelled.
AgePass ==
    /\ ager.pc = "pass"
    /\ psq' = [i \in 1..(Len(psq) - Discards) |->
                 LET age == psq[i + Discards]
                 IN  IF i + Discards <= ager.len THEN age - 1 ELSE age]
    /\ ager' = [pc |-> IF Discards = 0 THEN "idle" ELSE "check", len |-> 0]
    /\ UNCHANGED <<flags, psSta, tim, uapsdq, mcq, mcFlag, hal, snd, rx, txok,
                   peer, left, ghost>>

AgeCheck ==
    /\ ager.pc = "check"
    /\ ager' = [ager EXCEPT !.pc = IF psq = <<>> THEN "clear" ELSE "idle"]
    /\ UNCHANGED <<flags, psSta, tim, queues, mcFlag, hal, snd, rx, txok, peer,
                   left, ghost>>

AgeClearTim ==
    /\ ager.pc = "clear"
    /\ tim' = FALSE
    /\ ager' = [ager EXCEPT !.pc = "idle"]
    /\ UNCHANGED <<flags, psSta, queues, mcFlag, hal, snd, rx, txok, peer, left,
                   ghost>>

-----------------------------------------------------------------------------
(* The beacon and the station                                              *)

\* wifi_mac_beacon_update, every beacon a DTIM: after a beacon that announced
\* multicast frames they are sent (the ring of the HAL has room); otherwise
\* waiting ones are announced.
BeaconMulticast ==
    IF mcFlag
    THEN mcHal' = mcHal + mcq /\ mcq' = 0 /\ mcFlag' = FALSE
    ELSE mcFlag' = (mcq # 0 /\ psSta # 0) /\ UNCHANGED <<mcHal, mcq>>

\* A dozing station that sees its TIM bit fetches: with a trigger when all
\* its categories use U-APSD, with a PS-Poll when not.
Beacon ==
    /\ BeaconMulticast
    /\ air' = IF doze /\ tim /\ air = <<>>
              THEN <<IF AllAcs THEN "trigger" ELSE "poll">> ELSE air
    /\ UNCHANGED <<flags, psSta, tim, psq, uapsdq, uapsdHal, snd, rx, txok, ager,
                   doze, left, ghost>>

\* The station tells that it dozes, or wakes.
Turn ==
    /\ Spend("turn") /\ Len(air) < 2
    /\ doze' = ~ doze
    /\ air' = Append(air, IF doze THEN "off" ELSE "on")
    /\ UNCHANGED <<flags, psSta, tim, queues, mcFlag, hal, snd, rx, txok, ager,
                   ghost>>

\* It may send a trigger at any time.
TriggerUnasked ==
    /\ Spend("trigger") /\ Len(air) < 2
    /\ doze /\ Uapsd
    /\ air' = Append(air, "trigger")
    /\ UNCHANGED <<flags, psSta, tim, queues, mcFlag, hal, snd, rx, txok, ager,
                   doze, ghost>>

-----------------------------------------------------------------------------
Sender(s) == TimForUapsd(s) \/ QueueUapsd(s) \/ StartData(s) \/ HoldFrame(s)
             \/ TimForFirst(s) \/ SendMcast(s)
Rx    == Receive \/ RxStore \/ Trigger \/ TriggerSend \/ TriggerEnd \/ Input
         \/ FlushOne \/ RecvPsPoll \/ RxClearTim
Txok  == CompleteUapsd \/ TxokStore
Ager  == AgeLook \/ AgePass \/ AgeCheck \/ AgeClearTim

Next == \/ \E s \in Senders : NewFrame(s) \/ Sender(s)
        \/ Rx \/ InputForwards \/ Txok \/ CompleteMcast \/ Ager
        \/ Beacon \/ Turn \/ TriggerUnasked

Spec == Init /\ [][Next]_vars

\* Threads, the timer and the firmware make progress, and beacons are sent.
Fairness ==
    /\ \A s \in Senders : WF_vars(Sender(s))
    /\ WF_vars(Rx) /\ WF_vars(Txok) /\ WF_vars(CompleteMcast) /\ WF_vars(Ager)
    /\ WF_vars(Beacon)

FairSpec == Spec /\ Fairness

-----------------------------------------------------------------------------
\* A service period has an end, without which the station's later triggers
\* are ignored (wifi_mac_pwrsave_chk_uapsd_trig): while it is open, rx is
\* about to fill it, or a frame that ends it is on its way, or its completion
\* is being handled (unless a race on sta_flags has brought it back).
ServicePeriodEnds ==
    flags.sp => \/ ghost.torn
                \/ rx.pc \in {"trigger", "store"}
                \/ rx.pc = "send" /\ rx.n # 0 /\ uapsdq # 0 /\ ~ HalFull(1)
                \/ "eosp" \in {uapsdHal[i] : i \in DOMAIN uapsdHal}
                \/ txok.pc = "store"

\* At rest, a station with frames held for it has its bit in the TIM, unless
\* a sender met somebody clearing it.
TimTells ==
    /\ psq # <<>> /\ rx.pc = "idle" /\ ager.pc = "idle"
    /\ \A s \in Senders : snd[s] # "first"
    => tim \/ ghost.stale

\* vm_ps_sta counts the stations in power save, unless a race on sta_flags has
\* changed one unseen.
PsStaCounts ==
    rx.pc # "store" /\ txok.pc # "store" /\ ~ ghost.torn =>
        psSta = IF flags.pm THEN 1 ELSE 0

\* Ages grow along the queue, so no age is taken below zero, where it would
\* wrap and the frame never go.
AgesGrow == \A i \in DOMAIN psq : \A j \in 1..i : psq[j] <= psq[i]

PeerSound == TypeOK /\ ServicePeriodEnds /\ TimTells /\ PsStaCounts /\ AgesGrow

\* Frames held for the station leave: fetched, flushed or aged out.
HeldLeave == psq # <<>> ~> psq = <<>>

\* Frames under U-APSD leave while the station uses triggers for everything.
UapsdLeave ==
    uapsdq # 0 ~> (uapsdq = 0 \/ ~ flags.trig \/ ~ AllAcs \/ ghost.stale \/ ghost.torn)

\* Multicast frames leave while a station dozes.
McastLeave == mcq # 0 ~> (mcq = 0 \/ psSta = 0)

\* What the AP holds back reaches its dozing stations or ages out.
FramesReachPeer == HeldLeave /\ UapsdLeave /\ McastLeave
=============================================================================
