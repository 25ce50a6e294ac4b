--------------------------- MODULE AddbaExchange ---------------------------
(***************************************************************************)
(* Setting up and tearing down one transmit block-ack session (one TID of  *)
(* one station, struct drv_tx_scoreboard).  While the ADDBA exchange runs  *)
(* the TID is paused and its data frames are kept in tid_tx_buffer_queue;  *)
(* an answer, a timeout or a DELBA ends it, and whoever wins the cmpxchg   *)
(* on addba_exchangeinprogress undoes the pause.  The actors are           *)
(*   - senders: the network stack and the thread that forwards received    *)
(*     frames both run wifi_mac_hardstart for the same TID,                *)
(*   - "rx": the receive thread, with ADDBA answers and DELBAs,            *)
(*   - "work": the work thread, with the expiry of the request timer,      *)
(*   - the timer softirq, the ampdu tasklet and the completion of frames.  *)
(* Only TXQ_LOCK and the cmpxchg make steps atomic; every other step of a  *)
(* handler is an action of its own.                                        *)
(***************************************************************************)
EXTENDS Naturals

CONSTANTS Frames,       \* data frames of the TID
          Senders,      \* contexts that run wifi_mac_tx_send for the TID
          MaxAttempts,  \* ADDBA_EXCHANGE_ATTEMPTS
          Loads         \* bound: what a behaviour may be given to do, each
                        \* with frames, senders, DELBAs received, and overlap:
                        \* FALSE if a handler starts only when no other runs

ASSUME CountsAssumption == MaxAttempts \in Nat
ASSUME FramesAssumption == "none" \notin Frames    \* NoFrame
ASSUME LoadsAssumption ==
    Loads \subseteq [frames : SUBSET Frames, senders : SUBSET Senders,
                     delbas : Nat, overlap : BOOLEAN]
ASSUME SendersAssumption == Senders \cap {"rx", "work"} = {}

Actors == Senders \cup {"rx", "work"}
NoFrame == "none"
Places == {"new", "hand", "buffer", "pending", "window", "gone"}
Labels == {"idle", "claim", "arm", "pause", "look", "store", "put",
           "answer", "cancel", "settle", "resume", "unpause", "flush",
           "drainstart", "drain", "drained", "delba", "end"}
Jobs == {"none", "accepted", "refused", "delba", "expiry"}

VARIABLES
    tid,    \* the flags of the scoreboard: inprogress, complete, cleanup,
            \* attempts, paused (a byte), b_work, sending (tid_tx_buff_sending)
    at,     \* at[f]: where frame f is; "buffer" is tid_tx_buffer_queue,
            \* "pending" txds_queue, "window" the frames in tx_desc
    timer,  \* addba_requesttimer: active_flag, armed in the kernel, and
            \* firing while its handler runs
    work,   \* drv_addba_timer_ex items on the work queue
    air,    \* ADDBA requests the peer has yet to answer
    pc, cur, job, won,  \* per actor: step, frame, cause, and cmpxchg result
    last,   \* per drainer: the queue was empty when the frame in hand left it
    load,   \* which of the Loads this behaviour has
    delbas, \* DELBAs received so far
    failed  \* history: the byte tid->paused has wrapped, at an
            \* ASSERT(tid->paused > 0) that failed or from 255

vars == <<load, tid, at, timer, work, air, pc, cur, job, won, last, delbas,
          failed>>

In(place) == {f \in Frames : at[f] = place}
PausedUp   == (tid.paused + 1) % 256
PausedDown == (tid.paused + 255) % 256
Goto(a, l) == pc' = [pc EXCEPT ![a] = l]
Quiet == load.overlap \/ \A a \in Actors : pc[a] = "idle"

Init == /\ load \in Loads
        /\ tid = [inprogress |-> FALSE, complete |-> FALSE, cleanup |-> FALSE,
                  attempts |-> 0, paused |-> 0, bwork |-> FALSE,
                  sending |-> FALSE]
        /\ at = [f \in Frames |-> IF f \in load.frames THEN "new" ELSE "gone"]
        /\ timer = [active |-> FALSE, armed |-> FALSE, firing |-> FALSE]
        /\ work = 0
        /\ air = 0
        /\ pc = [a \in Actors |-> "idle"]
        /\ cur = [a \in Actors |-> NoFrame]
        /\ job = [a \in {"rx", "work"} |-> "none"]
        /\ won = FALSE
        /\ last = [a \in {"rx", "work"} |-> FALSE]
        /\ delbas = 0
        /\ failed = FALSE

-----------------------------------------------------------------------------
(* Sending a frame.  drv_aggr_check tests and counts the attempts in one   *)
(* step: only their number could tell two senders between the two.         *)

NeedsAddba == /\ ~tid.cleanup /\ ~tid.complete /\ ~tid.inprogress
              /\ tid.attempts < MaxAttempts

TxCheck(s, f) ==
    /\ s \in load.senders
    /\ pc[s] = "idle" /\ at[f] = "new" /\ ~tid.sending /\ Quiet
    /\ cur' = [cur EXCEPT ![s] = f]
    /\ at' = [at EXCEPT ![f] = "hand"]
    /\ \/ /\ NeedsAddba
          /\ tid' = [tid EXCEPT !.attempts = @ + 1]
          /\ Goto(s, "claim")
       \/ /\ ~NeedsAddba
          /\ Goto(s, "look")
          /\ UNCHANGED tid
    /\ UNCHANGED <<timer, work, air, job, won, last, delbas, failed>>

\* drv_addba_req_setup: the cmpxchg, the timer, and the pause
Claim(s) ==
    /\ pc[s] = "claim"
    /\ tid' = [tid EXCEPT !.inprogress = TRUE]
    /\ Goto(s, IF tid.inprogress THEN "pause" ELSE "arm")
    /\ UNCHANGED <<at, timer, work, air, cur, job, won, last, delbas, failed>>

Arm(s) ==
    /\ pc[s] = "arm"
    /\ timer' = IF timer.active THEN timer
                ELSE [timer EXCEPT !.active = TRUE, !.armed = TRUE]
    /\ Goto(s, "pause")
    /\ UNCHANGED <<tid, at, work, air, cur, job, won, last, delbas, failed>>

\* the pause under the lock; then the request goes out
PauseAndSend(s) ==
    /\ pc[s] = "pause" /\ s \in Senders
    /\ tid' = [tid EXCEPT !.paused = PausedUp]
    /\ failed' = (failed \/ tid.paused = 255)
    /\ air' = air + 1
    /\ Goto(s, "look")
    /\ UNCHANGED <<at, timer, work, cur, job, won, last, delbas>>

AllowToSend == tid.complete \/ (~tid.cleanup /\ ~tid.inprogress)

\* drv_tx_start: the test, and what is done on its outcome
Look(a) ==
    /\ pc[a] = "look"
    /\ Goto(a, IF AllowToSend \/ tid.sending THEN "put" ELSE "store")
    /\ UNCHANGED <<tid, at, timer, work, air, cur, job, won, last, delbas, failed>>

AfterTx(a) == CASE a \in Senders -> "idle"
               [] a \notin Senders -> IF last[a] THEN "drained" ELSE "drain"

Store(a) ==
    /\ pc[a] = "store"
    /\ at' = [at EXCEPT ![cur[a]] = "buffer"]
    /\ cur' = [cur EXCEPT ![a] = NoFrame]
    /\ Goto(a, AfterTx(a))
    /\ UNCHANGED <<tid, timer, work, air, job, won, last, delbas, failed>>

\* drv_txlist_task on the TID: off the list; nothing if paused; otherwise
\* some of the pending frames go to the HAL and enter the window, and the
\* TID goes back on the list if frames are left
RunList(t, place) ==
    LET pending == {f \in Frames : place[f] = "pending"} IN
    \/ ~t.bwork /\ tid' = t /\ at' = place
    \/ /\ t.bwork /\ t.paused > 0
       /\ tid' = [t EXCEPT !.bwork = FALSE]
       /\ at' = place
    \/ /\ t.bwork /\ t.paused = 0
       /\ \E taken \in SUBSET pending :
            /\ at' = [f \in Frames |-> IF f \in taken THEN "window"
                                                      ELSE place[f]]
            /\ tid' = [t EXCEPT !.bwork = pending \ taken # {}]

\* drv_tx_queue_tid
QueueTid(t) == [t EXCEPT !.bwork = @ \/ t.paused = 0]

AggrQuery == ~tid.cleanup /\ tid.complete

\* drv_send under TXQ_LOCK: aggregated frames wait in txds_queue and the
\* list is run at once when enough wait; others go straight to the HAL
Put(a) ==
    /\ pc[a] = "put"
    /\ cur' = [cur EXCEPT ![a] = NoFrame]
    /\ \/ /\ AggrQuery
          /\ LET pended == [at EXCEPT ![cur[a]] = "pending"] IN
             \/ tid' = QueueTid(tid) /\ at' = pended
             \/ RunList(QueueTid(tid), pended)
       \/ /\ ~AggrQuery
          /\ at' = [at EXCEPT ![cur[a]] = "gone"]
          /\ UNCHANGED tid
    /\ Goto(a, AfterTx(a))
    /\ UNCHANGED <<timer, work, air, job, won, last, delbas, failed>>

-----------------------------------------------------------------------------
(* The tasklet and the completion of a frame.                              *)

Tasklet == /\ tid.bwork
           /\ RunList(tid, at)
           /\ UNCHANGED <<timer, work, air, pc, cur, job, won, last, delbas, failed>>

\* drv_tx_complete_task: the end of the window ends a cleanup
Complete(f) ==
    /\ at[f] = "window"
    /\ at' = [at EXCEPT ![f] = "gone"]
    /\ tid' = IF tid.cleanup /\ In("window") = {f}
              THEN [tid EXCEPT !.complete = FALSE, !.attempts = 0,
                               !.cleanup = FALSE]
              ELSE tid
    /\ UNCHANGED <<timer, work, air, pc, cur, job, won, last, delbas, failed>>

-----------------------------------------------------------------------------
(* The request timer and the work thread.                                  *)

\* os_timer_ex_handler calls drv_addba_timer, which queues the work item;
\* the timer stops being active when the handler has returned
Fire == /\ timer.armed /\ ~timer.firing
        /\ timer' = [timer EXCEPT !.armed = FALSE, !.firing = TRUE]
        /\ work' = work + 1
        /\ UNCHANGED <<tid, at, air, pc, cur, job, won, last, delbas, failed>>

FireEnd == /\ timer.firing
           /\ timer' = [timer EXCEPT !.firing = FALSE, !.active = timer.armed]
           /\ UNCHANGED <<tid, at, work, air, pc, cur, job, won, last, delbas, failed>>

(* Mutant: the expiry does not end the exchange.                           *)
ExpireIgnored ==
    /\ pc["work"] = "idle" /\ work > 0 /\ Quiet
    /\ work' = work - 1
    /\ job' = [job EXCEPT !["work"] = "expiry"]
    /\ Goto("work", "cancel")
    /\ UNCHANGED <<tid, at, timer, air, cur, won, last, delbas, failed>>

\* drv_addba_timer_ex
Expire ==
    /\ pc["work"] = "idle" /\ work > 0 /\ Quiet
    /\ work' = work - 1
    /\ job' = [job EXCEPT !["work"] = "expiry"]
    /\ tid' = [tid EXCEPT !.inprogress = FALSE]
    /\ Goto("work", IF tid.inprogress THEN "unpause" ELSE "cancel")
    /\ UNCHANGED <<at, timer, air, cur, won, last, delbas, failed>>

\* os_timer_ex_cancel: nothing if not active, else it waits for the handler
CancelTimer(a) ==
    /\ pc[a] = "cancel" /\ (timer.active => ~timer.firing)
    /\ timer' = IF timer.active
                THEN [timer EXCEPT !.active = FALSE, !.armed = FALSE]
                ELSE timer
    /\ Goto(a, CASE job[a] = "expiry" -> "idle"
                 [] job[a] = "delba"  -> "pause"
                 [] OTHER             -> "settle")
    /\ job' = [job EXCEPT ![a] = IF @ = "expiry" THEN "none" ELSE @]
    /\ UNCHANGED <<tid, at, work, air, cur, won, last, delbas, failed>>

-----------------------------------------------------------------------------
(* The peer and the receive thread.                                        *)

LoseRequest == /\ air > 0
               /\ air' = air - 1
               /\ UNCHANGED <<tid, at, timer, work, pc, cur, job, won, last, delbas, failed>>

\* an ADDBA answer; without an exchange in progress it is discarded
RxAnswer(status) ==
    /\ pc["rx"] = "idle" /\ air > 0 /\ Quiet
    /\ air' = air - 1
    /\ \/ ~tid.inprogress /\ UNCHANGED <<job, pc>>
       \/ /\ tid.inprogress
          /\ job' = [job EXCEPT !["rx"] = status]
          /\ Goto("rx", "answer")
    /\ UNCHANGED <<tid, at, timer, work, cur, won, last, delbas, failed>>

\* drv_addba_rsp_process: the cmpxchg decides whether to resume
Answer ==
    /\ pc["rx"] = "answer"
    /\ won' = tid.inprogress
    /\ tid' = [tid EXCEPT !.inprogress = FALSE]
    /\ Goto("rx", IF tid.inprogress THEN "cancel" ELSE "settle")
    /\ UNCHANGED <<at, timer, work, air, cur, job, last, delbas, failed>>

(* Mutant: a refusal leaves the TID paused.                                *)
SettleForgetsRefusal ==
    /\ pc["rx"] = "settle"
    /\ tid' = [tid EXCEPT !.complete = @ \/ job["rx"] = "accepted"]
    /\ Goto("rx", IF won /\ job["rx"] = "accepted" THEN "resume"
                                                   ELSE "drainstart")
    /\ UNCHANGED <<at, timer, work, air, cur, job, won, last, delbas, failed>>

Settle ==
    /\ pc["rx"] = "settle"
    /\ tid' = [tid EXCEPT !.complete = @ \/ job["rx"] = "accepted"]
    /\ Goto("rx", CASE ~won -> "drainstart"
                    [] won /\ job["rx"] = "accepted" -> "resume"
                    [] won /\ job["rx"] = "refused"  -> "unpause")
    /\ UNCHANGED <<at, timer, work, air, cur, job, won, last, delbas, failed>>

(* Mutant: the TID is not put back on the list.                            *)
ResumeUnqueued ==
    /\ pc["rx"] = "resume"
    /\ failed' = (failed \/ tid.paused = 0)
    /\ tid' = [tid EXCEPT !.paused = PausedDown]
    /\ Goto("rx", "drainstart")
    /\ UNCHANGED <<at, timer, work, air, cur, job, won, last, delbas>>

\* drv_txlist_resume_for_sta_tid, one critical section
Resume ==
    /\ pc["rx"] = "resume"
    /\ failed' = (failed \/ tid.paused = 0)
    /\ LET t == [tid EXCEPT !.paused = PausedDown] IN
       \/ /\ t.paused > 0 \/ In("pending") = {}
          /\ tid' = t /\ UNCHANGED at
       \/ /\ t.paused = 0 /\ In("pending") # {}
          /\ RunList(QueueTid(t), at)
    /\ Goto("rx", "drainstart")
    /\ UNCHANGED <<timer, work, air, cur, job, won, last, delbas>>

\* drv_txlist_flush_for_sta_tid: one critical section for the pause count and
\* the first frame, then one for each further frame; the frame goes to the
\* HAL as a single frame between two of them
AfterFlush(a) == IF job[a] = "delba" THEN "idle" ELSE "drainstart"
LeaveJob(a, l) == job' = [job EXCEPT ![a] = IF l = "idle" THEN "none" ELSE @]

LeaveFlush(a) == Goto(a, AfterFlush(a)) /\ LeaveJob(a, AfterFlush(a))

FlushOne(a) ==
    \/ \E f \in In("pending") :
         /\ at' = [at EXCEPT ![f] = "gone"]
         /\ Goto(a, "flush")
         /\ UNCHANGED job
    \/ /\ In("pending") = {}
       /\ LeaveFlush(a)
       /\ UNCHANGED at

Unpause(a) ==
    /\ pc[a] = "unpause"
    /\ failed' = (failed \/ tid.paused = 0)
    /\ tid' = [tid EXCEPT !.paused = PausedDown]
    /\ \/ PausedDown > 0 /\ LeaveFlush(a) /\ UNCHANGED at
       \/ PausedDown = 0 /\ FlushOne(a)
    /\ UNCHANGED <<timer, work, air, cur, won, last, delbas>>

Flush(a) ==
    /\ pc[a] = "flush"
    /\ FlushOne(a)
    /\ UNCHANGED <<tid, timer, work, air, cur, won, last, delbas, failed>>

\* wifi_mac_buffer_txq_send of tid_tx_buffer_queue, with the flag around it
DrainStart(a) ==
    /\ pc[a] = "drainstart"
    /\ tid' = [tid EXCEPT !.sending = TRUE]
    /\ Goto(a, "drain")
    /\ UNCHANGED <<at, timer, work, air, cur, job, won, last, delbas, failed>>

Drained(a) ==
    /\ tid' = [tid EXCEPT !.sending = FALSE]
    /\ last' = [last EXCEPT ![a] = FALSE]
    /\ LET next == IF a = "work" THEN "cancel" ELSE "idle"
       IN Goto(a, next) /\ LeaveJob(a, next)

(* Mutant: only one frame of the queue is sent.                            *)
DrainOne(a) ==
    /\ pc[a] = "drain"
    /\ \/ \E f \in In("buffer") :
            /\ at' = [at EXCEPT ![f] = "hand"]
            /\ cur' = [cur EXCEPT ![a] = f]
            /\ last' = [last EXCEPT ![a] = TRUE]
            /\ Goto(a, "look")
            /\ UNCHANGED <<tid, job>>
       \/ In("buffer") = {} /\ Drained(a) /\ UNCHANGED <<at, cur>>
    /\ UNCHANGED <<timer, work, air, won, delbas, failed>>

\* wifi_mac_buffer_txq_send: a frame at a time, until the length read with
\* the dequeue is 0
Drain(a) ==
    /\ pc[a] = "drain"
    /\ \/ \E f \in In("buffer") :
            /\ at' = [at EXCEPT ![f] = "hand"]
            /\ cur' = [cur EXCEPT ![a] = f]
            /\ last' = [last EXCEPT ![a] = In("buffer") = {f}]
            /\ Goto(a, "look")
            /\ UNCHANGED <<tid, job>>
       \/ In("buffer") = {} /\ Drained(a) /\ UNCHANGED <<at, cur>>
    /\ UNCHANGED <<timer, work, air, won, delbas, failed>>

DrainEnd(a) ==
    /\ pc[a] = "drained"
    /\ Drained(a)
    /\ UNCHANGED <<at, cur, timer, work, air, won, delbas, failed>>

-----------------------------------------------------------------------------
(* A DELBA from the peer, or a new association: drv_txampdu_del.           *)

RxDelba ==
    /\ pc["rx"] = "idle" /\ delbas < load.delbas /\ Quiet
    /\ delbas' = delbas + 1
    /\ \/ tid.cleanup /\ UNCHANGED <<tid, job, pc>>
       \/ /\ ~tid.cleanup /\ ~tid.complete
          /\ tid' = [tid EXCEPT !.attempts = 0]
          /\ UNCHANGED <<job, pc>>
       \/ /\ ~tid.cleanup /\ tid.complete
          /\ job' = [job EXCEPT !["rx"] = "delba"]
          /\ Goto("rx", "delba")
          /\ UNCHANGED tid
    /\ UNCHANGED <<at, timer, work, air, cur, won, last, failed>>

DelbaClaim ==
    /\ pc["rx"] = "delba"
    /\ tid' = [tid EXCEPT !.inprogress = FALSE]
    /\ Goto("rx", IF tid.inprogress THEN "cancel" ELSE "pause")
    /\ UNCHANGED <<at, timer, work, air, cur, job, won, last, delbas, failed>>

DelbaPause ==
    /\ pc["rx"] = "pause"
    /\ tid' = [tid EXCEPT !.paused = PausedUp]
    /\ failed' = (failed \/ tid.paused = 255)
    /\ Goto("rx", "end")
    /\ UNCHANGED <<at, timer, work, air, cur, job, won, last, delbas>>

\* frames in flight postpone the end of the session to their completion
DelbaEnd ==
    /\ pc["rx"] = "end"
    /\ tid' = IF In("window") # {} THEN [tid EXCEPT !.cleanup = TRUE]
              ELSE [tid EXCEPT !.complete = FALSE, !.attempts = 0]
    /\ Goto("rx", "unpause")
    /\ UNCHANGED <<at, timer, work, air, cur, job, won, last, delbas, failed>>

-----------------------------------------------------------------------------
SenderStep(s) == Claim(s) \/ Arm(s) \/ PauseAndSend(s)
                 \/ Look(s) \/ Store(s) \/ Put(s)
EndStep(a) == CancelTimer(a) \/ Unpause(a) \/ Flush(a) \/ DrainStart(a)
              \/ Drain(a) \/ DrainEnd(a) \/ Look(a) \/ Store(a) \/ Put(a)
RxStep == Answer \/ Settle \/ Resume \/ DelbaClaim \/ DelbaPause \/ DelbaEnd
          \/ EndStep("rx")
WorkStep == Expire \/ EndStep("work")
TimerStep == Fire \/ FireEnd

Step == \/ \E s \in Senders, f \in Frames : TxCheck(s, f)
        \/ \E s \in Senders : SenderStep(s)
        \/ \E status \in {"accepted", "refused"} : RxAnswer(status)
        \/ RxDelba \/ RxStep \/ WorkStep \/ TimerStep
        \/ LoseRequest \/ Tasklet
        \/ \E f \in Frames : Complete(f)

Next == Step /\ UNCHANGED load

Spec == Init /\ [][Next]_vars

\* the kernel runs every thread and the timer; the peer, the stack and the
\* aggregation thresholds promise nothing
FairSpec == /\ Spec
            /\ \A s \in Senders : WF_vars(SenderStep(s) /\ UNCHANGED load)
            /\ WF_vars(RxStep /\ UNCHANGED load)
            /\ WF_vars(WorkStep /\ UNCHANGED load)
            /\ WF_vars(TimerStep /\ UNCHANGED load)

-----------------------------------------------------------------------------
(* Types: the pause count is a byte, frames and actors are where they say. *)
Scoreboards == [inprogress : BOOLEAN, complete : BOOLEAN, cleanup : BOOLEAN,
                attempts : 0 .. MaxAttempts, paused : 0 .. 255,
                bwork : BOOLEAN, sending : BOOLEAN]

TypeOK ==
    /\ tid \in Scoreboards
    /\ at \in [Frames -> Places]
    /\ timer \in [active : BOOLEAN, armed : BOOLEAN, firing : BOOLEAN]
    /\ work \in Nat /\ air \in Nat /\ delbas \in Nat
    /\ pc \in [Actors -> Labels]
    /\ cur \in [Actors -> Frames \cup {NoFrame}]
    /\ job \in [{"rx", "work"} -> Jobs]
    /\ last \in [{"rx", "work"} -> BOOLEAN]
    /\ won \in BOOLEAN /\ failed \in BOOLEAN
    /\ \A a \in Actors : cur[a] # NoFrame => at[cur[a]] = "hand"

(* Frames that may be sent are on a list the tasklet visits: whenever the  *)
(* TID is not paused and nobody is flushing it, pending frames imply       *)
(* b_work (drv_tx_queue_tid 2399, resume 2265, task 2930).  The states     *)
(* after the byte has wrapped are excepted.                                *)
Flushing == \E a \in {"rx", "work"} : pc[a] = "flush"
PendingIsQueued ==
    ~failed /\ tid.paused = 0 /\ ~Flushing /\ In("pending") # {}
       => tid.bwork

(* A cleanup has frames to wait for: otherwise no completion would ever    *)
(* end it (wifi_drv_xmit.c:1489) and the TID never aggregates again.       *)
CleanupHasWindow == tid.cleanup => tid.complete /\ In("window") # {}

(* The session is sound, however its handlers overlap: no frame and no     *)
(* clean-up waits for something that is not coming.                        *)
SessionSound == TypeOK /\ PendingIsQueued /\ CleanupHasWindow

(* Pauses and resumes pair up: when no handler is running, the TID is      *)
(* paused once if an exchange is in progress and not at all otherwise.     *)
PausesPairUp ==
    ~load.overlap /\ (\A a \in Actors : pc[a] = "idle")
       => tid.paused = IF tid.inprogress THEN 1 ELSE 0

(* Not a property of the code: ASSERT(tid->paused > 0), wifi_drv_xmit.c    *)
(* 2256 and 2297, which TLC refutes where load.overlap.                    *)
PausedWhenResumed == ~failed

(* Every exchange ends, by an answer or by its timeout.                    *)
ExchangeEnds == ~load.overlap /\ tid.inprogress ~> ~tid.inprogress

(* A frame buffered during the exchange is sent when it ends.              *)
BufferIsDrained ==
    ~load.overlap /\ In("buffer") # {} ~> In("buffer") = {}
=============================================================================
