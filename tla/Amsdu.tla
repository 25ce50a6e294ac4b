------------------------------- MODULE Amsdu -------------------------------
(***************************************************************************)
(* Aggregation of MSDUs before transmission (wifi_mac_amsdu.c), for one    *)
(* TID of several stations.  A sender puts its frame on its station's      *)
(* msdu_list, and either drains the lists itself or leaves it to a         *)
(* tasklet, which a timer schedules every 4 ms as well.  Who drains holds  *)
(* the tasklet lock, moves frames into the station's msdu_tmp_buf and      *)
(* gives full or old batches to the driver, which takes the queue's lock   *)
(* (drv_tx_start).  The flush of an interface (drv_txlist_flushfree) holds *)
(* the queue's lock and takes the tasklet lock.                            *)
(*                                                                         *)
(* What is done under wm_amsdu_txq_lock is one step; msdu_tmp_buf is       *)
(* touched only under the tasklet lock.  A frame is its number, counted    *)
(* per station, and whether it may be aggregated at all; its length is     *)
(* whether it still fits.  The removal of a station is left out.           *)
(***************************************************************************)
EXTENDS Integers, SequencesExt

CONSTANTS
    Stations,   \* each with its amsdutx of the TID
    Vid,        \* the interface of each station
    Senders,    \* contexts that send
    SubMaxes,   \* limits of frames to an A-MSDU, one with few frames queued
                \* below (DEFAULT_TXAMSDU_SUB_MAX_BW80 / 4), one with many (/ 2)
    TmpMax,     \* slots of msdu_tmp_buf (DEFAULT_TXAMSDU_SUB_MAX_BW80 * 2), at least
                \* the largest of SubMaxes
    Loads       \* bounds: records of the senders, the nodes of msdu_node_list,
                \* the frames and how many of them may not be aggregated,
                \* failed allocations, interfaces to flush

Both == 3     \* the vid that means every interface
Tasklet == "tasklet"
Drainers == Senders \cup {Tasklet}

VARIABLES
    list,       \* msdu_list of each station
    tmp,        \* msdu_tmp_buf and amsdunum
    filled,     \* framelen of each station is not 0
    old,        \* in_time is more than AMSDU_MAX_LIVE_TIME ago
    b_work,     \* b_work
    txq,        \* wm_amsdu_txq
    toFree,     \* how many frames are in free_amsdu_list
    nodes,      \* nodes free in msdu_node_list
    cnt,        \* msdu_cnt of the TID
    sched,      \* the tasklet is scheduled
    holder,     \* who holds wm_amsdu_tasklet_lock
    txlock,     \* the flush holds the lock of the TID's txlist
    th,         \* where each drainer is
    flush,      \* where the flush is
    sent,       \* history: frames each station's queue gave to the driver
    made,       \* history: frames each station's queue was offered
    left,       \* what is left of the load
    ghost       \* history: see Init

queues == <<list, tmp, filled, old, b_work, txq, toFree, nodes>>
bounds == <<made, left, ghost>>
locks  == <<holder, txlock>>
vars == <<queues, cnt, sched, locks, th, flush, sent, bounds>>

\* sta: the station whose frame or batch is in hand; out: the batches that
\* still go to the driver; node: whether a node is in hand
Idle == [pc |-> "idle", sta |-> CHOOSE s \in Stations : TRUE, out |-> <<>>,
         node |-> FALSE]

Init ==
    /\ list = [s \in Stations |-> <<>>] /\ tmp = [s \in Stations |-> <<>>]
    /\ filled = [s \in Stations |-> FALSE] /\ old = [s \in Stations |-> FALSE]
    /\ b_work = [s \in Stations |-> FALSE]
    /\ txq = <<>> /\ toFree = 0
    /\ cnt = 0
    /\ sched = FALSE /\ holder = "nobody" /\ txlock = FALSE
    /\ th = [d \in Drainers |-> Idle]
    /\ flush = [pc |-> "idle", vid |-> 0]
    /\ sent = [s \in Stations |-> <<>>] /\ made = [s \in Stations |-> 0]
    /\ left \in Loads /\ nodes = left.nodes
    /\ ghost = [past   |-> FALSE,  \* a frame was let past the ones waiting
                kept   |-> {},     \* stations whose batch a flush had no node for
                failed |-> FALSE,  \* an A-MSDU could not be allocated
                dropped |-> 0]     \* frames given up and still counted

Frame == [n : Nat, alone : BOOLEAN]
Numbers(frames) == [i \in DOMAIN frames |-> frames[i].n]

-----------------------------------------------------------------------------
(* The sender: wifi_mac_amsdu_send.                                        *)

(* Mutant: b_work of a station that is being worked on is not looked at.   *)
LinksAlways(s) == TRUE

Links(s) == ~b_work[s]

SendQueues(d, s, alone) ==
    /\ th[d].pc = "idle" /\ left.frames > 0 /\ nodes > 0
    /\ alone => left.alone > 0
    /\ left' = [left EXCEPT !.frames = @ - 1, !.alone = @ - (IF alone THEN 1 ELSE 0)]
    /\ made' = [made EXCEPT ![s] = @ + 1]
    /\ nodes' = nodes - 1
    /\ list' = [list EXCEPT ![s] = Append(@, [n |-> made[s] + 1, alone |-> alone])]
    /\ cnt' = cnt + 1
    /\ b_work' = [b_work EXCEPT ![s] = TRUE]
    /\ txq' = IF Links(s) THEN Append(txq, s) ELSE txq
    /\ th' = [th EXCEPT ![d].pc = "count"]
    /\ UNCHANGED <<tmp, filled, old, toFree, sched, locks, flush, sent, ghost>>

(* No node: the frame goes to the driver by itself.                        *)
SendBypasses(d, s) ==
    /\ th[d].pc = "idle" /\ left.frames > 0 /\ nodes = 0
    /\ ~txlock
    /\ left' = [left EXCEPT !.frames = @ - 1]
    /\ made' = [made EXCEPT ![s] = @ + 1]
    /\ sent' = [sent EXCEPT ![s] = Append(@, made[s] + 1)]
    /\ ghost' = [ghost EXCEPT !.past = TRUE]
    /\ UNCHANGED <<queues, cnt, sched, locks, th, flush>>

(* The count is read without the lock.                                     *)
SendCounts(d) ==
    /\ th[d].pc = "count"
    /\ IF cnt > 1
       THEN th' = [th EXCEPT ![d].pc = "lock"] /\ UNCHANGED sched
       ELSE th' = [th EXCEPT ![d] = Idle] /\ sched' = TRUE
    /\ UNCHANGED <<queues, cnt, locks, flush, sent, bounds>>

(* wifi_mac_txamsdu_task, the periodic timer.                              *)
Timer ==
    /\ ~sched /\ sched' = TRUE
    /\ UNCHANGED <<queues, cnt, locks, th, flush, sent, bounds>>

TaskletStarts ==
    /\ sched /\ th[Tasklet].pc = "idle"
    /\ sched' = FALSE
    /\ th' = [th EXCEPT ![Tasklet].pc = "lock"]
    /\ UNCHANGED <<queues, cnt, locks, flush, sent, bounds>>

-----------------------------------------------------------------------------
(* Draining: wifi_mac_amsdu_tasklet, under the tasklet lock.               *)

Lock(d) ==
    /\ th[d].pc = "lock" /\ holder = "nobody"
    /\ holder' = d
    /\ th' = [th EXCEPT ![d].pc = "loop"]
    /\ UNCHANGED <<queues, cnt, sched, txlock, flush, sent, bounds>>

NodesBack(d) == nodes + (IF th[d].node THEN 1 ELSE 0)

(* The first frame of the first station with work.                         *)
Dequeue(d) ==
    /\ th[d].pc = "loop" /\ txq # <<>> /\ list[Head(txq)] # <<>>
    /\ LET s == Head(txq) IN
         /\ th' = [th EXCEPT ![d] = [pc |-> "ex", sta |-> s,
                                     out |-> <<<<Head(list[s])>>>>, node |-> TRUE]]
         /\ list' = [list EXCEPT ![s] = Tail(@)]
    /\ nodes' = NodesBack(d)
    /\ UNCHANGED <<tmp, filled, old, b_work, txq, toFree, cnt, sched, locks, flush,
                   sent, bounds>>

(* A station without frames leaves wm_amsdu_txq.                           *)
Unlink(d) ==
    /\ th[d].pc = "loop" /\ txq # <<>>
    /\ list[Head(txq)] = <<>> /\ tmp[Head(txq)] = <<>>
    /\ b_work' = [b_work EXCEPT ![Head(txq)] = FALSE]
    /\ txq' = Tail(txq)
    /\ nodes' = NodesBack(d)
    /\ th' = [th EXCEPT ![d].node = FALSE]
    /\ UNCHANGED <<list, tmp, filled, old, toFree, cnt, sched, locks, flush, sent, bounds>>

(* The end of the loop: the frames of a flush are freed, and a batch that  *)
(* holds the first station up is looked at.                                *)
LoopEnds(d) ==
    /\ th[d].pc = "loop"
    /\ txq # <<>> => list[Head(txq)] = <<>> /\ tmp[Head(txq)] # <<>>
    /\ nodes' = NodesBack(d) + toFree
    /\ toFree' = 0
    /\ th' = [th EXCEPT ![d] = IF txq = <<>> THEN [Idle EXCEPT !.pc = "unlock"]
                               ELSE [Idle EXCEPT !.pc = "rest", !.sta = Head(txq)]]
    /\ UNCHANGED <<list, tmp, filled, old, b_work, txq, cnt, sched, locks, flush, sent,
                   bounds>>

(* wifi_mac_amsdu_aggr: the whole buffer becomes one A-MSDU, unless there  *)
(* is no memory for it.                                                    *)
Allocates(fails) ==
    /\ fails => left.noMemory > 0
    /\ left' = [left EXCEPT !.noMemory = @ - (IF fails THEN 1 ELSE 0)]

(* A frame that may not be aggregated: first the batch, then the frame.    *)
ExAlone(d, fails) ==
    LET s == th[d].sta
        f == th[d].out[1][1]
        goes == tmp[s] # <<>> /\ ~fails
    IN  /\ th[d].pc = "ex" /\ f.alone
        /\ fails => tmp[s] # <<>>
        /\ Allocates(fails)
        /\ tmp' = [tmp EXCEPT ![s] = IF goes THEN <<>> ELSE @]
        /\ filled' = [filled EXCEPT ![s] = @ /\ ~goes]
        /\ th' = [th EXCEPT ![d].pc = "account",
                            ![d].out = (IF goes THEN <<tmp[s]>> ELSE <<>>) \o <<<<f>>>>]
        /\ ghost' = [ghost EXCEPT !.past = @ \/ fails, !.failed = @ \/ fails]
        /\ UNCHANGED <<list, old, b_work, txq, toFree, nodes, cnt, sched, locks,
                       flush, sent, made>>

(* in_time is set with the first frame of a batch.                         *)
OldNow(s) == old[s] /\ tmp[s] # <<>>

(* "just add to amsdu": a frame that fits, into a batch that is not old    *)
(* and not at the limit; a batch that is then full goes at once.           *)
ExAdds(d, max, full, fails) ==
    LET s == th[d].sta
        batch == Append(tmp[s], th[d].out[1][1])
        goes == (full \/ Len(batch) = max) /\ ~fails
    IN  /\ th[d].pc = "ex" /\ ~th[d].out[1][1].alone
        /\ Len(batch) <= max /\ ~OldNow(s)
        /\ full => filled[s]
        /\ fails => full \/ Len(batch) = max
        /\ Allocates(fails)
        /\ old' = [old EXCEPT ![s] = FALSE]
        /\ tmp' = [tmp EXCEPT ![s] = IF goes THEN <<>> ELSE batch]
        /\ filled' = [filled EXCEPT ![s] = ~goes]
        /\ th' = [th EXCEPT ![d].pc = IF goes THEN "account" ELSE "loop",
                            ![d].out = IF goes THEN <<batch>> ELSE <<>>]
        /\ ghost' = [ghost EXCEPT !.failed = @ \/ fails]
        /\ UNCHANGED <<list, b_work, txq, toFree, nodes, cnt, sched, locks, flush,
                       sent, made>>

(* Mutant: the frame that did not fit goes before what could not be sent.  *)
RestartsInFront(batch, f) == <<f>> \o batch

(* The frame that did not fit begins the next batch.                       *)
Restarts(batch, f) == Append(batch, f)

(* Otherwise the batch goes, and the frame begins the next one with the    *)
(* in_time of the last.  A batch that cannot be sent is kept until the     *)
(* buffer is full, and then dropped.  A length that a flush has left       *)
(* behind lets an empty batch have no room.                                *)
ExReplaces(d, max, fits, fails) ==
    LET s == th[d].sta
        f == th[d].out[1][1]
        goes == tmp[s] # <<>> /\ ~fails
        drops == fails /\ Len(tmp[s]) >= TmpMax
    IN  /\ th[d].pc = "ex" /\ ~f.alone
        /\ ~fits \/ Len(tmp[s]) + 1 > max \/ OldNow(s)
        /\ ~fits => filled[s]
        /\ fails => tmp[s] # <<>>
        /\ Allocates(fails)
        /\ old' = [old EXCEPT ![s] = OldNow(s)]
        /\ tmp' = [tmp EXCEPT ![s] = Restarts(IF goes \/ drops THEN <<>> ELSE @, f)]
        /\ filled' = [filled EXCEPT ![s] = TRUE]
        /\ th' = [th EXCEPT ![d].pc = IF goes THEN "account" ELSE "loop",
                            ![d].out = IF goes THEN <<tmp[s]>> ELSE <<>>]
        /\ ghost' = [ghost EXCEPT !.failed = @ \/ fails,
                                  !.dropped = @ + (IF drops THEN Len(tmp[s]) ELSE 0)]
        /\ UNCHANGED <<list, b_work, txq, toFree, nodes, cnt, sched, locks, flush,
                       sent, made>>

(* wifi_mac_amsdu_tx2drvlay: msdu_cnt goes down, then the driver gets the  *)
(* frames.                                                                 *)
Account(d) ==
    /\ th[d].pc = "account"
    /\ cnt' = Max({cnt - Len(Head(th[d].out)), 0})
    /\ th' = [th EXCEPT ![d].pc = "start"]
    /\ UNCHANGED <<queues, sched, locks, flush, sent, bounds>>

TxStart(d) ==
    /\ th[d].pc = "start" /\ ~txlock
    /\ sent' = [sent EXCEPT ![th[d].sta] = @ \o Numbers(Head(th[d].out))]
    /\ th' = [th EXCEPT ![d].out = Tail(@),
                        ![d].pc = IF Len(th[d].out) > 1 THEN "account"
                                  ELSE IF th[d].node THEN "loop" ELSE "unlock"]
    /\ UNCHANGED <<queues, cnt, sched, locks, flush, bounds>>

(* Mutant: what is left of a batch waits for the next frame.               *)
NeverOld(s) == FALSE

Old(s) == old[s]

(* What is left after the loop goes when it is old.                        *)
Rest(d, fails) ==
    LET s == th[d].sta
        goes == Old(s) /\ ~fails
    IN  /\ th[d].pc = "rest"
        /\ fails => Old(s)
        /\ Allocates(fails)
        /\ tmp' = [tmp EXCEPT ![s] = IF goes THEN <<>> ELSE @]
        /\ filled' = [filled EXCEPT ![s] = ~goes]
        /\ th' = [th EXCEPT ![d].pc = IF goes THEN "account" ELSE "unlock",
                            ![d].out = IF goes THEN <<tmp[s]>> ELSE <<>>]
        /\ ghost' = [ghost EXCEPT !.failed = @ \/ fails]
        /\ UNCHANGED <<list, old, b_work, txq, toFree, nodes, cnt, sched, locks,
                       flush, sent, made>>

Unlock(d) ==
    /\ th[d].pc = "unlock"
    /\ holder' = "nobody"
    /\ th' = [th EXCEPT ![d] = Idle]
    /\ UNCHANGED <<queues, cnt, sched, txlock, flush, sent, bounds>>

(* External: 10 ms pass.                                                   *)
Age(s) ==
    /\ ~old[s] /\ tmp[s] # <<>>
    /\ old' = [old EXCEPT ![s] = TRUE]
    /\ UNCHANGED <<list, tmp, filled, b_work, txq, toFree, nodes, cnt, sched, locks, th,
                   flush, sent, bounds>>

-----------------------------------------------------------------------------
(* The flush: drv_txlist_free_all_by_vid of another queue and of the TID's *)
(* own, wifi_mac_txamsdu_free_all in each.                                 *)

FlushStarts(v) ==
    /\ flush.pc = "idle" /\ v \in left.flushes
    /\ left' = [left EXCEPT !.flushes = @ \ {v}]
    /\ flush' = [pc |-> "other", vid |-> v]
    /\ UNCHANGED <<queues, cnt, sched, locks, th, sent, made, ghost>>

(* The batch of a station: from the last frame on, each needs a node to    *)
(* wait on for the tasklet; the frame for which there is none is forgotten *)
(* and the rest stay.                                                      *)
FreeBatch(acc, s) ==
    LET freed == Min({Len(acc.tmp[s]), acc.nodes})
        forgotten == IF freed < Len(acc.tmp[s]) THEN 1 ELSE 0
    IN  [acc EXCEPT !.tmp[s] = SubSeq(@, 1, Len(@) - freed - forgotten),
                    !.nodes = @ - freed, !.freed = @ + freed,
                    !.forgotten = @ + forgotten]

(* Mutant: a station whose frames were flushed stays marked.               *)
Keeps(s, flushed) == b_work[s]

(* b_work of what the flush takes off wm_amsdu_txq.                        *)
Unmarks(s, flushed) == b_work[s] /\ s \notin flushed

FreeAll ==
    LET Hit(s) == flush.vid \in {Vid[s], Both}
        hits == SelectSeq(txq, Hit)
        acc == FoldLeft(FreeBatch, [tmp |-> tmp, nodes |-> nodes, freed |-> 0,
                                    forgotten |-> 0], hits)
        freed == acc.freed
                   + FoldLeft(LAMBDA n, s : n + Len(list[s]), 0, hits)
    IN  /\ flush.pc \in {"other", "own"}
        /\ holder = "nobody"
        /\ list' = [s \in Stations |-> IF s \in ToSet(hits) THEN <<>> ELSE list[s]]
        /\ tmp' = acc.tmp
        /\ nodes' = acc.nodes
        /\ toFree' = toFree + freed
        /\ cnt' = Max({cnt - freed, 0})
        /\ b_work' = [s \in Stations |-> Unmarks(s, ToSet(hits))]
        /\ txq' = SelectSeq(txq, LAMBDA s : ~Hit(s))
        /\ ghost' = [ghost EXCEPT
                       !.kept = @ \cup {s \in Stations : Hit(s) /\ acc.tmp[s] # <<>>},
                       !.dropped = @ + acc.forgotten]
        /\ IF flush.pc = "other"
           THEN flush' = [flush EXCEPT !.pc = "lock"] /\ UNCHANGED txlock
           ELSE flush' = [flush EXCEPT !.pc = "idle"] /\ txlock' = FALSE
        /\ UNCHANGED <<filled, old, sched, holder, th, sent, made, left>>

FlushLocks ==
    /\ flush.pc = "lock"
    /\ txlock' = TRUE
    /\ flush' = [flush EXCEPT !.pc = "own"]
    /\ UNCHANGED <<queues, cnt, sched, holder, th, sent, bounds>>
-----------------------------------------------------------------------------
Send(d) == /\ d \in left.senders
           /\ \/ \E s \in Stations, alone \in BOOLEAN : SendQueues(d, s, alone)
              \/ \E s \in Stations : SendBypasses(d, s)

Ex(d) == \E fails \in BOOLEAN :
           \/ ExAlone(d, fails)
           \/ \E max \in SubMaxes, b \in BOOLEAN :
                ExAdds(d, max, b, fails) \/ ExReplaces(d, max, b, fails)

Drain(d) == \/ Lock(d) \/ Dequeue(d) \/ Unlink(d) \/ LoopEnds(d) \/ Ex(d)
            \/ Account(d) \/ TxStart(d) \/ (\E fails \in BOOLEAN : Rest(d, fails))
            \/ Unlock(d)

Flush == FreeAll \/ FlushLocks

Next == \/ \E d \in Senders : Send(d) \/ SendCounts(d)
        \/ TaskletStarts \/ Timer
        \/ \E d \in Drainers : Drain(d)
        \/ \E s \in Stations : Age(s)
        \/ (\E v \in {0, 1, Both} : FlushStarts(v)) \/ Flush

Spec == Init /\ [][Next]_vars

(* Softirqs and the flush go on, the periodic timer runs and time passes;  *)
(* that another frame is sent is not assumed.                              *)
Fairness ==
    /\ \A d \in Drainers : WF_vars(Drain(d))
    /\ \A d \in Senders : WF_vars(SendCounts(d))
    /\ WF_vars(TaskletStarts) /\ WF_vars(Timer) /\ WF_vars(Flush)
    /\ \A s \in Stations : WF_vars(Age(s))

FairSpec == Spec /\ Fairness

-----------------------------------------------------------------------------
TypeOK ==
    /\ {list, tmp} \subseteq [Stations -> Seq(Frame)]
    /\ {filled, old, b_work} \subseteq [Stations -> BOOLEAN]
    /\ txq \in Seq(Stations) /\ {toFree, nodes, cnt} \subseteq Nat
    /\ {sched, txlock} \subseteq BOOLEAN /\ holder \in Drainers \cup {"nobody"}
    /\ th \in [Drainers -> [pc : {"idle", "count", "lock", "loop", "ex", "account",
                                  "start", "rest", "unlock"},
                            sta : Stations, out : Seq(Seq(Frame)), node : BOOLEAN]]
    /\ flush \in [pc : {"idle", "other", "lock", "own"}, vid : {0, 1, Both}]

SumLen(q) == FoldSet(LAMBDA s, n : n + Len(q[s]), 0, Stations)
LenSum(batches) == FoldLeft(LAMBDA n, b : n + Len(b), 0, batches)

(* The frames in a drainer's hands that msdu_cnt still counts.             *)
InHand(d) == LenSum(IF th[d].pc = "start" THEN Tail(th[d].out) ELSE th[d].out)
AllInHand == FoldSet(LAMBDA d, n : n + InHand(d), 0, Drainers)
NodesInHand == Cardinality({d \in Drainers : th[d].node})

(* A station with frames is on wm_amsdu_txq, exactly once, and marked; the *)
(* exception are the frames a flush found no node for.                     *)
LinkedOnce ==
    /\ IsInjective(txq)
    /\ \A s \in Stations :
         /\ b_work[s] <=> s \in ToSet(txq)
         /\ list[s] # <<>> => b_work[s]
         /\ tmp[s] # <<>> => b_work[s] \/ s \in ghost.kept

(* msdu_cnt counts the frames that wait, and those that were given up.     *)
CountHonest == cnt = SumLen(list) + SumLen(tmp) + AllInHand + ghost.dropped

(* No node is lost or made up.                                             *)
NodesKept == nodes + SumLen(list) + toFree + NodesInHand = left.nodes

(* The driver gets a station's frames once and in order, unless one was    *)
(* let past for want of a node or of memory.                               *)
InOrder == \A s \in Stations :
    /\ IsInjective(sent[s])
    /\ ~ghost.past => \A i \in 2 .. Len(sent[s]) : sent[s][i - 1] < sent[s][i]

(* An A-MSDU has no more frames than its descriptor has slots for          *)
(* (pkt_info), unless an earlier one could not be allocated.               *)
BatchesFit == \A d \in Drainers : \A i \in DOMAIN th[d].out :
    ghost.failed \/ Len(th[d].out[i]) <= Max(SubMaxes)

(* The bookkeeping of wifi_mac_amsdu.c: the lists, the marks, the count    *)
(* and the nodes agree whatever senders, tasklet and flush do, and frames  *)
(* leave once, in order and in batches that fit.                           *)
AmsduSound == TypeOK /\ LinkedOnce /\ CountHonest /\ NodesKept /\ InOrder /\ BatchesFit

(* The flush holds the queue's lock and waits for the tasklet lock, whose  *)
(* holder waits for the queue's lock.                                      *)
Embrace == /\ txlock /\ flush.pc = "own"
           /\ holder # "nobody" /\ th[holder].pc = "start"

Waits(s) == \/ list[s] # <<>>
            \/ tmp[s] # <<>> /\ b_work[s]
            \/ \E d \in Drainers : th[d].sta = s /\ th[d].out # <<>>

(* What was accepted leaves, though no other frame is sent: the timer      *)
(* comes back for a batch that is not full, and a station is held up by    *)
(* the one before it for as long as its batch is not old, no longer.  The  *)
(* exception is Embrace, which TLC reaches.                                *)
MsdusLeave == (\A s \in Stations : []<>~Waits(s)) \/ <>Embrace
=============================================================================
