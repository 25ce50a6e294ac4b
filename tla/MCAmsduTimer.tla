---------------------------- MODULE MCAmsduTimer ----------------------------
(* The timer wrapper, and the A-MSDU aggregation that depends on one of    *)
(* its timers to come back every 4 ms, in one run.  A behaviour is of one  *)
(* of them; the other stays as it was initialised.                         *)
EXTENDS OsTimer

CONSTANTS a, b, s1, s2, Senders, SubMaxes, TmpMax

VARIABLES part,  \* "timer" or "msdu": what this behaviour is of
          list, tmp, filled, old, b_work, txq, toFree, nodes, cnt, sched,
          holder, txlock, th, flush, sent, made, left, ghost

Stations == {a, b}
Vid == [s \in Stations |-> IF s = a THEN 0 ELSE 1]

(* A frame that may not be aggregated and a failed allocation; a flush     *)
(* with nodes too few; allocations that fail until the batch is dropped;   *)
(* two senders, with and without a flush.                                  *)
Load(senders, nodesOf, frames, alone, noMemory, flushes) ==
    [senders |-> senders, nodes |-> nodesOf, frames |-> frames, alone |-> alone,
     noMemory |-> noMemory, flushes |-> flushes]

Loads == {Load({s1}, 1, 3, 1, 1, {}), Load({s1}, 1, 3, 0, 1, {0}),
          Load({s1}, 2, 3, 0, 3, {}), Load({s1, s2}, 2, 2, 0, 0, {0}),
          Load({s1, s2}, 2, 3, 0, 0, {})}

A == INSTANCE Amsdu

msduVars == <<list, tmp, filled, old, b_work, txq, toFree, nodes, cnt, sched,
              holder, txlock, th, flush, sent, made, left, ghost>>

MCInit == /\ TimerInit /\ A!Init /\ part \in {"timer", "msdu"}
          /\ part = "timer" => left = CHOOSE l \in Loads : TRUE

MCNext == \/ part = "timer" /\ TimerNext /\ UNCHANGED <<part, msduVars>>
          \/ part = "msdu" /\ A!Next /\ UNCHANGED <<part, ostVars>>

TimerStep(Act) == part = "timer" /\ Act /\ UNCHANGED <<part, msduVars>>
MsduStep(Act)  == part = "msdu" /\ Act /\ UNCHANGED <<part, ostVars>>

TimerFairness ==
    /\ WF_ostVars(TimerStep(Expire)) /\ WF_ostVars(TimerStep(Handler))
    /\ \A t \in Threads : WF_ostVars(TimerStep(Proceeds(t) \/ CancelGivesUp(t)))

MsduFairness ==
    /\ \A d \in A!Drainers : WF_msduVars(MsduStep(A!Drain(d)))
    /\ \A d \in Senders : WF_msduVars(MsduStep(A!SendCounts(d)))
    /\ WF_msduVars(MsduStep(A!TaskletStarts))
    /\ WF_msduVars(MsduStep(A!Timer))
    /\ WF_msduVars(MsduStep(A!Flush))
    /\ \A s \in Stations : WF_msduVars(MsduStep(A!Age(s)))

MCSpec == /\ MCInit /\ [][MCNext]_<<part, ostVars, msduVars>>
          /\ TimerFairness /\ MsduFairness

(* The properties of the aggregation: see Amsdu.                           *)
AmsduSound == A!AmsduSound
MsdusLeave == A!MsdusLeave
=============================================================================
