---------------------------- MODULE FifoPipeline ----------------------------
(***************************************************************************)
(* What the shared ring promises its clients, without indexes: a cycle of  *)
(* stages, each with a queue of slots it may take and the slots it has     *)
(* taken.  Put hands the oldest taken slots to the next stage.  The last   *)
(* stage closes the cycle through the spare slot: what the producer gets   *)
(* back is the previous spare, and the slot just put becomes the spare.    *)
(***************************************************************************)
EXTENDS Integers, Sequences

CONSTANTS EltNbr, BlockNbr, MaxBatch

VARIABLES own,    \* own[b]: the slots stage b may take, oldest first
          hand,   \* hand[b]: the slots stage b has taken, oldest first
          spare   \* the slot no stage may use

vars == <<own, hand, spare>>

Stages == 0 .. BlockNbr - 1

Init == /\ own = [b \in Stages |->
                     IF b = 0 THEN [i \in 1 .. EltNbr - 1 |-> i] ELSE <<>>]
        /\ hand = [b \in Stages |-> <<>>]
        /\ spare = 0

First(s, n) == SubSeq(s, 1, n)
Rest(s, n)  == SubSeq(s, n + 1, Len(s))

Get(b, n) ==
    /\ n <= Len(own[b])
    /\ hand' = [hand EXCEPT ![b] = @ \o First(own[b], n)]
    /\ own' = [own EXCEPT ![b] = Rest(@, n)]
    /\ UNCHANGED spare

Pass(b, n) ==
    /\ b + 1 < BlockNbr
    /\ n <= Len(hand[b])
    /\ own' = [own EXCEPT ![b + 1] = @ \o First(hand[b], n)]
    /\ hand' = [hand EXCEPT ![b] = Rest(@, n)]
    /\ UNCHANGED spare

Recycle(b, n) ==
    /\ b + 1 = BlockNbr
    /\ n <= Len(hand[b])
    /\ LET run == <<spare>> \o First(hand[b], n) IN
         /\ own' = [own EXCEPT ![0] = @ \o First(run, n)]
         /\ spare' = run[n + 1]
    /\ hand' = [hand EXCEPT ![b] = Rest(@, n)]

Next == \E b \in Stages, n \in 1 .. MaxBatch :
            Get(b, n) \/ Pass(b, n) \/ Recycle(b, n)

Spec == Init /\ [][Next]_vars
=============================================================================
