----------------------------- MODULE SharedFifo -----------------------------
(***************************************************************************)
(* The shared ring in use: BlockNbr clients, one per block, run            *)
(* concurrently.  CO_SharedFifoGet and CO_SharedFifoPut are atomic (they   *)
(* hold COMMON_LOCK); the tests CO_SharedFifoEmpty / CO_SharedFifoNbElt are*)
(* separate calls, so their result is remembered in "seen" and used by a   *)
(* later Get, as in drv_hal_workitem_task and hal_tx_frame.                *)
(* MaxBatch bounds the NbElt of one call; the callers in the driver pass 1.*)
(***************************************************************************)
EXTENDS CoSharedFifo, Sequences

CONSTANT MaxBatch
ASSUME MaxBatchAssumption == MaxBatch \in Nat \ {0}

VARIABLES idx,    \* the ring: CO_SHARED_FIFO.IdxTab
          held,   \* held[b]: slots client b got and has not put, oldest first
          seen    \* seen[b]: what b's last availability test returned

vars == <<idx, held, seen>>

Init == /\ idx = RingInit
        /\ held = [b \in Blocks |-> <<>>]
        /\ seen = [b \in Blocks |-> 0]

(* Client b asks how many elements it may take.                            *)
Test(b) ==
    /\ seen' = [seen EXCEPT ![b] = NbElt(idx, b)]
    /\ UNCHANGED <<idx, held>>

(* The n slots a Get of block b returns: the caller walks on from the      *)
(* pointer to the first one.                                               *)
Taken(b, n) == [i \in 1 .. n |-> Wrap(Pick(idx, b) + (i - 1))]

(* A Get that fails (CO_NO_ELT_IN_USE) changes nothing and is a stutter.   *)
Get(b, n) ==
    /\ CanGet(idx, b, n)
    /\ held' = [held EXCEPT ![b] = @ \o Taken(b, n)]
    /\ idx' = AfterGet(idx, b, n)
    /\ seen' = [seen EXCEPT ![b] = 0]

(* The ring never checks a Put: that a client puts only what it holds is   *)
(* the contract the callers keep.                                          *)
Put(b, n) ==
    /\ n <= Len(held[b])
    /\ held' = [held EXCEPT ![b] = SubSeq(@, n + 1, Len(@))]
    /\ idx' = AfterPut(idx, b, n)
    /\ UNCHANGED seen

Next == \E b \in Blocks :
            \/ Test(b)
            \/ \E n \in 1 .. MaxBatch : Get(b, n) \/ Put(b, n)

Spec == Init /\ [][Next]_vars

-----------------------------------------------------------------------------
(* Type invariant: indexes stay inside the ring, which is also the ASSERT  *)
(* of CO_SharedFifoGetPtr (Idx < EltNbr).                                  *)
TypeOK == /\ idx \in Rings
          /\ held \in [Blocks -> Seq(Slots)]
          /\ seen \in [Blocks -> 0 .. EltNbr - 1]

(* The gaps between the indexes of neighbouring blocks are exactly the     *)
(* slots the clients hold, and the owned and held slots add up to all      *)
(* slots but one: no sequence of Gets and Puts of the clients loses a slot *)
(* or makes one up, across any number of wraps.                            *)
Accounting == /\ \A b \in Blocks : Len(held[b]) = HandNbr(idx, b)
              /\ RingConserved(idx)

(* The slots a client holds are the run of slots behind its Out index.     *)
HeldInOrder ==
    \A b \in Blocks : \A i \in 1 .. Len(held[b]) :
        held[b][i] = Wrap(HandStart(idx, b) + (i - 1))

HeldBy(b) == {held[b][i] : i \in 1 .. Len(held[b])}

(* No slot is ever in the hands of two clients, nor in the hands of one    *)
(* while another may still take it: the pointers returned by               *)
(* CO_SharedFifoGet give exclusive access.                                 *)
Exclusive ==
    \A b, c \in Blocks :
        /\ b # c => HeldBy(b) \cap HeldBy(c) = {}
        /\ HeldBy(b) \cap OwnedSlots(idx, c) = {}
        /\ b # c => OwnedSlots(idx, b) \cap OwnedSlots(idx, c) = {}

(* A test that said k elements are there stays true until the same client  *)
(* gets: with one client per block the check-then-Get of the callers is    *)
(* safe, which their ASSERT(STATUS == CO_STATUS_OK) relies on.             *)
TestStaysValid == \A b \in Blocks : seen[b] <= NbEltCont(idx, b)

-----------------------------------------------------------------------------
(* The ring implements the pipeline of queues.                             *)
OwnedSeq(b) == [i \in 1 .. NbElt(idx, b) |-> Wrap(idx.Out[b] + (i - 1))]

Abs == INSTANCE FifoPipeline WITH
          own <- [b \in Blocks |-> OwnedSeq(b)],
          hand <- held,
          spare <- idx.In[ProdID]

(* Every step of the indexes is a step of the queues: first in, first out, *)
(* each slot passed to the next block only by the block that took it.      *)
Pipeline == Abs!Spec

=============================================================================
