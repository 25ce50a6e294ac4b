----------------------------- MODULE FifoProofs -----------------------------
(***************************************************************************)
(* Proofs about the rings of MCFifos.                                      *)
(*                                                                         *)
(* The queue of the work thread, for any number of slots, producers and    *)
(* items.  First that no wakeup is lost: NoLostWakeup is inductive once it *)
(* is known that the ring has its two blocks, that each producer is at one *)
(* place and that the semaphore counts; what the indexes are does not      *)
(* matter.  Then the whole of QueueSound, for which the indexes do: the    *)
(* two blocks of the ring in numbers, the state of the queue (QueueInv),   *)
(* and one lemma per step that moves a slot from one owner to the next.    *)
(*                                                                         *)
(* The host's receive ring: that the cells committed are the cells sent,   *)
(* whatever is being written meanwhile (HostInv).                          *)
(*                                                                         *)
(* The shared ring, for every number of slots and for the two numbers of   *)
(* blocks the driver uses.  The inductive invariant is the accounting: the *)
(* distances between neighbouring indexes, added round the ring, are one   *)
(* slot short of the whole ring.  Without it a Get could move an Out index *)
(* past the In index it follows and an empty run would read as a full one. *)
(* The last part proves that the ring of indexes implements the pipeline   *)
(* of queues of FifoPipeline.  Both what a block may take and what its     *)
(* client holds are runs of consecutive slots; the index arithmetic of Get *)
(* and Put cuts a run in two or joins two neighbours.                      *)
(***************************************************************************)
EXTENDS MCFifos, SequenceTheorems, FiniteSetTheorems, TLAPS

(* The library's definition, seen through the instance.                    *)
LEMMA CardinalityThere == \A S : W!Cardinality(S) = Cardinality(S)
  BY DEF W!Cardinality, Cardinality

Places == {"idle", "params", "task", "put", "call", "up"}

(* What the argument needs to know of the state.                           *)
Shape == /\ DOMAIN widx = {"In", "Out"}
         /\ DOMAIN widx.In = {W!GET, W!FREE}
         /\ DOMAIN widx.Out = {W!GET, W!FREE}
         /\ ppc \in [Producers -> Places]
         /\ sem \in Nat

WorkIInv == Shape /\ W!NoLostWakeup

(* A Get leaves the other block's elements alone, and so does a Put of the *)
(* work thread that is for the producers.                                  *)
LEMMA RingKeeps ==
    ASSUME NEW r, NEW n, DOMAIN r = {"In", "Out"},
           DOMAIN r.In = {W!GET, W!FREE}, DOMAIN r.Out = {W!GET, W!FREE},
           NEW b \in {W!GET, W!FREE}
    PROVE  /\ DOMAIN W!AfterGet(r, b, n) = {"In", "Out"}
           /\ DOMAIN W!AfterGet(r, b, n).In = {W!GET, W!FREE}
           /\ DOMAIN W!AfterGet(r, b, n).Out = {W!GET, W!FREE}
           /\ DOMAIN W!AfterPut(r, b, n) = {"In", "Out"}
           /\ DOMAIN W!AfterPut(r, b, n).In = {W!GET, W!FREE}
           /\ DOMAIN W!AfterPut(r, b, n).Out = {W!GET, W!FREE}
           /\ W!HasElt(W!AfterGet(r, W!GET, n), W!FREE) <=> W!HasElt(r, W!FREE)
  BY DEF W!AfterGet, W!AfterPut, W!NextBlock, W!HasElt, W!GET, W!FREE, W!ProdID

LEMMA Initially == W!Init => WorkIInv
  <1>. SUFFICES ASSUME W!Init PROVE WorkIInv
    OBVIOUS
  <1>1. Shape
    BY DEF W!Init, Shape, W!RingInit, W!Blocks, W!GET, W!FREE, Places
  <1>2. ~ W!HasElt(widx, W!FREE)
    BY DEF W!Init, W!RingInit, W!Blocks, W!HasElt, W!FREE, W!ProdID
  <1>. QED  BY <1>1, <1>2 DEF WorkIInv, W!NoLostWakeup

-----------------------------------------------------------------------------
(* The steps of a producer.                                                *)
LEMMA ProducerKeeps ==
    ASSUME WorkIInv, NEW p \in Producers,
           W!AddGet(p) \/ W!AddOverflow(p) \/ W!Finish(p)
    PROVE  WorkIInv'
  <1>. USE DEF WorkIInv, Shape, Places, W!Goto
  <1>1. CASE W!AddGet(p)
    <2>1. Shape' /\ (W!HasElt(widx, W!FREE)' <=> W!HasElt(widx, W!FREE))
      BY <1>1, RingKeeps DEF W!AddGet
    <2>2. UNCHANGED <<wpc, quit, flag, sem>>
      BY <1>1 DEF W!AddGet, W!workerVars
    <2>3. \A q \in Producers : ppc[q] \in {"call", "up"} => ppc'[q] = ppc[q]
      BY <1>1 DEF W!AddGet
    <2>. QED  BY <2>1, <2>2, <2>3 DEF W!NoLostWakeup, W!WakeupPending, W!Working
  <1>2. CASE W!AddOverflow(p)
    BY <1>2 DEF W!AddOverflow, W!workerVars, W!NoLostWakeup, W!WakeupPending, W!Working
  <1>3. CASE W!FillParams(p)
    <2>2. UNCHANGED <<widx, wpc, quit, flag, sem>>
      BY <1>3 DEF W!FillParams, W!workerVars
    <2>3. /\ ppc' \in [Producers -> Places]
          /\ \A q \in Producers : ppc[q] \in {"call", "up"} => ppc'[q] = ppc[q]
      BY <1>3 DEF W!FillParams
    <2>. QED  BY <2>2, <2>3 DEF W!NoLostWakeup, W!WakeupPending, W!Working
  <1>4. CASE W!FillTask(p)
    <2>2. UNCHANGED <<widx, wpc, quit, flag, sem>>
      BY <1>4 DEF W!FillTask, W!workerVars
    <2>3. /\ ppc' \in [Producers -> Places]
          /\ \A q \in Producers : ppc[q] \in {"call", "up"} => ppc'[q] = ppc[q]
      BY <1>4 DEF W!FillTask
    <2>. QED  BY <2>2, <2>3 DEF W!NoLostWakeup, W!WakeupPending, W!Working
  <1>5. CASE W!AddPut(p)
    <2>1. Shape'
      BY <1>5, RingKeeps DEF W!AddPut
    <2>2. ppc'[p] = "call"
      BY <1>5 DEF W!AddPut
    <2>. QED  BY <2>1, <2>2 DEF W!NoLostWakeup
  <1>6. CASE W!CallTask(p)
    <2>1. Shape'
      BY <1>6 DEF W!CallTask
    <2>2. flag' /\ ppc'[p] = "up"
      BY <1>6 DEF W!CallTask
    <2>. QED  BY <2>1, <2>2 DEF W!NoLostWakeup, W!WakeupPending
  <1>7. CASE W!CallUp(p)
    <2>1. Shape' /\ sem' > 0
      BY <1>7 DEF W!CallUp
    <2>2. UNCHANGED <<widx, wpc, quit, flag>>
      BY <1>7 DEF W!CallUp, W!workerVars
    <2>3. \A q \in Producers : ppc[q] = "call" => ppc'[q] = "call"
      BY <1>7 DEF W!CallUp
    <2>. QED  BY <2>1, <2>2, <2>3 DEF W!NoLostWakeup, W!WakeupPending, W!Working
  <1>. QED  BY <1>1, <1>2, <1>3, <1>4, <1>5, <1>6, <1>7 DEF W!Finish

(* The steps of the work thread.                                           *)
LEMMA WorkerKeeps ==
    ASSUME WorkIInv, W!Worker
    PROVE  WorkIInv'
  <1>. USE DEF WorkIInv, Shape, W!Work, W!producerVars
  <1>1. CASE W!Down
    <2>1. Shape' /\ wpc' \in {"exit", "test"}
      BY <1>1 DEF W!Down
    <2>2. wpc = "down" /\ UNCHANGED <<widx, ppc, flag, quit>>
      BY <1>1 DEF W!Down
    <2>. QED  BY <2>1, <2>2 DEF W!NoLostWakeup, W!WakeupPending, W!Working
  <1>2. CASE W!TestFlag
    <2>1. Shape' /\ UNCHANGED <<widx, ppc, flag, quit, sem>>
      BY <1>2 DEF W!TestFlag
    <2>2. wpc = "test" /\ (flag => wpc' = "clear")
      BY <1>2 DEF W!TestFlag
    <2>. QED  BY <2>1, <2>2 DEF W!NoLostWakeup, W!Working
  <1>3. CASE W!ClearFlag
    BY <1>3 DEF W!ClearFlag, W!NoLostWakeup
  <1>4. CASE W!TestEmpty
    BY <1>4 DEF W!TestEmpty, W!NoLostWakeup
  <1>5. CASE W!TakeItem
    <2>1. Shape'
      BY <1>5, RingKeeps DEF W!TakeItem
    <2>. QED  BY <1>5, <2>1 DEF W!TakeItem, W!NoLostWakeup, W!Working
  <1>6. CASE W!RunTask
    BY <1>6 DEF W!RunTask, W!NoLostWakeup, W!Working
  <1>7. CASE W!RunCallback
    BY <1>7 DEF W!RunCallback, W!NoLostWakeup, W!Working
  <1>8. CASE W!PutItem
    <2>1. Shape'
      BY <1>8, RingKeeps DEF W!PutItem
    <2>. QED  BY <1>8, <2>1 DEF W!PutItem, W!NoLostWakeup
  <1>. QED  BY <1>1, <1>2, <1>3, <1>4, <1>5, <1>6, <1>7, <1>8 DEF W!Worker

LEMMA Inductive == WorkIInv /\ [W!Next]_W!vars => WorkIInv'
  <1>. SUFFICES ASSUME WorkIInv, [W!Next]_W!vars PROVE WorkIInv'
    OBVIOUS
  <1>1. CASE W!Kill
    BY <1>1 DEF W!Kill, W!producerVars, W!workerVars, WorkIInv, Shape, W!NoLostWakeup
  <1>2. CASE UNCHANGED W!vars
    BY <1>2 DEF W!vars, W!producerVars, W!workerVars, WorkIInv, Shape, W!NoLostWakeup,
                W!WakeupPending, W!Working
  <1>. QED  BY <1>1, <1>2, ProducerKeeps, WorkerKeeps DEF W!Next

(* While an item waits in the work queue, the work thread is draining it,  *)
(* or is sure to come by: neither the unlocked test of the flag bit        *)
(* (wifi_hal.c) nor any number of producers between their Put and their    *)
(* wakeup can leave an item behind a thread that sleeps.                   *)
THEOREM WorkFifoNoLostWakeup == W!Spec => []W!NoLostWakeup
  <1>1. WorkIInv => W!NoLostWakeup
    BY DEF WorkIInv
  <1>. QED  BY <1>1, Initially, Inductive, PTL DEF W!Spec

-----------------------------------------------------------------------------
(* The accounts of the two-block ring.  The slots ahead of the work        *)
(* thread, from the first one it has not given back, are: the one it works *)
(* on, those with an item to run, those producers are filling.             *)

(* Distances round the ring, one slot further at either end.               *)
LEMMA Distances ==
    ASSUME WorkEltNbr \in Nat, WorkEltNbr >= 2, NEW i \in W!Slots, NEW j \in W!Slots
    PROVE  /\ W!Dist(i, j) \in 0 .. WorkEltNbr - 1
           /\ W!Wrap(i + 1) \in W!Slots
           /\ j = W!Wrap(i + W!Dist(i, j))
           /\ W!Dist(i, j) + 1 < WorkEltNbr => W!Dist(i, W!Wrap(j + 1)) = W!Dist(i, j) + 1
           /\ W!Dist(i, j) > 0 => W!Dist(W!Wrap(i + 1), j) = W!Dist(i, j) - 1
           /\ i # j => W!Dist(i, j) > 0
           /\ W!Dist(i, i) = 0
  BY SMTT(30) DEF W!Slots, W!Dist, W!Wrap

LEMMA Further ==
    ASSUME WorkEltNbr \in Nat, WorkEltNbr >= 2, NEW i \in W!Slots,
           NEW m \in Nat, NEW n \in Nat, m + n < WorkEltNbr
    PROVE  W!Wrap(W!Wrap(i + m) + n) = W!Wrap(i + (m + n))
  BY SMTT(30) DEF W!Slots, W!Wrap

(* The two blocks of the ring: what each owns and holds, as distances.     *)
LEMMA TwoBlocks ==
    ASSUME WorkEltNbr \in Nat, WorkEltNbr >= 2, NEW r \in W!Rings
    PROVE  /\ r.In[W!GET] \in W!Slots /\ r.In[W!FREE] \in W!Slots
           /\ r.Out[W!GET] \in W!Slots /\ r.Out[W!FREE] \in W!Slots
           /\ \A b \in {W!GET, W!FREE} : W!NbElt(r, b) = W!Dist(r.Out[b], r.In[b])
           /\ \A b \in {W!GET, W!FREE} : W!CanGet(r, b, 1) <=> W!NbElt(r, b) > 0
           /\ W!HandStart(r, W!FREE) = W!Wrap(r.In[W!GET] + 1)
           /\ W!HandStart(r, W!FREE) \in W!Slots
           /\ W!HandNbr(r, W!FREE) = W!Dist(W!HandStart(r, W!FREE), r.Out[W!FREE])
           /\ W!HandNbr(r, W!GET) = W!Dist(r.In[W!FREE], r.Out[W!GET])
           /\ \A b \in {W!GET, W!FREE} : /\ W!NbElt(r, b) \in 0 .. WorkEltNbr - 1
                                     /\ W!HandNbr(r, b) \in 0 .. WorkEltNbr - 1
           /\ W!RingConserved(r) <=>
                W!NbElt(r, W!GET) + W!HandNbr(r, W!GET) + W!NbElt(r, W!FREE) + W!HandNbr(r, W!FREE)
                  = WorkEltNbr - 1
  <1>1. /\ r.In[W!GET] \in W!Slots /\ r.In[W!FREE] \in W!Slots
        /\ r.Out[W!GET] \in W!Slots /\ r.Out[W!FREE] \in W!Slots
    BY DEF W!Rings, W!Blocks, W!GET, W!FREE
  <1>2. ASSUME NEW b \in {W!GET, W!FREE}
        PROVE  /\ W!NbElt(r, b) = W!Dist(r.Out[b], r.In[b])
               /\ W!CanGet(r, b, 1) <=> W!NbElt(r, b) > 0
    BY <1>1 DEF W!NbElt, W!CanGet, W!NbEltCont, W!Dist, W!Wrap, W!Slots
  <1>3. W!HandStart(r, W!FREE) = W!Wrap(r.In[W!GET] + 1) /\ W!HandStart(r, W!GET) = r.In[W!FREE]
    BY DEF W!HandStart, W!LastBlock, W!ProdID, W!GET, W!FREE
  <1>4. W!HandStart(r, W!FREE) \in W!Slots
    BY <1>1, <1>3, Distances
  <1>5. /\ W!HandNbr(r, W!FREE) = W!Dist(W!HandStart(r, W!FREE), r.Out[W!FREE])
        /\ W!HandNbr(r, W!GET) = W!Dist(r.In[W!FREE], r.Out[W!GET])
    BY <1>3 DEF W!HandNbr
  <1>6. /\ \A b \in {W!GET, W!FREE} : W!NbElt(r, b) \in 0 .. WorkEltNbr - 1
        /\ W!HandNbr(r, W!FREE) \in 0 .. WorkEltNbr - 1
        /\ W!HandNbr(r, W!GET) \in 0 .. WorkEltNbr - 1
    <2>1. \A i, j \in W!Slots : W!Dist(i, j) \in 0 .. WorkEltNbr - 1
      BY Distances
    <2>2. W!NbElt(r, W!GET) \in 0 .. WorkEltNbr - 1 /\ W!NbElt(r, W!FREE) \in 0 .. WorkEltNbr - 1
      BY <1>1, <1>2, <2>1
    <2>3. W!HandNbr(r, W!FREE) \in 0 .. WorkEltNbr - 1 /\ W!HandNbr(r, W!GET) \in 0 .. WorkEltNbr - 1
      BY <1>1, <1>4, <1>5, <2>1
    <2>. QED  BY <2>2, <2>3
  <1>7. W!RingConserved(r) <=> W!Load(r, W!GET) + W!Load(r, W!FREE) = WorkEltNbr - 1
    <2>1. W!Load(r, W!GET) + W!Load(r, W!FREE) \in Int
      BY <1>6 DEF W!Load
    <2>. QED  BY <2>1, <1>6 DEF W!RingConserved, W!GET, W!FREE, W!Load
  <1>8. W!RingConserved(r) <=>
          W!NbElt(r, W!GET) + W!HandNbr(r, W!GET) + W!NbElt(r, W!FREE) + W!HandNbr(r, W!FREE)
            = WorkEltNbr - 1
    BY <1>6, <1>7 DEF W!Load
  <1>. QED  BY <1>1, <1>2, <1>3, <1>4, <1>5, <1>6, <1>8

(* What one Get and one Put of one slot do to the ring, in numbers.        *)
LEMMA GetOne ==
    ASSUME WorkEltNbr \in Nat, WorkEltNbr >= 2, NEW r \in W!Rings, W!RingConserved(r),
           NEW b \in {W!GET, W!FREE}, W!CanGet(r, b, 1),
           NEW s, s = W!AfterGet(r, b, 1), NEW c \in {W!GET, W!FREE}, c # b
    PROVE  /\ s \in W!Rings /\ W!RingConserved(s)
           /\ W!NbElt(s, b) = W!NbElt(r, b) - 1 /\ W!NbElt(s, c) = W!NbElt(r, c)
           /\ W!HandNbr(s, b) = W!HandNbr(r, b) + 1 /\ W!HandNbr(s, c) = W!HandNbr(r, c)
           /\ W!HandStart(s, W!FREE) = W!HandStart(r, W!FREE)
  <1>1. /\ s.In = r.In
        /\ s.Out[b] = W!Wrap(r.Out[b] + 1) /\ s.Out[c] = r.Out[c]
    BY DEF W!AfterGet, W!Rings, W!Blocks, W!GET, W!FREE
  <1>2. s \in W!Rings
    <2>1. W!Wrap(r.Out[b] + 1) \in W!Slots
      BY TwoBlocks, Distances
    <2>. QED  BY <2>1 DEF W!AfterGet, W!Rings
  <1>3. /\ W!NbElt(r, b) > 0 /\ W!NbElt(r, c) \in Nat
        /\ W!HandNbr(r, b) + 1 < WorkEltNbr
    BY TwoBlocks DEF W!GET, W!FREE
  <1>4. W!HandStart(s, W!FREE) = W!HandStart(r, W!FREE)
    BY <1>1, <1>2, TwoBlocks
  <1>5. W!NbElt(s, b) = W!NbElt(r, b) - 1 /\ W!NbElt(s, c) = W!NbElt(r, c)
    BY <1>1, <1>2, <1>3, TwoBlocks, Distances
  <1>6. W!HandNbr(s, b) = W!HandNbr(r, b) + 1 /\ W!HandNbr(s, c) = W!HandNbr(r, c)
    <2>0. \A x, y \in W!Slots : W!Dist(x, y) + 1 < WorkEltNbr => W!Dist(x, W!Wrap(y + 1)) = W!Dist(x, y) + 1
      BY Distances
    <2>1. CASE b = W!GET /\ c = W!FREE
      <3>1. /\ W!HandNbr(s, b) = W!Dist(s.In[W!FREE], s.Out[b])
            /\ W!HandNbr(r, b) = W!Dist(r.In[W!FREE], r.Out[b])
            /\ r.In[W!FREE] \in W!Slots /\ r.Out[b] \in W!Slots
        BY <2>1, <1>2, TwoBlocks
      <3>2. W!HandNbr(s, b) = W!HandNbr(r, b) + 1
        BY <2>0, <3>1, <1>1, <1>3
      <3>. QED  BY <2>1, <3>2, <1>1, <1>2, <1>4, TwoBlocks
    <2>2. CASE b = W!FREE /\ c = W!GET
      <3>1. /\ W!HandNbr(s, b) = W!Dist(W!HandStart(s, W!FREE), s.Out[b])
            /\ W!HandNbr(r, b) = W!Dist(W!HandStart(r, W!FREE), r.Out[b])
            /\ W!HandStart(r, W!FREE) \in W!Slots /\ r.Out[b] \in W!Slots
        BY <2>2, <1>2, TwoBlocks
      <3>2. W!HandNbr(s, b) = W!HandNbr(r, b) + 1
        BY <2>0, <3>1, <1>1, <1>3, <1>4
      <3>. QED  BY <2>2, <3>2, <1>1, <1>2, TwoBlocks
    <2>. QED  BY <2>1, <2>2
  <1>7. W!RingConserved(s)
    <2>1. CASE b = W!GET /\ c = W!FREE
      BY <2>1, <1>2, <1>5, <1>6, TwoBlocks
    <2>2. CASE b = W!FREE /\ c = W!GET
      BY <2>2, <1>2, <1>5, <1>6, TwoBlocks
    <2>. QED  BY <2>1, <2>2
  <1>. QED  BY <1>2, <1>4, <1>5, <1>6, <1>7

LEMMA PutOne ==
    ASSUME WorkEltNbr \in Nat, WorkEltNbr >= 2, NEW r \in W!Rings, W!RingConserved(r),
           NEW b \in {W!GET, W!FREE}, W!HandNbr(r, b) >= 1,
           NEW s, s = W!AfterPut(r, b, 1), NEW c \in {W!GET, W!FREE}, c # b
    PROVE  /\ s \in W!Rings /\ W!RingConserved(s)
           /\ W!NbElt(s, b) = W!NbElt(r, b) /\ W!NbElt(s, c) = W!NbElt(r, c) + 1
           /\ W!HandNbr(s, b) = W!HandNbr(r, b) - 1 /\ W!HandNbr(s, c) = W!HandNbr(r, c)
           /\ W!HandStart(s, W!FREE) = IF b = W!FREE THEN W!Wrap(W!HandStart(r, W!FREE) + 1)
                                               ELSE W!HandStart(r, W!FREE)
  <1>1. /\ s.Out = r.Out
        /\ s.In[c] = W!Wrap(r.In[c] + 1) /\ s.In[b] = r.In[b]
    BY DEF W!AfterPut, W!NextBlock, W!ProdID, W!Rings, W!Blocks, W!GET, W!FREE
  <1>2. s \in W!Rings
    <2>1. W!Wrap(r.In[c] + 1) \in W!Slots
      BY TwoBlocks, Distances
    <2>. QED  BY <2>1 DEF W!AfterPut, W!NextBlock, W!ProdID, W!Rings, W!Blocks, W!GET, W!FREE
  <1>3. /\ W!NbElt(r, b) \in Nat /\ W!HandNbr(r, b) > 0
        /\ W!NbElt(r, c) + 1 < WorkEltNbr
    BY TwoBlocks DEF W!GET, W!FREE
  <1>4. W!HandStart(s, W!FREE) = IF b = W!FREE THEN W!Wrap(W!HandStart(r, W!FREE) + 1)
                                         ELSE W!HandStart(r, W!FREE)
    BY <1>1, <1>2, TwoBlocks
  <1>5. W!NbElt(s, b) = W!NbElt(r, b) /\ W!NbElt(s, c) = W!NbElt(r, c) + 1
    <2>1. /\ W!NbElt(s, b) = W!Dist(s.Out[b], s.In[b]) /\ W!NbElt(r, b) = W!Dist(r.Out[b], r.In[b])
          /\ W!NbElt(s, c) = W!Dist(s.Out[c], s.In[c]) /\ W!NbElt(r, c) = W!Dist(r.Out[c], r.In[c])
          /\ r.Out[c] \in W!Slots /\ r.In[c] \in W!Slots
      BY <1>2, TwoBlocks
    <2>. QED  BY <1>1, <1>3, <2>1, Distances
  <1>6. W!HandNbr(s, b) = W!HandNbr(r, b) - 1 /\ W!HandNbr(s, c) = W!HandNbr(r, c)
    <2>0. \A x, y \in W!Slots : W!Dist(x, y) > 0 => W!Dist(W!Wrap(x + 1), y) = W!Dist(x, y) - 1
      BY Distances
    <2>1. CASE b = W!GET /\ c = W!FREE
      <3>1. /\ W!HandNbr(s, b) = W!Dist(s.In[W!FREE], s.Out[b])
            /\ W!HandNbr(r, b) = W!Dist(r.In[W!FREE], r.Out[b])
            /\ r.In[W!FREE] \in W!Slots /\ r.Out[b] \in W!Slots
        BY <2>1, <1>2, TwoBlocks
      <3>2. W!HandNbr(s, b) = W!HandNbr(r, b) - 1
        BY <2>0, <2>1, <3>1, <1>1, <1>3
      <3>3. W!HandStart(s, W!FREE) = W!HandStart(r, W!FREE)
        BY <2>1, <1>4 DEF W!GET, W!FREE
      <3>. QED  BY <2>1, <3>2, <3>3, <1>1, <1>2, TwoBlocks
    <2>2. CASE b = W!FREE /\ c = W!GET
      <3>1. /\ W!HandNbr(s, b) = W!Dist(W!HandStart(s, W!FREE), s.Out[b])
            /\ W!HandNbr(r, b) = W!Dist(W!HandStart(r, W!FREE), r.Out[b])
            /\ W!HandStart(r, W!FREE) \in W!Slots /\ r.Out[b] \in W!Slots
        BY <2>2, <1>2, TwoBlocks
      <3>2. W!HandNbr(s, b) = W!HandNbr(r, b) - 1
        BY <2>0, <2>2, <3>1, <1>1, <1>3, <1>4
      <3>. QED  BY <2>2, <3>2, <1>1, <1>2, TwoBlocks
    <2>. QED  BY <2>1, <2>2
  <1>7. W!RingConserved(s)
    <2>1. CASE b = W!GET /\ c = W!FREE
      BY <2>1, <1>2, <1>5, <1>6, TwoBlocks
    <2>2. CASE b = W!FREE /\ c = W!GET
      BY <2>2, <1>2, <1>5, <1>6, TwoBlocks
    <2>. QED  BY <2>1, <2>2
  <1>. QED  BY <1>2, <1>4, <1>5, <1>6, <1>7

(* Where a Get of the producers finds its slot, and one of the thread.     *)
LEMMA SlotsAhead ==
    ASSUME WorkEltNbr \in Nat, WorkEltNbr >= 2, NEW r \in W!Rings, W!RingConserved(r)
    PROVE  LET ahead == W!HandNbr(r, W!FREE) + W!NbElt(r, W!FREE) + W!HandNbr(r, W!GET) IN
           /\ ahead \in Nat /\ ahead < WorkEltNbr
           /\ W!CanGet(r, W!GET, 1) => ahead + 1 < WorkEltNbr
           /\ W!Pick(r, W!GET) = W!Wrap(W!HandStart(r, W!FREE) + ahead)
           /\ W!Pick(r, W!FREE) = W!Wrap(W!HandStart(r, W!FREE) + W!HandNbr(r, W!FREE))
           /\ W!HasElt(r, W!FREE) <=> W!NbElt(r, W!FREE) > 0
  <1>. DEFINE w == W!HandNbr(r, W!FREE)
              e == W!NbElt(r, W!FREE)
              f == W!HandNbr(r, W!GET)
              start == W!HandStart(r, W!FREE)
  <1>1. /\ w \in Nat /\ e \in Nat /\ f \in Nat /\ start \in W!Slots
        /\ w + e + f < WorkEltNbr
        /\ W!CanGet(r, W!GET, 1) => w + e + f + 1 < WorkEltNbr
    BY TwoBlocks DEF W!GET, W!FREE
  <1>2. r.Out[W!FREE] = W!Wrap(start + w)
    BY TwoBlocks, Distances
  <1>3. r.In[W!FREE] = W!Wrap(r.Out[W!FREE] + e) /\ (e > 0 <=> r.In[W!FREE] # r.Out[W!FREE])
    <2>1. /\ r.In[W!FREE] \in W!Slots /\ r.Out[W!FREE] \in W!Slots
          /\ e = W!Dist(r.Out[W!FREE], r.In[W!FREE])
      BY TwoBlocks
    <2>. HIDE DEF e
    <2>2. r.In[W!FREE] = W!Wrap(r.Out[W!FREE] + e)
      BY <2>1, Distances
    <2>3. r.Out[W!FREE] = r.In[W!FREE] => e = 0
      BY <2>1, Distances
    <2>4. r.Out[W!FREE] # r.In[W!FREE] => e > 0
      BY <2>1, Distances
    <2>. QED  BY <2>2, <2>3, <2>4
  <1>4. r.Out[W!GET] = W!Wrap(r.In[W!FREE] + f)
    BY TwoBlocks, Distances
  <1>. HIDE DEF w, e, f, start
  <1>5. r.In[W!FREE] = W!Wrap(start + (w + e))
    BY <1>1, <1>2, <1>3, Further
  <1>6. r.Out[W!GET] = W!Wrap(start + ((w + e) + f))
    BY <1>1, <1>4, <1>5, Further
  <1>. QED  BY <1>1, <1>2, <1>3, <1>6 DEF W!Pick, W!HasElt, w, e, f, start

-----------------------------------------------------------------------------
(* The state of the queue.  Contents is about behaviours in which no two   *)
(* producers were filling slots at once; the rest holds in all.            *)
Typed ==
    /\ W!TypeOK
    /\ accepted \in Seq(W!Items)
    /\ finished \in Nat
    /\ ran \in Seq((W!Items \cup {W!NoItem}) \X (W!Items \cup {W!NoItem}))
    /\ \A p \in W!Filling : added[p] > 0

Busy == IF W!Working THEN 1 ELSE 0

(* Slots with an item, taken or not, and the j-th slot of the run of those *)
(* that were accepted and not yet given back.                              *)
Waiting == W!NbElt(widx, W!FREE) + Busy

SlotOf(j) == W!Wrap(W!HandStart(widx, W!FREE) + (j - 1))

Full(i) == [param |-> accepted[i], callback |-> accepted[i], task |-> accepted[i]]

Counted == Len(accepted) = finished + Waiting + Cardinality(W!Filling)

(* The work thread that has been told to quit is on its way.               *)
QuitSeen == quit /\ wpc = "down" => sem > 0

RanSoFar == 2 * finished + (CASE wpc = "callback" -> 1
                              [] wpc = "put" -> 2
                              [] OTHER -> 0)

FillingNow(p) ==
    /\ pslot[p] = SlotOf(Waiting + 1)
    /\ accepted[finished + Waiting + 1] = W!ItemOf(p)
    /\ ppc[p] \in {"task", "put"} => mem[pslot[p]].param = W!ItemOf(p)
                                     /\ mem[pslot[p]].callback = W!ItemOf(p)
    /\ ppc[p] = "put" => mem[pslot[p]].task = W!ItemOf(p)

Contents ==
    ~ overlap =>
      /\ \A p, q \in W!Filling : p = q
      /\ \A j \in 1 .. Waiting : mem[SlotOf(j)] = Full(finished + j)
      /\ \A p \in W!Filling : FillingNow(p)
      /\ W!Working => wslot = SlotOf(1)
      /\ Len(ran) = RanSoFar
      /\ W!InOrderWithoutOverlap

QueueInv == /\ Typed /\ W!SlotsAccounted /\ IsFiniteSet(W!Filling) /\ Counted
            /\ QuitSeen /\ Contents

(* What the accounts say in numbers.                                       *)
LEMMA Numbers ==
    ASSUME WorkEltNbr \in Nat, WorkEltNbr >= 2, W!TypeOK, W!SlotsAccounted, IsFiniteSet(W!Filling)
    PROVE  /\ W!HandStart(widx, W!FREE) \in W!Slots
           /\ Waiting \in Nat /\ Cardinality(W!Filling) \in Nat
           /\ Waiting + Cardinality(W!Filling) < WorkEltNbr
           /\ W!CanGet(widx, W!GET, 1) => Waiting + Cardinality(W!Filling) + 1 < WorkEltNbr
           /\ W!Pick(widx, W!GET) = SlotOf(Waiting + Cardinality(W!Filling) + 1)
           /\ ~ W!Working => W!Pick(widx, W!FREE) = SlotOf(1)
           /\ W!HasElt(widx, W!FREE) <=> W!NbElt(widx, W!FREE) > 0
           /\ W!NbElt(widx, W!FREE) \in Nat
  <1>. DEFINE ahead == W!HandNbr(widx, W!FREE) + W!NbElt(widx, W!FREE) + W!HandNbr(widx, W!GET)
  <1>1. widx \in W!Rings /\ W!RingConserved(widx)
    BY DEF W!TypeOK, W!SlotsAccounted
  <1>2. /\ W!HandNbr(widx, W!FREE) = Busy /\ W!HandNbr(widx, W!GET) = Cardinality(W!Filling)
        /\ Cardinality(W!Filling) \in Nat /\ Busy \in Nat
        /\ ~ W!Working => Busy = 0
    BY FS_CardinalityType, CardinalityThere DEF W!SlotsAccounted, Busy
  <1>3. /\ W!NbElt(widx, W!FREE) \in Nat /\ W!HandStart(widx, W!FREE) \in W!Slots
        /\ W!HandStart(widx, W!FREE) \in Int
    BY <1>1, TwoBlocks DEF W!Slots
  <1>4. /\ ahead \in Nat /\ ahead < WorkEltNbr
        /\ W!CanGet(widx, W!GET, 1) => ahead + 1 < WorkEltNbr
        /\ W!Pick(widx, W!GET) = W!Wrap(W!HandStart(widx, W!FREE) + ahead)
        /\ W!Pick(widx, W!FREE) = W!Wrap(W!HandStart(widx, W!FREE) + W!HandNbr(widx, W!FREE))
        /\ W!HasElt(widx, W!FREE) <=> W!NbElt(widx, W!FREE) > 0
    BY <1>1, SlotsAhead
  <1>5. ahead = Waiting + Cardinality(W!Filling) /\ Waiting \in Nat
    BY <1>2, <1>3 DEF Waiting
  <1>6. ahead = (Waiting + Cardinality(W!Filling) + 1) - 1
    BY <1>2, <1>5
  <1>7. W!Pick(widx, W!GET) = SlotOf(Waiting + Cardinality(W!Filling) + 1)
    BY <1>4, <1>6 DEF SlotOf
  <1>8. ~ W!Working => W!Pick(widx, W!FREE) = SlotOf(1)
    BY <1>2, <1>3, <1>4 DEF SlotOf
  <1>. HIDE DEF ahead
  <1>. QED  BY <1>2, <1>3, <1>4, <1>5, <1>7, <1>8

(* The slots of the run are different slots of the ring.                   *)
LEMMA SlotsOfRun ==
    ASSUME WorkEltNbr \in Nat, WorkEltNbr >= 2, W!HandStart(widx, W!FREE) \in W!Slots,
           NEW i \in 1 .. WorkEltNbr
    PROVE  /\ SlotOf(i) \in W!Slots
           /\ \A j \in 1 .. WorkEltNbr : i # j => SlotOf(i) # SlotOf(j)
           /\ i < WorkEltNbr => SlotOf(i + 1) = W!Wrap(W!Wrap(W!HandStart(widx, W!FREE) + 1) + (i - 1))
  BY SMTT(30) DEF SlotOf, W!Slots, W!Wrap

LEMMA QueueInitially ==
    ASSUME WorkEltNbr \in Nat, WorkEltNbr >= 2, MaxItems \in Nat, W!Init
    PROVE  QueueInv
  <1>1. W!Filling = {} /\ ~ W!Working
    BY DEF W!Init, W!Filling, W!Working
  <1>2. IsFiniteSet(W!Filling) /\ Cardinality(W!Filling) = 0
    BY <1>1, FS_EmptySet
  <1>3. W!TypeOK
    <2>1. widx \in W!Rings
      BY DEF W!Init, W!RingInit, W!Rings, W!Blocks, W!Slots, W!ProdID
    <2>2. [param |-> W!NoItem, callback |-> W!NoItem, task |-> W!NoItem]
            \in [param : W!Items \cup {W!NoItem}, callback : W!Items \cup {W!NoItem},
                task : W!Items \cup {W!NoItem}]
      OBVIOUS
    <2>3. 0 \in W!Slots
      BY DEF W!Slots
    <2>. DEFINE empty == [param |-> W!NoItem, callback |-> W!NoItem, task |-> W!NoItem]
    <2>4. mem = [s \in W!Slots |-> empty]
      BY DEF W!Init
    <2>. HIDE DEF empty
    <2>5. mem \in [W!Slots -> [param : W!Items \cup {W!NoItem}, callback : W!Items \cup {W!NoItem},
                            task : W!Items \cup {W!NoItem}]]
      BY <2>2, <2>4 DEF empty
    <2>6. flag \in BOOLEAN /\ quit \in BOOLEAN /\ overlap \in BOOLEAN
      BY Zenon DEF W!Init
    <2>7. /\ ppc \in [Producers -> {"idle", "params", "task", "put", "call", "up"}]
          /\ pslot \in [Producers -> W!Slots] /\ added \in [Producers -> 0 .. MaxItems]
          /\ sem \in Nat /\ wpc = "down" /\ wslot \in W!Slots
      BY <2>3 DEF W!Init
    <2>. QED  BY <2>1, <2>5, <2>6, <2>7 DEF W!TypeOK
  <1>4. /\ widx.In[W!GET] = 0 /\ widx.In[W!FREE] = 1
        /\ widx.Out[W!GET] = 1 /\ widx.Out[W!FREE] = 1
    BY DEF W!Init, W!RingInit, W!Blocks, W!ProdID, W!GET, W!FREE
  <1>5. /\ W!NbElt(widx, W!FREE) = 0 /\ W!NbElt(widx, W!GET) = WorkEltNbr - 1
        /\ W!HandNbr(widx, W!FREE) = 0 /\ W!HandNbr(widx, W!GET) = 0
    BY <1>4 DEF W!NbElt, W!HandNbr, W!HandStart, W!Dist, W!Wrap, W!LastBlock, W!ProdID, W!GET, W!FREE
  <1>6. W!SlotsAccounted
    BY <1>1, <1>2, <1>3, <1>5, TwoBlocks, CardinalityThere DEF W!SlotsAccounted, W!TypeOK
  <1>7. Typed
    BY <1>1, <1>3 DEF Typed, W!Init
  <1>8. Waiting = 0 /\ Counted /\ QuitSeen
    BY <1>1, <1>2, <1>5 DEF Waiting, Busy, Counted, QuitSeen, W!Init
  <1>9. Contents
    BY <1>1, <1>8 DEF Contents, RanSoFar, W!InOrderWithoutOverlap, W!Init
  <1>. QED  BY <1>2, <1>6, <1>7, <1>8, <1>9 DEF QueueInv

(* A step that leaves the ring, what is in it and who fills it alone.      *)
LEMMA StaysQueued ==
    ASSUME QueueInv, UNCHANGED <<widx, mem, pslot, accepted, finished, ran, overlap, wslot>>,
           W!Filling' = W!Filling, W!Working' <=> W!Working, RanSoFar' = RanSoFar,
           \A p \in W!Filling : ppc'[p] = ppc[p] /\ added'[p] = added[p]
    PROVE  /\ W!SlotsAccounted' /\ IsFiniteSet(W!Filling)' /\ Counted' /\ Contents'
  <1>1. Busy' = Busy /\ Waiting' = Waiting
    BY DEF Busy, Waiting
  <1>2. W!SlotsAccounted' /\ IsFiniteSet(W!Filling)'
    BY DEF QueueInv, W!SlotsAccounted
  <1>3. Counted'
    BY <1>1 DEF QueueInv, Counted
  <1>4. ASSUME NEW p \in W!Filling, FillingNow(p) PROVE FillingNow(p)'
    BY <1>1, <1>4 DEF FillingNow, SlotOf, W!ItemOf
  <1>5. W!InOrderWithoutOverlap' <=> W!InOrderWithoutOverlap
    BY DEF W!InOrderWithoutOverlap
  <1>6. Contents'
    BY <1>1, <1>4, <1>5 DEF QueueInv, Contents, SlotOf, Full
  <1>. QED  BY <1>2, <1>3, <1>6

-----------------------------------------------------------------------------
(* A producer that fills a slot holds one.                                 *)
LEMMA HeldByFilling ==
    ASSUME IsFiniteSet(W!Filling), NEW p \in Producers,
           ppc[p] \in {"params", "task", "put"}
    PROVE  Cardinality(W!Filling) \in Nat /\ Cardinality(W!Filling) >= 1
  <1>1. Cardinality(W!Filling) \in Nat
    BY FS_CardinalityType
  <1>2. Cardinality(W!Filling) # 0
    BY FS_EmptySet DEF W!Filling
  <1>. QED  BY <1>1, <1>2

(* The element of a slot, and a slot that is filled.                       *)
Elements == [param : W!Items \cup {W!NoItem}, callback : W!Items \cup {W!NoItem},
             task : W!Items \cup {W!NoItem}]

LEMMA Refill ==
    ASSUME NEW m \in [W!Slots -> Elements], NEW s \in W!Slots, NEW i \in W!Items
    PROVE  /\ [m EXCEPT ![s].param = i, ![s].callback = i] \in [W!Slots -> Elements]
           /\ [m EXCEPT ![s].task = i] \in [W!Slots -> Elements]
  <1>1. /\ [m[s] EXCEPT !.param = i] \in Elements
        /\ \A e \in Elements : [e EXCEPT !.callback = i] \in Elements
        /\ [m[s] EXCEPT !.task = i] \in Elements
    <2>1. m[s] \in Elements
      OBVIOUS
    <2>. QED  BY <2>1 DEF Elements
  <1>. HIDE DEF Elements
  <1>2. [m EXCEPT ![s] = [m[s] EXCEPT !.param = i]] \in [W!Slots -> Elements]
    BY <1>1
  <1>. QED  BY <1>1, <1>2

(* Every step keeps the types.                                             *)
LEMMA TypedStep ==
    ASSUME WorkEltNbr \in Nat, WorkEltNbr >= 2, MaxItems \in Nat, QueueInv, [W!Next]_W!vars
    PROVE  Typed'
  <1>0. /\ W!TypeOK /\ accepted \in Seq(W!Items) /\ finished \in Nat
        /\ ran \in Seq((W!Items \cup {W!NoItem}) \X (W!Items \cup {W!NoItem}))
        /\ \A p \in W!Filling : added[p] > 0
        /\ widx \in W!Rings /\ W!RingConserved(widx)
        /\ IsFiniteSet(W!Filling) /\ W!HandNbr(widx, W!GET) = Cardinality(W!Filling)
        /\ W!HandNbr(widx, W!FREE) = IF W!Working THEN 1 ELSE 0
    BY CardinalityThere DEF QueueInv, Typed, W!TypeOK, W!SlotsAccounted
  <1>two. W!GET \in {W!GET, W!FREE} /\ W!FREE \in {W!GET, W!FREE} /\ W!GET # W!FREE
    BY DEF W!GET, W!FREE
  <1>pick. W!Pick(widx, W!GET) \in W!Slots /\ W!Pick(widx, W!FREE) \in W!Slots
    BY <1>0, TwoBlocks DEF W!Pick
  <1>item. \A p \in W!Filling : W!ItemOf(p) \in W!Items
    BY <1>0 DEF W!ItemOf, W!Items, W!Filling, W!TypeOK
  <1>1. ASSUME NEW p \in Producers, W!AddGet(p) PROVE Typed'
    <2>1. widx' \in W!Rings
      BY <1>1, <1>0, <1>two, GetOne DEF W!AddGet
    <2>2. accepted' \in Seq(W!Items)
      <3>1. [by |-> p, nr |-> added[p] + 1] \in W!Items
        BY <1>1, <1>0 DEF W!AddGet, W!Items, W!TypeOK
      <3>. QED  BY <1>1, <1>0, <3>1 DEF W!AddGet
    <2>3. \A q \in W!Filling' : added'[q] > 0
      BY <1>1, <1>0 DEF W!AddGet, W!Goto, W!Filling, W!TypeOK
    <2>4. W!TypeOK'
      BY <1>1, <1>0, <1>pick, <2>1 DEF W!AddGet, W!Goto, W!TypeOK, W!workerVars
    <2>. QED  BY <1>1, <1>0, <2>2, <2>3, <2>4 DEF W!AddGet, Typed, W!workerVars
  <1>2. ASSUME NEW p \in Producers, W!AddOverflow(p) PROVE Typed'
    <2>1. W!TypeOK'
      BY <1>2, <1>0 DEF W!AddOverflow, W!TypeOK, W!workerVars
    <2>2. \A q \in W!Filling' : added'[q] > 0
      BY <1>2, <1>0 DEF W!AddOverflow, W!Filling, W!TypeOK
    <2>. QED  BY <1>2, <1>0, <2>1, <2>2 DEF W!AddOverflow, Typed, W!workerVars
  <1>3. ASSUME NEW p \in Producers, W!FillParams(p) PROVE Typed'
    <2>1. mem' \in [W!Slots -> [param : W!Items \cup {W!NoItem},
                              callback : W!Items \cup {W!NoItem},
                              task : W!Items \cup {W!NoItem}]]
      <3>1. W!ItemOf(p) \in W!Items /\ pslot[p] \in W!Slots
        BY <1>3, <1>0, <1>item DEF W!FillParams, W!Goto, W!Filling, W!TypeOK
      <3>2. mem' = [mem EXCEPT ![pslot[p]].param = W!ItemOf(p), ![pslot[p]].callback = W!ItemOf(p)]
        BY <1>3 DEF W!FillParams
      <3>3. mem \in [W!Slots -> Elements]
        BY <1>0 DEF W!TypeOK, Elements
      <3>4. mem' \in [W!Slots -> Elements]
        BY <3>1, <3>2, <3>3, Refill
      <3>. QED  BY <3>4 DEF Elements
    <2>2. W!TypeOK'
      BY <1>3, <1>0, <2>1 DEF W!FillParams, W!Goto, W!TypeOK, W!workerVars
    <2>3. \A q \in W!Filling' : added'[q] > 0
      BY <1>3, <1>0 DEF W!FillParams, W!Goto, W!Filling, W!TypeOK
    <2>. QED  BY <1>3, <1>0, <2>2, <2>3 DEF W!FillParams, Typed, W!workerVars
  <1>4. ASSUME NEW p \in Producers, W!FillTask(p) PROVE Typed'
    <2>1. mem' \in [W!Slots -> [param : W!Items \cup {W!NoItem},
                              callback : W!Items \cup {W!NoItem},
                              task : W!Items \cup {W!NoItem}]]
      <3>1. W!ItemOf(p) \in W!Items /\ pslot[p] \in W!Slots
        BY <1>4, <1>0, <1>item DEF W!FillTask, W!Goto, W!Filling, W!TypeOK
      <3>2. mem' = [mem EXCEPT ![pslot[p]].task = W!ItemOf(p)]
        BY <1>4 DEF W!FillTask
      <3>3. mem \in [W!Slots -> Elements]
        BY <1>0 DEF W!TypeOK, Elements
      <3>4. mem' \in [W!Slots -> Elements]
        BY <3>1, <3>2, <3>3, Refill
      <3>. QED  BY <3>4 DEF Elements
    <2>2. W!TypeOK'
      BY <1>4, <1>0, <2>1 DEF W!FillTask, W!Goto, W!TypeOK, W!workerVars
    <2>3. \A q \in W!Filling' : added'[q] > 0
      BY <1>4, <1>0 DEF W!FillTask, W!Goto, W!Filling, W!TypeOK
    <2>. QED  BY <1>4, <1>0, <2>2, <2>3 DEF W!FillTask, Typed, W!workerVars
  <1>5. ASSUME NEW p \in Producers, W!AddPut(p) PROVE Typed'
    <2>1. W!HandNbr(widx, W!GET) >= 1
      BY <1>5, HeldByFilling, <1>0 DEF W!AddPut, W!Goto
    <2>2. widx' \in W!Rings
      BY <1>5, <1>0, <1>two, <2>1, PutOne DEF W!AddPut
    <2>3. W!TypeOK'
      BY <1>5, <1>0, <2>2 DEF W!AddPut, W!Goto, W!TypeOK, W!workerVars
    <2>4. \A q \in W!Filling' : added'[q] > 0
      BY <1>5, <1>0 DEF W!AddPut, W!Goto, W!Filling, W!TypeOK
    <2>. QED  BY <1>5, <1>0, <2>3, <2>4 DEF W!AddPut, Typed, W!workerVars
  <1>6. ASSUME NEW p \in Producers, W!CallTask(p) \/ W!CallUp(p) PROVE Typed'
    <2>1. W!TypeOK'
      <3>1. /\ UNCHANGED <<widx, mem, pslot, added, quit, overlap, wpc, wslot>>
            /\ sem' \in {sem, sem + 1}
        BY <1>6 DEF W!CallTask, W!CallUp, W!workerVars
      <3>2. \E to \in {"up", "idle"} : ppc' = [ppc EXCEPT ![p] = to]
        BY <1>6 DEF W!CallTask, W!CallUp, W!Goto
      <3>3. flag' \in BOOLEAN
        <4>1. flag \in BOOLEAN
          BY <1>0 DEF W!TypeOK
        <4>2. CASE W!CallTask(p)
          BY <4>2, Zenon DEF W!CallTask
        <4>3. CASE W!CallUp(p)
          BY <4>1, <4>3, Zenon DEF W!CallUp
        <4>. QED  BY <1>6, <4>2, <4>3
      <3>. QED  BY <1>0, <3>1, <3>2, <3>3 DEF W!TypeOK
    <2>2. \A q \in W!Filling' : added'[q] > 0
      BY <1>6, <1>0 DEF W!CallTask, W!CallUp, W!Goto, W!Filling, W!TypeOK
    <2>. QED  BY <1>6, <1>0, <2>1, <2>2 DEF W!CallTask, W!CallUp, Typed, W!workerVars
  <1>7. ASSUME W!Down \/ W!TestFlag \/ W!ClearFlag \/ W!TestEmpty PROVE Typed'
    <2>1. W!TypeOK'
      <3>1. UNCHANGED <<widx, mem, ppc, pslot, added, quit, overlap, wslot>>
        BY <1>7 DEF W!Down, W!TestFlag, W!ClearFlag, W!TestEmpty, W!producerVars
      <3>2. wpc' \in {"exit", "test", "clear", "down", "drain", "get"}
        BY <1>7 DEF W!Down, W!TestFlag, W!ClearFlag, W!TestEmpty, W!Work, W!LoopHead
      <3>3. flag' = flag \/ flag' = FALSE
        BY <1>7, Zenon DEF W!Down, W!TestFlag, W!ClearFlag, W!TestEmpty
      <3>4. sem' = sem \/ (sem > 0 /\ sem' = sem - 1)
        BY <1>7 DEF W!Down, W!TestFlag, W!ClearFlag, W!TestEmpty
      <3>5. flag' \in BOOLEAN
        BY <1>0, <3>3, Zenon DEF W!TypeOK
      <3>. QED  BY <1>0, <3>1, <3>2, <3>4, <3>5 DEF W!TypeOK
    <2>. QED  BY <1>7, <1>0, <2>1 DEF W!Down, W!TestFlag, W!ClearFlag, W!TestEmpty, Typed, W!producerVars, W!Filling
  <1>8. ASSUME W!TakeItem PROVE Typed'
    <2>1. widx' \in W!Rings
      BY <1>8, <1>0, <1>two, GetOne DEF W!TakeItem
    <2>2. W!TypeOK'
      BY <1>8, <1>0, <1>pick, <2>1 DEF W!TakeItem, W!Work, W!TypeOK, W!producerVars
    <2>. QED  BY <1>8, <1>0, <2>2 DEF W!TakeItem, Typed, W!producerVars, W!Filling
  <1>9. ASSUME W!RunTask \/ W!RunCallback PROVE Typed'
    <2>1. W!TypeOK'
      BY <1>9, <1>0 DEF W!RunTask, W!RunCallback, W!Work, W!TypeOK, W!producerVars
    <2>2. mem[wslot] \in [param : W!Items \cup {W!NoItem}, callback : W!Items \cup {W!NoItem},
                          task : W!Items \cup {W!NoItem}]
      BY <1>0 DEF W!TypeOK
    <2>3. \A e \in W!Items \cup {W!NoItem} :
            <<e, mem[wslot].param>> \in (W!Items \cup {W!NoItem}) \X (W!Items \cup {W!NoItem})
      BY <2>2
    <2>4. \/ ran' = ran
          \/ ran' = Append(ran, <<mem[wslot].task, mem[wslot].param>>)
          \/ ran' = Append(ran, <<mem[wslot].callback, mem[wslot].param>>)
      BY <1>9 DEF W!RunTask, W!RunCallback
    <2>5. /\ mem[wslot].task \in W!Items \cup {W!NoItem}
          /\ mem[wslot].callback \in W!Items \cup {W!NoItem}
      BY <2>2
    <2>6. ran' \in Seq((W!Items \cup {W!NoItem}) \X (W!Items \cup {W!NoItem}))
      <3>. DEFINE Calls == (W!Items \cup {W!NoItem}) \X (W!Items \cup {W!NoItem})
      <3>1. /\ <<mem[wslot].task, mem[wslot].param>> \in Calls
            /\ <<mem[wslot].callback, mem[wslot].param>> \in Calls
            /\ ran \in Seq(Calls)
        BY <2>3, <2>5, <1>0
      <3>. HIDE DEF Calls
      <3>2. ran' \in Seq(Calls)
        <4>1. \A c \in Calls : Append(ran, c) \in Seq(Calls)
          BY <3>1
        <4>. QED  BY <2>4, <3>1, <4>1
      <3>. QED  BY <3>2 DEF Calls
    <2>. QED  BY <1>9, <1>0, <2>1, <2>6 DEF W!RunTask, W!RunCallback, Typed, W!producerVars, W!Filling
  <1>10. ASSUME W!PutItem PROVE Typed'
    <2>1. W!HandNbr(widx, W!FREE) >= 1
      BY <1>10, <1>0 DEF W!PutItem, W!Work, W!Working
    <2>2. widx' \in W!Rings
      BY <1>10, <1>0, <1>two, <2>1, PutOne DEF W!PutItem
    <2>3. W!TypeOK'
      BY <1>10, <1>0, <2>2 DEF W!PutItem, W!Work, W!TypeOK, W!producerVars
    <2>. QED  BY <1>10, <1>0, <2>3 DEF W!PutItem, Typed, W!producerVars, W!Filling
  <1>11. ASSUME W!Kill PROVE Typed'
    <2>1. W!TypeOK'
      BY <1>11, <1>0 DEF W!Kill, W!TypeOK, W!producerVars, W!workerVars
    <2>. QED  BY <1>11, <1>0, <2>1 DEF W!Kill, Typed, W!producerVars, W!workerVars, W!Filling
  <1>12. ASSUME UNCHANGED W!vars PROVE Typed'
    <2>1. W!TypeOK'
      BY <1>12, <1>0 DEF W!vars, W!TypeOK, W!producerVars, W!workerVars
    <2>. QED  BY <1>12, <1>0, <2>1 DEF W!vars, Typed, W!producerVars, W!workerVars, W!Filling
  <1>. QED
    BY <1>1, <1>2, <1>3, <1>4, <1>5, <1>6, <1>7, <1>8, <1>9, <1>10, <1>11, <1>12
       DEF W!Next, W!Worker, W!Finish

-----------------------------------------------------------------------------
(* The steps of the producers.                                             *)
LEMMA GetKeeps ==
    ASSUME WorkEltNbr \in Nat, WorkEltNbr >= 2, QueueInv, NEW p \in Producers, W!AddGet(p)
    PROVE  W!SlotsAccounted' /\ IsFiniteSet(W!Filling)' /\ Counted' /\ Contents'
  <1>0. /\ W!TypeOK /\ W!SlotsAccounted /\ IsFiniteSet(W!Filling) /\ Counted
        /\ accepted \in Seq(W!Items) /\ finished \in Nat
        /\ widx \in W!Rings /\ W!RingConserved(widx)
    BY CardinalityThere DEF QueueInv, Typed, W!TypeOK, W!SlotsAccounted
  <1>1. /\ p \notin W!Filling /\ W!Filling' = W!Filling \cup {p}
        /\ \A q \in W!Filling : ppc'[q] = ppc[q] /\ q # p
    BY <1>0 DEF W!AddGet, W!Goto, W!Filling, W!TypeOK
  <1>2. /\ IsFiniteSet(W!Filling') /\ Cardinality(W!Filling') = Cardinality(W!Filling) + 1
        /\ Cardinality(W!Filling) \in Nat
    BY <1>0, <1>1, FS_AddElement, FS_CardinalityType
  <1>3. UNCHANGED <<mem, wpc, wslot, ran, finished>>
    BY DEF W!AddGet, W!workerVars
  <1>4. /\ W!RingConserved(widx') /\ W!NbElt(widx', W!FREE) = W!NbElt(widx, W!FREE)
        /\ W!HandNbr(widx', W!GET) = W!HandNbr(widx, W!GET) + 1
        /\ W!HandNbr(widx', W!FREE) = W!HandNbr(widx, W!FREE)
        /\ W!HandStart(widx', W!FREE) = W!HandStart(widx, W!FREE)
    <2>1. /\ W!CanGet(widx, W!GET, 1) /\ widx' = W!AfterGet(widx, W!GET, 1)
          /\ W!GET \in {W!GET, W!FREE} /\ W!FREE \in {W!GET, W!FREE} /\ W!FREE # W!GET
      BY DEF W!AddGet, W!GET, W!FREE
    <2>. QED  BY <1>0, <2>1, GetOne
  <1>5. W!SlotsAccounted'
    BY <1>0, <1>2, <1>3, <1>4, CardinalityThere DEF W!SlotsAccounted, W!Working
  <1>6. Busy' = Busy /\ Waiting' = Waiting /\ Waiting \in Nat
    BY <1>0, <1>3, <1>4, Numbers DEF Busy, Waiting, W!Working
  <1>7. /\ accepted' = Append(accepted, [by |-> p, nr |-> added[p] + 1])
        /\ Len(accepted') = Len(accepted) + 1
        /\ accepted'[Len(accepted) + 1] = [by |-> p, nr |-> added[p] + 1]
        /\ \A i \in 1 .. Len(accepted) : accepted'[i] = accepted[i]
    BY <1>0 DEF W!AddGet
  <1>8. Len(accepted) = finished + Waiting + Cardinality(W!Filling)
    BY <1>0 DEF Counted
  <1>9. Counted'
    BY <1>0, <1>2, <1>3, <1>6, <1>7, <1>8 DEF Counted
  <1>10. ASSUME ~ overlap' PROVE Contents'
    <2>1. ~ overlap /\ W!Filling = {}
      BY <1>10 DEF W!AddGet
    <2>2. Cardinality(W!Filling) = 0 /\ Len(accepted) = finished + Waiting
      BY <1>0, <1>2, <1>6, <1>8, <2>1, FS_EmptySet
    <2>3. \A q, r \in W!Filling' : q = r
      BY <1>1, <2>1
    <2>4. \A j \in Nat : SlotOf(j)' = SlotOf(j)
      BY <1>4 DEF SlotOf
    <2>5. ASSUME NEW j \in 1 .. Waiting
          PROVE  mem'[SlotOf(j)'] = Full(finished + j)'
      <3>1. finished + j \in 1 .. Len(accepted)
        BY <1>0, <1>6, <2>2
      <3>2. mem[SlotOf(j)] = Full(finished + j)
        BY <2>1 DEF QueueInv, Contents
      <3>. QED  BY <1>3, <1>7, <2>4, <3>1, <3>2 DEF Full
    <2>6. FillingNow(p)'
      <3>1. pslot'[p] = W!Pick(widx, W!GET) /\ ppc'[p] = "params" /\ added'[p] = added[p] + 1
        BY <1>0 DEF W!AddGet, W!Goto, W!TypeOK
      <3>2. pslot'[p] = SlotOf(Waiting + 1)
        BY <1>0, <1>6, <2>2, <3>1, Numbers
      <3>3. SlotOf(Waiting + 1)' = SlotOf(Waiting + 1)
        BY <1>4, <1>6 DEF SlotOf
      <3>4. accepted'[finished + Waiting + 1] = [by |-> p, nr |-> added[p] + 1]
        BY <1>7, <2>2
      <3>5. accepted'[finished' + Waiting' + 1] = W!ItemOf(p)'
        BY <1>3, <1>6, <3>1, <3>4 DEF W!ItemOf
      <3>. QED  BY <3>1, <3>2, <3>3, <3>5 DEF FillingNow
    <2>7. W!InOrderWithoutOverlap'
      <3>. SUFFICES ASSUME NEW k \in 1 .. Len(ran)
                    PROVE  LET i == (k + 1) \div 2 IN
                             i <= Len(accepted') /\ ran[k] = <<accepted'[i], accepted'[i]>>
        BY <1>3 DEF W!InOrderWithoutOverlap
      <3>. DEFINE i == (k + 1) \div 2
      <3>1. i <= Len(accepted) /\ ran[k] = <<accepted[i], accepted[i]>>
        BY <2>1 DEF QueueInv, Contents, W!InOrderWithoutOverlap
      <3>2. i \in Nat /\ i >= 1
        BY DEF QueueInv, Typed
      <3>3. i \in 1 .. Len(accepted) /\ i <= Len(accepted')
        BY <1>0, <1>7, <3>1, <3>2
      <3>. QED  BY <1>7, <3>1, <3>3
    <2>8. /\ (W!Working => wslot = SlotOf(1))' /\ (Len(ran) = RanSoFar)'
      BY <1>3, <2>1, <2>4 DEF QueueInv, Contents, W!Working, RanSoFar
    <2>. QED  BY <1>1, <1>6, <2>1, <2>3, <2>5, <2>6, <2>7, <2>8 DEF Contents
  <1>11. Contents'
    BY <1>10 DEF Contents
  <1>. QED  BY <1>2, <1>5, <1>9, <1>11

LEMMA FillKeeps ==
    ASSUME WorkEltNbr \in Nat, WorkEltNbr >= 2, QueueInv, NEW p \in Producers,
           W!FillParams(p) \/ W!FillTask(p)
    PROVE  W!SlotsAccounted' /\ IsFiniteSet(W!Filling)' /\ Counted' /\ Contents'
  <1>0. /\ W!TypeOK /\ W!SlotsAccounted /\ IsFiniteSet(W!Filling) /\ Counted
        /\ accepted \in Seq(W!Items) /\ finished \in Nat
    BY DEF QueueInv, Typed
  <1>1. /\ p \in W!Filling /\ W!Filling' = W!Filling
        /\ UNCHANGED <<widx, pslot, added, accepted, overlap, wpc, wslot, ran, finished>>
    BY <1>0 DEF W!FillParams, W!FillTask, W!Goto, W!Filling, W!TypeOK, W!workerVars
  <1>2. W!SlotsAccounted' /\ IsFiniteSet(W!Filling)' /\ Counted'
    BY <1>0, <1>1 DEF W!SlotsAccounted, Counted, Waiting, Busy, W!Working
  <1>3. /\ Waiting' = Waiting /\ \A j \in Nat : SlotOf(j)' = SlotOf(j)
        /\ W!InOrderWithoutOverlap' <=> W!InOrderWithoutOverlap
        /\ RanSoFar' = RanSoFar /\ (W!Working' <=> W!Working)
    BY <1>1 DEF Waiting, Busy, W!Working, SlotOf, W!InOrderWithoutOverlap, RanSoFar
  <1>4. ASSUME ~ overlap PROVE Contents'
    <2>1. /\ \A q, r \in W!Filling : q = r
          /\ \A j \in 1 .. Waiting : mem[SlotOf(j)] = Full(finished + j)
          /\ FillingNow(p)
          /\ W!Working => wslot = SlotOf(1)
          /\ Len(ran) = RanSoFar /\ W!InOrderWithoutOverlap
      BY <1>1, <1>4 DEF QueueInv, Contents
    <2>2. Waiting \in Nat /\ Waiting + 1 <= WorkEltNbr /\ W!HandStart(widx, W!FREE) \in W!Slots
      <3>1. Waiting \in Nat /\ Cardinality(W!Filling) \in Nat
            /\ Waiting + Cardinality(W!Filling) < WorkEltNbr /\ W!HandStart(widx, W!FREE) \in W!Slots
        BY <1>0, Numbers
      <3>. QED  BY <3>1
    <2>3. ASSUME NEW j \in 1 .. Waiting PROVE mem'[SlotOf(j)] = Full(finished + j)
      <3>1. j \in 1 .. WorkEltNbr /\ Waiting + 1 \in 1 .. WorkEltNbr /\ j # Waiting + 1
        BY <2>2
      <3>2. SlotOf(j) # pslot[p]
        BY <2>1, <2>2, <3>1, SlotsOfRun DEF FillingNow
      <3>3. SlotOf(j) \in W!Slots
        BY <2>2, <3>1, SlotsOfRun
      <3>4. mem'[SlotOf(j)] = mem[SlotOf(j)]
        BY <1>0, <3>2, <3>3 DEF W!FillParams, W!FillTask, W!TypeOK
      <3>. QED  BY <2>1, <3>4
    <2>4. FillingNow(p)'
      <3>1. /\ pslot[p] \in W!Slots /\ mem \in [W!Slots -> [param : W!Items \cup {W!NoItem},
                         callback : W!Items \cup {W!NoItem}, task : W!Items \cup {W!NoItem}]]
            /\ ppc \in [Producers -> Places]
        BY <1>0 DEF W!TypeOK, Places
      <3>2. W!ItemOf(p)' = W!ItemOf(p) /\ pslot'[p] = SlotOf(Waiting + 1)'
            /\ accepted'[finished' + Waiting' + 1] = W!ItemOf(p)
        BY <1>1, <1>3, <2>1, <2>2 DEF W!ItemOf, FillingNow
      <3>3. CASE W!FillParams(p)
        <4>1. /\ mem'[pslot[p]].param = W!ItemOf(p) /\ mem'[pslot[p]].callback = W!ItemOf(p)
          BY <3>1, <3>3 DEF W!FillParams
        <4>2. ppc'[p] = "task"
          BY <3>1, <3>3 DEF W!FillParams, W!Goto
        <4>. QED  BY <1>1, <3>2, <4>1, <4>2 DEF FillingNow
      <3>4. CASE W!FillTask(p)
        <4>1. /\ mem'[pslot[p]].task = W!ItemOf(p)
              /\ mem'[pslot[p]].param = mem[pslot[p]].param
              /\ mem'[pslot[p]].callback = mem[pslot[p]].callback
          BY <3>1, <3>4 DEF W!FillTask
        <4>2. ppc[p] = "task"
          BY <3>4 DEF W!FillTask, W!Goto
        <4>. QED  BY <1>1, <2>1, <3>2, <4>1, <4>2 DEF FillingNow
      <3>. QED  BY <3>3, <3>4
    <2>5. \A j \in 1 .. Waiting' : mem'[SlotOf(j)'] = Full(finished + j)'
      BY <1>1, <1>3, <2>2, <2>3 DEF Full
    <2>6. (W!Working => wslot = SlotOf(1))' /\ (Len(ran) = RanSoFar)'
          /\ W!InOrderWithoutOverlap'
      BY <1>1, <1>3, <2>1
    <2>. QED  BY <1>1, <2>1, <2>4, <2>5, <2>6 DEF Contents
  <1>5. Contents'
    BY <1>1, <1>4 DEF Contents
  <1>. QED  BY <1>2, <1>5

LEMMA PutKeeps ==
    ASSUME WorkEltNbr \in Nat, WorkEltNbr >= 2, QueueInv, NEW p \in Producers, W!AddPut(p)
    PROVE  W!SlotsAccounted' /\ IsFiniteSet(W!Filling)' /\ Counted' /\ Contents'
  <1>0. /\ W!TypeOK /\ W!SlotsAccounted /\ IsFiniteSet(W!Filling) /\ Counted
        /\ accepted \in Seq(W!Items) /\ finished \in Nat
        /\ widx \in W!Rings /\ W!RingConserved(widx)
    BY CardinalityThere DEF QueueInv, Typed, W!TypeOK, W!SlotsAccounted
  <1>1. /\ p \in W!Filling /\ W!Filling' = W!Filling \ {p} /\ ppc[p] = "put"
    BY <1>0 DEF W!AddPut, W!Goto, W!Filling, W!TypeOK
  <1>2. /\ IsFiniteSet(W!Filling') /\ Cardinality(W!Filling') = Cardinality(W!Filling) - 1
        /\ Cardinality(W!Filling) \in Nat /\ Cardinality(W!Filling) >= 1
    <2>1. Cardinality(W!Filling) \in Nat /\ Cardinality(W!Filling) >= 1
      BY <1>0, <1>1, HeldByFilling
    <2>. QED  BY <1>0, <1>1, <2>1, FS_RemoveElement
  <1>3. UNCHANGED <<mem, pslot, added, accepted, overlap, wpc, wslot, ran, finished>>
    BY DEF W!AddPut, W!workerVars
  <1>4. /\ W!RingConserved(widx') /\ W!NbElt(widx', W!FREE) = W!NbElt(widx, W!FREE) + 1
        /\ W!HandNbr(widx', W!GET) = W!HandNbr(widx, W!GET) - 1
        /\ W!HandNbr(widx', W!FREE) = W!HandNbr(widx, W!FREE)
        /\ W!HandStart(widx', W!FREE) = W!HandStart(widx, W!FREE)
    <2>1. /\ W!HandNbr(widx, W!GET) >= 1 /\ widx' = W!AfterPut(widx, W!GET, 1)
          /\ W!GET \in {W!GET, W!FREE} /\ W!FREE \in {W!GET, W!FREE} /\ W!FREE # W!GET
      BY <1>0, <1>2, CardinalityThere DEF W!AddPut, W!SlotsAccounted, W!GET, W!FREE
    <2>. QED  BY <1>0, <2>1, PutOne
  <1>5. W!SlotsAccounted'
    BY <1>0, <1>2, <1>3, <1>4, CardinalityThere DEF W!SlotsAccounted, W!Working
  <1>6. /\ W!Working' <=> W!Working
        /\ Waiting' = Waiting + 1 /\ Waiting \in Nat
    <2>1. W!Working' <=> W!Working
      BY <1>3 DEF W!Working
    <2>2. W!NbElt(widx, W!FREE) \in Nat /\ Waiting \in Nat /\ Busy \in Nat /\ Busy' = Busy
      BY <1>0, <2>1, Numbers DEF Busy
    <2>. QED  BY <1>4, <2>1, <2>2 DEF Waiting
  <1>7. Counted'
    BY <1>0, <1>2, <1>3, <1>6 DEF Counted
  <1>8. ASSUME ~ overlap PROVE Contents'
    <2>1. /\ \A q, r \in W!Filling : q = r
          /\ \A j \in 1 .. Waiting : mem[SlotOf(j)] = Full(finished + j)
          /\ FillingNow(p)
          /\ W!Working => wslot = SlotOf(1)
          /\ Len(ran) = RanSoFar /\ W!InOrderWithoutOverlap
      BY <1>1, <1>8 DEF QueueInv, Contents
    <2>2. W!Filling' = {}
      BY <1>1, <2>1
    <2>3. \A j \in Nat : SlotOf(j)' = SlotOf(j)
      BY <1>4 DEF SlotOf
    <2>4. mem[SlotOf(Waiting + 1)] = Full(finished + (Waiting + 1))
      <3>1. /\ mem[pslot[p]].param = W!ItemOf(p) /\ mem[pslot[p]].callback = W!ItemOf(p)
            /\ mem[pslot[p]].task = W!ItemOf(p) /\ pslot[p] = SlotOf(Waiting + 1)
            /\ accepted[finished + Waiting + 1] = W!ItemOf(p)
        BY <1>1, <2>1 DEF FillingNow
      <3>2. mem[pslot[p]] \in [param : W!Items \cup {W!NoItem},
                               callback : W!Items \cup {W!NoItem},
                               task : W!Items \cup {W!NoItem}]
        BY <1>0 DEF W!TypeOK
      <3>3. mem[pslot[p]] = [param |-> W!ItemOf(p), callback |-> W!ItemOf(p),
                             task |-> W!ItemOf(p)]
        BY <3>1, <3>2
      <3>4. finished + (Waiting + 1) = finished + Waiting + 1
        BY <1>0, <1>6
      <3>. QED  BY <3>1, <3>3, <3>4 DEF Full
    <2>5. \A j \in 1 .. Waiting + 1 : mem[SlotOf(j)] = Full(finished + j)
      <3>. SUFFICES ASSUME NEW j \in 1 .. Waiting + 1
                    PROVE  mem[SlotOf(j)] = Full(finished + j)
        OBVIOUS
      <3>1. j \in 1 .. Waiting \/ j = Waiting + 1
        BY <1>6
      <3>. QED  BY <2>1, <2>4, <3>1
    <2>6. \A j \in 1 .. Waiting' : (mem[SlotOf(j)] = Full(finished + j))'
      <3>. SUFFICES ASSUME NEW j \in 1 .. Waiting + 1
                    PROVE  mem'[SlotOf(j)'] = Full(finished + j)'
        BY <1>6
      <3>1. SlotOf(j)' = SlotOf(j)
        BY <1>6, <2>3
      <3>2. Full(finished + j)' = Full(finished + j)
        BY <1>3 DEF Full
      <3>. QED  BY <1>3, <2>5, <3>1, <3>2
    <2>7. (W!Working => wslot = SlotOf(1))' /\ (Len(ran) = RanSoFar)'
          /\ W!InOrderWithoutOverlap'
      BY <1>3, <1>6, <2>1, <2>3 DEF RanSoFar, W!InOrderWithoutOverlap
    <2>. QED  BY <2>2, <2>6, <2>7 DEF Contents
  <1>9. Contents'
    BY <1>3, <1>8 DEF Contents
  <1>. QED  BY <1>2, <1>5, <1>7, <1>9

-----------------------------------------------------------------------------
(* The steps of the work thread.                                           *)
LEMMA TakeKeeps ==
    ASSUME WorkEltNbr \in Nat, WorkEltNbr >= 2, QueueInv, W!TakeItem
    PROVE  W!SlotsAccounted' /\ IsFiniteSet(W!Filling)' /\ Counted' /\ Contents'
  <1>0. /\ W!TypeOK /\ W!SlotsAccounted /\ IsFiniteSet(W!Filling) /\ Counted
        /\ widx \in W!Rings /\ W!RingConserved(widx)
    BY CardinalityThere DEF QueueInv, Typed, W!TypeOK, W!SlotsAccounted
  <1>1. /\ UNCHANGED <<mem, ppc, pslot, added, accepted, overlap, ran, finished>>
        /\ W!Filling' = W!Filling /\ ~ W!Working /\ W!Working' /\ wpc = "get" /\ wpc' = "run"
    BY DEF W!TakeItem, W!Work, W!Working, W!producerVars, W!Filling
  <1>2. /\ W!RingConserved(widx') /\ W!NbElt(widx', W!FREE) = W!NbElt(widx, W!FREE) - 1
        /\ W!HandNbr(widx', W!FREE) = W!HandNbr(widx, W!FREE) + 1
        /\ W!HandNbr(widx', W!GET) = W!HandNbr(widx, W!GET)
        /\ W!HandStart(widx', W!FREE) = W!HandStart(widx, W!FREE)
    <2>1. /\ W!CanGet(widx, W!FREE, 1) /\ widx' = W!AfterGet(widx, W!FREE, 1)
          /\ W!GET \in {W!GET, W!FREE} /\ W!FREE \in {W!GET, W!FREE} /\ W!FREE # W!GET
      BY DEF W!TakeItem, W!GET, W!FREE
    <2>. QED  BY <1>0, <2>1, GetOne
  <1>3. W!SlotsAccounted'
    BY <1>0, <1>1, <1>2 DEF W!SlotsAccounted
  <1>4. Waiting' = Waiting
    <2>1. W!NbElt(widx, W!FREE) \in Nat /\ Busy = 0 /\ Busy' = 1
      BY <1>0, <1>1, Numbers DEF Busy
    <2>. QED  BY <1>2, <2>1 DEF Waiting
  <1>5. Counted'
    BY <1>0, <1>1, <1>4 DEF Counted
  <1>6. /\ \A j : SlotOf(j)' = SlotOf(j)
        /\ \A i : Full(i)' = Full(i)
        /\ wslot' = SlotOf(1)
        /\ RanSoFar' = RanSoFar /\ (W!InOrderWithoutOverlap' <=> W!InOrderWithoutOverlap)
    <2>1. wslot' = SlotOf(1)
      BY <1>0, <1>1, Numbers DEF W!TakeItem
    <2>. QED  BY <1>1, <1>2, <2>1 DEF SlotOf, Full, RanSoFar, W!InOrderWithoutOverlap
  <1>7. \A q \in W!Filling : FillingNow(q) => FillingNow(q)'
    BY <1>1, <1>4, <1>6 DEF FillingNow, W!ItemOf
  <1>8. Contents'
    BY <1>1, <1>4, <1>6, <1>7 DEF QueueInv, Contents
  <1>. QED  BY <1>0, <1>1, <1>3, <1>5, <1>8

(* The half of an item: its k-th call is of item (k + 1) \div 2.           *)
LEMMA Halves ==
    ASSUME NEW f \in Nat
    PROVE  (2 * f + 2) \div 2 = f + 1 /\ (2 * f + 3) \div 2 = f + 1
  OBVIOUS

LEMMA RunKeeps ==
    ASSUME WorkEltNbr \in Nat, WorkEltNbr >= 2, QueueInv, W!RunTask \/ W!RunCallback
    PROVE  W!SlotsAccounted' /\ IsFiniteSet(W!Filling)' /\ Counted' /\ Contents'
  <1>0. /\ W!TypeOK /\ W!SlotsAccounted /\ IsFiniteSet(W!Filling) /\ Counted
        /\ accepted \in Seq(W!Items) /\ finished \in Nat
        /\ ran \in Seq((W!Items \cup {W!NoItem}) \X (W!Items \cup {W!NoItem}))
    BY DEF QueueInv, Typed
  <1>1. /\ UNCHANGED <<widx, mem, ppc, pslot, added, accepted, overlap, wslot, finished>>
        /\ W!Filling' = W!Filling /\ W!Working /\ W!Working'
    BY DEF W!RunTask, W!RunCallback, W!Work, W!Working, W!producerVars, W!Filling
  <1>2. Waiting' = Waiting /\ W!SlotsAccounted' /\ IsFiniteSet(W!Filling)' /\ Counted'
    BY <1>0, <1>1 DEF Waiting, Busy, W!SlotsAccounted, Counted
  <1>3. ASSUME ~ overlap PROVE Contents'
    <2>1. /\ \A q, r \in W!Filling : q = r
          /\ \A j \in 1 .. Waiting : mem[SlotOf(j)] = Full(finished + j)
          /\ \A q \in W!Filling : FillingNow(q)
          /\ wslot = SlotOf(1)
          /\ Len(ran) = RanSoFar /\ W!InOrderWithoutOverlap
      BY <1>1, <1>3 DEF QueueInv, Contents
    <2>2. Waiting \in Nat /\ Waiting >= 1 /\ Cardinality(W!Filling) \in Nat
      <3>1. /\ W!NbElt(widx, W!FREE) \in Nat /\ Waiting \in Nat /\ Cardinality(W!Filling) \in Nat
            /\ Busy = 1
        BY <1>0, <1>1, Numbers DEF Busy
      <3>. QED  BY <3>1 DEF Waiting
    <2>3. finished + 1 \in 1 .. Len(accepted)
      BY <1>0, <2>2 DEF Counted
    <2>4. /\ mem[wslot] = Full(finished + 1)
          /\ accepted[finished + 1] # W!NoItem
      <3>1. accepted[finished + 1] \in W!Items
        BY <1>0, <2>3
      <3>. QED  BY <2>1, <2>2, <3>1 DEF W!Items, W!NoItem
    <2>. DEFINE call == <<accepted[finished + 1], accepted[finished + 1]>>
    <2>5. ran' = Append(ran, call) /\ RanSoFar' = RanSoFar + 1
          /\ RanSoFar \in {2 * finished, 2 * finished + 1}
      <3>1. CASE W!RunTask
        <4>1. wpc = "run" /\ wpc' = "callback"
          BY <3>1 DEF W!RunTask, W!Work
        <4>2. RanSoFar = 2 * finished /\ RanSoFar' = 2 * finished + 1
          BY <1>0, <1>1, <4>1 DEF RanSoFar
        <4>3. ran' = Append(ran, call)
          BY <3>1, <2>4 DEF W!RunTask, Full
        <4>. QED  BY <1>0, <4>2, <4>3
      <3>2. CASE W!RunCallback
        <4>1. wpc = "callback" /\ wpc' = "put"
          BY <3>2 DEF W!RunCallback, W!Work
        <4>2. RanSoFar = 2 * finished + 1 /\ RanSoFar' = 2 * finished + 2
          BY <1>0, <1>1, <4>1 DEF RanSoFar
        <4>3. ran' = Append(ran, call)
          BY <3>2, <2>4 DEF W!RunCallback, Full
        <4>. QED  BY <1>0, <4>2, <4>3
      <3>. QED  BY <3>1, <3>2
    <2>6. /\ Len(ran') = Len(ran) + 1 /\ ran'[Len(ran) + 1] = call
          /\ \A k \in 1 .. Len(ran) : ran'[k] = ran[k]
          /\ Len(ran) \in Nat
      <3>. HIDE DEF call
      <3>. QED  BY <1>0, <2>5
    <2>7. W!InOrderWithoutOverlap'
      <3>. SUFFICES ASSUME NEW k \in 1 .. Len(ran')
                    PROVE  LET i == (k + 1) \div 2 IN
                             i <= Len(accepted) /\ ran'[k] = <<accepted[i], accepted[i]>>
        BY <1>1 DEF W!InOrderWithoutOverlap
      <3>1. CASE k \in 1 .. Len(ran)
        BY <1>3, <2>1, <2>6, <3>1 DEF W!InOrderWithoutOverlap
      <3>2. CASE k = Len(ran) + 1
        <4>1. k + 1 = 2 * finished + 2 \/ k + 1 = 2 * finished + 3
          BY <1>0, <2>1, <2>5, <3>2
        <4>2. (k + 1) \div 2 = finished + 1
          BY <1>0, <4>1, Halves
        <4>. QED  BY <2>3, <2>6, <3>2, <4>2
      <3>. QED  BY <2>6, <3>1, <3>2
    <2>8. (Len(ran) = RanSoFar)'
      BY <2>1, <2>5, <2>6
    <2>9. (\A q \in W!Filling : FillingNow(q))' /\ (W!Working => wslot = SlotOf(1))'
          /\ (\A j \in 1 .. Waiting : mem[SlotOf(j)] = Full(finished + j))'
      BY <1>1, <1>2, <2>1 DEF FillingNow, W!ItemOf, SlotOf, Full
    <2>. QED  BY <1>1, <2>1, <2>7, <2>8, <2>9 DEF Contents
  <1>4. Contents'
    BY <1>1, <1>3 DEF Contents
  <1>. QED  BY <1>2, <1>4

LEMMA GiveBackKeeps ==
    ASSUME WorkEltNbr \in Nat, WorkEltNbr >= 2, QueueInv, W!PutItem
    PROVE  W!SlotsAccounted' /\ IsFiniteSet(W!Filling)' /\ Counted' /\ Contents'
  <1>0. /\ W!TypeOK /\ W!SlotsAccounted /\ IsFiniteSet(W!Filling) /\ Counted
        /\ accepted \in Seq(W!Items) /\ finished \in Nat
        /\ widx \in W!Rings /\ W!RingConserved(widx)
    BY CardinalityThere DEF QueueInv, Typed, W!TypeOK, W!SlotsAccounted
  <1>1. /\ UNCHANGED <<mem, ppc, pslot, added, accepted, overlap, ran, wslot>>
        /\ W!Filling' = W!Filling /\ W!Working /\ ~ W!Working' /\ finished' = finished + 1
        /\ wpc = "put" /\ wpc' = "drain"
    BY DEF W!PutItem, W!Work, W!Working, W!producerVars, W!Filling
  <1>2. /\ W!RingConserved(widx') /\ W!NbElt(widx', W!FREE) = W!NbElt(widx, W!FREE)
        /\ W!HandNbr(widx', W!FREE) = 0 /\ W!HandNbr(widx', W!GET) = W!HandNbr(widx, W!GET)
        /\ W!HandStart(widx', W!FREE) = W!Wrap(W!HandStart(widx, W!FREE) + 1)
    <2>1. /\ W!HandNbr(widx, W!FREE) = 1 /\ widx' = W!AfterPut(widx, W!FREE, 1)
          /\ W!GET \in {W!GET, W!FREE} /\ W!FREE \in {W!GET, W!FREE} /\ W!FREE # W!GET
      BY <1>0, <1>1 DEF W!PutItem, W!SlotsAccounted, W!GET, W!FREE
    <2>. QED  BY <1>0, <2>1, PutOne
  <1>3. W!SlotsAccounted'
    BY <1>0, <1>1, <1>2 DEF W!SlotsAccounted
  <1>4. /\ Waiting' = Waiting - 1 /\ Waiting \in Nat /\ Waiting >= 1
        /\ Cardinality(W!Filling) \in Nat /\ Waiting + Cardinality(W!Filling) < WorkEltNbr
        /\ W!HandStart(widx, W!FREE) \in W!Slots
    <2>1. W!NbElt(widx, W!FREE) \in Nat /\ Busy = 1 /\ Busy' = 0
      BY <1>0, <1>1, Numbers DEF Busy
    <2>2. /\ Waiting \in Nat /\ Cardinality(W!Filling) \in Nat
          /\ Waiting + Cardinality(W!Filling) < WorkEltNbr /\ W!HandStart(widx, W!FREE) \in W!Slots
      BY <1>0, Numbers
    <2>. QED  BY <1>2, <2>1, <2>2 DEF Waiting
  <1>5. Counted'
    BY <1>0, <1>1, <1>4 DEF Counted
  <1>6. ASSUME ~ overlap PROVE Contents'
    <2>1. /\ \A q, r \in W!Filling : q = r
          /\ \A j \in 1 .. Waiting : mem[SlotOf(j)] = Full(finished + j)
          /\ \A q \in W!Filling : FillingNow(q)
          /\ Len(ran) = RanSoFar /\ W!InOrderWithoutOverlap
      BY <1>6 DEF QueueInv, Contents
    <2>2. ASSUME NEW j \in 1 .. Waiting PROVE SlotOf(j)' = SlotOf(j + 1)
      <3>1. j \in 1 .. WorkEltNbr /\ j < WorkEltNbr
        BY <1>4
      <3>2. SlotOf(j + 1) = W!Wrap(W!Wrap(W!HandStart(widx, W!FREE) + 1) + (j - 1))
        BY <1>4, <3>1, SlotsOfRun
      <3>. QED  BY <1>2, <3>2 DEF SlotOf
    <2>3. ASSUME NEW j \in 1 .. Waiting'
          PROVE  (mem[SlotOf(j)] = Full(finished + j))'
      <3>1. j \in 1 .. Waiting /\ j + 1 \in 1 .. Waiting
        BY <1>4
      <3>2. mem[SlotOf(j + 1)] = Full(finished + (j + 1))
        BY <2>1, <3>1
      <3>3. finished' + j = finished + (j + 1)
        BY <1>0, <1>1, <3>1
      <3>. QED  BY <1>1, <2>2, <3>1, <3>2, <3>3 DEF Full
    <2>4. ASSUME NEW q \in W!Filling PROVE FillingNow(q)'
      <3>1. /\ SlotOf(Waiting + 1)' = SlotOf(Waiting + 1)
            /\ finished' + Waiting' + 1 = finished + Waiting + 1
        <4>1. Waiting \in 1 .. Waiting /\ Waiting' + 1 = Waiting
          BY <1>4
        <4>2. finished' + Waiting' + 1 = finished + Waiting + 1
          BY <1>0, <1>1, <1>4
        <4>. QED  BY <2>2, <4>1, <4>2
      <3>. QED  BY <1>1, <2>1, <3>1 DEF FillingNow, W!ItemOf
    <2>5. RanSoFar' = RanSoFar /\ W!InOrderWithoutOverlap'
      BY <1>0, <1>1, <2>1 DEF RanSoFar, W!InOrderWithoutOverlap
    <2>. QED  BY <1>1, <2>1, <2>3, <2>4, <2>5 DEF Contents
  <1>7. Contents'
    BY <1>1, <1>6 DEF Contents
  <1>. QED  BY <1>0, <1>1, <1>3, <1>5, <1>7

-----------------------------------------------------------------------------
(* Only the thread goes to sleep, and it looks at quit first; it is woken  *)
(* when it is told to quit.                                                *)
LEMMA QuitStep == QueueInv /\ [W!Next]_W!vars => QuitSeen'
  <1>. SUFFICES ASSUME QueueInv, [W!Next]_W!vars PROVE QuitSeen'
    OBVIOUS
  <1>0. sem \in Nat /\ QuitSeen
    BY DEF QueueInv, Typed, W!TypeOK
  <1>1. ASSUME NEW p \in Producers, W!AddGet(p) \/ W!AddOverflow(p) \/ W!Finish(p)
        PROVE  QuitSeen'
    <2>1. UNCHANGED <<quit, wpc>> /\ sem' \in {sem, sem + 1}
      BY <1>1 DEF W!AddGet, W!AddOverflow, W!Finish, W!FillParams, W!FillTask, W!AddPut,
                  W!CallTask, W!CallUp, W!workerVars
    <2>. QED  BY <1>0, <2>1 DEF QuitSeen
  <1>2. CASE W!Worker
    <2>1. quit' = quit /\ (wpc' = "down" => ~ quit)
      BY <1>2 DEF W!Worker, W!Down, W!TestFlag, W!ClearFlag, W!TestEmpty, W!TakeItem, W!RunTask,
                  W!RunCallback, W!PutItem, W!Work, W!LoopHead
    <2>. QED  BY <2>1 DEF QuitSeen
  <1>3. CASE W!Kill
    BY <1>0, <1>3 DEF W!Kill, QuitSeen
  <1>4. CASE UNCHANGED W!vars
    BY <1>0, <1>4 DEF W!vars, W!workerVars, QuitSeen
  <1>. QED  BY <1>1, <1>2, <1>3, <1>4 DEF W!Next

(* The steps that touch neither the ring nor what is in it.                *)
LEMMA QuietKeeps ==
    ASSUME QueueInv,
           \/ \E p \in Producers : W!AddOverflow(p) \/ W!CallTask(p) \/ W!CallUp(p)
           \/ W!Down \/ W!TestFlag \/ W!ClearFlag \/ W!TestEmpty \/ W!Kill \/ UNCHANGED W!vars
    PROVE  W!SlotsAccounted' /\ IsFiniteSet(W!Filling)' /\ Counted' /\ Contents'
  <1>0. ppc \in [Producers -> Places] /\ added \in [Producers -> 0 .. MaxItems]
    BY DEF QueueInv, Typed, W!TypeOK, Places
  <1>1. CASE \E p \in Producers : W!AddOverflow(p) \/ W!CallTask(p) \/ W!CallUp(p)
    <2>0. PICK p \in Producers : W!AddOverflow(p) \/ W!CallTask(p) \/ W!CallUp(p)
      BY <1>1
    <2>1. UNCHANGED <<widx, mem, pslot, accepted, finished, ran, overlap, wslot>>
      BY <2>0 DEF W!AddOverflow, W!CallTask, W!CallUp, W!workerVars
    <2>2. /\ W!Filling' = W!Filling
          /\ \A q \in W!Filling : ppc'[q] = ppc[q] /\ added'[q] = added[q]
      BY <1>0, <2>0 DEF W!AddOverflow, W!CallTask, W!CallUp, W!Goto, W!Filling, W!workerVars
    <2>3. UNCHANGED <<wpc, finished>>
      BY <2>0 DEF W!AddOverflow, W!CallTask, W!CallUp, W!workerVars
    <2>4. (W!Working' <=> W!Working) /\ RanSoFar' = RanSoFar
      BY <2>3 DEF W!Working, RanSoFar
    <2>. QED  BY <2>1, <2>2, <2>4, StaysQueued
  <1>2. CASE W!Down \/ W!TestFlag \/ W!ClearFlag \/ W!TestEmpty \/ W!Kill \/ UNCHANGED W!vars
    <2>1. UNCHANGED <<widx, mem, pslot, accepted, finished, ran, overlap, wslot, ppc, added>>
      BY <1>2 DEF W!Down, W!TestFlag, W!ClearFlag, W!TestEmpty, W!Kill, W!vars, W!workerVars,
                  W!producerVars
    <2>2. \/ wpc' = wpc
          \/ wpc \notin {"run", "callback", "put"} /\ wpc' \notin {"run", "callback", "put"}
      BY <1>2 DEF W!Down, W!TestFlag, W!ClearFlag, W!TestEmpty, W!Kill, W!vars, W!workerVars, W!Work,
                  W!LoopHead
    <2>3. (W!Working' <=> W!Working) /\ RanSoFar' = RanSoFar
      BY <2>1, <2>2 DEF W!Working, RanSoFar
    <2>4. /\ W!Filling' = W!Filling
          /\ \A q \in W!Filling : ppc'[q] = ppc[q] /\ added'[q] = added[q]
      BY <2>1 DEF W!Filling
    <2>. QED  BY <2>1, <2>3, <2>4, StaysQueued
  <1>. QED  BY <1>1, <1>2

LEMMA QueueStep ==
    ASSUME WorkEltNbr \in Nat, WorkEltNbr >= 2, MaxItems \in Nat, QueueInv, [W!Next]_W!vars
    PROVE  QueueInv'
  <1>1. Typed' /\ QuitSeen'
    BY TypedStep, QuitStep
  <1>2. W!SlotsAccounted' /\ IsFiniteSet(W!Filling)' /\ Counted' /\ Contents'
    <2>1. CASE \E p \in Producers : W!AddGet(p)
      BY <2>1, GetKeeps
    <2>2. CASE \E p \in Producers : W!FillParams(p) \/ W!FillTask(p)
      BY <2>2, FillKeeps
    <2>3. CASE \E p \in Producers : W!AddPut(p)
      BY <2>3, PutKeeps
    <2>4. CASE W!TakeItem
      BY <2>4, TakeKeeps
    <2>5. CASE W!RunTask \/ W!RunCallback
      BY <2>5, RunKeeps
    <2>6. CASE W!PutItem
      BY <2>6, GiveBackKeeps
    <2>7. CASE \/ \E p \in Producers : W!AddOverflow(p) \/ W!CallTask(p) \/ W!CallUp(p)
               \/ W!Down \/ W!TestFlag \/ W!ClearFlag \/ W!TestEmpty \/ W!Kill \/ UNCHANGED W!vars
      BY <2>7, QuietKeeps
    <2>. QED  BY <2>1, <2>2, <2>3, <2>4, <2>5, <2>6, <2>7 DEF W!Next, W!Finish, W!Worker
  <1>. QED  BY <1>1, <1>2 DEF QueueInv

(* A thread that sleeps unwoken, with nobody on the way to wake it, has    *)
(* left nothing: that no item waits is NoLostWakeup, and that none is lost *)
(* is the count.                                                           *)
LEMMA SleepsWhenDone ==
    ASSUME WorkEltNbr \in Nat, WorkEltNbr >= 2, QueueInv, W!NoLostWakeup
    PROVE  W!NothingLeftBehind
  <1>. SUFFICES ASSUME wpc = "down", sem = 0, \A p \in Producers : ppc[p] = "idle"
                PROVE  finished = Len(accepted) /\ ~ W!HasElt(widx, W!FREE)
    BY DEF W!NothingLeftBehind
  <1>1. ~ quit
    BY DEF QueueInv, QuitSeen
  <1>2. ~ W!HasElt(widx, W!FREE)
    BY <1>1 DEF W!NoLostWakeup, W!WakeupPending, W!Working
  <1>3. W!TypeOK /\ W!SlotsAccounted /\ IsFiniteSet(W!Filling) /\ Counted /\ finished \in Nat
    BY DEF QueueInv, Typed
  <1>4. W!Filling = {} /\ ~ W!Working
    BY DEF W!Filling, W!Working
  <1>5. Waiting = 0 /\ Cardinality(W!Filling) = 0
    <2>1. W!NbElt(widx, W!FREE) \in Nat /\ (W!HasElt(widx, W!FREE) <=> W!NbElt(widx, W!FREE) > 0)
      BY <1>3, Numbers
    <2>. QED  BY <1>2, <1>4, <2>1, FS_EmptySet DEF Waiting, Busy
  <1>. QED  BY <1>2, <1>3, <1>5 DEF Counted

(* The whole of what the queue promises: the slots producers fill and the  *)
(* one the thread works on are the gaps between the indexes, no wakeup and *)
(* no item is lost, and, as long as no two producers fill slots at once,   *)
(* what the thread calls is what was queued, in order, each task with its  *)
(* own parameters and then its callback (drv_hal_add_workitem and          *)
(* drv_hal_workitem_task).                                                 *)
THEOREM WorkFifoQueueSound ==
    ASSUME WorkEltNbr \in Nat, WorkEltNbr >= 2, MaxItems \in Nat
    PROVE  W!Spec => []W!QueueSound
  <1>1. W!Init => QueueInv /\ WorkIInv
    BY QueueInitially, Initially
  <1>2. (QueueInv /\ WorkIInv) /\ [W!Next]_W!vars => (QueueInv /\ WorkIInv)'
    BY QueueStep, Inductive
  <1>3. QueueInv /\ WorkIInv => W!QueueSound
    <2>. SUFFICES ASSUME QueueInv, WorkIInv PROVE W!QueueSound
      OBVIOUS
    <2>1. W!TypeOK /\ W!SlotsAccounted /\ W!NoLostWakeup
      BY DEF QueueInv, Typed, WorkIInv
    <2>2. W!NothingLeftBehind
      BY <2>1, SleepsWhenDone
    <2>3. W!InOrderWithoutOverlap
      BY DEF QueueInv, Contents, W!InOrderWithoutOverlap
    <2>. QED  BY <2>1, <2>2, <2>3 DEF W!QueueSound
  <1>. QED  BY <1>1, <1>2, <1>3, PTL DEF W!Spec

(* The same of the behaviours that MCFifos checks.                         *)
THEOREM FifosQueueSound == MCSpec => []QueueSound
  <1>1. MCSpec => W!Spec
    <2>1. MCInit => W!Init
      BY DEF MCInit
    <2>2. [MCNext]_<<ring, vars, workVars, rxVars>> => [W!Next]_W!vars
      BY DEF MCNext, workVars, W!vars, W!producerVars, W!workerVars
    <2>. QED  BY <2>1, <2>2, PTL DEF MCSpec, W!Spec
  <1>2. W!Spec => []W!QueueSound
    BY WorkAssumption, WorkFifoQueueSound
  <1>. QED  BY <1>1, <1>2, PTL DEF QueueSound

-----------------------------------------------------------------------------
(* The host's receive ring, for every size of the two rings and of a block.*)
(* Positions are written as so many cells on from another; that a batch is *)
(* written clear of what is due, and that it is what the chip held next,   *)
(* is arithmetic of such distances (ReadWrites).  Frames stay whole because*)
(* batches and the receive thread's copy of FDT end where a frame ends.    *)

(* How far a is ahead of b in the host's ring.                             *)
Ahead(a, b) == IF a >= b THEN a - b ELSE a + FDN - b

Reading == irq.pc \in {"read", "commit"}

(* Part was read and part was refused: Commit makes it an exception.       *)
Doomed == Reading /\ irq.read /\ irq.refused

(* Cells of the batch that the interrupt thread has read.                  *)
Got == IF Reading /\ ~ irq.refused THEN irq.total - irq.remain ELSE 0

Irqs == [pc : {"idle", "read", "commit", "wake"}, total : Nat, remain : Nat,
         fdt : Nat, first : BOOLEAN, read : BOOLEAN, refused : BOOLEAN]
Rxs == [pc : {"down", "frames", "publish"}, fdh : 0 .. FDN - 1, fdt : 0 .. FDN - 1]
RxGhosts == [frames : Nat, suspends : Nat, noMemory : Nat, sent : Seq(R!Cells),
             due : Seq(R!Cells), whole : BOOLEAN, starved : BOOLEAN,
             unsynced : BOOLEAN, sure : BOOLEAN]

ChipTypes == /\ sram \in [0 .. Sram - 1 -> R!Cells]
             /\ wr \in 0 .. Sram - 1 /\ rd \in 0 .. Sram - 1 /\ off \in 0 .. Sram - 1
RingTypes == /\ fifo \in [0 .. FDN + R!Slack - 1 -> R!Cells]
             /\ FDT \in 0 .. FDN - 1 /\ FDH \in 0 .. FDN - 1
             /\ rx \in Rxs
IrqTypes  == /\ irq \in Irqs
             /\ irq.fdt \in 0 .. FDN - 1
             /\ irq.remain <= irq.total
             /\ Reading => /\ irq.total < Sram /\ irq.total < FDN
                           /\ irq.total > 0
                           /\ irq.read \/ irq.refused \/ irq.remain = irq.total
             /\ irq.pc = "commit" => irq.remain = 0
HostTypes == ChipTypes /\ RingTypes /\ IrqTypes /\ ghost \in RxGhosts

(* The cell at i is part of a whole frame; all cells are.                  *)
WholeAt(s, i) ==
    LET b == i - s[i].part IN
    /\ s[i].part \in 1 .. s[i].len /\ s[i].len \in Lengths
    /\ b >= 0 /\ b + s[i].len <= Len(s)
    /\ \A k \in 1 .. s[i].len : s[b + k].part = k /\ s[b + k].len = s[i].len
Framed(s) == \A i \in 1 .. Len(s) : WholeAt(s, i)

EndsFrame(s, n) == s[n].part = s[n].len

(* What was sent and not read is on the chip from rd on.                   *)
OnChip == ~ Doomed =>
    /\ Got <= Len(ghost.sent) /\ Len(ghost.sent) - Got < Sram
    /\ wr = R!Advance(rd, Len(ghost.sent) - Got, Sram)
    /\ \A k \in Got + 1 .. Len(ghost.sent) :
          sram[R!Advance(rd, k - Got - 1, Sram)] = ghost.sent[k]

InStep == /\ ~ Reading /\ ~ ghost.unsynced => off = rd
          /\ Reading /\ ~ irq.refused => off = rd /\ ~ ghost.unsynced

(* The batch grows from FDT on and stays clear of FDH, the rest of its last*)
(* block included; it ends at the end of a frame.                          *)
Batch ==
    /\ Reading => /\ irq.fdt = R!Advance(FDT, irq.total - irq.remain, FDN)
                  /\ Ahead(FDT, FDH) + irq.total + Block < FDN
    /\ Reading /\ ~ irq.refused =>
         /\ irq.total <= Len(ghost.sent) /\ EndsFrame(ghost.sent, irq.total)
         /\ \A k \in 1 .. irq.total - irq.remain :
               fifo[R!Advance(FDT, k - 1, FDN)] = ghost.sent[k]

(* What is due is in the ring, from where the receive thread is up to FDT. *)
DueInRing ==
    /\ Len(ghost.due) = Ahead(FDT, R!Front) /\ Ahead(FDT, R!Front) <= Ahead(FDT, FDH)
    /\ \A k \in 1 .. Len(ghost.due) : fifo[R!Advance(R!Front, k - 1, FDN)] = ghost.due[k]

(* The receive thread's copy of FDT is at the end of a frame.              *)
Batched == rx.pc = "frames" =>
    LET p == Ahead(rx.fdt, rx.fdh) IN
    p <= Len(ghost.due) /\ (p # 0 => EndsFrame(ghost.due, p))

HostSound == /\ OnChip /\ InStep /\ Batch /\ DueInRing /\ Batched
             /\ Framed(ghost.due) /\ Framed(ghost.sent) /\ ghost.whole

HostInv == HostTypes /\ (ghost.sure => HostSound)

-----------------------------------------------------------------------------
(* Positions in a ring.                                                    *)
LEMMA RxSizes ==
    /\ FDN \in Nat /\ FDN > 0 /\ Sram \in Nat /\ Sram > 0
    /\ Block \in Nat /\ Block > 0 /\ R!Slack = 2 * Block
    /\ Once \in Nat /\ Bufferable \in Nat
  BY RxAssumption DEF R!Slack

(* A position so far on is in the ring.                                    *)
LEMMA AdvanceIn ==
    ASSUME NEW l \in Nat, l > 0, NEW a \in 0 .. l - 1, NEW n \in 0 .. l
    PROVE  R!Advance(a, n, l) \in 0 .. l - 1
  BY DEF R!Advance

LEMMA AdvanceZero ==
    ASSUME NEW l \in Nat, l > 0, NEW a \in 0 .. l - 1
    PROVE  R!Advance(a, 0, l) = a
  BY DEF R!Advance

(* Steps on add up,                                                        *)
LEMMA AdvanceTwice ==
    ASSUME NEW l \in Nat, l > 0, NEW a \in 0 .. l - 1, NEW m \in Nat, NEW n \in Nat,
           m + n < l
    PROVE  R!Advance(R!Advance(a, m, l), n, l) = R!Advance(a, m + n, l)
  BY DEF R!Advance

(* and different ones lead to different places.                            *)
LEMMA AdvanceOnce ==
    ASSUME NEW l \in Nat, l > 0, NEW a \in 0 .. l - 1,
           NEW m \in 0 .. l - 1, NEW n \in 0 .. l - 1,
           R!Advance(a, m, l) = R!Advance(a, n, l)
    PROVE  m = n
  BY DEF R!Advance

(* The distance back, as the code takes it in Distance.                    *)
LEMMA AheadIs ==
    ASSUME NEW a \in 0 .. FDN - 1, NEW b \in 0 .. FDN - 1
    PROVE  /\ Ahead(a, b) \in 0 .. FDN - 1
           /\ R!Advance(b, Ahead(a, b), FDN) = a
           /\ Ahead(a, b) = 0 <=> a = b
           /\ a # b => R!Distance(a, b, FDN) = Ahead(a, b)
           /\ R!Distance(b, a, FDN) = FDN - Ahead(a, b)
           /\ R!Distance(a, b, FDN) \in 1 .. FDN
  BY RxSizes DEF R!Advance, Ahead, R!Distance

LEMMA AheadNat ==
    \A a, b \in 0 .. FDN - 1 : Ahead(a, b) \in Nat /\ Ahead(a, b) < FDN
  BY RxSizes DEF Ahead

(* How it changes when one of the two moves on.                            *)
LEMMA AheadAdvance ==
    ASSUME NEW a \in 0 .. FDN - 1, NEW b \in 0 .. FDN - 1, NEW n \in Nat
    PROVE  /\ Ahead(a, b) + n < FDN =>
                Ahead(R!Advance(a, n, FDN), b) = Ahead(a, b) + n
           /\ n <= Ahead(a, b) => Ahead(a, R!Advance(b, n, FDN)) = Ahead(a, b) - n
  BY RxSizes DEF R!Advance, Ahead

(* The remainder where one turn is enough.                                 *)
LEMMA RemainderIs ==
    ASSUME NEW l \in Nat, l > 0, NEW x \in Nat, x < 2 * l
    PROVE  x % l = IF x < l THEN x ELSE x - l
  OBVIOUS

LEMMA RemainderAdvance ==
    ASSUME NEW l \in Nat, l > 0, NEW a \in 0 .. l - 1, NEW n \in 0 .. l - 1
    PROVE  (a + n) % l = R!Advance(a, n, l)
  <1>1. a + n \in Nat /\ a + n < 2 * l
    OBVIOUS
  <1>2. (a + n) % l = IF a + n < l THEN a + n ELSE a + n - l
    BY <1>1, RemainderIs
  <1>. QED  BY <1>2 DEF R!Advance

(* Whole blocks: no less, and less than a block more.                      *)
LEMMA AlignedIs ==
    ASSUME NEW m \in Nat
    PROVE  R!Aligned(m) \in Nat /\ m <= R!Aligned(m) /\ R!Aligned(m) < m + Block
  <1>1. PICK B \in Nat : B = Block /\ B > 0
    BY RxSizes
  <1>2. PICK x \in Nat : x = m + B - 1
    BY <1>1
  <1>3. PICK q \in Nat, r \in 0 .. B - 1 : q = x \div B /\ x = B * q + r
    <2>1. x % B \in 0 .. B - 1 /\ x \div B \in Nat
      BY <1>1
    <2>2. x = B * (x \div B) + (x % B)
      BY <1>1
    <2>. QED  BY ONLY <2>1, <2>2, Zenon
  <1>4. R!Aligned(m) = q * B
    BY ONLY <1>1, <1>2, <1>3, Zenon DEF R!Aligned
  <1>5. q * B \in Nat /\ q * B = x - r
    BY <1>3
  <1>. QED  BY <1>1, <1>2, <1>4, <1>5

LEMMA LesserIs ==
    ASSUME NEW a \in Nat, NEW b \in Nat
    PROVE  /\ R!Lesser(a, b) \in Nat /\ R!Lesser(a, b) <= a /\ R!Lesser(a, b) <= b
           /\ R!Lesser(a, b) = a \/ R!Lesser(a, b) = b
  BY DEF R!Lesser

-----------------------------------------------------------------------------
(* Sequences of whole frames.  What it is to be part of one:               *)
LEMMA FrameAt ==
    ASSUME NEW s \in Seq(R!Cells), Framed(s), NEW i \in 1 .. Len(s)
    PROVE  /\ s[i].part \in Nat /\ s[i].len \in Nat
           /\ s[i].part >= 1 /\ s[i].part <= s[i].len
           /\ i - s[i].part >= 0
           /\ i - s[i].part + s[i].len <= Len(s)
           /\ s[i].len \in Lengths
           /\ \A k \in 1 .. s[i].len : /\ s[i - s[i].part + k].part = k
                                       /\ s[i - s[i].part + k].len = s[i].len
  <1>1. s[i].part \in Nat /\ s[i].len \in Nat
    <2>1. s[i] \in R!Cells
      BY ElementOfSeq
    <2>. QED  BY <2>1 DEF R!Cells
  <1>2. WholeAt(s, i)
    BY DEF Framed
  <1>3. s[i].part >= 1 /\ s[i].part <= s[i].len
    BY <1>1, <1>2 DEF WholeAt
  <1>. QED  BY <1>1, <1>2, <1>3, Zenon DEF WholeAt

(* To show it of a cell, name its part and length.                         *)
LEMMA WholeBy ==
    ASSUME NEW s, NEW i \in Nat, NEW p \in Nat, NEW l \in Nat, Len(s) \in Nat,
           s[i].part = p, s[i].len = l, p >= 1, p <= l, l \in Lengths,
           i - p >= 0, i - p + l <= Len(s),
           \A k \in 1 .. l : s[i - p + k].part = k /\ s[i - p + k].len = l
    PROVE  WholeAt(s, i)
  <1>1. p \in 1 .. l
    OBVIOUS
  <1>. QED  BY <1>1 DEF WholeAt

(* An end of a frame lies not inside another.                              *)
LEMMA EndCuts ==
    ASSUME NEW s \in Seq(R!Cells), Framed(s), NEW m \in 1 .. Len(s), EndsFrame(s, m),
           NEW i \in 1 .. Len(s)
    PROVE  /\ i <= m => i - s[i].part + s[i].len <= m
           /\ i > m => i - s[i].part >= m
  <1>. DEFINE p == s[i].part
              l == s[i].len
              k == m - (i - p)
  <1>1. /\ p \in Nat /\ l \in Nat /\ 1 <= p /\ p <= l
        /\ \A j \in 1 .. l : s[i - p + j].part = j /\ s[i - p + j].len = l
    BY FrameAt
  <1>2. k \in 1 .. l => k = l
    <2>. SUFFICES ASSUME k \in 1 .. l PROVE k = l
      OBVIOUS
    <2>1. i - p + k = m
      BY <1>1
    <2>2. s[m].part = k /\ s[m].len = l
      BY <1>1, <2>1
    <2>. QED  BY <2>2 DEF EndsFrame
  <1>. HIDE DEF p, l
  <1>3. i <= m => i - p + l <= m
    BY <1>1, <1>2
  <1>4. i > m => i - p >= m
    BY <1>1, <1>2
  <1>. QED  BY <1>3, <1>4 DEF p, l

(* Cut at such an end, both parts are whole frames,                        *)
LEMMA FramedBegin ==
    ASSUME NEW s \in Seq(R!Cells), Framed(s), NEW m \in 1 .. Len(s), EndsFrame(s, m)
    PROVE  Framed(SubSeq(s, 1, m))
  <1>. DEFINE t == SubSeq(s, 1, m)
  <1>1. /\ t \in Seq(R!Cells) /\ Len(t) = m
        /\ \A i \in 1 .. m : t[i] = s[i]
    BY SubSeqProperties
  <1>. HIDE DEF t
  <1>2. ASSUME NEW i \in 1 .. Len(t)
        PROVE  WholeAt(t, i)
    <2>1. i \in 1 .. Len(s) /\ i <= m /\ t[i] = s[i]
      BY <1>1
    <2>2. /\ s[i].part \in Nat /\ s[i].len \in Nat
          /\ s[i].part >= 1 /\ s[i].part <= s[i].len
          /\ i - s[i].part >= 0
          /\ s[i].len \in Lengths
          /\ \A k \in 1 .. s[i].len : /\ s[i - s[i].part + k].part = k
                                      /\ s[i - s[i].part + k].len = s[i].len
      BY <2>1, FrameAt
    <2>3. i - s[i].part + s[i].len <= m
      BY <2>1, EndCuts
    <2>4. \A k \in 1 .. s[i].len : /\ i - s[i].part + k \in 1 .. m
                                   /\ t[i - s[i].part + k] = s[i - s[i].part + k]
      BY <1>1, <2>2, <2>3
    <2>5. \A k \in 1 .. s[i].len : /\ t[i - s[i].part + k].part = k
                                   /\ t[i - s[i].part + k].len = s[i].len
      BY <2>2, <2>4
    <2>6. t[i].part = s[i].part /\ t[i].len = s[i].len /\ i \in Nat /\ Len(t) \in Nat
          /\ i - s[i].part + s[i].len <= Len(t)
      BY <1>1, <2>1, <2>3
    <2>. QED  BY ONLY <2>2, <2>5, <2>6, WholeBy, ZenonT(20)
  <1>. QED  BY <1>2 DEF Framed, t

LEMMA FramedRest ==
    ASSUME NEW s \in Seq(R!Cells), Framed(s), NEW m \in 1 .. Len(s), EndsFrame(s, m)
    PROVE  Framed(SubSeq(s, m + 1, Len(s)))
  <1>. DEFINE t == SubSeq(s, m + 1, Len(s))
  <1>1. /\ t \in Seq(R!Cells) /\ Len(t) = Len(s) - m
        /\ \A i \in 1 .. Len(s) - m : t[i] = s[m + i]
    <2>1. /\ t \in Seq(R!Cells)
          /\ Len(t) = IF m + 1 <= Len(s) THEN Len(s) - (m + 1) + 1 ELSE 0
          /\ \A i \in 1 .. Len(s) - (m + 1) + 1 : t[i] = s[(m + 1) + i - 1]
      BY SubSeqProperties, LenProperties
    <2>2. Len(s) \in Nat
      BY LenProperties
    <2>. HIDE DEF t
    <2>3. Len(s) - (m + 1) + 1 = Len(s) - m
      BY <2>2
    <2>4. \A i \in 1 .. Len(s) - m : (m + 1) + i - 1 = m + i
      BY <2>2
    <2>5. Len(t) = Len(s) - m
      BY <2>1, <2>2
    <2>. QED  BY <2>1, <2>3, <2>4, <2>5
  <1>. HIDE DEF t
  <1>0. Len(s) \in Nat
    BY LenProperties
  <1>2. ASSUME NEW i \in 1 .. Len(t)
        PROVE  WholeAt(t, i)
    <2>1. PICK j \in 1 .. Len(s) : j = m + i /\ j > m /\ t[i] = s[j]
      BY <1>0, <1>1
    <2>2. /\ s[j].part \in Nat /\ s[j].len \in Nat
          /\ s[j].part >= 1 /\ s[j].part <= s[j].len
          /\ j - s[j].part + s[j].len <= Len(s)
          /\ s[j].len \in Lengths
          /\ \A k \in 1 .. s[j].len : /\ s[j - s[j].part + k].part = k
                                      /\ s[j - s[j].part + k].len = s[j].len
      BY FrameAt
    <2>3. j - s[j].part >= m
      BY <2>1, EndCuts
    <2>4. ASSUME NEW k \in 1 .. s[j].len
          PROVE  t[i - s[j].part + k] = s[j - s[j].part + k]
      <3>1. i - s[j].part + k \in 1 .. Len(s) - m
        <4>1. PICK p \in Nat, l \in Nat : p = s[j].part /\ l = s[j].len
          BY <2>2
        <4>2. k \in 1 .. l /\ j - p >= m /\ j - p + l <= Len(s) /\ j = m + i
          BY <2>1, <2>2, <2>3, <4>1
        <4>3. i - p + k \in 1 .. Len(s) - m
          BY ONLY <1>0, <4>2, m \in 1 .. Len(s), i \in 1 .. Len(t), p \in Nat, l \in Nat, j \in Int
        <4>. QED  BY <4>1, <4>3
      <3>2. m + (i - s[j].part + k) = j - s[j].part + k
        BY <2>1, <2>2
      <3>. QED  BY <1>1, <3>1, <3>2
    <2>5. \A k \in 1 .. s[j].len : /\ t[i - s[j].part + k].part = k
                                   /\ t[i - s[j].part + k].len = s[j].len
      BY <2>2, <2>4
    <2>6. /\ t[i].part = s[j].part /\ t[i].len = s[j].len /\ i \in Nat /\ Len(t) \in Nat
          /\ i - s[j].part >= 0 /\ i - s[j].part + s[j].len <= Len(t)
      BY <1>0, <1>1, <2>1, <2>2, <2>3
    <2>. QED  BY ONLY <2>2, <2>5, <2>6, WholeBy, ZenonT(20)
  <1>. QED  BY <1>2 DEF Framed, t

(* and joined they stay so.                                                *)
LEMMA FramedJoin ==
    ASSUME NEW s \in Seq(R!Cells), NEW t \in Seq(R!Cells), Framed(s), Framed(t)
    PROVE  Framed(s \o t)
  <1>. DEFINE u == s \o t
  <1>0. Len(s) \in Nat /\ Len(t) \in Nat
    BY LenProperties
  <1>1. /\ u \in Seq(R!Cells) /\ Len(u) = Len(s) + Len(t)
        /\ \A i \in 1 .. Len(s) + Len(t) :
              u[i] = IF i <= Len(s) THEN s[i] ELSE t[i - Len(s)]
    BY ConcatProperties
  <1>. HIDE DEF u
  <1>2. ASSUME NEW i \in 1 .. Len(u), i <= Len(s) PROVE WholeAt(u, i)
    <2>1. i \in 1 .. Len(s) /\ u[i] = s[i]
      BY <1>0, <1>1, <1>2
    <2>2. /\ s[i].part \in Nat /\ s[i].len \in Nat
          /\ s[i].part >= 1 /\ s[i].part <= s[i].len
          /\ i - s[i].part >= 0
          /\ i - s[i].part + s[i].len <= Len(s)
          /\ s[i].len \in Lengths
          /\ \A k \in 1 .. s[i].len : /\ s[i - s[i].part + k].part = k
                                      /\ s[i - s[i].part + k].len = s[i].len
      BY <2>1, FrameAt
    <2>3. ASSUME NEW k \in 1 .. s[i].len
          PROVE  u[i - s[i].part + k] = s[i - s[i].part + k]
      <3>1. i - s[i].part + k \in 1 .. Len(s)
        BY <1>0, <2>2
      <3>. QED  BY <1>0, <1>1, <3>1
    <2>5. \A k \in 1 .. s[i].len : /\ u[i - s[i].part + k].part = k
                                   /\ u[i - s[i].part + k].len = s[i].len
      BY <2>2, <2>3
    <2>6. u[i].part = s[i].part /\ u[i].len = s[i].len /\ i \in Nat /\ Len(u) \in Nat
          /\ i - s[i].part + s[i].len <= Len(u)
      BY <1>0, <1>1, <2>1, <2>2
    <2>. QED  BY ONLY <2>2, <2>5, <2>6, WholeBy, ZenonT(20)
  <1>3. ASSUME NEW i \in 1 .. Len(u), i > Len(s) PROVE WholeAt(u, i)
    <2>1. PICK j \in 1 .. Len(t) : i = Len(s) + j /\ u[i] = t[j]
      <3>1. i - Len(s) \in 1 .. Len(t) /\ i = Len(s) + (i - Len(s))
        BY <1>0, <1>1, <1>3
      <3>2. u[i] = t[i - Len(s)]
        BY <1>0, <1>1, <1>3
      <3>. QED  BY <3>1, <3>2
    <2>2. /\ t[j].part \in Nat /\ t[j].len \in Nat
          /\ t[j].part >= 1 /\ t[j].part <= t[j].len
          /\ j - t[j].part >= 0
          /\ j - t[j].part + t[j].len <= Len(t)
          /\ t[j].len \in Lengths
          /\ \A k \in 1 .. t[j].len : /\ t[j - t[j].part + k].part = k
                                      /\ t[j - t[j].part + k].len = t[j].len
      BY FrameAt
    <2>3. ASSUME NEW k \in 1 .. t[j].len
          PROVE  u[i - t[j].part + k] = t[j - t[j].part + k]
      <3>1. PICK x \in 1 .. Len(t) : x = j - t[j].part + k
        <4>1. PICK p \in Nat, l \in Nat : p = t[j].part /\ l = t[j].len
          BY <2>2
        <4>2. k \in 1 .. l /\ j - p >= 0 /\ j - p + l <= Len(t)
          BY <2>2, <4>1
        <4>3. j - p + k \in 1 .. Len(t)
          BY ONLY <1>0, <4>2, p \in Nat, l \in Nat, j \in Int
        <4>. QED  BY <4>1, <4>3
      <3>2. i - t[j].part + k = Len(s) + x
        <4>1. PICK p \in Nat : p = t[j].part
          BY <2>2
        <4>2. i - p + k = Len(s) + (j - p + k)
          BY ONLY <1>0, <2>1, p \in Nat, j \in Int, k \in Int
        <4>. QED  BY <3>1, <4>1, <4>2
      <3>3. u[Len(s) + x] = t[x]
        <4>1. Len(s) + x \in 1 .. Len(s) + Len(t) /\ ~ (Len(s) + x <= Len(s))
              /\ Len(s) + x - Len(s) = x
          BY <1>0
        <4>. QED  BY <1>1, <4>1
      <3>. QED  BY <3>1, <3>2, <3>3
    <2>5. \A k \in 1 .. t[j].len : /\ u[i - t[j].part + k].part = k
                                   /\ u[i - t[j].part + k].len = t[j].len
      BY <2>2, <2>3
    <2>6. /\ u[i].part = t[j].part /\ u[i].len = t[j].len /\ i \in Nat /\ Len(u) \in Nat
          /\ i - t[j].part >= 0 /\ i - t[j].part + t[j].len <= Len(u)
      <3>1. PICK p \in Nat, l \in Nat : p = t[j].part /\ l = t[j].len
                                      /\ j - p >= 0 /\ j - p + l <= Len(t)
        BY <2>2
      <3>0. j - p >= 0 /\ j - p + l <= Len(t)
        BY <3>1
      <3>2. i = Len(s) + j /\ Len(u) = Len(s) + Len(t) /\ i \in Nat /\ Len(u) \in Nat
        BY <1>0, <1>1, <2>1
      <3>3. i - p >= 0 /\ i - p + l <= Len(u)
        BY ONLY <1>0, <3>0, <3>2, p \in Nat, l \in Nat, j \in Int
      <3>. QED  BY <2>1, <3>1, <3>2, <3>3
    <2>. QED  BY ONLY <2>2, <2>5, <2>6, WholeBy, ZenonT(20)
  <1>4. ASSUME NEW i \in 1 .. Len(u) PROVE WholeAt(u, i)
    <2>1. i <= Len(s) \/ i > Len(s)
      BY <1>0
    <2>. QED  BY <1>2, <1>3, <2>1, Zenon
  <1>. QED  BY <1>4 DEF Framed, u

(* A frame is one.                                                         *)
LEMMA FrameFramed ==
    ASSUME NEW id \in 0 .. MaxFrames, NEW n \in Lengths
    PROVE  /\ R!Frame(id, n) \in Seq(R!Cells) /\ Len(R!Frame(id, n)) = n
           /\ Framed(R!Frame(id, n))
           /\ \A k \in 1 .. n : R!Frame(id, n)[k] = [id |-> id, part |-> k, len |-> n]
  <1>. DEFINE f == R!Frame(id, n)
  <1>0. n \in Nat /\ n > 1
    BY RxAssumption
  <1>1. /\ \A k \in 1 .. n : [id |-> id, part |-> k, len |-> n] \in R!Cells
        /\ f = [k \in 1 .. n |-> [id |-> id, part |-> k, len |-> n]]
    BY <1>0 DEF R!Cells, R!Frame
  <1>2. f \in [1 .. n -> R!Cells]
    BY <1>1
  <1>3. f \in Seq(R!Cells) /\ Len(f) = n
    BY <1>0, <1>1, <1>2
  <1>4. \A k \in 1 .. n : f[k].part = k /\ f[k].len = n
    BY <1>1
  <1>5. Framed(f)
    <2>. HIDE DEF f
    <2>1. ASSUME NEW i \in 1 .. n PROVE i - f[i].part = 0
      BY <1>0, <1>4
    <2>2. \A k \in 1 .. n : 0 + k = k
      BY <1>0
    <2>. QED  BY <1>0, <1>3, <1>4, <2>1, <2>2 DEF Framed, WholeAt
  <1>. QED  BY <1>1, <1>3, <1>5

(* The last cell is the last of its frame.                                 *)
LEMMA FramedEnds ==
    ASSUME NEW s \in Seq(R!Cells), Framed(s), Len(s) # 0
    PROVE  EndsFrame(s, Len(s))
  <1>1. Len(s) \in 1 .. Len(s)
    BY LenProperties
  <1>. QED  BY <1>1, FrameAt, LenProperties DEF EndsFrame

(* The first cell is a header, and its frame is over before any end.       *)
LEMMA FrameWithin ==
    ASSUME NEW s \in Seq(R!Cells), Framed(s), NEW m \in 1 .. Len(s), EndsFrame(s, m)
    PROVE  /\ s[1].part = 1 /\ s[1].len \in Lengths
           /\ s[1].len <= m
           /\ EndsFrame(s, s[1].len)
           /\ \A k \in 1 .. s[1].len : s[k].part = k /\ s[k].len = s[1].len
  <1>0. Len(s) \in Nat /\ 1 \in 1 .. Len(s)
    BY LenProperties
  <1>1. /\ s[1].part \in Nat /\ s[1].len \in Nat
        /\ s[1].part >= 1 /\ s[1].part <= s[1].len /\ 1 - s[1].part >= 0
        /\ s[1].len \in Lengths
        /\ \A k \in 1 .. s[1].len : /\ s[1 - s[1].part + k].part = k
                                    /\ s[1 - s[1].part + k].len = s[1].len
    BY <1>0, FrameAt
  <1>2. 1 - s[1].part + s[1].len <= m
    BY <1>0, EndCuts
  <1>3. s[1].part = 1
    BY <1>1
  <1>4. \A k \in 1 .. s[1].len : 1 - s[1].part + k = k
    BY <1>1, <1>3
  <1>5. \A k \in 1 .. s[1].len : s[k].part = k /\ s[k].len = s[1].len
    BY <1>1, <1>4
  <1>. QED  BY <1>1, <1>2, <1>3, <1>5 DEF EndsFrame

-----------------------------------------------------------------------------
LEMMA HostInitially == R!Init => HostInv
  <1>. SUFFICES ASSUME R!Init PROVE HostInv
    OBVIOUS
  <1>0. /\ FDN \in Nat /\ FDN > 0 /\ Sram \in Nat /\ Sram > 0 /\ R!Slack \in Nat
        /\ MaxFrames \in Nat
    BY RxAssumption DEF R!Slack
  <1>1. R!NoCell \in R!Cells
    BY <1>0 DEF R!NoCell, R!Cells
  <1>2. ChipTypes
    BY <1>0, <1>1 DEF R!Init, ChipTypes
  <1>3. RingTypes
    BY <1>0, <1>1 DEF R!Init, RingTypes, Rxs, R!RxIdle
  <1>4. IrqTypes
    BY <1>0 DEF R!Init, IrqTypes, Irqs, R!IrqIdle, Reading
  <1>5. /\ ghost \in RxGhosts /\ ghost.sent = <<>> /\ ghost.due = <<>> /\ ghost.whole
        /\ Len(ghost.sent) = 0 /\ Len(ghost.due) = 0
    <2>1. <<>> \in Seq(R!Cells) /\ Len(<<>>) = 0
      OBVIOUS
    <2>. QED  BY <2>1 DEF R!Init, RxGhosts
  <1>6. irq.pc = "idle" /\ rx.pc = "down" /\ ~ Reading /\ Got = 0
    BY DEF R!Init, R!IrqIdle, R!RxIdle, Reading, Got
  <1>7. OnChip
    BY <1>0, <1>5, <1>6 DEF OnChip, R!Init, R!Advance
  <1>8. InStep /\ Batch /\ Batched
    BY <1>6 DEF R!Init, InStep, Batch, Batched
  <1>9. DueInRing
    BY <1>5, <1>6 DEF DueInRing, R!Init, R!Front, Ahead
  <1>10. Framed(ghost.due) /\ Framed(ghost.sent)
    BY <1>5 DEF Framed
  <1>. QED  BY <1>2, <1>3, <1>4, <1>5, <1>7, <1>8, <1>9, <1>10
            DEF HostInv, HostTypes, HostSound

(* Each part keeps to what it is about.                                    *)
LEMMA PartsKept ==
    ASSUME HostSound
    PROVE  /\ UNCHANGED <<sram, wr, rd, irq>> /\ ghost'.sent = ghost.sent => OnChip'
           /\ UNCHANGED <<off, rd, irq>> /\ ghost'.unsynced = ghost.unsynced => InStep'
           /\ UNCHANGED <<irq, fifo, FDT, FDH>> /\ ghost'.sent = ghost.sent => Batch'
           /\ UNCHANGED <<fifo, FDT, FDH, rx>> /\ ghost'.due = ghost.due => DueInRing'
           /\ UNCHANGED rx /\ ghost'.due = ghost.due => Batched'
           /\ ghost'.due = ghost.due => Framed(ghost'.due)
           /\ ghost'.sent = ghost.sent => Framed(ghost'.sent)
           /\ ghost'.whole = ghost.whole => ghost'.whole
  <1>1. UNCHANGED <<sram, wr, rd, irq>> /\ ghost'.sent = ghost.sent => OnChip'
    BY DEF HostSound, OnChip, Doomed, Got, Reading
  <1>2. UNCHANGED <<off, rd, irq>> /\ ghost'.unsynced = ghost.unsynced => InStep'
    BY DEF HostSound, InStep, Reading
  <1>3. UNCHANGED <<irq, fifo, FDT, FDH>> /\ ghost'.sent = ghost.sent => Batch'
    BY DEF HostSound, Batch, Reading, EndsFrame
  <1>4. UNCHANGED <<fifo, FDT, FDH, rx>> /\ ghost'.due = ghost.due => DueInRing'
    BY DEF HostSound, DueInRing, R!Front
  <1>5. UNCHANGED rx /\ ghost'.due = ghost.due => Batched'
    BY DEF HostSound, Batched, EndsFrame
  <1>. QED  BY <1>1, <1>2, <1>3, <1>4, <1>5 DEF HostSound

LEMMA NothingMoves ==
    ASSUME HostInv, UNCHANGED <<sram, wr, rd, off, R!hostVars, irq, rx, ghost>>
    PROVE  HostInv'
  <1>1. HostTypes'
    BY DEF HostInv, HostTypes, ChipTypes, RingTypes, IrqTypes, Reading, R!hostVars
  <1>2. ghost.sure /\ HostSound => HostSound'
    BY PartsKept DEF HostSound, R!hostVars
  <1>. QED  BY <1>1, <1>2 DEF HostInv

(* Steps that only write the history.                                      *)
LEMMA HostSuspendStep == ASSUME HostInv, R!Suspend PROVE HostInv'
  <1>1. /\ ghost \in RxGhosts
        /\ ghost' = [ghost EXCEPT !.suspends = @ + 1]
        /\ UNCHANGED <<sram, wr, rd, off, fifo, FDT, FDH, irq, rx>>
    BY DEF HostInv, HostTypes, R!Suspend, R!hostVars, R!chipVars
  <1>2. /\ ghost' \in RxGhosts
        /\ ghost'.sent = ghost.sent /\ ghost'.due = ghost.due
        /\ ghost'.unsynced = ghost.unsynced /\ ghost'.whole = ghost.whole
        /\ ghost'.sure = ghost.sure
    BY <1>1 DEF RxGhosts
  <1>3. HostTypes'
    BY <1>1, <1>2 DEF HostInv, HostTypes, ChipTypes, RingTypes, IrqTypes, Reading
  <1>4. ghost.sure /\ HostSound => HostSound'
    BY <1>1, <1>2, PartsKept DEF HostSound
  <1>. QED  BY <1>2, <1>3, <1>4 DEF HostInv

(* The position the resume sets is the chip's.                             *)
LEMMA HostSyncStep == ASSUME HostInv, R!Sync PROVE HostInv'
  <1>1. /\ ghost \in RxGhosts
        /\ ghost' = [ghost EXCEPT !.unsynced = FALSE]
        /\ off' = rd
        /\ UNCHANGED <<sram, wr, rd, fifo, FDT, FDH, irq, rx>>
    BY DEF HostInv, HostTypes, R!Sync, R!hostVars, R!chipVars
  <1>2. /\ ghost' \in RxGhosts
        /\ ghost'.sent = ghost.sent /\ ghost'.due = ghost.due
        /\ ~ ghost'.unsynced /\ ghost'.whole = ghost.whole
        /\ ghost'.sure = ghost.sure
    BY <1>1 DEF RxGhosts
  <1>3. HostTypes'
    BY <1>1, <1>2 DEF HostInv, HostTypes, ChipTypes, RingTypes, IrqTypes, Reading
  <1>4. InStep'
    BY <1>1, <1>2 DEF InStep
  <1>5. ghost.sure /\ HostSound => HostSound'
    BY <1>1, <1>2, <1>4, PartsKept DEF HostSound
  <1>. QED  BY <1>2, <1>3, <1>5 DEF HostInv

-----------------------------------------------------------------------------
(* The receive thread.                                                     *)
LEMMA RxDownStep == ASSUME HostInv, R!RxDown PROVE HostInv'
  <1>1. /\ HostTypes /\ ghost \in RxGhosts /\ rx \in Rxs /\ rx.pc = "down"
        /\ FDT \in 0 .. FDN - 1 /\ FDH \in 0 .. FDN - 1
        /\ ghost' = [ghost EXCEPT !.starved = FALSE]
        /\ rx' = [pc |-> "frames", fdh |-> FDH, fdt |-> FDT]
        /\ UNCHANGED <<sram, wr, rd, off, fifo, FDT, FDH, irq>>
    BY DEF HostInv, HostTypes, RingTypes, R!RxDown, R!hostVars, R!chipVars
  <1>2. /\ ghost' \in RxGhosts
        /\ ghost'.sent = ghost.sent /\ ghost'.due = ghost.due
        /\ ghost'.unsynced = ghost.unsynced /\ ghost'.whole = ghost.whole
        /\ ghost'.sure = ghost.sure
    BY <1>1 DEF RxGhosts
  <1>3. rx' \in Rxs /\ rx'.pc = "frames" /\ rx'.fdh = FDH /\ rx'.fdt = FDT
    BY <1>1 DEF Rxs
  <1>4. HostTypes'
    BY <1>1, <1>2, <1>3 DEF HostInv, HostTypes, ChipTypes, RingTypes, IrqTypes, Reading
  <1>5. ASSUME ghost.sure, HostSound PROVE HostSound'
    <2>1. R!Front = FDH /\ R!Front' = FDH
      BY <1>1, <1>3 DEF R!Front
    <2>2. DueInRing'
      BY <1>1, <1>2, <1>5, <2>1 DEF HostSound, DueInRing
    <2>3. Batched'
      <3>1. Len(ghost.due) = Ahead(FDT, FDH)
        BY <1>5, <2>1 DEF HostSound, DueInRing
      <3>2. ghost.due \in Seq(R!Cells) /\ Framed(ghost.due)
        BY <1>1, <1>5 DEF RxGhosts, HostSound
      <3>3. Len(ghost.due) # 0 => EndsFrame(ghost.due, Len(ghost.due))
        BY <3>2, FramedEnds
      <3>4. Len(ghost.due) \in Nat
        BY <3>2, LenProperties
      <3>. QED  BY <1>2, <1>3, <3>1, <3>3, <3>4 DEF Batched, EndsFrame
    <2>. QED  BY <1>1, <1>2, <1>5, <2>2, <2>3, PartsKept DEF HostSound
  <1>. QED  BY <1>2, <1>4, <1>5 DEF HostInv

(* Where frames are taken out there is a frame, all of which was committed.*)
LEMMA HeaderIsThere ==
    ASSUME HostInv, ghost.sure, rx.pc = "frames", rx.fdh # rx.fdt
    PROVE  LET n == ghost.due[1].len IN
           /\ n \in Lengths
           /\ R!LengthsAt(rx.fdh) = {n}
           /\ R!Present = Ahead(rx.fdt, rx.fdh)
           /\ n <= R!Present /\ R!Present <= Len(ghost.due)
           /\ EndsFrame(ghost.due, n)
           /\ \A k \in 1 .. n : ghost.due[k].part = k /\ ghost.due[k].len = n
  <1>. DEFINE p == Ahead(rx.fdt, rx.fdh)
  <1>0. /\ HostSound /\ ghost.due \in Seq(R!Cells) /\ Framed(ghost.due)
        /\ rx.fdh \in 0 .. FDN - 1 /\ rx.fdt \in 0 .. FDN - 1
    BY DEF HostInv, HostTypes, HostSound, RxGhosts, RingTypes, Rxs
  <1>1. /\ p \in 0 .. FDN - 1 /\ p # 0 /\ R!Distance(rx.fdt, rx.fdh, FDN) = p
    BY <1>0, AheadIs
  <1>2. p <= Len(ghost.due) /\ EndsFrame(ghost.due, p)
    BY <1>0, <1>1 DEF HostSound, Batched
  <1>3. p \in 1 .. Len(ghost.due) /\ 1 \in 1 .. Len(ghost.due)
    BY <1>0, <1>1, <1>2, LenProperties
  <1>. HIDE DEF p
  <1>4. /\ ghost.due[1].part = 1 /\ ghost.due[1].len \in Lengths
        /\ ghost.due[1].len <= p
        /\ EndsFrame(ghost.due, ghost.due[1].len)
        /\ \A k \in 1 .. ghost.due[1].len :
              ghost.due[k].part = k /\ ghost.due[k].len = ghost.due[1].len
    BY <1>0, <1>2, <1>3, FrameWithin
  <1>5. fifo[rx.fdh] = ghost.due[1]
    <2>1. R!Front = rx.fdh
      BY DEF R!Front
    <2>2. fifo[R!Advance(R!Front, 1 - 1, FDN)] = ghost.due[1]
      BY <1>0, <1>3 DEF HostSound, DueInRing
    <2>3. R!Advance(rx.fdh, 1 - 1, FDN) = rx.fdh
      BY <1>0, RxSizes DEF R!Advance
    <2>. QED  BY <2>1, <2>2, <2>3
  <1>6. R!LengthsAt(rx.fdh) = {ghost.due[1].len}
    BY <1>4, <1>5 DEF R!LengthsAt
  <1>7. R!Present = p
    BY <1>1 DEF R!Present
  <1>. QED  BY <1>2, <1>4, <1>6, <1>7 DEF p

LEMMA RxFrameStep == ASSUME HostInv, R!RxFrame PROVE HostInv'
  <1>1. PICK n \in R!LengthsAt(rx.fdh) :
            /\ R!Plausible(n)
            /\ rx' = [rx EXCEPT !.fdh = R!Advance(@, n, FDN)]
            /\ ghost' = R!Passed(n)
    BY DEF R!RxFrame
  <1>2. /\ HostTypes /\ ghost \in RxGhosts /\ rx \in Rxs /\ rx.pc = "frames"
        /\ rx.fdh # rx.fdt /\ rx.fdh \in 0 .. FDN - 1 /\ rx.fdt \in 0 .. FDN - 1
        /\ fifo \in [0 .. FDN + R!Slack - 1 -> R!Cells]
        /\ FDT \in 0 .. FDN - 1 /\ FDH \in 0 .. FDN - 1
        /\ ghost.due \in Seq(R!Cells) /\ Len(ghost.due) \in Nat
        /\ UNCHANGED <<sram, wr, rd, off, fifo, FDT, FDH, irq>>
    BY LenProperties DEF HostInv, HostTypes, RingTypes, Rxs, RxGhosts, R!RxFrame,
                         R!hostVars, R!chipVars
  <1>3. n \in Nat /\ n <= FDN
    <2>1. n \in Nat
      <3>1. rx.fdh \in 0 .. FDN + R!Slack - 1
        BY <1>2, RxSizes
      <3>2. fifo[rx.fdh] \in R!Cells
        BY <1>2, <3>1
      <3>. QED  BY <1>1, <3>2, RxAssumption DEF R!LengthsAt, R!Cells
    <2>2. R!Present \in 0 .. FDN - 1
      BY <1>2, AheadIs DEF R!Present
    <2>. QED  BY <1>1, <2>1, <2>2, RxSizes DEF R!Plausible
  <1>. DEFINE h == R!Advance(rx.fdh, n, FDN)
              d == SubSeq(ghost.due, n + 1, Len(ghost.due))
              Same == /\ R!Copied(n) = R!First(n, ghost.due)
                      /\ \A k \in 1 .. n : /\ R!Copied(n)[k].part = k
                                           /\ R!Copied(n)[k].len = n
              w == ghost.whole /\ Same
  <1>4. h \in 0 .. FDN - 1
    <2>1. n \in 0 .. FDN
      BY <1>3, RxSizes
    <2>. QED  BY <1>2, <2>1, RxSizes, AdvanceIn
  <1>5. d \in Seq(R!Cells)
    <2>1. \A i \in n + 1 .. Len(ghost.due) : ghost.due[i] \in R!Cells
      BY <1>2, <1>3, ElementOfSeq
    <2>. QED  BY <1>2, <1>3, <2>1, SubSeqProperties
  <1>6. /\ w \in BOOLEAN /\ ghost' = [ghost EXCEPT !.due = d, !.whole = w]
        /\ rx' = [rx EXCEPT !.fdh = h]
    <2>1. w \in BOOLEAN
      BY <1>2 DEF RxGhosts
    <2>2. ghost' = [ghost EXCEPT !.due = d, !.whole = w]
      BY <1>1 DEF R!Passed
    <2>. QED  BY <1>1, <2>1, <2>2
  <1>. HIDE DEF h, d, w, Same
  <1>7. /\ ghost' \in RxGhosts
        /\ ghost'.sent = ghost.sent /\ ghost'.due = d
        /\ ghost'.unsynced = ghost.unsynced /\ ghost'.whole = w
        /\ ghost'.sure = ghost.sure
    BY <1>2, <1>5, <1>6 DEF RxGhosts
  <1>8. rx' \in Rxs /\ rx'.pc = "frames" /\ rx'.fdh = h /\ rx'.fdt = rx.fdt
    BY <1>2, <1>4, <1>6 DEF Rxs
  <1>9. HostTypes'
    BY <1>2, <1>7, <1>8 DEF HostTypes, ChipTypes, RingTypes, IrqTypes, Reading
  <1>10. ASSUME ghost.sure PROVE HostSound'
    <2>. DEFINE due == ghost.due
    <2>1. /\ HostSound /\ Framed(ghost.due) /\ ghost.whole
      BY <1>10 DEF HostInv, HostSound
    <2>2. /\ n = due[1].len /\ n \in Lengths
          /\ R!Present = Ahead(rx.fdt, rx.fdh)
          /\ n <= R!Present /\ R!Present <= Len(due)
          /\ EndsFrame(due, n)
          /\ \A k \in 1 .. n : due[k].part = k /\ due[k].len = n
      BY <1>1, <1>2, <1>10, HeaderIsThere
    <2>3. n > 1 /\ R!Present \in Nat /\ n \in 1 .. Len(due) /\ n <= Len(due)
      <3>1. R!Present \in Nat
        BY <1>2, <2>2, AheadNat
      <3>2. n > 1
        BY <1>3, <2>2, RxAssumption
      <3>. QED  BY <1>2, <1>3, <2>2, <3>1, <3>2
    <2>4. /\ Len(d) = Len(due) - n
          /\ \A k \in 1 .. Len(due) - n : d[k] = due[n + k]
      <3>1. \A i \in n + 1 .. Len(due) : due[i] \in R!Cells
        BY <1>2, <1>3, ElementOfSeq
      <3>2. /\ Len(d) = IF n + 1 <= Len(due) THEN Len(due) - (n + 1) + 1 ELSE 0
            /\ \A i \in 1 .. Len(due) - (n + 1) + 1 : d[i] = due[(n + 1) + i - 1]
        BY <1>2, <1>3, <3>1, SubSeqProperties DEF d
      <3>. HIDE DEF due
      <3>. QED  BY <1>2, <1>3, <2>3, <3>2 DEF due
    <2>5. /\ R!Front = rx.fdh /\ R!Front' = h
      BY <1>2, <1>8 DEF R!Front
    <2>6. /\ Len(due) = Ahead(FDT, rx.fdh) /\ Ahead(FDT, rx.fdh) <= Ahead(FDT, FDH)
          /\ \A k \in 1 .. Len(due) : fifo[R!Advance(rx.fdh, k - 1, FDN)] = due[k]
      BY <2>1, <2>5 DEF HostSound, DueInRing
    <2>7. /\ Ahead(FDT, h) = Len(due) - n
          /\ Ahead(rx.fdt, h) = R!Present - n
      BY <1>2, <1>3, <2>2, <2>3, <2>6, AheadAdvance DEF h
    <2>8. Len(due) < FDN
      BY <1>2, <2>6, AheadNat
    <2>9. DueInRing'
      <3>1. ASSUME NEW k \in 1 .. Len(d)
            PROVE  fifo[R!Advance(h, k - 1, FDN)] = d[k]
        <4>1. k \in 1 .. Len(due) - n /\ n + k \in 1 .. Len(due) /\ k - 1 \in Nat
              /\ n + (k - 1) < FDN /\ n + (k - 1) = (n + k) - 1
          BY <1>2, <1>3, <2>3, <2>4, <2>8, RxSizes
        <4>2. R!Advance(h, k - 1, FDN) = R!Advance(rx.fdh, (n + k) - 1, FDN)
          BY <1>2, <1>3, <4>1, RxSizes, AdvanceTwice DEF h
        <4>. QED  BY <2>4, <2>6, <4>1, <4>2
      <3>2. Ahead(FDT, h) <= Ahead(FDT, FDH)
        BY <1>2, <1>3, <2>6, <2>7, AheadIs
      <3>. QED  BY <1>2, <1>7, <2>4, <2>5, <2>7, <3>1, <3>2 DEF DueInRing
    <2>10. Batched'
      <3>1. R!Present - n # 0 => EndsFrame(d, R!Present - n)
        <4>. SUFFICES ASSUME R!Present # n PROVE EndsFrame(d, R!Present - n)
          BY <1>3, <2>3
        <4>1. EndsFrame(due, R!Present)
          BY <1>2, <2>1, <2>2, <2>3 DEF HostSound, Batched
        <4>2. R!Present - n \in 1 .. Len(due) - n /\ n + (R!Present - n) = R!Present
          BY <1>2, <1>3, <2>2, <2>3
        <4>3. d[R!Present - n] = due[R!Present]
          BY <2>4, <4>2
        <4>4. due[R!Present].part = due[R!Present].len
          BY <4>1 DEF EndsFrame
        <4>. QED  BY <4>3, <4>4 DEF EndsFrame
      <3>2. R!Present - n <= Len(d)
        BY <1>2, <1>3, <2>2, <2>3, <2>4
      <3>. HIDE DEF due
      <3>3. LET p == Ahead(rx'.fdt, rx'.fdh) IN
            p <= Len(ghost'.due) /\ (p # 0 => EndsFrame(ghost'.due, p))
        BY ONLY <1>7, <1>8, <2>7, <3>1, <3>2
      <3>. QED  BY ONLY <3>3 DEF Batched, EndsFrame
    <2>11. Framed(d)
      BY <1>2, <2>1, <2>2, <2>3, FramedRest DEF d
    <2>12. w
      <3>1. R!Lesser(n, Len(due)) = n
        BY <1>2, <1>3, <2>3 DEF R!Lesser
      <3>2. /\ R!First(n, due) = SubSeq(due, 1, n)
            /\ SubSeq(due, 1, n) \in Seq(R!Cells) /\ Len(SubSeq(due, 1, n)) = n
            /\ \A k \in 1 .. n : SubSeq(due, 1, n)[k] = due[k]
        <4>1. \A i \in 1 .. n : due[i] \in R!Cells
          BY <1>2, <1>3, <2>3, ElementOfSeq
        <4>2. /\ SubSeq(due, 1, n) \in Seq(R!Cells)
              /\ Len(SubSeq(due, 1, n)) = n - 1 + 1
              /\ \A i \in 1 .. n - 1 + 1 : SubSeq(due, 1, n)[i] = due[1 + i - 1]
          BY <1>3, <2>3, <4>1, SubSeqProperties
        <4>3. R!First(n, due) = SubSeq(due, 1, n)
          BY <3>1 DEF R!First
        <4>. HIDE DEF due
        <4>4. n - 1 + 1 = n /\ \A i \in 1 .. n : 1 + i - 1 = i
          BY <1>3
        <4>. QED  BY <4>2, <4>3, <4>4
      <3>3. \A k \in 1 .. n : R!Copied(n)[k] = due[k]
        BY <1>2, <1>3, <2>3, <2>6 DEF R!Copied
      <3>4. R!Copied(n) \in Seq(R!Cells) /\ Len(R!Copied(n)) = n
        <4>1. \A k \in 1 .. n : fifo[R!Advance(rx.fdh, k - 1, FDN)] \in R!Cells
          <5>1. \A k \in 1 .. n : k \in 1 .. Len(due)
            BY <1>2, <1>3, <2>3
          <5>. QED  BY <1>2, <2>6, <5>1, ElementOfSeq
        <4>2. R!Copied(n) \in [1 .. n -> R!Cells]
          BY <4>1 DEF R!Copied
        <4>. QED  BY <1>3, <4>2
      <3>5. R!Copied(n) = R!First(n, due)
        BY <3>2, <3>3, <3>4, SeqEqual
      <3>6. Same
        BY <2>2, <3>3, <3>5 DEF Same
      <3>. QED  BY <2>1, <3>6 DEF w
    <2>. QED  BY <1>2, <1>7, <2>1, <2>9, <2>10, <2>11, <2>12, PartsKept DEF HostSound
  <1>. QED  BY <1>7, <1>9, <1>10 DEF HostInv

(* A length that cannot be is only met after one of the exceptions.        *)
LEMMA RxDiscardStep == ASSUME HostInv, R!RxDiscard PROVE HostInv'
  <1>1. /\ HostTypes /\ ghost \in RxGhosts /\ rx \in Rxs /\ rx.pc = "frames"
        /\ rx.fdh # rx.fdt /\ rx.fdh \in 0 .. FDN - 1 /\ rx.fdt \in 0 .. FDN - 1
        /\ ghost.due \in Seq(R!Cells) /\ Len(ghost.due) \in Nat
        /\ rx' = [rx EXCEPT !.fdh = rx.fdt]
        /\ ghost' = [ghost EXCEPT !.due = SubSeq(@, R!Present + 1, Len(@)),
                                  !.whole = FALSE]
        /\ UNCHANGED <<sram, wr, rd, off, fifo, FDT, FDH, irq>>
    BY LenProperties DEF HostInv, HostTypes, RingTypes, Rxs, RxGhosts, R!RxDiscard,
                         R!hostVars, R!chipVars
  <1>. DEFINE d == SubSeq(ghost.due, R!Present + 1, Len(ghost.due))
  <1>2. d \in Seq(R!Cells) /\ ghost' = [ghost EXCEPT !.due = d, !.whole = FALSE]
    <2>1. R!Present \in Nat
      BY <1>1, AheadIs DEF R!Present
    <2>2. \A i \in R!Present + 1 .. Len(ghost.due) : ghost.due[i] \in R!Cells
      BY <1>1, <2>1, ElementOfSeq
    <2>3. d \in Seq(R!Cells)
      BY <1>1, <2>1, <2>2, SubSeqProperties
    <2>. QED  BY <1>1, <2>3
  <1>. HIDE DEF d
  <1>3. ghost' \in RxGhosts /\ ghost'.sure = ghost.sure
    BY <1>1, <1>2 DEF RxGhosts
  <1>4. rx' \in Rxs
    BY <1>1 DEF Rxs
  <1>5. HostTypes'
    BY <1>1, <1>3, <1>4 DEF HostTypes, ChipTypes, RingTypes, IrqTypes, Reading
  <1>6. ~ ghost.sure
    <2>. SUFFICES ASSUME ghost.sure PROVE FALSE
      OBVIOUS
    <2>1. PICK n \in R!LengthsAt(rx.fdh) : ~ R!Plausible(n)
      BY DEF R!RxDiscard
    <2>2. n \in Lengths /\ n <= R!Present /\ R!Present = Ahead(rx.fdt, rx.fdh)
      BY <1>1, <2>1, HeaderIsThere
    <2>3. n \in Nat /\ n # 1 /\ R!Present \in Nat
      BY <1>1, <2>2, AheadIs, RxAssumption
    <2>. QED  BY <2>1, <2>2, <2>3 DEF R!Plausible
  <1>. QED  BY <1>3, <1>5, <1>6 DEF HostInv

(* The loop ends.                                                          *)
LEMMA RxLeavesStep == ASSUME HostInv, R!RxNoMemory \/ R!RxEnd PROVE HostInv'
  <1>1. /\ HostTypes /\ ghost \in RxGhosts /\ rx \in Rxs /\ rx.pc = "frames"
        /\ rx' = [rx EXCEPT !.pc = "publish"]
        /\ \/ ghost' = [ghost EXCEPT !.starved = TRUE, !.noMemory = @ + 1]
           \/ ghost' = ghost
        /\ UNCHANGED <<sram, wr, rd, off, fifo, FDT, FDH, irq>>
    BY DEF HostInv, HostTypes, RingTypes, R!RxNoMemory, R!RxEnd, R!hostVars, R!chipVars
  <1>2. /\ ghost' \in RxGhosts
        /\ ghost'.sent = ghost.sent /\ ghost'.due = ghost.due
        /\ ghost'.unsynced = ghost.unsynced /\ ghost'.whole = ghost.whole
        /\ ghost'.sure = ghost.sure
    <2>1. CASE ghost' = ghost
      BY <1>1, <2>1
    <2>2. CASE ghost' = [ghost EXCEPT !.starved = TRUE, !.noMemory = @ + 1]
      <3>. DEFINE m == ghost.noMemory + 1
      <3>1. m \in Nat /\ ghost' = [ghost EXCEPT !.starved = TRUE, !.noMemory = m]
        BY <1>1, <2>2 DEF RxGhosts
      <3>. HIDE DEF m
      <3>. QED  BY <1>1, <3>1 DEF RxGhosts
    <2>. QED  BY <1>1, <2>1, <2>2
  <1>3. rx' \in Rxs /\ rx'.pc = "publish" /\ rx'.fdh = rx.fdh
    BY <1>1 DEF Rxs
  <1>4. HostTypes'
    BY <1>1, <1>2, <1>3 DEF HostTypes, ChipTypes, RingTypes, IrqTypes, Reading
  <1>5. ASSUME HostSound PROVE HostSound'
    <2>1. R!Front' = R!Front
      BY <1>1, <1>3 DEF R!Front
    <2>2. DueInRing'
      BY <1>1, <1>2, <1>5, <2>1 DEF HostSound, DueInRing
    <2>3. Batched'
      BY <1>3 DEF Batched
    <2>. QED  BY <1>1, <1>2, <1>5, <2>2, <2>3, PartsKept DEF HostSound
  <1>. QED  BY <1>2, <1>4, <1>5 DEF HostInv

(* Publishing where it is gives room and takes none.                       *)
LEMMA RxPublishStep == ASSUME HostInv, R!RxPublish PROVE HostInv'
  <1>1. /\ HostTypes /\ ghost \in RxGhosts /\ rx \in Rxs /\ rx.pc = "publish"
        /\ rx.fdh \in 0 .. FDN - 1 /\ FDT \in 0 .. FDN - 1 /\ FDH \in 0 .. FDN - 1
        /\ rx' = R!RxIdle /\ FDH' = rx.fdh
        /\ UNCHANGED <<sram, wr, rd, off, fifo, FDT, irq, ghost>>
    BY DEF HostInv, HostTypes, RingTypes, Rxs, R!RxPublish, R!chipVars
  <1>2. rx' \in Rxs /\ rx'.pc = "down"
    BY <1>1, RxSizes DEF Rxs, R!RxIdle
  <1>3. HostTypes'
    BY <1>1, <1>2 DEF HostTypes, ChipTypes, RingTypes, IrqTypes, Reading
  <1>4. ASSUME HostSound PROVE HostSound'
    <2>1. R!Front = rx.fdh /\ R!Front' = rx.fdh
      BY <1>1, <1>2 DEF R!Front
    <2>2. Ahead(FDT, rx.fdh) <= Ahead(FDT, FDH)
      BY <1>4, <2>1 DEF HostSound, DueInRing
    <2>3. /\ Ahead(FDT, rx.fdh) \in Nat /\ Ahead(FDT, FDH) \in Nat
      BY <1>1, AheadNat
    <2>4. DueInRing'
      <3>1. Ahead(FDT, rx.fdh) <= Ahead(FDT, rx.fdh)
        BY <2>3
      <3>2. /\ Len(ghost.due) = Ahead(FDT, rx.fdh)
            /\ \A k \in 1 .. Len(ghost.due) :
                  fifo[R!Advance(rx.fdh, k - 1, FDN)] = ghost.due[k]
        BY <1>4, <2>1 DEF HostSound, DueInRing
      <3>. QED  BY <1>1, <2>1, <3>1, <3>2 DEF DueInRing
    <2>5. Batched'
      BY <1>2 DEF Batched
    <2>6. Batch'
      <3>1. Reading => irq.total \in Nat
        BY <1>1 DEF HostTypes, IrqTypes, Irqs
      <3>2. Reading => Ahead(FDT, FDH) + irq.total + Block < FDN
        BY <1>4 DEF HostSound, Batch
      <3>3. Reading => Ahead(FDT, rx.fdh) + irq.total + Block < FDN
        BY <2>2, <2>3, <3>1, <3>2, RxSizes
      <3>4. Batch
        BY <1>4 DEF HostSound
      <3>. QED  BY <1>1, <3>3, <3>4 DEF Batch, Reading, EndsFrame
    <2>. QED  BY <1>1, <1>4, <2>4, <2>5, <2>6, PartsKept DEF HostSound
  <1>. QED  BY <1>1, <1>3, <1>4 DEF HostInv

-----------------------------------------------------------------------------
(* Round a ring: back to where the count began, and on from there.         *)
LEMMA DistanceBack ==
    ASSUME NEW l \in Nat, l > 0, NEW a \in 0 .. l - 1, NEW m \in 0 .. l - 1
    PROVE  (R!Advance(a, m, l) + l - a) % l = m
  <1>. DEFINE x == R!Advance(a, m, l) + l - a
  <1>1. x \in Nat /\ x < 2 * l /\ (x = m \/ x = m + l)
    BY DEF R!Advance
  <1>. HIDE DEF x
  <1>2. x % l = IF x < l THEN x ELSE x - l
    BY <1>1, RemainderIs
  <1>3. x % l = m
    BY <1>1, <1>2
  <1>. QED  BY <1>3 DEF x

LEMMA TurnRound ==
    ASSUME NEW l \in Nat, l > 0, NEW a \in 0 .. l - 1,
           NEW u \in Nat, u < l, NEW m \in Nat, m < u
    PROVE  R!Advance(R!Advance(a, u, l), l - u + m, l) = R!Advance(a, m, l)
  BY DEF R!Advance

LEMMA GotIs == HostTypes => Got \in Nat
  BY DEF HostTypes, IrqTypes, Irqs, Got, Reading

(* The firmware writes where nothing lies that is still to be read.        *)
LEMMA FwSendStep == ASSUME HostInv, NEW n \in Lengths, R!FwSend(n) PROVE HostInv'
  <1>. DEFINE f == R!Frame(ghost.frames + 1, n)
              at(i) == ((i + Sram - wr) % Sram) + 1
              s == ghost.sent \o f
  <1>0. n \in Nat /\ n > 1 /\ Sram \in Nat /\ Sram > 0 /\ MaxFrames \in Nat
    BY RxAssumption
  <1>1. /\ HostTypes /\ ghost \in RxGhosts /\ ghost.sure
        /\ ghost.frames \in Nat /\ ghost.frames < MaxFrames
        /\ ghost.sent \in Seq(R!Cells) /\ Len(ghost.sent) \in Nat
        /\ sram \in [0 .. Sram - 1 -> R!Cells]
        /\ wr \in 0 .. Sram - 1 /\ rd \in 0 .. Sram - 1
        /\ ((wr + Sram - rd) % Sram) + n < Sram
        /\ wr' = (wr + n) % Sram
        /\ UNCHANGED <<rd, off, fifo, FDT, FDH, irq, rx>>
    BY LenProperties DEF HostInv, HostTypes, ChipTypes, RxGhosts, R!FwSend, R!hostVars
  <1>2. /\ sram' = [i \in DOMAIN sram |-> IF at(i) <= n THEN f[at(i)] ELSE sram[i]]
        /\ ghost' = [ghost EXCEPT !.frames = @ + 1, !.sent = @ \o f]
    BY DEF R!FwSend
  <1>3. /\ f \in Seq(R!Cells) /\ Len(f) = n /\ Framed(f)
    <2>1. ghost.frames + 1 \in 0 .. MaxFrames
      BY <1>0, <1>1
    <2>. QED  BY <2>1, FrameFramed
  <1>. HIDE DEF f
  <1>4. /\ s \in Seq(R!Cells) /\ Len(s) = Len(ghost.sent) + n
        /\ \A k \in 1 .. Len(ghost.sent) : s[k] = ghost.sent[k]
        /\ \A k \in 1 .. n : s[Len(ghost.sent) + k] = f[k]
    <2>1. /\ s \in Seq(R!Cells) /\ Len(s) = Len(ghost.sent) + Len(f)
          /\ \A i \in 1 .. Len(ghost.sent) + Len(f) :
                s[i] = IF i <= Len(ghost.sent) THEN ghost.sent[i]
                       ELSE f[i - Len(ghost.sent)]
      BY <1>1, <1>3, ConcatProperties
    <2>. HIDE DEF s
    <2>2. ASSUME NEW k \in 1 .. Len(ghost.sent) PROVE s[k] = ghost.sent[k]
      BY <1>0, <1>1, <1>3, <2>1
    <2>3. ASSUME NEW k \in 1 .. n PROVE s[Len(ghost.sent) + k] = f[k]
      <3>1. PICK x \in Nat : x = Len(ghost.sent) + k
        BY <1>0, <1>1
      <3>2. /\ x \in 1 .. Len(ghost.sent) + Len(f)
            /\ ~ (x <= Len(ghost.sent)) /\ x - Len(ghost.sent) = k
        BY <1>0, <1>1, <1>3, <3>1
      <3>3. s[x] = f[k]
        BY <2>1, <3>2
      <3>. QED  BY <3>1, <3>3
    <2>. QED  BY <1>3, <2>1, <2>2, <2>3
  <1>. DEFINE id == ghost.frames + 1
  <1>5. id \in Nat /\ ghost' = [ghost EXCEPT !.frames = id, !.sent = s]
    BY <1>1, <1>2
  <1>. HIDE DEF s, id
  <1>6. /\ ghost' \in RxGhosts
        /\ ghost'.sent = s /\ ghost'.due = ghost.due
        /\ ghost'.unsynced = ghost.unsynced /\ ghost'.whole = ghost.whole
        /\ ghost'.sure = ghost.sure
    BY <1>1, <1>4, <1>5 DEF RxGhosts
  <1>7. \A i \in 0 .. Sram - 1 : at(i) \in Nat /\ at(i) >= 1
    <2>1. ASSUME NEW i \in 0 .. Sram - 1 PROVE (i + Sram - wr) % Sram \in Nat
      <3>1. i + Sram - wr \in Nat /\ i + Sram - wr < 2 * Sram
        BY <1>0, <1>1
      <3>. QED  BY <1>0, <3>1, RemainderIs
    <2>. QED  BY <2>1
  <1>8. /\ sram' \in [0 .. Sram - 1 -> R!Cells]
        /\ \A i \in 0 .. Sram - 1 :
              sram'[i] = IF at(i) <= n THEN f[at(i)] ELSE sram[i]
    <2>1. \A i \in 1 .. n : f[i] \in R!Cells
      BY <1>3, ElementOfSeq
    <2>2. \A i \in 0 .. Sram - 1 : at(i) <= n => f[at(i)] \in R!Cells
      <3>. HIDE DEF at
      <3>. QED  BY <1>0, <1>7, <2>1
    <2>. HIDE DEF at
    <2>. QED  BY <1>1, <1>2, <2>2
  <1>9. wr' \in 0 .. Sram - 1
    BY <1>0, <1>1
  <1>10. HostTypes'
    BY <1>1, <1>6, <1>8, <1>9 DEF HostTypes, ChipTypes, RingTypes, IrqTypes, Reading
  <1>11. HostSound
    BY <1>1 DEF HostInv
  <1>12. OnChip'
    <2>1. (Doomed' <=> Doomed) /\ Got' = Got
      BY <1>1 DEF Doomed, Got, Reading
    <2>. SUFFICES ASSUME ~ Doomed
                  PROVE  /\ Got <= Len(s) /\ Len(s) - Got < Sram
                         /\ wr' = R!Advance(rd, Len(s) - Got, Sram)
                         /\ \A k \in Got + 1 .. Len(s) :
                               sram'[R!Advance(rd, k - Got - 1, Sram)] = s[k]
      BY <1>1, <1>6, <2>1 DEF OnChip
    <2>. DEFINE u == Len(ghost.sent) - Got
    <2>0. wr \in 0 .. Sram - 1 /\ rd \in 0 .. Sram - 1 /\ Len(ghost.sent) \in Nat
      BY <1>1
    <2>2. /\ Got \in Nat /\ Got <= Len(ghost.sent) /\ u < Sram
          /\ wr = R!Advance(rd, u, Sram)
          /\ \A k \in Got + 1 .. Len(ghost.sent) :
                sram[R!Advance(rd, k - Got - 1, Sram)] = ghost.sent[k]
      BY <1>1, <1>11, GotIs DEF HostSound, OnChip
    <2>3. u \in Nat /\ u \in 0 .. Sram - 1 /\ Len(ghost.sent) = Got + u
      <3>1. Len(ghost.sent) \in Nat
        BY <1>1
      <3>. QED  BY <1>0, <2>2, <3>1
    <2>. HIDE DEF u
    <2>4. u + n < Sram
      <3>1. (wr + Sram - rd) % Sram = u
        BY <1>0, <1>1, <2>2, <2>3, DistanceBack
      <3>. QED  BY <1>1, <3>1
    <2>5. wr' = R!Advance(rd, u + n, Sram)
      <3>1. wr' = R!Advance(wr, n, Sram)
        <4>1. n \in 0 .. Sram - 1
          BY <1>0, <2>3, <2>4
        <4>. QED  BY <1>0, <1>1, <4>1, RemainderAdvance
      <3>. QED  BY <1>0, <2>0, <2>2, <2>3, <2>4, <3>1, AdvanceTwice
    <2>6. ASSUME NEW m \in Nat, m < u
          PROVE  LET i == R!Advance(rd, m, Sram) IN sram'[i] = sram[i]
      <3>. DEFINE i == R!Advance(rd, m, Sram)
                  j == Sram - u + m
      <3>1. i \in 0 .. Sram - 1
        <4>1. m \in 0 .. Sram
          BY <1>0, <2>3, <2>6
        <4>. QED  BY <1>0, <1>1, <4>1, AdvanceIn
      <3>2. j \in 0 .. Sram - 1 /\ j + 1 > n
        BY <1>0, <2>3, <2>4, <2>6
      <3>3. i = R!Advance(wr, j, Sram)
        BY <1>0, <2>0, <2>2, <2>3, <2>6, TurnRound
      <3>4. (i + Sram - wr) % Sram = j
        <4>. HIDE DEF i, j
        <4>. QED  BY <1>0, <1>1, <3>2, <3>3, DistanceBack
      <3>. HIDE DEF i, j
      <3>5. ~ (at(i) <= n)
        BY <1>0, <3>2, <3>4
      <3>6. sram'[i] = sram[i]
        <4>. HIDE DEF at
        <4>. QED  BY <1>8, <3>1, <3>5
      <3>. QED  BY <3>6 DEF i
    <2>7. ASSUME NEW m \in Nat, m < n
          PROVE  sram'[R!Advance(rd, u + m, Sram)] = f[m + 1]
      <3>. DEFINE i == R!Advance(rd, u + m, Sram)
      <3>0. m \in 0 .. Sram - 1 /\ u + m < Sram /\ u + m \in 0 .. Sram
        BY <1>0, <2>3, <2>4, <2>7
      <3>1. i \in 0 .. Sram - 1
        BY <1>0, <1>1, <3>0, AdvanceIn
      <3>2. i = R!Advance(wr, m, Sram)
        BY <1>0, <2>0, <2>2, <2>3, <3>0, AdvanceTwice
      <3>. HIDE DEF i
      <3>3. at(i) = m + 1
        <4>1. (i + Sram - wr) % Sram = m
          BY <1>0, <1>1, <3>0, <3>2, DistanceBack
        <4>. QED  BY <4>1
      <3>4. m + 1 <= n
        BY <1>0, <2>7
      <3>5. sram'[i] = f[m + 1]
        <4>. HIDE DEF at
        <4>. QED  BY <1>8, <3>1, <3>3, <3>4
      <3>. QED  BY <3>5 DEF i
    <2>8. ASSUME NEW k \in Got + 1 .. Len(s)
          PROVE  sram'[R!Advance(rd, k - Got - 1, Sram)] = s[k]
      <3>1. CASE k <= Len(ghost.sent)
        <4>1. /\ k \in Got + 1 .. Len(ghost.sent) /\ k \in 1 .. Len(ghost.sent)
              /\ k - Got - 1 \in Nat /\ k - Got - 1 < u
          BY <2>2, <2>3, <3>1
        <4>. QED  BY <1>4, <2>2, <2>6, <4>1
      <3>2. CASE ~ (k <= Len(ghost.sent))
        <4>1. PICK m \in Nat : k = Len(ghost.sent) + (m + 1) /\ m < n
          <5>1. k - Len(ghost.sent) - 1 \in Nat /\ k - Len(ghost.sent) - 1 < n
                /\ k = Len(ghost.sent) + ((k - Len(ghost.sent) - 1) + 1)
            <6>1. PICK L \in Nat : L = Len(ghost.sent)
              BY <1>1
            <6>2. k \in Int /\ k > L /\ k <= L + n
              BY <1>0, <1>4, <2>2, <3>2, <6>1
            <6>3. k - L - 1 \in Nat /\ k - L - 1 < n /\ k = L + ((k - L - 1) + 1)
              BY ONLY <1>0, <6>2, L \in Nat
            <6>. QED  BY <6>1, <6>3
          <5>. QED  BY <5>1
        <4>2. k - Got - 1 = u + m /\ m + 1 \in 1 .. n
          <5>1. PICK G \in Nat : G = Got /\ Len(ghost.sent) = G + u
            BY <2>2, <2>3
          <5>2. k = (G + u) + (m + 1)
            BY <4>1, <5>1
          <5>3. k - G - 1 = u + m
            BY ONLY <2>3, <5>2, G \in Nat, m \in Nat
          <5>4. m < n
            BY <4>1
          <5>5. m + 1 \in 1 .. n
            BY ONLY <1>0, <5>4, m \in Nat
          <5>. QED  BY <5>1, <5>3, <5>5
        <4>. QED  BY <1>4, <2>7, <4>1, <4>2
      <3>. QED  BY <3>1, <3>2
    <2>9. Len(s) - Got = u + n /\ Got <= Len(s)
      BY <1>0, <1>4, <2>2, <2>3
    <2>. QED  BY <2>4, <2>5, <2>8, <2>9
  <1>13. Batch'
    <2>1. Batch
      BY <1>11 DEF HostSound
    <2>2. Reading => irq.total \in Nat /\ irq.remain \in Nat /\ irq.total > 0
      BY <1>1 DEF HostTypes, IrqTypes, Irqs
    <2>3. ASSUME Reading, ~ irq.refused
          PROVE  /\ irq.total <= Len(s) /\ EndsFrame(s, irq.total)
                 /\ \A k \in 1 .. irq.total - irq.remain :
                       fifo[R!Advance(FDT, k - 1, FDN)] = s[k]
      <3>1. /\ irq.total <= Len(ghost.sent) /\ EndsFrame(ghost.sent, irq.total)
            /\ \A k \in 1 .. irq.total - irq.remain :
                  fifo[R!Advance(FDT, k - 1, FDN)] = ghost.sent[k]
        BY <2>1, <2>3 DEF Batch
      <3>2. irq.total \in 1 .. Len(ghost.sent) /\ irq.total <= Len(s)
        BY <1>0, <1>1, <1>4, <2>2, <2>3, <3>1
      <3>3. s[irq.total] = ghost.sent[irq.total]
        BY <1>4, <3>2
      <3>4. \A k \in 1 .. irq.total - irq.remain : k \in 1 .. Len(ghost.sent)
        BY <1>1, <2>2, <2>3, <3>1
      <3>. QED  BY <1>4, <3>1, <3>2, <3>3, <3>4 DEF EndsFrame
    <2>. QED  BY <1>1, <1>6, <2>1, <2>3 DEF Batch, Reading, EndsFrame
  <1>14. Framed(s)
    <2>1. Framed(ghost.sent)
      BY <1>11 DEF HostSound
    <2>. QED  BY <1>1, <1>3, <2>1, FramedJoin DEF s
  <1>15. HostSound'
    BY <1>1, <1>6, <1>11, <1>12, <1>13, <1>14, PartsKept DEF HostSound
  <1>. QED  BY <1>10, <1>15 DEF HostInv

-----------------------------------------------------------------------------
(* The interrupt thread.                                                   *)
LEMMA IrqStartStep == ASSUME HostInv, R!IrqStart PROVE HostInv'
  <1>. DEFINE total == R!Distance(wr, off, Sram)
              sure == ghost.sure /\ ~ ghost.unsynced
  <1>1. /\ HostTypes /\ ghost \in RxGhosts /\ irq.pc = "idle"
        /\ wr \in 0 .. Sram - 1 /\ rd \in 0 .. Sram - 1 /\ off \in 0 .. Sram - 1
        /\ FDT \in 0 .. FDN - 1 /\ FDH \in 0 .. FDN - 1
        /\ off # wr /\ ~ R!Full(total)
        /\ irq' = [R!IrqIdle EXCEPT !.pc = "read", !.total = total,
                                  !.remain = total, !.fdt = FDT]
        /\ ghost' = [ghost EXCEPT !.sure = sure]
        /\ UNCHANGED <<sram, wr, rd, off, fifo, FDT, FDH, rx>>
    BY DEF HostInv, HostTypes, ChipTypes, RingTypes, R!IrqStart, R!hostVars
  <1>2. total \in Nat /\ total > 0 /\ total < Sram
    BY <1>1, RxSizes DEF R!Distance
  <1>3. Ahead(FDT, FDH) + total + Block < FDN /\ total < FDN
    <2>1. R!Empty = FDN - Ahead(FDT, FDH)
      BY <1>1, AheadIs DEF R!Empty
    <2>2. Ahead(FDT, FDH) \in Nat
      BY <1>1, AheadNat
    <2>. HIDE DEF total
    <2>. QED  BY <1>1, <1>2, <2>1, <2>2, RxSizes DEF R!Full
  <1>. HIDE DEF total, sure
  <1>4. /\ irq' \in Irqs /\ irq'.pc = "read" /\ irq'.total = total
        /\ irq'.remain = total /\ irq'.fdt = FDT
        /\ irq'.read = FALSE /\ irq'.refused = FALSE
    <2>1. irq' = [pc |-> "read", total |-> total, remain |-> total, fdt |-> FDT,
                  first |-> TRUE, read |-> FALSE, refused |-> FALSE]
      BY <1>1 DEF R!IrqIdle
    <2>2. FDT \in Nat
      BY <1>1, RxSizes
    <2>. QED  BY <1>2, <2>1, <2>2 DEF Irqs
  <1>5. /\ ghost' \in RxGhosts
        /\ ghost'.sent = ghost.sent /\ ghost'.due = ghost.due
        /\ ghost'.unsynced = ghost.unsynced /\ ghost'.whole = ghost.whole
        /\ ghost'.sure = sure
    <2>1. sure \in BOOLEAN
      BY DEF sure
    <2>. QED  BY <1>1, <2>1 DEF RxGhosts
  <1>6. HostTypes'
    <2>1. IrqTypes'
      BY <1>1, <1>2, <1>3, <1>4 DEF IrqTypes, Reading
    <2>. QED  BY <1>1, <1>5, <2>1 DEF HostTypes, ChipTypes, RingTypes
  <1>7. ASSUME sure PROVE HostSound'
    <2>. DEFINE u == Len(ghost.sent)
    <2>1. /\ HostSound /\ ghost.sent \in Seq(R!Cells) /\ Framed(ghost.sent) /\ u \in Nat
      BY <1>1, <1>7, LenProperties DEF sure, HostInv, HostSound, RxGhosts
    <2>2. /\ ~ Reading /\ Got = 0 /\ ~ Doomed
          /\ Reading' /\ Got' = total - total /\ ~ Doomed'
      BY <1>1, <1>4 DEF Reading, Got, Doomed
    <2>3. Got' = 0
      BY <1>2, <2>2
    <2>4. off = rd
      BY <1>7, <2>1, <2>2 DEF sure, HostSound, InStep
    <2>5. /\ 0 <= u /\ u - 0 < Sram /\ wr = R!Advance(rd, u - 0, Sram)
          /\ \A k \in 0 + 1 .. u :
                sram[R!Advance(rd, k - 0 - 1, Sram)] = ghost.sent[k]
      BY <2>1, <2>2 DEF HostSound, OnChip
    <2>6. total = u
      <3>. HIDE DEF u
      <3>1. u \in Nat /\ u < Sram /\ wr = R!Advance(rd, u, Sram) /\ rd # wr
        BY <1>1, <2>1, <2>4, <2>5
      <3>2. R!Distance(wr, rd, Sram) = u
        BY <1>1, <3>1, RxSizes DEF R!Distance, R!Advance
      <3>. QED  BY <2>4, <3>2 DEF total
    <2>7. OnChip'
      BY <1>1, <1>5, <2>2, <2>3, <2>5 DEF OnChip
    <2>8. InStep'
      BY <1>1, <1>4, <1>5, <1>7, <2>2, <2>4 DEF InStep, sure
    <2>9. Batch'
      <3>1. total <= Len(ghost.sent) /\ EndsFrame(ghost.sent, total)
        BY <1>2, <2>1, <2>6, FramedEnds
      <3>2. total - total = 0 /\ FDT = R!Advance(FDT, total - total, FDN)
        BY <1>1, <1>2, AdvanceZero, RxSizes
      <3>3. \A k \in 1 .. total - total : FALSE
        BY <3>2
      <3>. QED  BY <1>1, <1>3, <1>4, <1>5, <3>1, <3>2, <3>3 DEF Batch, EndsFrame
    <2>. QED  BY <1>1, <1>5, <2>1, <2>7, <2>8, <2>9, PartsKept DEF HostSound
  <1>. QED  BY <1>5, <1>6, <1>7 DEF HostInv

LEMMA WakeStep == ASSUME HostInv, R!Wake PROVE HostInv'
  <1>1. /\ HostTypes /\ irq.pc = "wake" /\ irq' = R!IrqIdle
        /\ UNCHANGED <<sram, wr, rd, off, fifo, FDT, FDH, rx, ghost>>
    BY DEF HostInv, HostTypes, R!Wake, R!hostVars, R!chipVars
  <1>2. /\ irq' \in Irqs /\ irq'.pc = "idle" /\ irq'.fdt = 0
        /\ irq'.total = 0 /\ irq'.remain = 0
    BY <1>1 DEF Irqs, R!IrqIdle
  <1>3. ~ Reading /\ ~ Reading' /\ Got = 0 /\ Got' = 0 /\ ~ Doomed /\ ~ Doomed'
    BY <1>1, <1>2 DEF Reading, Got, Doomed
  <1>4. HostTypes'
    <2>1. IrqTypes'
      BY <1>2, <1>3, RxSizes DEF IrqTypes
    <2>. QED  BY <1>1, <2>1 DEF HostTypes, ChipTypes, RingTypes
  <1>5. ASSUME HostSound PROVE HostSound'
    <2>1. OnChip'
      BY <1>1, <1>3, <1>5 DEF HostSound, OnChip
    <2>2. InStep'
      BY <1>1, <1>3, <1>5 DEF HostSound, InStep
    <2>3. Batch'
      BY <1>3 DEF Batch
    <2>. QED  BY <1>1, <1>5, <2>1, <2>2, <2>3, PartsKept DEF HostSound
  <1>. QED  BY <1>1, <1>4, <1>5 DEF HostInv

(* What the batch brings is what was sent first.                           *)
LEMMA CommitStep == ASSUME HostInv, R!Commit PROVE HostInv'
  <1>. DEFINE t == irq.total
              sent == SubSeq(ghost.sent, t + 1, Len(ghost.sent))
              first == R!First(t, ghost.sent)
              due == ghost.due \o first
              awake == suspend # "yes"
  <1>1. /\ HostTypes /\ ghost \in RxGhosts /\ irq \in Irqs
        /\ irq.pc = "commit" /\ irq.remain = 0 /\ t \in Nat /\ t < FDN /\ t > 0
        /\ irq.read \in BOOLEAN /\ irq.refused \in BOOLEAN
        /\ irq.read \/ irq.refused \/ irq.remain = t
        /\ ghost.sent \in Seq(R!Cells) /\ Len(ghost.sent) \in Nat
        /\ ghost.due \in Seq(R!Cells) /\ Len(ghost.due) \in Nat
        /\ rd \in 0 .. Sram - 1
        /\ FDT \in 0 .. FDN - 1 /\ FDH \in 0 .. FDN - 1 /\ rx \in Rxs
        /\ irq' = [irq EXCEPT !.pc = "wake"]
        /\ FDT' = IF suspend # "yes" THEN R!Advance(FDT, t, FDN) ELSE FDT
        /\ UNCHANGED <<sram, wr, rd, off, fifo, FDH, rx>>
    BY LenProperties DEF HostInv, HostTypes, ChipTypes, RingTypes, IrqTypes, Irqs,
                         Reading, RxGhosts, R!Commit, R!chipVars
  <1>0. /\ t \in Nat /\ t < FDN /\ t > 0
        /\ Len(ghost.sent) \in Nat /\ Len(ghost.due) \in Nat
        /\ FDT \in 0 .. FDN - 1 /\ FDH \in 0 .. FDN - 1
    BY <1>1
  <1>2. /\ sent \in Seq(R!Cells) /\ first \in Seq(R!Cells) /\ due \in Seq(R!Cells)
        /\ Len(due) = Len(ghost.due) + Len(first)
        /\ \A i \in 1 .. Len(ghost.due) + Len(first) :
              due[i] = IF i <= Len(ghost.due) THEN ghost.due[i]
                       ELSE first[i - Len(ghost.due)]
    <2>1. \A i \in t + 1 .. Len(ghost.sent) : ghost.sent[i] \in R!Cells
      BY <1>1, ElementOfSeq
    <2>2. sent \in Seq(R!Cells)
      BY <1>1, <2>1, SubSeqProperties
    <2>3. PICK m \in Nat : m = R!Lesser(t, Len(ghost.sent)) /\ m <= Len(ghost.sent)
      BY <1>1, LesserIs
    <2>4. \A i \in 1 .. m : ghost.sent[i] \in R!Cells
      BY <1>1, <2>3, ElementOfSeq
    <2>5. first \in Seq(R!Cells)
      BY <2>3, <2>4, SubSeqProperties DEF R!First
    <2>. HIDE DEF first
    <2>. QED  BY <1>1, <2>2, <2>5, ConcatProperties
  <1>3. ghost' = IF awake
                 THEN [ghost EXCEPT !.due = due, !.sent = sent,
                                    !.sure = @ /\ ~ irq.refused]
                 ELSE [ghost EXCEPT !.sent = IF irq.refused THEN @ ELSE sent,
                                    !.unsynced = @ \/ irq.refused,
                                    !.sure = @ /\ ~ (irq.read /\ irq.refused)]
    BY DEF R!Commit
  <1>. HIDE DEF sent, due
  <1>4. /\ irq' \in Irqs /\ irq'.pc = "wake" /\ irq'.fdt = irq.fdt
        /\ irq'.total = irq.total /\ irq'.remain = irq.remain
    BY <1>1 DEF Irqs
  <1>5. FDT' \in 0 .. FDN - 1
    <2>1. t \in 0 .. FDN
      BY <1>1, RxSizes
    <2>. QED  BY <1>1, <2>1, RxSizes, AdvanceIn
  <1>6. /\ ghost' \in RxGhosts /\ ghost'.whole = ghost.whole
        /\ ghost'.sure => ghost.sure
        /\ awake => /\ ghost'.due = due /\ ghost'.sent = sent
                    /\ ghost'.unsynced = ghost.unsynced
                    /\ ghost'.sure => ~ irq.refused
        /\ ~ awake => /\ ghost'.due = ghost.due
                      /\ ghost'.sent = IF irq.refused THEN ghost.sent ELSE sent
                      /\ irq.refused => ghost'.unsynced
                      /\ ~ irq.refused => ghost'.unsynced = ghost.unsynced
                      /\ ghost'.sure => ~ (irq.read /\ irq.refused)
    <2>. DEFINE sureA == ghost.sure /\ ~ irq.refused
                sureB == ghost.sure /\ ~ (irq.read /\ irq.refused)
                uns == ghost.unsynced \/ irq.refused
                snt == IF irq.refused THEN ghost.sent ELSE sent
    <2>1. /\ sureA \in BOOLEAN /\ sureB \in BOOLEAN /\ uns \in BOOLEAN
      BY <1>1 DEF RxGhosts
    <2>2. snt \in Seq(R!Cells)
      BY <1>1, <1>2
    <2>3. /\ sureA => ghost.sure /\ ~ irq.refused
          /\ sureB => ghost.sure /\ ~ (irq.read /\ irq.refused)
          /\ irq.refused => uns
          /\ ~ irq.refused => uns = ghost.unsynced
          /\ snt = IF irq.refused THEN ghost.sent ELSE sent
      BY <1>1 DEF RxGhosts
    <2>4. ghost' = IF awake
                   THEN [ghost EXCEPT !.due = due, !.sent = sent, !.sure = sureA]
                   ELSE [ghost EXCEPT !.sent = snt, !.unsynced = uns, !.sure = sureB]
      BY <1>3
    <2>. HIDE DEF sureA, sureB, uns, snt
    <2>5. CASE awake
      <3>1. /\ ghost' \in RxGhosts /\ ghost'.whole = ghost.whole
            /\ ghost'.due = due /\ ghost'.sent = sent
            /\ ghost'.unsynced = ghost.unsynced /\ ghost'.sure = sureA
        BY <1>1, <1>2, <2>1, <2>4, <2>5 DEF RxGhosts
      <3>. QED  BY <2>3, <2>5, <3>1
    <2>6. CASE ~ awake
      <3>1. /\ ghost' \in RxGhosts /\ ghost'.whole = ghost.whole
            /\ ghost'.due = ghost.due /\ ghost'.sent = snt
            /\ ghost'.unsynced = uns /\ ghost'.sure = sureB
        BY <1>1, <2>1, <2>2, <2>4, <2>6 DEF RxGhosts
      <3>. QED  BY <2>3, <2>6, <3>1
    <2>. QED  BY <2>5, <2>6
  <1>7. Reading /\ ~ Reading' /\ Got' = 0 /\ ~ Doomed'
    BY <1>1, <1>4 DEF Reading, Got, Doomed
  <1>8. HostTypes'
    <2>1. IrqTypes'
      BY <1>1, <1>4, <1>7 DEF HostTypes, IrqTypes
    <2>. QED  BY <1>1, <1>5, <1>6, <2>1 DEF HostTypes, ChipTypes, RingTypes
  <1>9. ASSUME ghost'.sure PROVE HostSound'
    <2>1. /\ HostSound /\ Framed(ghost.sent) /\ Framed(ghost.due) /\ ghost.whole
      BY <1>6, <1>9 DEF HostInv, HostSound
    <2>2. ASSUME ~ irq.refused
          PROVE  /\ Got = t /\ t \in 1 .. Len(ghost.sent) /\ EndsFrame(ghost.sent, t)
                 /\ Len(sent) = Len(ghost.sent) - t
                 /\ \A k \in 1 .. Len(ghost.sent) - t : sent[k] = ghost.sent[t + k]
                 /\ Framed(sent)
                 /\ first = SubSeq(ghost.sent, 1, t) /\ Framed(first)
                 /\ Len(first) = t /\ \A k \in 1 .. t : first[k] = ghost.sent[k]
                 /\ \A k \in 1 .. t : fifo[R!Advance(FDT, k - 1, FDN)] = ghost.sent[k]
      <3>1. Got = t
        BY <1>1, <1>7, <2>2 DEF Got
      <3>2. /\ t <= Len(ghost.sent) /\ EndsFrame(ghost.sent, t)
            /\ \A k \in 1 .. t - irq.remain :
                  fifo[R!Advance(FDT, k - 1, FDN)] = ghost.sent[k]
        BY <1>7, <2>1, <2>2 DEF HostSound, Batch
      <3>3. t \in 1 .. Len(ghost.sent) /\ t - irq.remain = t
        BY <1>1, <3>2
      <3>4. \A i \in 1 .. Len(ghost.sent) : ghost.sent[i] \in R!Cells
        BY <1>1, ElementOfSeq
      <3>5. /\ Len(sent) = Len(ghost.sent) - t
            /\ \A k \in 1 .. Len(ghost.sent) - t : sent[k] = ghost.sent[t + k]
        <4>1. \A i \in t + 1 .. Len(ghost.sent) : ghost.sent[i] \in R!Cells
          BY <1>1, <3>4
        <4>2. /\ Len(sent) = IF t + 1 <= Len(ghost.sent)
                             THEN Len(ghost.sent) - (t + 1) + 1 ELSE 0
              /\ \A i \in 1 .. Len(ghost.sent) - (t + 1) + 1 :
                    sent[i] = ghost.sent[(t + 1) + i - 1]
          <5>1. t + 1 \in Int /\ Len(ghost.sent) \in Int
            BY <1>0
          <5>. HIDE DEF t
          <5>. QED  BY <4>1, <5>1, SubSeqProperties DEF sent
        <4>. HIDE DEF t
        <4>3. Len(ghost.sent) - (t + 1) + 1 = Len(ghost.sent) - t
          BY <1>0
        <4>4. ASSUME NEW k \in 1 .. Len(ghost.sent) - t PROVE (t + 1) + k - 1 = t + k
          BY <1>0
        <4>5. Len(sent) = Len(ghost.sent) - t
          BY <1>0, <3>3, <4>2
        <4>. QED  BY <4>2, <4>3, <4>4, <4>5
      <3>6. Framed(sent)
        BY <1>1, <2>1, <3>2, <3>3, FramedRest DEF sent
      <3>7. first = SubSeq(ghost.sent, 1, t)
        <4>1. R!Lesser(t, Len(ghost.sent)) = t
          BY <1>1, <3>3 DEF R!Lesser
        <4>. QED  BY <4>1 DEF R!First
      <3>8. Framed(first)
        BY <1>1, <2>1, <3>2, <3>3, <3>7, FramedBegin
      <3>9. Len(first) = t /\ \A k \in 1 .. t : first[k] = ghost.sent[k]
        <4>1. \A i \in 1 .. t : ghost.sent[i] \in R!Cells
          BY <1>1, <3>3, <3>4
        <4>2. /\ Len(first) = t - 1 + 1
              /\ \A i \in 1 .. t - 1 + 1 : first[i] = ghost.sent[1 + i - 1]
          <5>. HIDE DEF first
          <5>. QED  BY <1>1, <3>3, <3>7, <4>1, SubSeqProperties
        <4>. HIDE DEF t, first
        <4>3. t - 1 + 1 = t /\ \A i \in 1 .. t : 1 + i - 1 = i
          BY <1>1
        <4>. QED  BY <4>2, <4>3
      <3>. QED  BY <3>1, <3>2, <3>3, <3>5, <3>6, <3>7, <3>8, <3>9
    <2>. HIDE DEF first, t
    <2>3. InStep'
      <3>1. CASE irq.refused
        BY <1>6, <1>7, <1>9, <3>1 DEF InStep
      <3>2. CASE ~ irq.refused
        BY <1>1, <1>7, <2>1, <3>2 DEF HostSound, InStep
      <3>. QED  BY <3>1, <3>2
    <2>4. OnChip' /\ Framed(ghost'.sent)
      <3>1. CASE irq.refused
        <4>1. ghost'.sent = ghost.sent /\ ~ irq.read
          BY <1>1, <1>6, <1>9, <3>1
        <4>2. Got = 0 /\ ~ Doomed
          BY <3>1, <4>1 DEF Got, Doomed
        <4>. QED  BY <1>1, <1>7, <2>1, <4>1, <4>2 DEF HostSound, OnChip
      <3>2. CASE ~ irq.refused
        <4>1. ghost'.sent = sent /\ ~ Doomed
          BY <1>6, <3>2 DEF Doomed
        <4>2. /\ t <= Len(ghost.sent) /\ Len(ghost.sent) - t < Sram
              /\ wr = R!Advance(rd, Len(ghost.sent) - t, Sram)
              /\ \A k \in t + 1 .. Len(ghost.sent) :
                    sram[R!Advance(rd, k - t - 1, Sram)] = ghost.sent[k]
          BY <2>1, <2>2, <3>2, <4>1 DEF HostSound, OnChip
        <4>3. ASSUME NEW k \in 1 .. Len(sent)
              PROVE  sram[R!Advance(rd, k - 0 - 1, Sram)] = sent[k]
          <5>1. k \in 1 .. Len(ghost.sent) - t
            BY <2>2, <3>2
          <5>2. PICK x \in t + 1 .. Len(ghost.sent) : x = t + k
            BY <1>1, <2>2, <3>2, <5>1
          <5>3. x - t - 1 = k - 0 - 1
            BY <1>1, <5>1, <5>2
          <5>. QED  BY <2>2, <3>2, <4>2, <5>1, <5>2, <5>3
        <4>4. /\ Len(sent) - 0 = Len(ghost.sent) - t /\ 0 <= Len(sent)
              /\ 0 + 1 = 1
          BY <1>1, <2>2, <3>2
        <4>5. /\ 0 <= Len(sent) /\ Len(sent) - 0 < Sram
              /\ wr = R!Advance(rd, Len(sent) - 0, Sram)
              /\ \A k \in 0 + 1 .. Len(sent) :
                    sram[R!Advance(rd, k - 0 - 1, Sram)] = sent[k]
          BY <4>2, <4>3, <4>4
        <4>. QED  BY <1>1, <1>7, <2>2, <3>2, <4>1, <4>5 DEF OnChip
      <3>. QED  BY <3>1, <3>2
    <2>5. Batch'
      BY <1>7 DEF Batch
    <2>6. CASE ~ awake
      <3>1. FDT' = FDT /\ ghost'.due = ghost.due
        BY <1>1, <1>6, <2>6
      <3>. QED  BY <1>1, <1>6, <2>1, <2>3, <2>4, <2>5, <3>1, PartsKept DEF HostSound
    <2>7. CASE awake
      <3>1. /\ FDT' = R!Advance(FDT, t, FDN) /\ ghost'.due = due /\ ~ irq.refused
        BY <1>1, <1>6, <1>9, <2>7 DEF t
      <3>2. Len(first) = t /\ \A k \in 1 .. t : first[k] = ghost.sent[k]
        BY <2>2, <3>1
      <3>3. /\ Ahead(FDT, FDH) + t + Block < FDN
        BY <1>7, <2>1 DEF HostSound, Batch, t
      <3>4. /\ R!Front \in 0 .. FDN - 1 /\ R!Front' = R!Front
        BY <1>1 DEF R!Front, Rxs
      <3>5. /\ Len(ghost.due) = Ahead(FDT, R!Front)
            /\ Ahead(FDT, R!Front) <= Ahead(FDT, FDH)
            /\ \A k \in 1 .. Len(ghost.due) :
                  fifo[R!Advance(R!Front, k - 1, FDN)] = ghost.due[k]
        BY <2>1 DEF HostSound, DueInRing
      <3>6. /\ Ahead(FDT, R!Front) \in Nat /\ Ahead(FDT, FDH) \in Nat
        BY <1>1, <3>4, AheadNat
      <3>7. /\ Ahead(FDT', R!Front) = Ahead(FDT, R!Front) + t
            /\ Ahead(FDT', FDH) = Ahead(FDT, FDH) + t
        <4>1. Ahead(FDT, R!Front) + t < FDN /\ Ahead(FDT, FDH) + t < FDN
          BY <1>0, <3>3, <3>5, <3>6, RxSizes
        <4>. QED  BY <1>0, <3>1, <3>4, <4>1, AheadAdvance
      <3>8. ASSUME NEW k \in 1 .. Len(due)
            PROVE  fifo[R!Advance(R!Front, k - 1, FDN)] = due[k]
        <4>1. CASE k <= Len(ghost.due)
          <5>1. k \in 1 .. Len(ghost.due)
            BY <1>0, <1>2, <3>2, <4>1
          <5>2. due[k] = ghost.due[k]
            BY <1>2, <4>1
          <5>. QED  BY <3>5, <5>1, <5>2
        <4>2. CASE ~ (k <= Len(ghost.due))
          <5>1. PICK x \in Nat : /\ k = Len(ghost.due) + (x + 1) /\ x < t
                                 /\ k - Len(ghost.due) = x + 1
            <6>1. PICK L \in Nat : L = Len(ghost.due)
              BY <1>1
            <6>2. k \in Int /\ k > L /\ k <= L + t
              BY <1>1, <1>2, <3>2, <4>2, <6>1
            <6>3. /\ k - L - 1 \in Nat /\ k - L - 1 < t
                  /\ k = L + ((k - L - 1) + 1) /\ k - L = (k - L - 1) + 1
              BY ONLY <1>1, <6>2, L \in Nat
            <6>. QED  BY <6>1, <6>3
          <5>2. due[k] = first[x + 1]
            BY <1>2, <4>2, <5>1
          <5>3. first[x + 1] = ghost.sent[x + 1] /\ x + 1 \in 1 .. t
            BY <1>1, <3>2, <5>1
          <5>4. R!Advance(R!Front, k - 1, FDN) = R!Advance(FDT, (x + 1) - 1, FDN)
            <6>1. FDT = R!Advance(R!Front, Len(ghost.due), FDN)
              BY <1>0, <3>4, <3>5, AheadIs
            <6>2. Len(ghost.due) + x < FDN
              BY <1>0, <3>3, <3>5, <3>6, <5>1, RxSizes
            <6>3. R!Advance(R!Advance(R!Front, Len(ghost.due), FDN), x, FDN)
                    = R!Advance(R!Front, Len(ghost.due) + x, FDN)
              BY <1>0, <3>4, <6>2, RxSizes, AdvanceTwice
            <6>4. k - 1 = Len(ghost.due) + x /\ (x + 1) - 1 = x
              <7>1. PICK L \in Nat : L = Len(ghost.due)
                BY <1>0
              <7>2. k = L + (x + 1)
                BY <5>1, <7>1
              <7>3. k - 1 = L + x /\ (x + 1) - 1 = x
                BY ONLY <7>2, L \in Nat, x \in Nat
              <7>. QED  BY <7>1, <7>3
            <6>. QED  BY <6>1, <6>3, <6>4
          <5>. QED  BY <2>2, <3>1, <5>2, <5>3, <5>4
        <4>. QED  BY <4>1, <4>2
      <3>9. DueInRing'
        <4>1. Len(due) = Ahead(FDT', R!Front) /\ Ahead(FDT', R!Front) <= Ahead(FDT', FDH)
          BY <1>1, <1>2, <3>2, <3>5, <3>6, <3>7
        <4>. QED  BY <1>1, <3>1, <3>4, <3>8, <4>1 DEF DueInRing
      <3>10. Batched'
        <4>. SUFFICES ASSUME rx.pc = "frames"
                      PROVE  LET p == Ahead(rx.fdt, rx.fdh) IN
                             p <= Len(due) /\ (p # 0 => EndsFrame(due, p))
          BY <1>1, <3>1 DEF Batched, EndsFrame
        <4>. DEFINE p == Ahead(rx.fdt, rx.fdh)
        <4>1. p <= Len(ghost.due) /\ (p # 0 => EndsFrame(ghost.due, p))
          BY <2>1 DEF HostSound, Batched
        <4>2. p \in Nat
          BY <1>1, AheadNat DEF Rxs
        <4>. HIDE DEF p
        <4>3. p # 0 => due[p] = ghost.due[p]
          <5>1. p # 0 => p \in 1 .. Len(ghost.due) + Len(first)
            BY <1>0, <3>2, <4>1, <4>2
          <5>. QED  BY <1>2, <4>1, <5>1
        <4>4. p <= Len(due)
          BY <1>0, <1>2, <3>2, <4>1, <4>2
        <4>5. p # 0 => EndsFrame(due, p)
          BY <4>1, <4>3 DEF EndsFrame
        <4>. QED  BY <4>4, <4>5 DEF p
      <3>11. Framed(due)
        BY <1>1, <1>2, <2>1, <2>2, <3>1, FramedJoin DEF due
      <3>. QED  BY <1>6, <2>1, <2>3, <2>4, <2>5, <3>1, <3>9, <3>10, <3>11 DEF HostSound
    <2>. QED  BY <2>6, <2>7
  <1>. QED  BY <1>6, <1>8, <1>9 DEF HostInv

(* What a turn leaves of a ring cell: the blocks as they came, then the    *)
(* cells that were behind the end moved to the start.                      *)
Fetched(i) ==
    IF suspend # "yes" /\ i \in irq.fdt .. irq.fdt + R!Aligned(R!AskedFor) - 1
    THEN sram[(off + i - irq.fdt) % Sram] ELSE fifo[i]

LEMMA FetchedIs ==
    ASSUME HostTypes, NEW i \in 0 .. FDN + R!Slack - 1
    PROVE  Fetched(i) \in R!Cells
  <1>1. /\ off \in 0 .. Sram - 1 /\ irq.fdt \in 0 .. FDN - 1
        /\ sram \in [0 .. Sram - 1 -> R!Cells]
        /\ fifo \in [0 .. FDN + R!Slack - 1 -> R!Cells]
    BY DEF HostTypes, ChipTypes, RingTypes, IrqTypes
  <1>2. (off + i - irq.fdt) % Sram \in 0 .. Sram - 1
    BY <1>1, RxSizes
  <1>. QED  BY <1>1, <1>2 DEF Fetched

(* A turn of w moved cells.                                                *)
LEMMA ReadDoes ==
    ASSUME HostTypes, R!Read
    PROVE  \E w \in Nat :
             LET n == R!AskedFor + w IN
             /\ R!AskedFor \in Nat /\ R!AskedFor <= R!AtEnd /\ n <= irq.remain
             /\ w > 0 /\ R!Wanted >= R!AtEnd =>
                  R!AskedFor = R!AtEnd /\ R!AtEnd + w <= R!Aligned(R!AtEnd)
             /\ fifo' \in [0 .. FDN + R!Slack - 1 -> R!Cells]
             /\ \A i \in 0 .. FDN + R!Slack - 1 :
                  fifo'[i] = IF i < w /\ FDN + i \in 0 .. FDN + R!Slack - 1
                             THEN Fetched(FDN + i) ELSE Fetched(i)
             /\ off' = R!Advance(off, n, Sram)
             /\ rd' = IF suspend # "yes" THEN R!Advance(rd, n, Sram) ELSE rd
             /\ irq' = [irq EXCEPT !.pc = IF irq.remain = n THEN "commit" ELSE "read",
                                   !.remain = irq.remain - n,
                                   !.fdt = R!Advance(irq.fdt, n, FDN),
                                   !.first = FALSE,
                                   !.read = irq.read \/ suspend # "yes",
                                   !.refused = irq.refused \/ suspend = "yes"]
             /\ ghost' = [ghost EXCEPT !.sure = ghost.sure
                                                /\ (w > 0 => R!Wanted >= R!AtEnd)]
  <1>1. PICK w0 \in R!Wrapped :
           LET w    == R!Lesser(w0, irq.remain - R!AskedFor)
               n    == R!AskedFor + w
               ok   == suspend # "yes"
               into == irq.fdt .. irq.fdt + R!Aligned(R!AskedFor) - 1
               got  == [i \in DOMAIN fifo |->
                          IF ok /\ i \in into THEN sram[(off + i - irq.fdt) % Sram]
                          ELSE fifo[i]]
           IN /\ fifo' = R!Moved(got, w)
              /\ off' = R!Advance(off, n, Sram)
              /\ rd' = IF ok THEN R!Advance(rd, n, Sram) ELSE rd
              /\ irq' = [irq EXCEPT !.pc = IF irq.remain = n THEN "commit" ELSE "read",
                                    !.remain = irq.remain - n,
                                    !.fdt = R!Advance(irq.fdt, n, FDN),
                                    !.first = FALSE,
                                    !.read = irq.read \/ ok,
                                    !.refused = irq.refused \/ ~ ok]
              /\ ghost' = [ghost EXCEPT !.sure = ghost.sure
                                                 /\ (w > 0 => R!Wanted >= R!AtEnd)]
    BY DEF R!Read
  <1>. DEFINE w == R!Lesser(w0, irq.remain - R!AskedFor)
              n == R!AskedFor + w
              got == [i \in DOMAIN fifo |-> Fetched(i)]
  <1>2. irq.remain \in Nat /\ irq.fdt \in 0 .. FDN - 1
        /\ fifo \in [0 .. FDN + R!Slack - 1 -> R!Cells]
    BY DEF HostTypes, IrqTypes, Irqs, RingTypes
  <1>3. R!AtEnd \in Nat /\ R!AtEnd > 0
    BY <1>2, RxSizes DEF R!AtEnd
  <1>4. R!Wanted \in Nat /\ R!Wanted <= irq.remain
    BY <1>2, RxSizes DEF R!Wanted
  <1>5. R!AskedFor \in Nat /\ R!AskedFor <= R!AtEnd /\ R!AskedFor <= irq.remain
        /\ (R!Wanted >= R!AtEnd => R!AskedFor = R!AtEnd)
    BY <1>2, <1>3, <1>4 DEF R!AskedFor, R!Lesser
  <1>6. R!Aligned(R!AtEnd) - R!AtEnd \in Nat
    BY <1>3, AlignedIs
  <1>7. w0 \in Nat /\ (R!Wanted >= R!AtEnd => w0 = R!Aligned(R!AtEnd) - R!AtEnd)
    BY <1>6, RxSizes DEF R!Wrapped
  <1>8. w \in Nat /\ w <= w0 /\ w <= irq.remain - R!AskedFor
    <2>1. irq.remain - R!AskedFor \in Nat
      BY <1>2, <1>5
    <2>. QED  BY <1>7, <2>1, LesserIs
  <1>9. fifo' = R!Moved(got, w)
    BY <1>1 DEF Fetched
  <1>10. irq' = [irq EXCEPT !.pc = IF irq.remain = n THEN "commit" ELSE "read",
                            !.remain = irq.remain - n,
                            !.fdt = R!Advance(irq.fdt, n, FDN),
                            !.first = FALSE,
                            !.read = irq.read \/ suspend # "yes",
                            !.refused = irq.refused \/ suspend = "yes"]
    <2>1. ~ (suspend # "yes") <=> suspend = "yes"
      OBVIOUS
    <2>. QED  BY ONLY <1>1, <2>1
  <1>11. /\ off' = R!Advance(off, n, Sram)
         /\ rd' = IF suspend # "yes" THEN R!Advance(rd, n, Sram) ELSE rd
         /\ ghost' = [ghost EXCEPT !.sure = ghost.sure /\ (w > 0 => R!Wanted >= R!AtEnd)]
    BY <1>1
  <1>. HIDE DEF w
  <1>12. n <= irq.remain
    BY <1>2, <1>5, <1>8
  <1>13. w > 0 /\ R!Wanted >= R!AtEnd => R!AskedFor = R!AtEnd /\ R!AtEnd + w <= R!Aligned(R!AtEnd)
    <2>1. R!Aligned(R!AtEnd) \in Nat
      BY <1>3, AlignedIs
    <2>. QED  BY <1>3, <1>5, <1>7, <1>8, <2>1
  <1>14. /\ fifo' \in [0 .. FDN + R!Slack - 1 -> R!Cells]
         /\ \A i \in 0 .. FDN + R!Slack - 1 :
              fifo'[i] = IF i < w /\ FDN + i \in 0 .. FDN + R!Slack - 1
                         THEN Fetched(FDN + i) ELSE Fetched(i)
    <2>1. got \in [0 .. FDN + R!Slack - 1 -> R!Cells]
          /\ \A i \in 0 .. FDN + R!Slack - 1 : got[i] = Fetched(i)
      BY <1>2, FetchedIs
    <2>. HIDE DEF got
    <2>. QED  BY <1>9, <2>1 DEF R!Moved
  <1>. QED  BY <1>5, <1>8, <1>10, <1>11, <1>12, <1>13, <1>14

(* Where a turn of a sure run writes, and what.                            *)
LEMMA ReadWrites ==
    ASSUME HostTypes, irq.pc = "read", NEW w \in Nat,
           irq.fdt = R!Advance(FDT, irq.total - irq.remain, FDN),
           Ahead(FDT, FDH) + irq.total + Block < FDN,
           R!AskedFor \in Nat, R!AskedFor <= R!AtEnd, R!AskedFor + w <= irq.remain,
           w > 0 => R!AskedFor = R!AtEnd /\ R!AtEnd + w <= R!Aligned(R!AtEnd),
           \A i \in 0 .. FDN + R!Slack - 1 :
              fifo'[i] = IF i < w /\ FDN + i \in 0 .. FDN + R!Slack - 1
                         THEN Fetched(FDN + i) ELSE Fetched(i)
    PROVE  /\ \A e \in 0 .. FDN - 1 :
                 e < irq.total - irq.remain \/ e >= irq.total + Block
                 => fifo'[R!Advance(FDT, e, FDN)] = fifo[R!Advance(FDT, e, FDN)]
           /\ suspend # "yes" =>
                \A j \in Nat : j < R!AskedFor + w =>
                    fifo'[R!Advance(irq.fdt, j, FDN)] = sram[R!Advance(off, j, Sram)]
  <1>. DEFINE g == irq.total - irq.remain
              A == R!AskedFor
              F == irq.fdt
              T == irq.total
  <1>1. /\ F \in 0 .. FDN - 1 /\ FDT \in 0 .. FDN - 1 /\ off \in 0 .. Sram - 1
        /\ T \in Nat /\ g \in Nat /\ irq.remain \in Nat /\ irq.remain = T - g
        /\ T < Sram /\ T + Block < FDN /\ A \in Nat
    <2>1. /\ F \in 0 .. FDN - 1 /\ FDT \in 0 .. FDN - 1 /\ FDH \in 0 .. FDN - 1
          /\ off \in 0 .. Sram - 1
          /\ T \in Nat /\ irq.remain \in Nat /\ irq.remain <= T /\ T < Sram
      BY DEF HostTypes, ChipTypes, RingTypes, IrqTypes, Irqs, Reading
    <2>2. Ahead(FDT, FDH) \in Nat
      BY <2>1, AheadNat
    <2>. QED  BY <2>1, <2>2, RxSizes
  <1>2. /\ F = R!Advance(FDT, g, FDN) /\ R!AtEnd = FDN - F /\ A <= FDN - F
        /\ A + w <= T - g /\ (w > 0 => A = FDN - F)
        /\ g + A + w <= T
    BY <1>1, RxSizes DEF R!AtEnd
  <1>3. /\ R!Aligned(A) \in Nat /\ A <= R!Aligned(A) /\ R!Aligned(A) < A + Block
        /\ w > 0 => FDN - F + w <= R!Aligned(A) /\ w < Block
    <2>1. R!Aligned(A) \in Nat /\ A <= R!Aligned(A) /\ R!Aligned(A) < A + Block
      BY <1>1, AlignedIs
    <2>2. w > 0 => FDN - F + w <= R!Aligned(A)
      BY <1>2
    <2>. HIDE DEF A, F
    <2>. QED  BY <1>1, <1>2, <2>1, <2>2, RxSizes
  <1>4. \A i \in 0 .. FDN - 1 :
            fifo'[i] = IF i < w THEN Fetched(FDN + i) ELSE Fetched(i)
    <2>1. ASSUME NEW i \in 0 .. FDN - 1
          PROVE  fifo'[i] = IF i < w THEN Fetched(FDN + i) ELSE Fetched(i)
      <3>1. i \in 0 .. FDN + R!Slack - 1
        BY RxSizes
      <3>2. i < w => FDN + i \in 0 .. FDN + R!Slack - 1
        <4>. HIDE DEF F
        <4>. QED  BY <1>3, RxSizes
      <3>. QED  BY <3>1, <3>2
    <2>. QED  BY <2>1
  <1>5. \A i : Fetched(i) = IF suspend # "yes" /\ i \in F .. F + R!Aligned(A) - 1
                            THEN sram[(off + i - F) % Sram] ELSE fifo[i]
    BY DEF Fetched
  <1>. HIDE DEF g, A, F, T
  <1>6. ASSUME NEW e \in 0 .. FDN - 1, e < g \/ e >= T + Block
        PROVE  fifo'[R!Advance(FDT, e, FDN)] = fifo[R!Advance(FDT, e, FDN)]
    <2>. DEFINE x == R!Advance(FDT, e, FDN)
    <2>1. x \in 0 .. FDN - 1
      <3>1. e \in 0 .. FDN
        BY RxSizes
      <3>. QED  BY <1>1, <3>1, RxSizes, AdvanceIn
    <2>2. x \notin F .. F + R!Aligned(A) - 1
      <3>. SUFFICES ASSUME x \in F .. F + R!Aligned(A) - 1 PROVE FALSE
        OBVIOUS
      <3>1. PICK j \in Nat : x = F + j /\ j < A + Block
        <4>1. x - F \in Nat /\ x = F + (x - F) /\ x - F < A + Block
          <5>. HIDE DEF x
          <5>. QED  BY <1>1, <1>3, <2>1, RxSizes
        <4>. QED  BY <4>1
      <3>2. g + j < FDN /\ g + j < T + Block /\ F + j < FDN
        <4>1. F + j < FDN
          <5>. HIDE DEF x
          <5>. QED  BY <2>1, <3>1, RxSizes
        <4>. QED  BY <1>1, <1>2, <3>1, <4>1, RxSizes
      <3>3. x = R!Advance(F, j, FDN)
        <4>. HIDE DEF x
        <4>. QED  BY <3>1, <3>2 DEF R!Advance
      <3>4. x = R!Advance(FDT, g + j, FDN)
        BY <1>1, <1>2, <3>2, <3>3, RxSizes, AdvanceTwice
      <3>5. g + j \in 0 .. FDN - 1
        BY <1>1, <3>2, RxSizes
      <3>6. e = g + j
        BY <1>1, <3>4, <3>5, RxSizes, AdvanceOnce
      <3>. QED  BY <1>1, <1>6, <3>2, <3>6, RxSizes
    <2>3. ~ (x < w)
      <3>. SUFFICES ASSUME x < w PROVE FALSE
        OBVIOUS
      <3>1. PICK j \in Nat : j = FDN - F + x /\ g + j < T
        <4>. HIDE DEF x
        <4>1. FDN - F + x \in Nat /\ g + (FDN - F + x) < T
          BY <1>1, <1>2, <2>1, RxSizes
        <4>. QED  BY <4>1
      <3>2. x = R!Advance(F, j, FDN)
        <4>. HIDE DEF x
        <4>. QED  BY <1>1, <2>1, <3>1, RxSizes DEF R!Advance
      <3>3. g + j < FDN /\ g + j \in 0 .. FDN - 1
        BY <1>1, <3>1, RxSizes
      <3>4. x = R!Advance(FDT, g + j, FDN)
        BY <1>1, <1>2, <3>2, <3>3, RxSizes, AdvanceTwice
      <3>5. e = g + j
        BY <1>1, <3>3, <3>4, RxSizes, AdvanceOnce
      <3>. QED  BY <1>1, <1>6, <3>1, <3>5, RxSizes
    <2>. HIDE DEF x
    <2>4. fifo'[x] = fifo[x]
      BY <1>4, <1>5, <2>1, <2>2, <2>3
    <2>. QED  BY <2>4 DEF x
  <1>7. ASSUME suspend # "yes", NEW j \in Nat, j < A + w
        PROVE  fifo'[R!Advance(F, j, FDN)] = sram[R!Advance(off, j, Sram)]
    <2>1. (off + j) % Sram = R!Advance(off, j, Sram)
      <3>1. j \in 0 .. Sram - 1
        BY <1>1, <1>2, <1>7, RxSizes
      <3>. QED  BY <1>1, <3>1, RxSizes, RemainderAdvance
    <2>2. CASE j < A
      <3>1. F + j \in 0 .. FDN - 1 /\ F + j < FDN /\ ~ (F + j < w)
        BY <1>1, <1>2, <2>2, RxSizes
      <3>2. R!Advance(F, j, FDN) = F + j
        BY <3>1 DEF R!Advance
      <3>3. F + j \in F .. F + R!Aligned(A) - 1 /\ off + (F + j) - F = off + j
        BY <1>1, <1>3, <2>2, RxSizes
      <3>4. Fetched(F + j) = sram[(off + (F + j) - F) % Sram]
        BY <1>5, <1>7, <3>3
      <3>5. fifo'[F + j] = Fetched(F + j)
        BY <1>4, <3>1
      <3>. QED  BY <2>1, <3>2, <3>3, <3>4, <3>5
    <2>3. CASE ~ (j < A)
      <3>1. w > 0 /\ A = FDN - F
        BY <1>1, <1>2, <1>7, <2>3
      <3>2. PICK x \in Nat : F + j = FDN + x /\ x < w
        <4>1. F + j - FDN \in Nat /\ F + j = FDN + (F + j - FDN) /\ F + j - FDN < w
          BY <1>1, <1>7, <2>3, <3>1, RxSizes
        <4>. QED  BY <4>1
      <3>3. x \in 0 .. FDN - 1
        BY <1>1, <1>3, <3>1, <3>2, RxSizes
      <3>4. R!Advance(F, j, FDN) = x
        BY <1>1, <3>2, <3>3, RxSizes DEF R!Advance
      <3>5. FDN + x \in F .. F + R!Aligned(A) - 1 /\ off + (FDN + x) - F = off + j
        BY <1>1, <1>3, <3>1, <3>2, RxSizes
      <3>6. Fetched(FDN + x) = sram[(off + (FDN + x) - F) % Sram]
        BY <1>5, <1>7, <3>5
      <3>7. fifo'[x] = Fetched(FDN + x)
        BY <1>4, <3>2, <3>3
      <3>. QED  BY <2>1, <3>4, <3>5, <3>6, <3>7
    <2>. QED  BY <2>2, <2>3
  <1>. QED  BY <1>6, <1>7 DEF g, A, F, T

LEMMA ReadStep == ASSUME HostInv, R!Read PROVE HostInv'
  <1>1. PICK w \in Nat :
             LET n == R!AskedFor + w IN
             /\ R!AskedFor \in Nat /\ R!AskedFor <= R!AtEnd /\ n <= irq.remain
             /\ w > 0 /\ R!Wanted >= R!AtEnd =>
                  R!AskedFor = R!AtEnd /\ R!AtEnd + w <= R!Aligned(R!AtEnd)
             /\ fifo' \in [0 .. FDN + R!Slack - 1 -> R!Cells]
             /\ \A i \in 0 .. FDN + R!Slack - 1 :
                  fifo'[i] = IF i < w /\ FDN + i \in 0 .. FDN + R!Slack - 1
                             THEN Fetched(FDN + i) ELSE Fetched(i)
             /\ off' = R!Advance(off, n, Sram)
             /\ rd' = IF suspend # "yes" THEN R!Advance(rd, n, Sram) ELSE rd
             /\ irq' = [irq EXCEPT !.pc = IF irq.remain = n THEN "commit" ELSE "read",
                                   !.remain = irq.remain - n,
                                   !.fdt = R!Advance(irq.fdt, n, FDN),
                                   !.first = FALSE,
                                   !.read = irq.read \/ suspend # "yes",
                                   !.refused = irq.refused \/ suspend = "yes"]
             /\ ghost' = [ghost EXCEPT !.sure = ghost.sure
                                                /\ (w > 0 => R!Wanted >= R!AtEnd)]
    BY ReadDoes DEF HostInv
  <1>. DEFINE n == R!AskedFor + w
              T == irq.total
              g == T - irq.remain
              Sent == Len(ghost.sent)
              sure == ghost.sure /\ (w > 0 => R!Wanted >= R!AtEnd)
              pc == IF irq.remain = n THEN "commit" ELSE "read"
              fdt == R!Advance(irq.fdt, n, FDN)
              left == irq.remain - n
              isRead == irq.read \/ suspend # "yes"
              isRefused == irq.refused \/ suspend = "yes"
  <1>2. /\ HostTypes /\ ghost \in RxGhosts /\ irq \in Irqs /\ irq.pc = "read" /\ Reading
        /\ irq.read \in BOOLEAN /\ irq.refused \in BOOLEAN
        /\ irq.read \/ irq.refused \/ irq.remain = T
        /\ ghost.sure \in BOOLEAN
        /\ UNCHANGED <<sram, wr, rxok, FDT, FDH, rx>>
    BY DEF HostInv, HostTypes, IrqTypes, Irqs, Reading, RxGhosts, R!Read
  <1>3. /\ T \in Nat /\ T > 0 /\ T < Sram /\ T < FDN
        /\ irq.remain \in Nat /\ irq.remain <= T /\ g \in Nat
        /\ n \in Nat /\ n <= irq.remain /\ left \in Nat
        /\ T - left = g + n
        /\ wr \in 0 .. Sram - 1 /\ rd \in 0 .. Sram - 1 /\ off \in 0 .. Sram - 1
        /\ FDT \in 0 .. FDN - 1 /\ FDH \in 0 .. FDN - 1 /\ irq.fdt \in 0 .. FDN - 1
        /\ Sent \in Nat
    <2>1. /\ T \in Nat /\ T > 0 /\ T < Sram /\ T < FDN
          /\ irq.remain \in Nat /\ irq.remain <= T
          /\ wr \in 0 .. Sram - 1 /\ rd \in 0 .. Sram - 1 /\ off \in 0 .. Sram - 1
          /\ FDT \in 0 .. FDN - 1 /\ FDH \in 0 .. FDN - 1 /\ irq.fdt \in 0 .. FDN - 1
      BY <1>2 DEF HostTypes, ChipTypes, RingTypes, IrqTypes, Irqs
    <2>2. Sent \in Nat
      BY <1>2, LenProperties DEF RxGhosts
    <2>3. n \in Nat /\ n <= irq.remain
      BY <1>1
    <2>. HIDE DEF n, T, Sent
    <2>. QED  BY <2>1, <2>2, <2>3
  <1>4. /\ off' = R!Advance(off, n, Sram) /\ off' \in 0 .. Sram - 1
        /\ rd' = IF suspend # "yes" THEN R!Advance(rd, n, Sram) ELSE rd
        /\ rd' \in 0 .. Sram - 1 /\ fdt \in 0 .. FDN - 1
    <2>1. n \in 0 .. Sram /\ n \in 0 .. FDN
      <3>. HIDE DEF n, T
      <3>. QED  BY <1>3, RxSizes
    <2>2. off' = R!Advance(off, n, Sram)
          /\ rd' = IF suspend # "yes" THEN R!Advance(rd, n, Sram) ELSE rd
      BY <1>1
    <2>. HIDE DEF n
    <2>. QED  BY <1>3, <2>1, <2>2, RxSizes, AdvanceIn
  <1>5. /\ irq' = [irq EXCEPT !.pc = pc, !.remain = left, !.fdt = fdt, !.first = FALSE,
                              !.read = isRead, !.refused = isRefused]
        /\ pc \in {"read", "commit"} /\ isRead \in BOOLEAN /\ isRefused \in BOOLEAN
        /\ pc = "commit" => left = 0
        /\ isRead \/ isRefused
    <2>1. pc = "commit" => left = 0
      BY <1>3
    <2>2. irq' = [irq EXCEPT !.pc = pc, !.remain = left, !.fdt = fdt, !.first = FALSE,
                             !.read = isRead, !.refused = isRefused]
      BY <1>1
    <2>. QED  BY <1>2, <2>1, <2>2
  <1>6. sure \in BOOLEAN /\ ghost' = [ghost EXCEPT !.sure = sure]
    BY <1>1, <1>2
  <1>. HIDE DEF n, pc, left, fdt, isRead, isRefused, sure
  <1>7. /\ irq' \in Irqs /\ irq'.pc = pc /\ irq'.remain = left /\ irq'.fdt = fdt
        /\ irq'.total = T /\ irq'.read = isRead /\ irq'.refused = isRefused
    <2>1. fdt \in Nat
      BY <1>4, RxSizes
    <2>. QED  BY <1>2, <1>3, <1>5, <2>1 DEF Irqs
  <1>8. /\ ghost' \in RxGhosts
        /\ ghost'.sent = ghost.sent /\ ghost'.due = ghost.due
        /\ ghost'.unsynced = ghost.unsynced /\ ghost'.whole = ghost.whole
        /\ ghost'.sure = sure
    BY <1>2, <1>6 DEF RxGhosts
  <1>. HIDE DEF T
  <1>9. Reading'
    BY <1>5, <1>7 DEF Reading
  <1>10. HostTypes'
    <2>1. IrqTypes'
      <3>1. left <= T
        BY <1>3
      <3>. QED  BY <1>3, <1>4, <1>5, <1>7, <1>9, <3>1 DEF IrqTypes
    <2>2. RingTypes'
      BY <1>1, <1>2 DEF HostTypes, RingTypes
    <2>3. ChipTypes'
      BY <1>2, <1>4 DEF HostTypes, ChipTypes
    <2>. QED  BY <1>8, <2>1, <2>2, <2>3 DEF HostTypes
  <1>0. /\ n \in Nat /\ g \in Nat /\ T \in Nat /\ Sent \in Nat
        /\ g + n <= T /\ T < Sram /\ T < FDN /\ T - left = g + n
    <2>. HIDE DEF Sent, g
    <2>. QED  BY <1>3
  <1>11. ASSUME sure PROVE HostSound'
    <2>1. /\ HostSound /\ ghost.sure
          /\ w > 0 => R!AskedFor = R!AtEnd /\ R!AtEnd + w <= R!Aligned(R!AtEnd)
      BY <1>1, <1>11 DEF sure, HostInv
    <2>2. /\ irq.fdt = R!Advance(FDT, g, FDN)
          /\ Ahead(FDT, FDH) + T + Block < FDN
          /\ Ahead(FDT, FDH) \in Nat
      BY <1>2, <1>3, <2>1, AheadNat DEF HostSound, Batch, T
    <2>3. /\ \A e \in 0 .. FDN - 1 :
                e < g \/ e >= T + Block
                => fifo'[R!Advance(FDT, e, FDN)] = fifo[R!Advance(FDT, e, FDN)]
          /\ suspend # "yes" =>
               \A j \in Nat : j < n =>
                   fifo'[R!Advance(irq.fdt, j, FDN)] = sram[R!Advance(off, j, Sram)]
      BY <1>1, <1>2, <2>1, <2>2, ReadWrites DEF n, T
    <2>4. ASSUME ~ irq.refused PROVE Got = g /\ off = rd /\ ~ ghost.unsynced
      BY <1>2, <2>1, <2>4 DEF Got, HostSound, InStep, T
    <2>. HIDE DEF Sent
    <2>5. ASSUME ~ Doomed
          PROVE  /\ Got \in Nat /\ Got <= Sent /\ Sent - Got < Sram
                 /\ wr = R!Advance(rd, Sent - Got, Sram)
                 /\ \A k \in Got + 1 .. Sent :
                       sram[R!Advance(rd, k - Got - 1, Sram)] = ghost.sent[k]
      BY <1>2, <2>1, <2>5, GotIs DEF HostSound, OnChip, Sent
    <2>6. ASSUME ~ irq.refused
          PROVE  /\ T <= Sent /\ EndsFrame(ghost.sent, T)
                 /\ \A k \in 1 .. g : fifo[R!Advance(FDT, k - 1, FDN)] = ghost.sent[k]
      BY <1>2, <2>1, <2>6 DEF HostSound, Batch, Sent, T
    <2>. HIDE DEF g
    <2>7. OnChip'
      <3>. SUFFICES ASSUME ~ (isRead /\ isRefused) PROVE OnChip'
        BY <1>7, <1>9 DEF OnChip, Doomed
      <3>1. CASE suspend = "yes"
        <4>1. isRefused /\ ~ isRead
          BY <3>1 DEF isRefused, isRead
        <4>2. ~ irq.read /\ rd' = rd /\ Got' = 0 /\ ~ Doomed
          BY <1>2, <1>4, <1>7, <3>1, <4>1 DEF isRead, Got, Doomed
        <4>3. Got = 0
          BY <1>2, <1>3, <4>2 DEF Got, g, T
        <4>. QED  BY <1>2, <1>8, <2>5, <4>2, <4>3 DEF OnChip, Sent
      <3>2. CASE suspend # "yes"
        <4>1. ~ irq.refused /\ ~ isRefused /\ ~ Doomed
          BY <1>2, <3>2 DEF isRefused, isRead, Doomed
        <4>2. Got = g /\ Got' = g + n /\ rd' = R!Advance(rd, n, Sram)
          BY <1>3, <1>4, <1>7, <1>9, <2>4, <3>2, <4>1 DEF Got
        <4>3. /\ g <= Sent /\ Sent - g < Sram /\ T <= Sent
              /\ wr = R!Advance(rd, Sent - g, Sram)
              /\ \A k \in g + 1 .. Sent :
                    sram[R!Advance(rd, k - g - 1, Sram)] = ghost.sent[k]
          BY <2>5, <2>6, <4>1, <4>2
        <4>5. g + n <= Sent /\ Sent - (g + n) < Sram
              /\ n + (Sent - (g + n)) = Sent - g /\ Sent - (g + n) \in Nat
          <5>1. T <= Sent /\ g <= Sent /\ Sent - g < Sram
            BY <4>3
          <5>. QED  BY ONLY <1>0, <5>1, RxSizes
        <4>6. wr = R!Advance(rd', Sent - (g + n), Sram)
          BY <1>3, <4>2, <4>3, <4>5, RxSizes, AdvanceTwice
        <4>7. ASSUME NEW k \in (g + n) + 1 .. Sent
              PROVE  sram[R!Advance(rd', k - (g + n) - 1, Sram)] = ghost.sent[k]
          <5>1. /\ k \in g + 1 .. Sent /\ k - (g + n) - 1 \in Nat
                /\ n + (k - (g + n) - 1) = k - g - 1 /\ n + (k - (g + n) - 1) < Sram
            BY ONLY <1>0, <4>5, RxSizes, k \in (g + n) + 1 .. Sent, <4>3
          <5>2. R!Advance(rd', k - (g + n) - 1, Sram) = R!Advance(rd, k - g - 1, Sram)
            BY <1>3, <4>2, <5>1, RxSizes, AdvanceTwice
          <5>. QED  BY <4>3, <5>1, <5>2
        <4>. QED  BY <1>2, <1>8, <4>2, <4>5, <4>6, <4>7 DEF OnChip, Sent
      <3>. QED  BY <3>1, <3>2
    <2>8. InStep'
      <3>1. ~ isRefused => ~ irq.refused /\ suspend # "yes"
        BY DEF isRefused
      <3>. QED  BY <1>4, <1>7, <1>8, <1>9, <2>4, <3>1 DEF InStep
    <2>9. Batch'
      <3>1. fdt = R!Advance(FDT, T - left, FDN)
        <4>1. g + n < FDN
          BY <1>0, RxSizes
        <4>2. R!Advance(R!Advance(FDT, g, FDN), n, FDN) = R!Advance(FDT, g + n, FDN)
          BY <1>3, <4>1, RxSizes, AdvanceTwice
        <4>. QED  BY <1>3, <2>2, <4>2 DEF fdt
      <3>2. ASSUME ~ isRefused
            PROVE  \A k \in 1 .. T - left :
                      fifo'[R!Advance(FDT, k - 1, FDN)] = ghost.sent[k]
        <4>. SUFFICES ASSUME NEW k \in 1 .. g + n
                      PROVE  fifo'[R!Advance(FDT, k - 1, FDN)] = ghost.sent[k]
          BY <1>3
        <4>1. ~ irq.refused /\ suspend # "yes" /\ ~ Doomed
          BY <3>2 DEF isRefused, Doomed
        <4>2. g + n < FDN /\ g + n <= T
          BY <1>0, RxSizes
        <4>3. CASE k <= g
          <5>1. k \in 1 .. g /\ k - 1 \in 0 .. FDN - 1 /\ k - 1 < g
            BY <1>3, <4>2, <4>3, RxSizes
          <5>. QED  BY <2>3, <2>6, <4>1, <5>1
        <4>4. CASE ~ (k <= g)
          <5>1. PICK j \in Nat : k - 1 = g + j /\ j < n /\ k = g + j + 1
            <6>1. k - 1 - g \in Nat /\ k - 1 = g + (k - 1 - g)
                  /\ k - 1 - g < n /\ k = g + (k - 1 - g) + 1
              BY <1>3, <4>4
            <6>. QED  BY <6>1
          <5>2. R!Advance(FDT, k - 1, FDN) = R!Advance(irq.fdt, j, FDN)
            <6>1. g + j < FDN
              BY <1>0, <4>2, <5>1, RxSizes
            <6>. QED  BY <1>3, <2>2, <5>1, <6>1, RxSizes, AdvanceTwice
          <5>3. fifo'[R!Advance(irq.fdt, j, FDN)] = sram[R!Advance(rd, j, Sram)]
            BY <2>3, <2>4, <4>1, <5>1
          <5>4. k \in g + 1 .. Sent /\ k - g - 1 = j
            BY <1>3, <2>6, <4>1, <4>2, <5>1
          <5>5. sram[R!Advance(rd, j, Sram)] = ghost.sent[k]
            BY <2>4, <2>5, <4>1, <5>4
          <5>. QED  BY <5>2, <5>3, <5>5
        <4>. QED  BY <4>3, <4>4
      <3>3. ~ isRefused => T <= Sent /\ EndsFrame(ghost.sent, T)
        BY <2>6 DEF isRefused
      <3>. QED  BY <1>2, <1>7, <1>8, <2>2, <3>1, <3>2, <3>3 DEF Batch, EndsFrame, Sent
    <2>10. DueInRing'
      <3>1. /\ Len(ghost.due) = Ahead(FDT, R!Front)
            /\ Ahead(FDT, R!Front) <= Ahead(FDT, FDH)
            /\ \A k \in 1 .. Len(ghost.due) :
                  fifo[R!Advance(R!Front, k - 1, FDN)] = ghost.due[k]
        BY <2>1 DEF HostSound, DueInRing
      <3>2. R!Front \in 0 .. FDN - 1 /\ R!Front' = R!Front
        BY <1>2, <1>3 DEF R!Front, HostTypes, RingTypes, Rxs
      <3>. DEFINE D == Ahead(FDT, R!Front)
      <3>3. D \in Nat /\ D < FDN /\ FDT = R!Advance(R!Front, D, FDN) /\ D + T + Block < FDN
        <4>1. D \in Nat /\ D < FDN
          BY <1>3, <3>2, AheadNat
        <4>2. FDT = R!Advance(R!Front, D, FDN)
          BY <1>3, <3>2, AheadIs
        <4>. HIDE DEF D
        <4>3. D <= Ahead(FDT, FDH)
          BY <3>1 DEF D
        <4>. QED  BY <1>3, <2>2, <4>1, <4>2, <4>3, RxSizes
      <3>. HIDE DEF D
      <3>4. ASSUME NEW k \in 1 .. Len(ghost.due)
            PROVE  fifo'[R!Advance(R!Front, k - 1, FDN)] = ghost.due[k]
        <4>1. k - 1 \in Nat /\ k - 1 < D
          BY <3>1, <3>3 DEF D
        <4>2. R!Advance(FDT, FDN - D + (k - 1), FDN) = R!Advance(R!Front, k - 1, FDN)
          BY <3>2, <3>3, <4>1, RxSizes, TurnRound
        <4>3. FDN - D + (k - 1) \in 0 .. FDN - 1 /\ FDN - D + (k - 1) >= T + Block
          BY <1>3, <3>3, <4>1, RxSizes
        <4>4. fifo'[R!Advance(FDT, FDN - D + (k - 1), FDN)]
                = fifo[R!Advance(FDT, FDN - D + (k - 1), FDN)]
          BY <2>3, <4>3
        <4>. QED  BY <3>1, <4>2, <4>4
      <3>. QED  BY <1>2, <1>8, <3>1, <3>2, <3>4 DEF DueInRing
    <2>. QED  BY <1>2, <1>8, <2>1, <2>7, <2>8, <2>9, <2>10, PartsKept DEF HostSound
  <1>. QED  BY <1>8, <1>10, <1>11 DEF HostInv

-----------------------------------------------------------------------------
LEMMA HostStep == HostInv /\ [R!Next]_R!vars => HostInv'
  <1>. SUFFICES ASSUME HostInv, [R!Next]_R!vars PROVE HostInv'
    OBVIOUS
  <1>1. CASE \E n \in Lengths : R!FwSend(n)
    BY <1>1, FwSendStep
  <1>2. CASE R!Irq
    <2>1. CASE R!IrqNothing
      BY <2>1, NothingMoves DEF R!IrqNothing
    <2>2. CASE R!IrqFull
      BY <2>2, NothingMoves DEF R!IrqFull
    <2>3. CASE R!IrqStart
      BY <2>3, IrqStartStep
    <2>4. CASE R!Read
      BY <2>4, ReadStep
    <2>5. CASE R!Commit
      BY <2>5, CommitStep
    <2>6. CASE R!Wake
      BY <2>6, WakeStep
    <2>. QED  BY <1>2, <2>1, <2>2, <2>3, <2>4, <2>5, <2>6 DEF R!Irq
  <1>3. CASE R!Rx
    BY <1>3, RxDownStep, RxFrameStep, RxDiscardStep, RxLeavesStep, RxPublishStep DEF R!Rx
  <1>4. CASE R!Suspend
    BY <1>4, HostSuspendStep
  <1>5. CASE R!Resume
    BY <1>5, NothingMoves DEF R!Resume, R!chipVars
  <1>6. CASE R!Sync
    BY <1>6, HostSyncStep
  <1>7. CASE UNCHANGED R!vars
    BY <1>7, NothingMoves DEF R!vars, R!chipVars
  <1>. QED  BY <1>1, <1>2, <1>3, <1>4, <1>5, <1>6, <1>7 DEF R!Next

(* What is between Front and FDT, read as a sequence, is what is due.      *)
LEMMA HostIsSound == HostInv => R!RxFifoSound
  <1>. SUFFICES ASSUME HostInv PROVE R!RxFifoSound
    OBVIOUS
  <1>1. /\ HostTypes /\ FDT \in 0 .. FDN - 1 /\ R!Front \in 0 .. FDN - 1
        /\ ghost.due \in Seq(R!Cells)
    BY DEF HostInv, HostTypes, RingTypes, R!Front, Rxs, RxGhosts
  <1>2. R!TypeOK
    BY <1>1 DEF HostTypes, ChipTypes, RingTypes, IrqTypes, Irqs, Rxs, R!TypeOK
  <1>3. ASSUME ghost.sure PROVE R!InRing = ghost.due /\ ghost.whole
    <2>1. /\ ghost.whole /\ Len(ghost.due) = Ahead(FDT, R!Front)
          /\ \A k \in 1 .. Len(ghost.due) :
                fifo[R!Advance(R!Front, k - 1, FDN)] = ghost.due[k]
      BY <1>3 DEF HostInv, HostSound, DueInRing
    <2>2. (FDT + FDN - R!Front) % FDN = Ahead(FDT, R!Front)
      <3>1. FDT + FDN - R!Front \in Nat /\ FDT + FDN - R!Front < 2 * FDN
        BY <1>1, RxSizes
      <3>2. PICK x \in Nat : x = FDT + FDN - R!Front
        BY <3>1
      <3>3. x % FDN = IF x < FDN THEN x ELSE x - FDN
        BY <3>1, <3>2, RxSizes, RemainderIs
      <3>4. Ahead(FDT, R!Front) = IF x < FDN THEN x ELSE x - FDN
        BY <1>1, <3>2, RxSizes DEF Ahead
      <3>. QED  BY <3>2, <3>3, <3>4
    <2>3. R!InRing = [k \in 1 .. Len(ghost.due) |-> ghost.due[k]]
      BY <2>1, <2>2 DEF R!InRing
    <2>4. ghost.due = [k \in 1 .. Len(ghost.due) |-> ghost.due[k]]
      BY <1>1
    <2>. QED  BY <2>1, <2>3, <2>4
  <1>. QED  BY <1>2, <1>3 DEF R!RxFifoSound

(* The receive ring hands up what the firmware sent: what is between where *)
(* the receive thread is and FDT are the committed cells in their order,   *)
(* and every frame taken out is one whole frame, the next one, but for the *)
(* four exceptions of Commit.                                              *)
THEOREM HostRxFifoSound == R!Spec => []R!RxFifoSound
  <1>. QED  BY HostInitially, HostStep, HostIsSound, PTL DEF R!Spec

(* The same of the behaviours that MCFifos checks.                         *)
THEOREM FifosRxFifoSound == MCSpec => []RxFifoSound
  <1>1. MCSpec => R!Spec
    <2>1. MCInit => R!Init
      BY DEF MCInit
    <2>2. [MCNext]_<<ring, vars, workVars, rxVars>> => [R!Next]_R!vars
      BY DEF MCNext, rxVars, R!vars, R!chipVars, R!hostVars
    <2>. QED  BY <2>1, <2>2, PTL DEF MCSpec, R!Spec
  <1>. QED  BY <1>1, HostRxFifoSound, PTL DEF RxFifoSound

-----------------------------------------------------------------------------
USE EltNbrAssumption, BlockNbrAssumption, MaxBatchAssumption

-----------------------------------------------------------------------------
(* The index arithmetic: what a Get and a Put do to the distances between  *)
(* the indexes.                                                            *)

(* Distances are numbers of slots.                                         *)
LEMMA DistType ==
    \A i, j \in Slots : Dist(i, j) \in 0 .. EltNbr - 1
  BY DEF Slots, Dist

(* Moving the far end of a run forward by n lengthens it by n, as long as  *)
(* the run does not swallow the whole ring.                                *)
LEMMA DistGrow ==
    ASSUME NEW i \in Slots, NEW j \in Slots, NEW n \in Nat,
           Dist(i, j) + n <= EltNbr - 1
    PROVE  /\ Wrap(j + n) \in Slots
           /\ Dist(i, Wrap(j + n)) = Dist(i, j) + n
  BY DEF Slots, Dist, Wrap

(* Moving the near end of a run forward by at most its length shortens it. *)
LEMMA DistShrink ==
    ASSUME NEW i \in Slots, NEW j \in Slots, NEW n \in Nat,
           n <= Dist(i, j)
    PROVE  /\ Wrap(i + n) \in Slots
           /\ Dist(Wrap(i + n), j) = Dist(i, j) - n
  BY DEF Slots, Dist, Wrap

(* Both counting functions of the ring return the distance from Out to In. *)
LEMMA CountIsDist ==
    ASSUME NEW r \in Rings, NEW b \in Blocks
    PROVE  /\ NbElt(r, b) = Dist(r.Out[b], r.In[b])
           /\ NbEltCont(r, b) = Dist(r.Out[b], r.In[b])
           /\ NbElt(r, b) \in 0 .. EltNbr - 1
  BY SMTT(30) DEF Rings, Blocks, Slots, NbElt, NbEltCont, Dist, Wrap

(* Two steps round the ring are one longer step.                           *)
LEMMA WrapWrap ==
    ASSUME NEW i \in Slots, NEW m \in Nat, NEW n \in Nat, m + n <= EltNbr
    PROVE  Wrap(Wrap(i + m) + n) = Wrap(i + (m + n))
  BY DEF Slots, Wrap

(* The index arithmetic stays inside the ring.                             *)
LEMMA HandStartType ==
    ASSUME NEW r \in Rings, NEW b \in Blocks
    PROVE  HandStart(r, b) \in Slots /\ HandNbr(r, b) \in 0 .. EltNbr - 1
  <1>1. HandStart(r, b) \in Slots
    BY DEF HandStart, Rings, Blocks, Slots, Wrap, LastBlock, ProdID
  <1>2. r.Out[b] \in Slots
    BY DEF Rings
  <1>. QED  BY <1>1, <1>2, DistType DEF HandNbr

(* No block's owned and held slots exceed the ring less its spare slot.    *)
LEMMA LoadBounded ==
    ASSUME NEW r \in Rings, RingConserved(r)
    PROVE  /\ \A b \in Blocks : Load(r, b) \in 0 .. EltNbr - 1
           /\ \A b, c \in Blocks : b # c => Load(r, b) + Load(r, c) <= EltNbr - 1
  <1>1. \A b \in Blocks : Load(r, b) \in Nat
    BY CountIsDist, HandStartType DEF Load
  <1>2. CASE BlockNbr = 2
    BY <1>1, <1>2 DEF RingConserved, Blocks
  <1>3. CASE BlockNbr = 3
    BY <1>1, <1>3 DEF RingConserved, Blocks
  <1>. QED  BY <1>2, <1>3

-----------------------------------------------------------------------------
(* What one Get does to the ring.                                          *)
LEMMA GetEffect ==
    ASSUME NEW r \in Rings, RingConserved(r), NEW b \in Blocks,
           NEW n \in Nat, CanGet(r, b, n)
    PROVE  LET s == AfterGet(r, b, n) IN
           /\ s \in Rings
           /\ NbElt(s, b) = NbElt(r, b) - n
           /\ HandNbr(s, b) = HandNbr(r, b) + n
           /\ \A c \in Blocks : HandStart(s, c) = HandStart(r, c)
           /\ \A c \in Blocks \ {b} : /\ NbElt(s, c) = NbElt(r, c)
                                      /\ HandNbr(s, c) = HandNbr(r, c)
           /\ RingConserved(s)
  <1> DEFINE s == AfterGet(r, b, n)
  <1>1. n <= NbElt(r, b)
    BY CountIsDist DEF CanGet
  <1>2. HandNbr(r, b) + n <= EltNbr - 1
    <2>1. Load(r, b) <= EltNbr - 1
      BY LoadBounded
    <2>2. HandNbr(r, b) \in Nat /\ NbElt(r, b) \in Nat
      BY CountIsDist, HandStartType
    <2>. QED  BY <1>1, <2>1, <2>2 DEF Load
  <1>3. r.Out[b] \in Slots /\ r.In[b] \in Slots
    BY DEF Rings
  <1>4. /\ s.In = r.In
        /\ s.Out = [r.Out EXCEPT ![b] = Wrap(r.Out[b] + n)]
    BY DEF AfterGet, Rings
  <1>5. /\ Wrap(r.Out[b] + n) \in Slots
        /\ Dist(Wrap(r.Out[b] + n), r.In[b]) = Dist(r.Out[b], r.In[b]) - n
    BY <1>1, <1>3, CountIsDist, DistShrink
  <1>6. s \in Rings
    BY <1>5 DEF AfterGet, Rings
  <1>7. s.Out[b] = Wrap(r.Out[b] + n) /\ \A c \in Blocks \ {b} : s.Out[c] = r.Out[c]
    BY <1>4 DEF Rings
  <1>8. NbElt(s, b) = NbElt(r, b) - n
    BY <1>4, <1>5, <1>6, <1>7, CountIsDist
  <1>9. \A c \in Blocks : HandStart(s, c) = HandStart(r, c)
    BY <1>4 DEF HandStart
  <1>10. HandNbr(s, b) = HandNbr(r, b) + n
    BY <1>2, <1>3, <1>7, <1>9, HandStartType, DistGrow DEF HandNbr
  <1>11. \A c \in Blocks \ {b} : /\ NbElt(s, c) = NbElt(r, c)
                                 /\ HandNbr(s, c) = HandNbr(r, c)
    BY <1>4, <1>7, <1>9 DEF NbElt, HandNbr
  <1>12. \A c \in Blocks : Load(s, c) = Load(r, c)
    <2>1. Load(s, b) = Load(r, b)
      BY <1>8, <1>10, CountIsDist, HandStartType DEF Load
    <2>2. \A c \in Blocks \ {b} : Load(s, c) = Load(r, c)
      BY <1>11 DEF Load
    <2>. QED  BY <2>1, <2>2
  <1>13. RingConserved(s)
    BY <1>12 DEF RingConserved, Blocks
  <1>. QED  BY <1>6, <1>8, <1>9, <1>10, <1>11, <1>13

(* What one Put does to the ring, when the client holds what it puts.      *)
LEMMA PutEffect ==
    ASSUME NEW r \in Rings, RingConserved(r), NEW b \in Blocks,
           NEW n \in Nat, n <= HandNbr(r, b)
    PROVE  LET s == AfterPut(r, b, n) IN
           /\ s \in Rings
           /\ HandStart(s, b) = Wrap(HandStart(r, b) + n)
           /\ HandNbr(s, b) = HandNbr(r, b) - n
           /\ NbElt(s, NextBlock(b)) = NbElt(r, NextBlock(b)) + n
           /\ \A c \in Blocks \ {b} : /\ HandStart(s, c) = HandStart(r, c)
                                      /\ HandNbr(s, c) = HandNbr(r, c)
           /\ \A c \in Blocks \ {NextBlock(b)} : NbElt(s, c) = NbElt(r, c)
           /\ RingConserved(s)
  <1> DEFINE s == AfterPut(r, b, n)
             d == NextBlock(b)
  <1>1. d \in Blocks /\ d # b
    BY DEF NextBlock, Blocks, ProdID
  <1>2. r.In[d] \in Slots /\ r.Out[d] \in Slots /\ r.Out[b] \in Slots
    BY <1>1 DEF Rings
  <1>3. NbElt(r, d) + n <= EltNbr - 1
    <2>1. Load(r, b) + Load(r, d) <= EltNbr - 1
      BY <1>1, LoadBounded
    <2>2. /\ HandNbr(r, b) \in Nat /\ NbElt(r, b) \in Nat
          /\ HandNbr(r, d) \in Nat /\ NbElt(r, d) \in Nat
      BY <1>1, CountIsDist, HandStartType
    <2>. QED  BY <2>1, <2>2 DEF Load
  <1>4. /\ s.Out = r.Out
        /\ s.In = [r.In EXCEPT ![d] = Wrap(r.In[d] + n)]
    BY DEF AfterPut, Rings
  <1>5. /\ Wrap(r.In[d] + n) \in Slots
        /\ Dist(r.Out[d], Wrap(r.In[d] + n)) = Dist(r.Out[d], r.In[d]) + n
    BY <1>1, <1>2, <1>3, CountIsDist, DistGrow
  <1>6. s \in Rings
    BY <1>5 DEF AfterPut, Rings
  <1>7. s.In[d] = Wrap(r.In[d] + n) /\ \A c \in Blocks \ {d} : s.In[c] = r.In[c]
    BY <1>1, <1>4 DEF Rings
  <1>8. NbElt(s, d) = NbElt(r, d) + n
    BY <1>1, <1>4, <1>5, <1>6, <1>7, CountIsDist
  <1>9. \A c \in Blocks \ {d} : NbElt(s, c) = NbElt(r, c)
    BY <1>4, <1>7 DEF NbElt
  <1>10. n <= EltNbr - 1
    BY HandStartType
  <1>11. HandStart(s, b) = Wrap(HandStart(r, b) + n)
    <2>1. CASE b = LastBlock
      <3>1. d = ProdID
        BY <2>1 DEF NextBlock, LastBlock
      <3>2. Wrap(Wrap(r.In[d] + n) + 1) = Wrap(Wrap(r.In[d] + 1) + n)
        BY <1>2, <1>10, WrapWrap
      <3>. QED  BY <2>1, <3>1, <3>2, <1>7 DEF HandStart
    <2>2. CASE b # LastBlock
      BY <2>2, <1>7 DEF HandStart, NextBlock, LastBlock, Blocks
    <2>. QED  BY <2>1, <2>2
  <1>12. \A c \in Blocks \ {b} : HandStart(s, c) = HandStart(r, c)
    <2>1. ASSUME NEW c \in Blocks, c # b  PROVE  HandStart(s, c) = HandStart(r, c)
      <3>1. CASE c = LastBlock
        BY <1>7, <2>1, <3>1 DEF HandStart, NextBlock, LastBlock, Blocks, ProdID
      <3>2. CASE c # LastBlock
        BY <1>7, <2>1, <3>2 DEF HandStart, NextBlock, LastBlock, Blocks, ProdID
      <3>. QED  BY <3>1, <3>2
    <2>. QED  BY <2>1
  <1>13. HandNbr(s, b) = HandNbr(r, b) - n
    BY <1>2, <1>4, <1>11, HandStartType, DistShrink DEF HandNbr
  <1>14. \A c \in Blocks \ {b} : HandNbr(s, c) = HandNbr(r, c)
    BY <1>4, <1>12 DEF HandNbr
  <1>15. RingConserved(s)
    <2>1. /\ \A c \in Blocks : NbElt(r, c) \in Nat /\ HandNbr(r, c) \in Nat
          /\ \A c \in Blocks : NbElt(s, c) \in Nat /\ HandNbr(s, c) \in Nat
      BY <1>6, CountIsDist, HandStartType
    <2>2. Load(s, b) = Load(r, b) - n
      BY <2>1, <1>1, <1>9, <1>13 DEF Load
    <2>3. Load(s, d) = Load(r, d) + n
      BY <2>1, <1>1, <1>8, <1>14 DEF Load
    <2>4. \A c \in Blocks \ {b, d} : Load(s, c) = Load(r, c)
      BY <1>9, <1>14 DEF Load
    <2>5. \A c \in Blocks : Load(r, c) \in Nat
      BY <2>1 DEF Load
    <2>. QED  BY <1>1, <2>2, <2>3, <2>4, <2>5 DEF RingConserved, NextBlock, Blocks, ProdID
  <1>. QED  BY <1>6, <1>8, <1>9, <1>11, <1>12, <1>13, <1>14, <1>15

-----------------------------------------------------------------------------
(* The runs of owned and of held slots of all blocks do not overlap.       *)
LEMMA RunsDisjoint ==
    ASSUME NEW r \in Rings, RingConserved(r), NEW s \in Slots,
           NEW b \in Blocks, NEW c \in Blocks
    PROVE  /\ ~ (s \in HandSlots(r, b) /\ s \in OwnedSlots(r, c))
           /\ b # c => ~ (s \in HandSlots(r, b) /\ s \in HandSlots(r, c))
           /\ b # c => ~ (s \in OwnedSlots(r, b) /\ s \in OwnedSlots(r, c))
  <1> USE DEF Rings, Blocks, Slots
  <1>1. CASE BlockNbr = 2
    BY <1>1 DEF RingConserved, Load, HandNbr, HandStart, NbElt, Dist, Wrap,
                HandSlots, OwnedSlots, LastBlock, ProdID
  <1>2. CASE BlockNbr = 3
    BY <1>2, SMTT(60) DEF RingConserved, Load, HandNbr, HandStart, NbElt, Dist, Wrap,
                HandSlots, OwnedSlots, LastBlock, ProdID
  <1>. QED  BY <1>1, <1>2

-----------------------------------------------------------------------------
(* What a client's Get appends to the slots it holds.                      *)
LEMMA TakenFacts ==
    ASSUME NEW b \in Blocks, NEW n \in Nat, idx \in Rings, n <= EltNbr - 1
    PROVE  /\ Taken(b, n) \in Seq(Slots)
           /\ Len(Taken(b, n)) = n
           /\ \A i \in 1 .. n : Taken(b, n)[i] = Wrap(idx.Out[b] + (i - 1))
  <1>1. idx.Out[b] \in Slots
    BY DEF Rings
  <1>2. \A i \in 1 .. n : Wrap(idx.Out[b] + (i - 1)) \in Slots
    BY <1>1 DEF Wrap, Slots
  <1>3. \A i \in 1 .. n : Taken(b, n)[i] = Wrap(idx.Out[b] + (i - 1))
    BY DEF Taken, Pick
  <1>4. Taken(b, n) \in Seq(Slots)
    BY <1>2, IsASeq DEF Taken, Pick
  <1>5. Len(Taken(b, n)) = n
    BY DEF Taken
  <1>. QED  BY <1>3, <1>4, <1>5

IInv == TypeOK /\ Accounting /\ HeldInOrder /\ TestStaysValid

(* The ring starts with all slots but one owned by the producer.           *)
LEMMA InitIInv == Init => IInv
  <1> SUFFICES ASSUME Init PROVE IInv
    OBVIOUS
  <1> USE DEF Init, RingInit
  <1>1. TypeOK
    BY DEF TypeOK, Rings, Blocks, Slots, ProdID
  <1>2. Accounting
    <2>1. \A b \in Blocks : HandNbr(idx, b) = 0
      BY DEF HandNbr, HandStart, Dist, Wrap, Blocks, LastBlock, ProdID
    <2>2. \A b \in Blocks : NbElt(idx, b) = IF b = ProdID THEN EltNbr - 1 ELSE 0
      BY DEF NbElt, Wrap, Blocks, ProdID
    <2>3. \A b \in Blocks : Load(idx, b) = IF b = 0 THEN EltNbr - 1 ELSE 0
      BY <2>1, <2>2 DEF Load, ProdID
    <2>4. RingConserved(idx)
      <3>1. 0 \in Blocks /\ 1 \in Blocks /\ (BlockNbr = 3 => 2 \in Blocks)
        BY DEF Blocks
      <3>. HIDE DEF Init, RingInit
      <3>. QED  BY <2>3, <3>1 DEF RingConserved
    <2>. QED  BY <2>1, <2>4 DEF Accounting
  <1>3. HeldInOrder
    BY DEF HeldInOrder
  <1>4. TestStaysValid
    BY <1>1, CountIsDist DEF TestStaysValid, TypeOK
  <1>. QED  BY <1>1, <1>2, <1>3, <1>4 DEF IInv

(* A Get keeps the accounts, and only lowers the count of its own block.   *)
LEMMA GetIInv ==
    ASSUME IInv, NEW b \in Blocks, NEW n \in 1 .. MaxBatch, Get(b, n)
    PROVE  IInv'
  <1> USE DEF IInv
  <1>1. idx \in Rings /\ RingConserved(idx) /\ CanGet(idx, b, n) /\ n \in Nat
    BY DEF TypeOK, Accounting, Get
  <1>2. idx' = AfterGet(idx, b, n)
    BY DEF Get
  <1>3. /\ idx' \in Rings
        /\ NbElt(idx', b) = NbElt(idx, b) - n
        /\ HandNbr(idx', b) = HandNbr(idx, b) + n
        /\ \A c \in Blocks : HandStart(idx', c) = HandStart(idx, c)
        /\ \A c \in Blocks \ {b} : /\ NbElt(idx', c) = NbElt(idx, c)
                                   /\ HandNbr(idx', c) = HandNbr(idx, c)
        /\ RingConserved(idx')
    BY <1>1, <1>2, GetEffect
  <1>4. n <= EltNbr - 1
    BY <1>1, CountIsDist DEF CanGet
  <1>5. /\ Taken(b, n) \in Seq(Slots) /\ Len(Taken(b, n)) = n
        /\ \A i \in 1 .. n : Taken(b, n)[i] = Wrap(idx.Out[b] + (i - 1))
    BY <1>1, <1>4, TakenFacts
  <1>6. held' = [held EXCEPT ![b] = held[b] \o Taken(b, n)] /\ held[b] \in Seq(Slots)
    BY DEF Get, TypeOK
  <1>7. held[b] \o Taken(b, n) \in Seq(Slots)
    BY <1>5, <1>6
  <1>8. /\ held' \in [Blocks -> Seq(Slots)]
        /\ held'[b] = held[b] \o Taken(b, n)
        /\ \A c \in Blocks \ {b} : held'[c] = held[c]
    BY <1>6, <1>7 DEF TypeOK
  <1>9. Len(held'[b]) = Len(held[b]) + n
    <2>1. Len(held[b] \o Taken(b, n)) = Len(held[b]) + Len(Taken(b, n))
      BY <1>5, <1>6, ConcatProperties
    <2>. QED  BY <1>5, <1>8, <2>1
  <1>10. seen' = [seen EXCEPT ![b] = 0]
    BY DEF Get
  <1>11. TypeOK'
    BY <1>3, <1>8, <1>10 DEF TypeOK
  <1>12. Accounting'
    BY <1>3, <1>8, <1>9 DEF Accounting
  <1>13. HeldInOrder'
    <2>1. \A i \in 1 .. Len(held'[b]) : held'[b][i] = Wrap(HandStart(idx', b) + (i - 1))
      <3> SUFFICES ASSUME NEW i \in 1 .. Len(held'[b])
                   PROVE  held'[b][i] = Wrap(HandStart(idx, b) + (i - 1))
        BY <1>3
      <3>1. CASE i <= Len(held[b])
        <4>1. held'[b][i] = held[b][i]
          BY <3>1, <1>5, <1>6, <1>8
        <4>2. i \in 1 .. Len(held[b])
          BY <3>1, <1>6
        <4>. QED  BY <4>1, <4>2 DEF HeldInOrder
      <3>2. CASE i > Len(held[b])
        <4> DEFINE k == i - Len(held[b])
                   h == HandNbr(idx, b)
        <4>1. k \in 1 .. n /\ Len(held[b]) \in Nat
          BY <3>2, <1>6, <1>9
        <4>2. held'[b][i] = Taken(b, n)[k]
          BY <3>2, <1>5, <1>6, <1>8, <4>1
        <4>3. held'[b][i] = Wrap(idx.Out[b] + (k - 1))
          BY <4>1, <4>2, <1>5
        <4>4. Len(held[b]) = h
          BY DEF Accounting
        <4>5. HandStart(idx, b) \in Slots /\ idx.Out[b] \in Slots
          BY <1>1, HandStartType DEF Rings
        <4>6. h + n <= EltNbr - 1
          BY <1>1, <1>3, HandStartType
        <4>7. h \in Nat /\ h = Dist(HandStart(idx, b), idx.Out[b])
          BY <1>1, HandStartType DEF HandNbr
        <4>8. idx.Out[b] = Wrap(HandStart(idx, b) + h)
          BY <4>5, <4>7, SMTT(30) DEF Dist, Wrap, Slots
        <4>9. Wrap(Wrap(HandStart(idx, b) + h) + (k - 1)) = Wrap(HandStart(idx, b) + (h + (k - 1)))
          BY <4>1, <4>5, <4>6, <4>7, WrapWrap
        <4>10. h + (k - 1) = i - 1
          BY <4>1, <4>4
        <4>. QED  BY <4>3, <4>8, <4>9, <4>10
      <3>3. Len(held[b]) \in Nat /\ i \in Int
        BY <1>6
      <3>. QED  BY <3>1, <3>2, <3>3
    <2>2. \A c \in Blocks \ {b} : \A i \in 1 .. Len(held'[c]) :
             held'[c][i] = Wrap(HandStart(idx', c) + (i - 1))
      <3>1. \A c \in Blocks \ {b} : held'[c] = held[c] /\ HandStart(idx', c) = HandStart(idx, c)
        BY <1>3, <1>8
      <3>. QED  BY ONLY <3>1, HeldInOrder, Zenon DEF HeldInOrder
    <2>. QED  BY <2>1, <2>2 DEF HeldInOrder
  <1>14. TestStaysValid'
    <2>1. \A c \in Blocks : NbEltCont(idx, c) = NbElt(idx, c) /\ NbElt(idx, c) \in Nat
      BY <1>1, CountIsDist
    <2>2. \A c \in Blocks : NbEltCont(idx', c) = NbElt(idx', c) /\ NbElt(idx', c) \in Nat
      BY <1>3, CountIsDist
    <2>3. seen'[b] = 0 /\ \A c \in Blocks \ {b} : seen'[c] = seen[c]
      BY <1>10 DEF TypeOK
    <2>4. seen'[b] <= NbEltCont(idx', b)
      BY <2>2, <2>3
    <2>. QED  BY <1>3, <2>1, <2>2, <2>3, <2>4 DEF TestStaysValid
  <1>. QED  BY <1>11, <1>12, <1>13, <1>14

(* A Put hands over the oldest slots held and leaves the rest in order.    *)
LEMMA PutIInv ==
    ASSUME IInv, NEW b \in Blocks, NEW n \in 1 .. MaxBatch, Put(b, n)
    PROVE  IInv'
  <1>1. /\ idx \in Rings /\ RingConserved(idx) /\ n \in Nat
        /\ held[b] \in Seq(Slots) /\ Len(held[b]) = HandNbr(idx, b)
        /\ n <= Len(held[b])
    BY DEF IInv, TypeOK, Accounting, Put
  <1>2. idx' = AfterPut(idx, b, n) /\ seen' = seen
    BY DEF Put
  <1>3. /\ idx' \in Rings
        /\ HandStart(idx', b) = Wrap(HandStart(idx, b) + n)
        /\ HandNbr(idx', b) = HandNbr(idx, b) - n
        /\ NbElt(idx', NextBlock(b)) = NbElt(idx, NextBlock(b)) + n
        /\ \A c \in Blocks \ {b} : /\ HandStart(idx', c) = HandStart(idx, c)
                                   /\ HandNbr(idx', c) = HandNbr(idx, c)
        /\ \A c \in Blocks \ {NextBlock(b)} : NbElt(idx', c) = NbElt(idx, c)
        /\ RingConserved(idx')
    BY <1>1, <1>2, PutEffect
  <1> DEFINE rest == SubSeq(held[b], n + 1, Len(held[b]))
  <1>4. /\ rest \in Seq(Slots)
        /\ Len(rest) = Len(held[b]) - n
        /\ \A i \in 1 .. Len(rest) : rest[i] = held[b][n + i]
    <2>1. Len(held[b]) \in Nat /\ \A i \in n + 1 .. Len(held[b]) : held[b][i] \in Slots
      BY <1>1
    <2>. QED  BY <1>1, <2>1, SubSeqProperties, SMTT(20)
  <1>5. /\ held' \in [Blocks -> Seq(Slots)]
        /\ held'[b] = rest
        /\ \A c \in Blocks \ {b} : held'[c] = held[c]
    BY <1>4 DEF Put, IInv, TypeOK
  <1>6. TypeOK'
    BY <1>2, <1>3, <1>5 DEF IInv, TypeOK
  <1>7. Accounting'
    BY <1>1, <1>3, <1>4, <1>5 DEF IInv, Accounting
  <1>8. HeldInOrder'
    <2>1. \A i \in 1 .. Len(held'[b]) : held'[b][i] = Wrap(HandStart(idx', b) + (i - 1))
      <3> SUFFICES ASSUME NEW i \in 1 .. Len(rest)
                   PROVE  rest[i] = Wrap(Wrap(HandStart(idx, b) + n) + (i - 1))
        BY <1>3, <1>5
      <3>1. Len(held[b]) \in Nat /\ n + i \in 1 .. Len(held[b])
        BY <1>1, <1>4
      <3>2. rest[i] = Wrap(HandStart(idx, b) + ((n + i) - 1))
        BY <1>4, <3>1 DEF IInv, HeldInOrder
      <3>3. HandStart(idx, b) \in Slots /\ HandNbr(idx, b) <= EltNbr - 1
        BY <1>1, HandStartType
      <3>4. Wrap(Wrap(HandStart(idx, b) + n) + (i - 1))
              = Wrap(HandStart(idx, b) + (n + (i - 1)))
        BY <1>1, <3>1, <3>3, WrapWrap
      <3>5. (n + i) - 1 = n + (i - 1)
        BY <1>1, <3>1
      <3>. QED  BY <3>2, <3>4, <3>5
    <2>2. \A c \in Blocks \ {b} : \A i \in 1 .. Len(held'[c]) :
             held'[c][i] = Wrap(HandStart(idx', c) + (i - 1))
      BY <1>3, <1>5 DEF IInv, HeldInOrder
    <2>. QED  BY <2>1, <2>2 DEF HeldInOrder
  <1>9. TestStaysValid'
    <2>1. \A c \in Blocks : /\ NbEltCont(idx, c) = NbElt(idx, c)
                            /\ NbEltCont(idx', c) = NbElt(idx', c)
                            /\ NbElt(idx, c) \in Nat /\ NbElt(idx', c) \in Nat
      BY <1>1, <1>3, CountIsDist
    <2>2. \A c \in Blocks : NbElt(idx', c) >= NbElt(idx, c)
      BY <1>1, <1>3, <2>1
    <2>3. \A c \in Blocks : seen[c] \in Nat /\ seen[c] <= NbElt(idx, c)
      BY <2>1 DEF IInv, TestStaysValid, TypeOK
    <2>. QED  BY <1>2, <2>1, <2>2, <2>3 DEF TestStaysValid
  <1>. QED  BY <1>6, <1>7, <1>8, <1>9 DEF IInv

(* A test reads the count and nothing else.                                *)
LEMMA TestIInv ==
    ASSUME IInv, NEW b \in Blocks, Test(b)
    PROVE  IInv'
  <1>1. idx' = idx /\ held' = held /\ idx \in Rings
    BY DEF Test, IInv, TypeOK
  <1>2. NbElt(idx, b) \in 0 .. EltNbr - 1 /\ NbEltCont(idx, b) = NbElt(idx, b)
    BY <1>1, CountIsDist
  <1>3. seen' = [seen EXCEPT ![b] = NbElt(idx, b)]
    BY DEF Test
  <1>4. TypeOK'
    BY <1>1, <1>2, <1>3 DEF IInv, TypeOK
  <1>5. Accounting' /\ HeldInOrder'
    BY <1>1 DEF IInv, Accounting, HeldInOrder
  <1>6. TestStaysValid'
    BY <1>1, <1>2, <1>3 DEF IInv, TypeOK, TestStaysValid
  <1>. QED  BY <1>4, <1>5, <1>6 DEF IInv

THEOREM InductiveInvariant == Spec => []IInv
  <1>1. Init => IInv
    BY InitIInv
  <1>2. IInv /\ [Next]_vars => IInv'
    <2> SUFFICES ASSUME IInv, [Next]_vars PROVE IInv'
      OBVIOUS
    <2>1. CASE Next
      BY <2>1, TestIInv, GetIInv, PutIInv DEF Next
    <2>2. CASE UNCHANGED vars
      BY <2>2 DEF vars, IInv, TypeOK, Accounting, HeldInOrder, TestStaysValid
    <2>. QED  BY <2>1, <2>2
  <1>. QED  BY <1>1, <1>2, PTL DEF Spec

-----------------------------------------------------------------------------
(* Indexes never leave the ring, for any number of slots: the ASSERT of    *)
(* CO_SharedFifoGetPtr.                                                    *)
THEOREM TypeCorrect == Spec => []TypeOK
  <1>1. IInv => TypeOK
    BY DEF IInv
  <1>. QED  BY <1>1, InductiveInvariant, PTL

(* No sequence of Gets, Puts and tests of concurrent clients loses a slot  *)
(* or makes one up: CO_SharedFifoGet and CO_SharedFifoPut keep the ring's  *)
(* accounts over any number of wraps.                                      *)
THEOREM AccountingHolds == Spec => []Accounting
  <1>1. IInv => Accounting
    BY DEF IInv
  <1>. QED  BY <1>1, InductiveInvariant, PTL

(* The check-then-Get of the callers cannot fail: an element a client saw  *)
(* is still there when it gets.                                            *)
THEOREM TestStaysValidHolds == Spec => []TestStaysValid
  <1>1. IInv => TestStaysValid
    BY DEF IInv
  <1>. QED  BY <1>1, InductiveInvariant, PTL

(* The slots a client holds are slots of its run.                          *)
LEMMA HeldAreHandSlots ==
    ASSUME IInv, NEW b \in Blocks
    PROVE  HeldBy(b) \subseteq HandSlots(idx, b)
  <1> SUFFICES ASSUME NEW i \in 1 .. Len(held[b])
               PROVE  held[b][i] \in HandSlots(idx, b)
    BY DEF HeldBy
  <1>1. /\ idx \in Rings /\ held[b] \in Seq(Slots)
        /\ Len(held[b]) = HandNbr(idx, b)
        /\ held[b][i] = Wrap(HandStart(idx, b) + (i - 1))
    BY DEF IInv, TypeOK, Accounting, HeldInOrder
  <1>2. HandStart(idx, b) \in Slots /\ HandNbr(idx, b) \in 0 .. EltNbr - 1
    BY <1>1, HandStartType
  <1>3. i \in Nat /\ 1 <= i /\ i <= HandNbr(idx, b)
    BY <1>1
  <1>4. /\ Wrap(HandStart(idx, b) + (i - 1)) \in Slots
        /\ Dist(HandStart(idx, b), Wrap(HandStart(idx, b) + (i - 1))) = i - 1
    <2> DEFINE h == HandStart(idx, b)
    <2>1. Dist(h, h) = 0
      BY <1>2 DEF Dist, Slots
    <2>2. i - 1 \in Nat /\ Dist(h, h) + (i - 1) <= EltNbr - 1
      BY <1>2, <1>3, <2>1
    <2>. QED  BY <1>2, <1>3, <2>1, <2>2, DistGrow
  <1>5. Dist(HandStart(idx, b), held[b][i]) < HandNbr(idx, b)
    BY <1>1, <1>2, <1>3, <1>4
  <1>6. held[b][i] \in Slots
    BY <1>1, <1>4
  <1>. QED  BY <1>5, <1>6 DEF HandSlots

(* The pointer CO_SharedFifoGet returns is its caller's alone until the    *)
(* caller puts it: no slot is held twice, or held by one block while       *)
(* another may take it.                                                    *)
THEOREM ExclusiveHolds == Spec => []Exclusive
  <1>1. IInv => Exclusive
    <2> SUFFICES ASSUME IInv PROVE Exclusive
      OBVIOUS
    <2>1. idx \in Rings /\ RingConserved(idx)
      BY DEF IInv, TypeOK, Accounting
    <2>2. \A b \in Blocks : HeldBy(b) \subseteq HandSlots(idx, b) /\ HandSlots(idx, b) \subseteq Slots
      BY HeldAreHandSlots DEF HandSlots
    <2>3. \A b \in Blocks : OwnedSlots(idx, b) \subseteq Slots
      BY DEF OwnedSlots
    <2> SUFFICES ASSUME NEW b \in Blocks, NEW c \in Blocks
                 PROVE  /\ b # c => HeldBy(b) \cap HeldBy(c) = {}
                        /\ HeldBy(b) \cap OwnedSlots(idx, c) = {}
                        /\ b # c => OwnedSlots(idx, b) \cap OwnedSlots(idx, c) = {}
      BY DEF Exclusive
    <2>4. \A s \in Slots :
             /\ ~ (s \in HandSlots(idx, b) /\ s \in OwnedSlots(idx, c))
             /\ b # c => ~ (s \in HandSlots(idx, b) /\ s \in HandSlots(idx, c))
             /\ b # c => ~ (s \in OwnedSlots(idx, b) /\ s \in OwnedSlots(idx, c))
      BY <2>1, RunsDisjoint
    <2>. QED  BY <2>2, <2>3, <2>4
  <1>. QED  BY <1>1, InductiveInvariant, PTL

-----------------------------------------------------------------------------
(* The n slots from slot s on, round the ring.                             *)
Run(s, n) == [i \in 1 .. n |-> Wrap(s + (i - 1))]

(* Going at most once round the ring ends on a slot.                       *)
LEMMA WrapType ==
    ASSUME NEW s \in Slots, NEW n \in Nat, n <= EltNbr
    PROVE  Wrap(s + n) \in Slots
  BY DEF Wrap, Slots

(* A run of n slots is a sequence of that length.                          *)
LEMMA RunType ==
    ASSUME NEW s \in Slots, NEW n \in Nat, n <= EltNbr
    PROVE  /\ Run(s, n) \in Seq(Slots)
           /\ Len(Run(s, n)) = n
           /\ \A i \in 1 .. n : Run(s, n)[i] = Wrap(s + (i - 1))
  <1>1. \A i \in 1 .. n : Wrap(s + (i - 1)) \in Slots
    BY DEF Wrap, Slots
  <1>2. Run(s, n) \in Seq(Slots)
    BY <1>1, IsASeq DEF Run
  <1>. QED  BY <1>2 DEF Run

(* A sequence of slots that walks on from s is the run from s.             *)
LEMMA IsRun ==
    ASSUME NEW s \in Slots, NEW n \in Nat, n <= EltNbr,
           NEW q \in Seq(Slots), Len(q) = n,
           \A i \in 1 .. n : q[i] = Wrap(s + (i - 1))
    PROVE  q = Run(s, n)
  BY RunType, SeqEqual

(* Two neighbouring runs are one longer run.                               *)
LEMMA RunJoin ==
    ASSUME NEW s \in Slots, NEW m \in Nat, NEW n \in Nat, m + n <= EltNbr
    PROVE  Run(s, m) \o Run(Wrap(s + m), n) = Run(s, m + n)
  <1> DEFINE p == Run(s, m)
             q == Run(Wrap(s + m), n)
  <1>1. /\ p \in Seq(Slots) /\ Len(p) = m
        /\ \A i \in 1 .. m : p[i] = Wrap(s + (i - 1))
    BY RunType
  <1>2. /\ q \in Seq(Slots) /\ Len(q) = n
        /\ \A i \in 1 .. n : q[i] = Wrap(Wrap(s + m) + (i - 1))
    <2>1. Wrap(s + m) \in Slots
      BY WrapType
    <2>. QED  BY <2>1, RunType
  <1> HIDE DEF p, q
  <1>3. /\ p \o q \in Seq(Slots)
        /\ Len(p \o q) = m + n
        /\ \A i \in 1 .. m + n : (p \o q)[i] = IF i <= m THEN p[i] ELSE q[i - m]
    BY <1>1, <1>2, ConcatProperties
  <1>4. ASSUME NEW i \in 1 .. m + n PROVE (p \o q)[i] = Wrap(s + (i - 1))
    <2>1. CASE i <= m
      BY <2>1, <1>1, <1>3
    <2>2. CASE i > m
      <3>1. i - m \in 1 .. n
        BY <2>2
      <3>2. (p \o q)[i] = Wrap(Wrap(s + m) + ((i - m) - 1))
        BY <2>2, <3>1, <1>2, <1>3
      <3>3. (i - m) - 1 \in Nat /\ m + ((i - m) - 1) <= EltNbr /\ m + ((i - m) - 1) = i - 1
        BY <3>1
      <3>. QED  BY <3>2, <3>3, WrapWrap
    <2>3. i <= m \/ i > m
      OBVIOUS
    <2>. QED  BY <2>1, <2>2, <2>3
  <1>5. p \o q = Run(s, m + n)
    <2>1. m + n \in Nat
      OBVIOUS
    <2>. QED  BY <2>1, <1>3, <1>4, IsRun
  <1>. QED  BY <1>5 DEF p, q

(* A run can be cut in two at any point.                                   *)
LEMMA RunCut ==
    ASSUME NEW s \in Slots, NEW m \in Nat, NEW n \in Nat,
           n <= m, m <= EltNbr
    PROVE  /\ SubSeq(Run(s, m), 1, n) = Run(s, n)
           /\ SubSeq(Run(s, m), n + 1, Len(Run(s, m))) = Run(Wrap(s + n), m - n)
  <1>1. /\ Len(Run(s, m)) = m
        /\ \A i \in 1 .. m : Run(s, m)[i] = Wrap(s + (i - 1)) /\ Run(s, m)[i] \in Slots
    <2>1. Run(s, m) \in Seq(Slots) /\ Len(Run(s, m)) = m
          /\ \A i \in 1 .. m : Run(s, m)[i] = Wrap(s + (i - 1))
      BY RunType
    <2>2. \A i \in 1 .. m : Run(s, m)[i] \in Slots
      BY <2>1, ElementOfSeq
    <2>. QED  BY <2>1, <2>2
  <1>2. SubSeq(Run(s, m), 1, n) = Run(s, n)
    <2> DEFINE q == SubSeq(Run(s, m), 1, n)
    <2>1. \A i \in 1 .. n : Run(s, m)[i] \in Slots
      BY <1>1
    <2>2. /\ q \in Seq(Slots)
          /\ Len(q) = IF 1 <= n THEN n - 1 + 1 ELSE 0
          /\ \A i \in 1 .. n - 1 + 1 : q[i] = Run(s, m)[1 + i - 1]
      BY <2>1, SubSeqProperties
    <2> HIDE DEF q
    <2>3. Len(q) = n /\ \A i \in 1 .. n : q[i] = Wrap(s + (i - 1))
      BY <2>2, <1>1
    <2>4. q = Run(s, n)
      BY <2>2, <2>3, IsRun
    <2>. QED  BY <2>4 DEF q
  <1>3. SubSeq(Run(s, m), n + 1, Len(Run(s, m))) = Run(Wrap(s + n), m - n)
    <2> DEFINE q == SubSeq(Run(s, m), n + 1, m)
    <2>1. \A i \in n + 1 .. m : Run(s, m)[i] \in Slots
      BY <1>1
    <2>2. /\ q \in Seq(Slots)
          /\ Len(q) = IF n + 1 <= m THEN m - (n + 1) + 1 ELSE 0
          /\ \A i \in 1 .. m - (n + 1) + 1 : q[i] = Run(s, m)[(n + 1) + i - 1]
      BY <2>1, SubSeqProperties
    <2> HIDE DEF q
    <2>3. Len(q) = m - n /\ m - n \in Nat /\ m - n <= EltNbr
      BY <2>2
    <2>4. ASSUME NEW i \in 1 .. m - n PROVE q[i] = Wrap(Wrap(s + n) + (i - 1))
      <3>1. q[i] = Run(s, m)[n + i] /\ n + i \in 1 .. m
        BY <2>2
      <3>2. q[i] = Wrap(s + ((n + i) - 1))
        BY <3>1, <1>1
      <3>3. i - 1 \in Nat /\ n + (i - 1) <= EltNbr /\ n + (i - 1) = (n + i) - 1
        OBVIOUS
      <3>. QED  BY <3>2, <3>3, WrapWrap
    <2>5. q = Run(Wrap(s + n), m - n)
      <3>1. Wrap(s + n) \in Slots
        BY WrapType
      <3>. QED  BY <3>1, <2>2, <2>3, <2>4, IsRun
    <2>. QED  BY <2>5, <1>1 DEF q
  <1>. QED  BY <1>2, <1>3

-----------------------------------------------------------------------------
(* Under the invariant both queues of the mapping are runs, and a client's *)
(* run ends where the run its block may still take begins.                 *)
LEMMA QueuesAreRuns ==
    ASSUME IInv, NEW b \in Blocks
    PROVE  /\ idx.Out[b] \in Slots /\ idx.In[b] \in Slots
           /\ HandStart(idx, b) \in Slots
           /\ NbElt(idx, b) \in 0 .. EltNbr - 1
           /\ HandNbr(idx, b) \in 0 .. EltNbr - 1
           /\ OwnedSeq(b) = Run(idx.Out[b], NbElt(idx, b))
           /\ held[b] = Run(HandStart(idx, b), HandNbr(idx, b))
           /\ Wrap(idx.Out[b] + NbElt(idx, b)) = idx.In[b]
  <1>1. idx \in Rings /\ held[b] \in Seq(Slots) /\ Len(held[b]) = HandNbr(idx, b)
    BY DEF IInv, TypeOK, Accounting
  <1>2. idx.Out[b] \in Slots /\ idx.In[b] \in Slots
    BY <1>1 DEF Rings
  <1>3. /\ HandStart(idx, b) \in Slots
        /\ HandNbr(idx, b) \in 0 .. EltNbr - 1
        /\ NbElt(idx, b) \in 0 .. EltNbr - 1
        /\ NbElt(idx, b) = Dist(idx.Out[b], idx.In[b])
    BY <1>1, HandStartType, CountIsDist
  <1>4. OwnedSeq(b) = Run(idx.Out[b], NbElt(idx, b))
    BY DEF OwnedSeq, Run
  <1>5. held[b] = Run(HandStart(idx, b), HandNbr(idx, b))
    <2>1. \A i \in 1 .. HandNbr(idx, b) : held[b][i] = Wrap(HandStart(idx, b) + (i - 1))
      BY <1>1 DEF IInv, HeldInOrder
    <2>2. HandNbr(idx, b) \in Nat /\ HandNbr(idx, b) <= EltNbr
      BY <1>3
    <2>. QED  BY <1>1, <1>3, <2>1, <2>2, IsRun
  <1>6. Wrap(idx.Out[b] + NbElt(idx, b)) = idx.In[b]
    BY <1>2, <1>3 DEF Dist, Wrap, Slots
  <1>. QED  BY <1>2, <1>3, <1>4, <1>5, <1>6

(* The ring starts as the pipeline does: every slot but the spare one is   *)
(* in the producer's queue.                                                *)
LEMMA InitRefines == Init => Abs!Init
  <1> SUFFICES ASSUME Init PROVE Abs!Init
    OBVIOUS
  <1> USE DEF Init, RingInit
  <1>1. \A b \in Blocks : /\ NbElt(idx, b) = IF b = 0 THEN EltNbr - 1 ELSE 0
                          /\ idx.Out[b] = 1
    BY DEF NbElt, Wrap, Blocks, ProdID
  <1>2. OwnedSeq(0) = [i \in 1 .. EltNbr - 1 |-> i]
    <2>1. \A i \in 1 .. EltNbr - 1 : Wrap(1 + (i - 1)) = i
      BY DEF Wrap
    <2>2. 0 \in Blocks
      BY DEF Blocks
    <2>3. OwnedSeq(0) = [i \in 1 .. EltNbr - 1 |-> Wrap(1 + (i - 1))]
      BY <1>1, <2>2 DEF OwnedSeq
    <2>. QED  BY <2>1, <2>3
  <1>3. \A b \in Blocks \ {0} : OwnedSeq(b) = <<>>
    <2> TAKE b \in Blocks \ {0}
    <2>1. OwnedSeq(b) = [i \in 1 .. 0 |-> Wrap(1 + (i - 1))]
      BY <1>1 DEF OwnedSeq
    <2>. QED  BY <2>1
  <1>4. idx.In[ProdID] = 0
    BY DEF ProdID, Blocks
  <1>. QED  BY <1>2, <1>3, <1>4 DEF Abs!Init, Abs!Stages, Blocks

(* A successful CO_SharedFifoGet moves the oldest elements of its block's  *)
(* queue to its caller and touches no other queue.                         *)
LEMMA GetRefines ==
    ASSUME IInv, NEW b \in Blocks, NEW n \in 1 .. MaxBatch, Get(b, n)
    PROVE  Abs!Get(b, n)
  <1>1. idx \in Rings /\ RingConserved(idx) /\ CanGet(idx, b, n) /\ n \in Nat
    BY DEF IInv, TypeOK, Accounting, Get
  <1>2. idx' = AfterGet(idx, b, n) /\ held' = [held EXCEPT ![b] = held[b] \o Taken(b, n)]
    BY DEF Get
  <1>3. /\ NbElt(idx', b) = NbElt(idx, b) - n
        /\ \A c \in Blocks \ {b} : NbElt(idx', c) = NbElt(idx, c)
    BY <1>1, <1>2, GetEffect
  <1>4. /\ idx'.Out[b] = Wrap(idx.Out[b] + n)
        /\ \A c \in Blocks \ {b} : idx'.Out[c] = idx.Out[c]
        /\ idx'.In = idx.In
    BY <1>1, <1>2 DEF AfterGet, Rings
  <1>5. /\ idx.Out[b] \in Slots /\ NbElt(idx, b) \in 0 .. EltNbr - 1
        /\ OwnedSeq(b) = Run(idx.Out[b], NbElt(idx, b))
    BY QueuesAreRuns
  <1>6. n <= NbElt(idx, b) /\ NbElt(idx, b) \in Nat /\ NbElt(idx, b) <= EltNbr
    BY <1>1, <1>5, CountIsDist DEF CanGet
  <1>7. /\ Len(OwnedSeq(b)) = NbElt(idx, b)
        /\ SubSeq(OwnedSeq(b), 1, n) = Taken(b, n)
        /\ SubSeq(OwnedSeq(b), n + 1, Len(OwnedSeq(b))) = OwnedSeq(b)'
    <2>1. Len(OwnedSeq(b)) = NbElt(idx, b)
      BY <1>5, <1>6, RunType
    <2>2. Taken(b, n) = Run(idx.Out[b], n)
      BY DEF Taken, Pick, Run
    <2>3. OwnedSeq(b)' = Run(Wrap(idx.Out[b] + n), NbElt(idx, b) - n)
      BY <1>3, <1>4 DEF OwnedSeq, Run
    <2> DEFINE m == NbElt(idx, b)
               s == idx.Out[b]
    <2>4. /\ SubSeq(Run(s, m), 1, n) = Run(s, n)
          /\ SubSeq(Run(s, m), n + 1, Len(Run(s, m))) = Run(Wrap(s + n), m - n)
      <3>1. s \in Slots /\ m \in Nat /\ n \in Nat /\ n <= m /\ m <= EltNbr
        BY <1>1, <1>5, <1>6
      <3> HIDE DEF s, m
      <3>. QED  BY <3>1, RunCut
    <2>. QED  BY <1>5, <2>1, <2>2, <2>3, <2>4
  <1>8. \A c \in Blocks \ {b} : OwnedSeq(c)' = OwnedSeq(c)
    BY <1>3, <1>4 DEF OwnedSeq
  <1>9. [c \in Blocks |-> OwnedSeq(c)]'
          = [[c \in Blocks |-> OwnedSeq(c)] EXCEPT
                ![b] = SubSeq(OwnedSeq(b), n + 1, Len(OwnedSeq(b)))]
    BY <1>7, <1>8
  <1>10. idx.In[ProdID]' = idx.In[ProdID]
    BY <1>4
  <1>. QED  BY <1>2, <1>6, <1>7, <1>9, <1>10 DEF Abs!Get, Abs!First, Abs!Rest

(* What every CO_SharedFifoPut does to the queues, whichever block calls:  *)
(* its client keeps all but the n oldest slots, and the queue of the next  *)
(* block, d, grows by the n slots from that block's In index on.           *)
PutMoves(b, n, d) ==
    /\ n <= Len(held[b])
    /\ held' = [held EXCEPT ![b] = SubSeq(held[b], n + 1, Len(held[b]))]
    /\ SubSeq(held[b], 1, n) = Run(HandStart(idx, b), n)
    /\ [c \in Blocks |-> OwnedSeq(c)]'
         = [[c \in Blocks |-> OwnedSeq(c)] EXCEPT
               ![d] = OwnedSeq(d) \o Run(idx.In[d], n)]
    /\ idx'.In = [idx.In EXCEPT ![d] = Wrap(idx.In[d] + n)]

LEMMA PutMovesRuns ==
    ASSUME IInv, NEW b \in Blocks, NEW n \in 1 .. MaxBatch, Put(b, n)
    PROVE  PutMoves(b, n, NextBlock(b))
  <1> SUFFICES ASSUME NEW d \in Blocks, d = NextBlock(b)
               PROVE  PutMoves(b, n, d)
    BY DEF NextBlock, Blocks, ProdID
  <1>1. /\ idx \in Rings /\ RingConserved(idx) /\ n \in Nat
        /\ n <= Len(held[b]) /\ Len(held[b]) = HandNbr(idx, b)
    BY DEF IInv, TypeOK, Accounting, Put
  <1>2. /\ idx' = AfterPut(idx, b, n)
        /\ held' = [held EXCEPT ![b] = SubSeq(held[b], n + 1, Len(held[b]))]
    BY DEF Put
  <1>3. /\ NbElt(idx', d) = NbElt(idx, d) + n
        /\ \A c \in Blocks \ {d} : NbElt(idx', c) = NbElt(idx, c)
        /\ idx' \in Rings
    BY <1>1, <1>2, PutEffect
  <1>4. /\ idx'.Out = idx.Out
        /\ idx'.In = [idx.In EXCEPT ![d] = Wrap(idx.In[d] + n)]
    BY <1>1, <1>2 DEF AfterPut, Rings
  <1>5. SubSeq(held[b], 1, n) = Run(HandStart(idx, b), n)
    <2> DEFINE h == HandStart(idx, b)
               m == HandNbr(idx, b)
    <2>1. h \in Slots /\ m \in Nat /\ n \in Nat /\ n <= m /\ m <= EltNbr /\ held[b] = Run(h, m)
      BY <1>1, QueuesAreRuns
    <2> HIDE DEF h, m
    <2>2. SubSeq(Run(h, m), 1, n) = Run(h, n)
      BY <2>1, RunCut
    <2>. QED  BY <2>1, <2>2 DEF h
  <1>6. OwnedSeq(d)' = OwnedSeq(d) \o Run(idx.In[d], n)
    <2> DEFINE s == idx.Out[d]
               m == NbElt(idx, d)
    <2>1. s \in Slots /\ m \in Nat /\ OwnedSeq(d) = Run(s, m) /\ Wrap(s + m) = idx.In[d]
      BY QueuesAreRuns
    <2>2. m + n <= EltNbr
      BY <1>3, CountIsDist
    <2>3. OwnedSeq(d)' = Run(s, m + n)
      BY <1>3, <1>4 DEF OwnedSeq, Run
    <2> HIDE DEF s, m
    <2>4. Run(s, m) \o Run(Wrap(s + m), n) = Run(s, m + n)
      BY <1>1, <2>1, <2>2, RunJoin
    <2>. QED  BY <2>1, <2>3, <2>4
  <1>7. \A c \in Blocks \ {d} : OwnedSeq(c)' = OwnedSeq(c)
    BY <1>3, <1>4 DEF OwnedSeq
  <1>8. [c \in Blocks |-> OwnedSeq(c)]'
          = [[c \in Blocks |-> OwnedSeq(c)] EXCEPT ![d] = OwnedSeq(d) \o Run(idx.In[d], n)]
    BY <1>6, <1>7
  <1>. QED  BY <1>1, <1>2, <1>4, <1>5, <1>8 DEF PutMoves

(* A Put of a block that is not the last appends what its client held      *)
(* longest to the next block's queue.                                      *)
LEMMA PutPasses ==
    ASSUME IInv, NEW b \in Blocks, NEW n \in 1 .. MaxBatch, Put(b, n),
           b + 1 < BlockNbr
    PROVE  Abs!Pass(b, n)
  <1>1. NextBlock(b) = b + 1 /\ b + 1 # ProdID /\ b + 1 \in Blocks
    BY DEF NextBlock, Blocks, ProdID
  <1>2. HandStart(idx, b) = idx.In[b + 1]
    BY DEF HandStart, LastBlock, Blocks
  <1>3. /\ n <= Len(held[b])
        /\ held' = [held EXCEPT ![b] = SubSeq(held[b], n + 1, Len(held[b]))]
        /\ SubSeq(held[b], 1, n) = Run(idx.In[b + 1], n)
        /\ [c \in Blocks |-> OwnedSeq(c)]'
             = [[c \in Blocks |-> OwnedSeq(c)] EXCEPT
                   ![b + 1] = OwnedSeq(b + 1) \o Run(idx.In[b + 1], n)]
        /\ idx'.In = [idx.In EXCEPT ![b + 1] = Wrap(idx.In[b + 1] + n)]
    <2>1. PutMoves(b, n, b + 1)
      <3>1. PutMoves(b, n, NextBlock(b))
        BY PutMovesRuns
      <3>. QED  BY <1>1, <3>1
    <2>. QED  BY <1>2, <2>1 DEF PutMoves
  <1>4. idx.In[ProdID]' = idx.In[ProdID]
    BY <1>1, <1>3
  <1>. QED  BY <1>1, <1>3, <1>4 DEF Abs!Pass, Abs!First, Abs!Rest

(* A Put of the last block gives the producer the old spare slot first and *)
(* keeps the last slot put as the new spare.                               *)
LEMMA PutRecycles ==
    ASSUME IInv, NEW b \in Blocks, NEW n \in 1 .. MaxBatch, Put(b, n),
           NextBlock(b) = ProdID
    PROVE  Abs!Recycle(b, n)
  <1>1. b + 1 = BlockNbr
    BY DEF NextBlock, Blocks, ProdID
  <1>2. NextBlock(b) = 0 /\ ProdID = 0 /\ 0 \in Blocks /\ n \in Nat
    BY DEF Blocks, ProdID
  <1>3. HandStart(idx, b) = Wrap(idx.In[0] + 1)
    BY <1>1 DEF HandStart, LastBlock, Blocks, ProdID
  <1> DEFINE s == idx.In[0]
             cycle == <<s>> \o SubSeq(held[b], 1, n)
  <1>4. /\ n <= Len(held[b])
        /\ held' = [held EXCEPT ![b] = SubSeq(held[b], n + 1, Len(held[b]))]
        /\ SubSeq(held[b], 1, n) = Run(Wrap(s + 1), n)
        /\ [c \in Blocks |-> OwnedSeq(c)]'
             = [[c \in Blocks |-> OwnedSeq(c)] EXCEPT ![0] = OwnedSeq(0) \o Run(s, n)]
        /\ idx'.In = [idx.In EXCEPT ![0] = Wrap(s + n)]
    <2>1. PutMoves(b, n, 0)
      <3>1. PutMoves(b, n, NextBlock(b))
        BY PutMovesRuns
      <3>. QED  BY <1>2, <3>1
    <2>. QED  BY <1>3, <2>1 DEF PutMoves
  <1>5. s \in Slots /\ 1 + n <= EltNbr
    <2>1. s \in Slots
      BY <1>2, QueuesAreRuns
    <2>2. HandNbr(idx, b) <= EltNbr - 1 /\ Len(held[b]) = HandNbr(idx, b) /\ HandNbr(idx, b) \in Nat
      BY QueuesAreRuns DEF IInv, Accounting
    <2>. QED  BY <1>2, <1>4, <2>1, <2>2
  <1>6. cycle = Run(s, 1 + n)
    <2>1. <<s>> = Run(s, 1)
      <3>1. <<s>> \in Seq(Slots) /\ Len(<<s>>) = 1 /\ <<s>>[1] = s
        BY <1>5
      <3>2. Wrap(s + (1 - 1)) = s
        BY <1>5 DEF Wrap, Slots
      <3>3. \A i \in 1 .. 1 : <<s>>[i] = Wrap(s + (i - 1))
        BY <3>1, <3>2
      <3>4. 1 \in Nat /\ 1 <= EltNbr
        OBVIOUS
      <3> HIDE DEF s
      <3>. QED  BY <1>5, <3>1, <3>3, <3>4, IsRun
    <2> HIDE DEF s
    <2>2. Run(s, 1) \o Run(Wrap(s + 1), n) = Run(s, 1 + n)
      BY <1>2, <1>5, RunJoin
    <2>. QED  BY <1>4, <2>1, <2>2
  <1>7. SubSeq(cycle, 1, n) = Run(s, n) /\ cycle[n + 1] = Wrap(s + n)
    <2> HIDE DEF s
    <2>1. SubSeq(Run(s, 1 + n), 1, n) = Run(s, n)
      BY <1>2, <1>5, RunCut
    <2>2. Run(s, 1 + n)[n + 1] = Wrap(s + ((n + 1) - 1))
      BY <1>2, <1>5, RunType
    <2>3. (n + 1) - 1 = n
      BY <1>2
    <2>. QED  BY <1>6, <2>1, <2>2, <2>3
  <1>8. idx.In[ProdID]' = cycle[n + 1]
    <2>1. idx'.In[0] = Wrap(s + n)
      BY <1>2, <1>4, QueuesAreRuns DEF IInv, TypeOK, Rings
    <2>. QED  BY <1>2, <1>7, <2>1
  <1>. QED  BY <1>1, <1>2, <1>4, <1>7, <1>8 DEF Abs!Recycle, Abs!First, Abs!Rest, ProdID

-----------------------------------------------------------------------------
(* The ring implements the pipeline of queues for every number of slots:   *)
(* every Get and Put of CO_SharedFifo is a step of the queues, first in,   *)
(* first out, and the tests, which move no index, are stutters.            *)
THEOREM PipelineHolds == Spec => Pipeline
  <1>1. Init => Abs!Init
    BY InitRefines
  <1>2. IInv /\ [Next]_vars => [Abs!Next]_(Abs!vars)
    <2> SUFFICES ASSUME IInv, [Next]_vars PROVE [Abs!Next]_(Abs!vars)
      OBVIOUS
    <2>1. ASSUME NEW b \in Blocks, Test(b) PROVE UNCHANGED Abs!vars
      BY <2>1 DEF Test, Abs!vars, OwnedSeq
    <2>2. ASSUME NEW b \in Blocks, NEW n \in 1 .. MaxBatch, Get(b, n) PROVE Abs!Next
      BY <2>2, GetRefines DEF Abs!Next, Abs!Stages, Blocks
    <2>3. ASSUME NEW b \in Blocks, NEW n \in 1 .. MaxBatch, Put(b, n) PROVE Abs!Next
      <3>1. CASE b + 1 < BlockNbr
        BY <2>3, <3>1, PutPasses DEF Abs!Next, Abs!Stages, Blocks
      <3>2. CASE b + 1 = BlockNbr
        <4>1. NextBlock(b) = ProdID
          BY <3>2 DEF NextBlock
        <4>. QED  BY <2>3, <4>1, PutRecycles DEF Abs!Next, Abs!Stages, Blocks
      <3>3. b + 1 < BlockNbr \/ b + 1 = BlockNbr
        BY DEF Blocks
      <3>. QED  BY <3>1, <3>2, <3>3
    <2>4. CASE UNCHANGED vars
      BY <2>4 DEF vars, Abs!vars, OwnedSeq
    <2>. QED  BY <2>1, <2>2, <2>3, <2>4 DEF Next
  <1>. QED  BY <1>1, <1>2, InductiveInvariant, PTL DEF Spec, Pipeline, Abs!Spec
=============================================================================
