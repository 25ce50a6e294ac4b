---------------------------- MODULE CoSharedFifo ----------------------------
(***************************************************************************)
(* The index arithmetic of the shared ring of wifi_share_fifo.c.  One ring *)
(* of EltNbr slots is shared by BlockNbr stages ("blocks") arranged in a   *)
(* cycle: block b takes the slots between its Out and its In index, and a  *)
(* Put of block b moves the In index of the block after b.  Everything     *)
(* here is a pure operator on a ring record; the modules that use a ring   *)
(* (SharedFifo, WorkFifo, HalTx) own the variable that holds it.           *)
(***************************************************************************)
EXTENDS Integers

CONSTANTS EltNbr,    \* slots of the ring (80 per TX queue, 100 work items)
          BlockNbr   \* stages: 2 for the work fifo, 3 for a TX queue

ASSUME EltNbrAssumption   == EltNbr \in Nat /\ EltNbr >= 2
ASSUME BlockNbrAssumption == BlockNbr \in {2, 3}

ProdID == 0          \* CO_SF_PROD_ID: the block that starts with every slot
Blocks == 0 .. BlockNbr - 1
Slots  == 0 .. EltNbr - 1
LastBlock == BlockNbr - 1

Rings == [In : [Blocks -> Slots], Out : [Blocks -> Slots]]

(* CO_SharedFifoInit: one slot stays unused so that "full" and "empty" of  *)
(* the producer differ.                                                    *)
RingInit == [In  |-> [b \in Blocks |-> IF b = ProdID THEN 0 ELSE 1],
             Out |-> [b \in Blocks |-> 1]]

(* The compare-and-subtract that Get and Put use instead of a modulo.      *)
Wrap(i) == IF i >= EltNbr THEN i - EltNbr ELSE i

(* Mutant: the last block does not hand back to the producer.              *)
NextBlockNoWrap(b) == IF b + 1 = BlockNbr THEN b ELSE b + 1

NextBlock(b) == IF b + 1 = BlockNbr THEN ProdID ELSE b + 1

NbElt(r, b) == Wrap(EltNbr + r.In[b] - r.Out[b])

NbEltCont(r, b) == IF r.In[b] >= r.Out[b]
                   THEN r.In[b] - r.Out[b]
                   ELSE EltNbr + (r.In[b] - r.Out[b])

(* CO_SharedFifoEmpty, whose result is true when an element is there.      *)
HasElt(r, b) == r.In[b] # r.Out[b]

(* CO_SharedFifoPick: the slot a Get would return, left where it is.       *)
Pick(r, b) == r.Out[b]

(* Mutant: one element too many may be taken.                              *)
CanGetOneMore(r, b, n) == n <= NbEltCont(r, b) + 1

(* CO_SharedFifoGet succeeds exactly when CanGet holds; it then returns    *)
(* the slot Pick(r, b) and leaves the ring AfterGet(r, b, n).              *)
CanGet(r, b, n) == n <= NbEltCont(r, b)

AfterGet(r, b, n) == [r EXCEPT !.Out[b] = Wrap(@ + n)]

AfterPut(r, b, n) == [r EXCEPT !.In[NextBlock(b)] = Wrap(@ + n)]

-----------------------------------------------------------------------------
(* Vocabulary of the properties; no code computes these.                   *)

(* Steps forward round the ring from slot i to slot j.                     *)
Dist(i, j) == IF j >= i THEN j - i ELSE EltNbr + j - i

(* Where the slots block b has taken and not yet put begin.  The last      *)
(* block never hands over the slot its In index of the producer stands on. *)
HandStart(r, b) == IF b = LastBlock THEN Wrap(r.In[ProdID] + 1)
                                    ELSE r.In[b + 1]

HandNbr(r, b) == Dist(HandStart(r, b), r.Out[b])

Load(r, b) == NbElt(r, b) + HandNbr(r, b)

(* Every slot but the unused one is owned by, or in the hands of, a block. *)
RingConserved(r) ==
    Load(r, 0) + Load(r, 1) + (IF BlockNbr = 3 THEN Load(r, 2) ELSE 0)
      = EltNbr - 1

OwnedSlots(r, b) == {s \in Slots : Dist(r.Out[b], s) < NbElt(r, b)}
HandSlots(r, b)  == {s \in Slots : Dist(HandStart(r, b), s) < HandNbr(r, b)}
=============================================================================
