---------------------------- MODULE HalTxProofs ----------------------------
(***************************************************************************)
(* The transmit path of the HAL for any rings, queues, loads, id table and *)
(* page credit; first until hal_tx_flush is called.  The frames of a queue *)
(* are numbered as drv_to_hal fills them, so four numbers say where all of *)
(* them are: Down of them have left the ring, Prom have been given an id,  *)
(* made have been filled and Got is being filled.  The indexes of the ring *)
(* are these numbers modulo its size (RingAt), whole aggregates end where  *)
(* the last one does that was begun (AggAt), the ids in use are on the     *)
(* frames that have one and are not handed back (IdInv), those of frames   *)
(* that left the ring are each in one place on the way to the txok thread  *)
(* (OutInv), and the counters count these frames (Counts).                 *)
(* Then with flushes, which move frames to other places: the order in      *)
(* which each interface's frames stand (LineAt).                           *)
(***************************************************************************)
EXTENDS HalTx, FiniteSetTheorems, WellFoundedInduction, TLAPS

-----------------------------------------------------------------------------
(* The inductive invariant.                                                *)

Frame(q, n) == [q |-> q, n |-> n]
Place(n)    == n % EltNbr
Down(q)     == Len(hist.down[q])
Prom(q)     == Down(q) + NbElt(idx[q], SET)
Got(q)      == IF fill[q].pc = "put" THEN 1 ELSE 0
Filling(q)  == fill[q].pc \in {"get", "put"}
Entries     == [frame : Frames, id : Ids]
Handled     == RangeOf(hist.handled)
Hand        == IF txok.pc = "free" THEN {txok.entry} ELSE {}

Descs  == [vid : Vids \cup {AllVids}, agg : 0 .. MaxAgg, id : Ids]
Fills  == [pc : {"idle", "get", "put", "up"}, left : 0 .. MaxAgg,
           agg : 0 .. MaxAgg, vid : Vids \cup {AllVids}, slot : Slots,
           first : Nat \ {0}]
Locked == {"turns", "drain", "full", "set"}
Irqs   == [pc : Locked \cup {"down", "status", "softtx", "gate", "enter", "send",
                             "relock"},
           q : Queues, turns : Int, scat : Seq(Entries)]

Types ==
    /\ load \in Loads
    /\ idx \in [Queues -> Rings] /\ slot \in [Queues -> [Slots -> Frames]]
    /\ desc \in [Frames -> Descs]
    /\ made \in [Queues -> 0 .. MaxFrames] /\ fill \in [Queues -> Fills]
    /\ sem \in Nat /\ txsem \in Nat
    /\ irq \in Irqs
    /\ lock = IF irq.pc \in Locked THEN "irq" ELSE "free"
    /\ lastq \in Queues
    /\ IdsUsed \subseteq Ids /\ ids \in [IdsUsed -> Frames]
    /\ pages \in Nat
    /\ num \in [send : Nat, done : Nat, free : Nat]
    /\ upreq \in BOOLEAN /\ drop \in BOOLEAN /\ paused \in BOOLEAN
    /\ chip \in [has : SUBSET Entries, done : Seq(Entries), bit : BOOLEAN]
    /\ status \in Seq(Entries)
    /\ txok \in [pc : {"down", "take", "free", "test"},
                 entry : Entries \cup {NoEntry}]
    /\ txok.pc = "free" => txok.entry \in Entries
    /\ flush.pc = "off" /\ flush.calls = 0
    /\ hist.handled \in Seq(Frames) /\ hist.down \in [Queues -> Seq(Frames)]

(* A ring of which d frames have left, p have an id and m are filled, with *)
(* g more taken to be filled.                                              *)
RingIs(r, d, p, m, g) ==
    /\ d <= p /\ p <= m /\ m + g - d < EltNbr
    /\ r.In[GET] = Place(d)      /\ r.Out[GET] = Place(m + g + 1)
    /\ r.In[MAKE] = Place(m + 1) /\ r.Out[MAKE] = Place(p + 1)
    /\ r.In[SET] = Place(p + 1)  /\ r.Out[SET] = Place(d + 1)

RingAt(q) ==
    /\ RingIs(idx[q], Down(q), Prom(q), made[q], Got(q))
    /\ \A n \in Down(q) + 1 .. made[q] : slot[q][Place(n)] = Frame(q, n)
    /\ fill[q].pc = "put" => fill[q].slot = Place(made[q] + 1)
    /\ \A k \in 1 .. Down(q) : hist.down[q][k] = Frame(q, k)

(* How many frames of q are in aggregates that are all filled.             *)
Whole(q) == IF Filling(q) THEN fill[q].first - 1 ELSE made[q]

(* The aggregates end at these frames.                                     *)
IsEnds(q, ends) ==
    /\ {0, Down(q), Whole(q)} \subseteq ends
    /\ \A e \in ends \ {Whole(q)} :
         /\ desc[Frame(q, e + 1)].agg > 0
         /\ e + desc[Frame(q, e + 1)].agg \in ends
         /\ \A f \in ends : e < f => e + desc[Frame(q, e + 1)].agg <= f

AggAt(q) ==
    /\ Filling(q) =>
         /\ fill[q].left > 0
         /\ made[q] + fill[q].left = fill[q].first - 1 + fill[q].agg
         /\ fill[q].first <= made[q] + 1
         /\ made[q] + fill[q].left <= load.frames[q]
         /\ \A n \in fill[q].first .. made[q] :
              desc[Frame(q, n)].agg = fill[q].agg
    /\ made[q] <= load.frames[q]
    /\ \E ends \in SUBSET (0 .. Whole(q)) : IsEnds(q, ends)

(* Promoted frames that are not handed back have an id, each its own.      *)
IdInv ==
    /\ \A i \in IdsUsed, f \in Frames :
         ids[i] = f => f.n <= Prom(f.q) /\ desc[f].id = i /\ f \notin Handled
    /\ \A f \in Frames : f.n <= Prom(f.q) /\ f \notin Handled =>
                           desc[f].id \in IdsUsed /\ ids[desc[f].id] = f
    /\ \A f \in Handled : f.n <= Down(f.q)
    /\ \A j, k \in DOMAIN hist.handled :
         hist.handled[j] = hist.handled[k] => j = k

Inj(s) == \A j, k \in DOMAIN s : s[j] = s[k] => j = k

(* The entries of the ids in use whose frames have left the ring.          *)
IsOut(e) == /\ e.id \in IdsUsed /\ ids[e.id] = e.frame
            /\ e.frame.n <= Down(e.frame.q)
Out == {e \in Entries : IsOut(e)}

OutInv ==
    /\ chip.has \cup RangeOf(irq.scat) \cup RangeOf(chip.done)
         \cup RangeOf(status) \cup Hand = Out
    /\ Inj(irq.scat) /\ Inj(chip.done) /\ Inj(status)
    /\ chip.has \cap RangeOf(irq.scat) = {}
    /\ (chip.has \cup RangeOf(irq.scat)) \cap RangeOf(chip.done) = {}
    /\ (chip.has \cup RangeOf(irq.scat) \cup RangeOf(chip.done))
         \cap RangeOf(status) = {}
    /\ (chip.has \cup RangeOf(irq.scat) \cup RangeOf(chip.done)
         \cup RangeOf(status)) \cap Hand = {}
    /\ irq.pc \notin {"set", "send"} => irq.scat = <<>>

MadeSet == {f \in Frames : f.n <= made[f.q]}
DownSet == {f \in Frames : f.n <= Down(f.q)}

Counts ==
    /\ IsFiniteSet(MadeSet) /\ IsFiniteSet(DownSet) /\ IsFiniteSet(chip.has)
    /\ num.send = Cardinality(MadeSet) /\ num.done = Cardinality(DownSet)
    /\ num.done - num.free
         = Len(irq.scat) + Cardinality(chip.has) + Len(chip.done)
    /\ pages + FramePages * (num.done - num.free) = PageNbr

RingInv == \A q \in Queues : RingAt(q)
AggInv  == \A q \in Queues : AggAt(q)

HalInv == Types /\ RingInv /\ AggInv /\ IdInv /\ OutInv /\ Counts

(* hal_tx_flush has not been called,                                       *)
Unflushed == flush.calls = 0

(* and the calls of it are counted.                                        *)
FlushIs == /\ flush = [pc |-> flush.pc, vid |-> flush.vid, q |-> flush.q,
                       keep |-> flush.keep, calls |-> flush.calls]
           /\ flush.calls \in Nat

UntilFlushed == FlushIs /\ (Unflushed => HalInv)

(* Of what a load may ask for, nothing is a flush.                         *)
NoFlushes == \A l \in Loads : l.flushes = {}

-----------------------------------------------------------------------------
(* The remainder by the size of the ring.                                  *)

LEMMA Split ==
    ASSUME NEW m \in Nat, m > 0, NEW a \in Int
    PROVE  \E q \in Int, r \in 0 .. m - 1 : a = m * q + r
  <1>1. PICK r \in 0 .. m - 1, q \in Int : r = a - m * q
    <2>1. a % m \in 0 .. m - 1 /\ a \div m \in Int
      OBVIOUS
    <2>2. a % m = a - m * (a \div m)
      OBVIOUS
    <2>. QED  BY ONLY <2>1, <2>2, Zenon
  <1>2. m * q \in Int OBVIOUS
  <1>3. a = m * q + r BY <1>1, <1>2
  <1>. QED  BY <1>3

LEMMA SplitUnique ==
    ASSUME NEW m \in Nat, m > 0, NEW a \in Int, NEW q \in Int, NEW r \in 0 .. m - 1,
           a = m * q + r
    PROVE  a % m = r
  OBVIOUS

LEMMA PlaceIs ==
    ASSUME NEW n \in Int
    PROVE  /\ Place(n) \in Slots
           /\ \E q \in Int : n = EltNbr * q + Place(n)
  <1>1. EltNbr \in Nat /\ EltNbr > 0
    BY EltNbrAssumption
  <1>2. PICK q \in Int, p \in 0 .. EltNbr - 1 : n = EltNbr * q + p
    BY ONLY <1>1, Split, n \in Int
  <1>3. n % EltNbr = p
    BY ONLY <1>1, <1>2, SplitUnique, n \in Int
  <1>. QED  BY ONLY <1>2, <1>3 DEF Place, Slots

LEMMA PlaceUnique ==
    ASSUME NEW n \in Int, NEW q \in Int, NEW p \in 0 .. EltNbr - 1, n = EltNbr * q + p
    PROVE  Place(n) = p
  BY EltNbrAssumption, SplitUnique DEF Place

(* The compare-and-subtract of Get and Put is the remainder.               *)
LEMMA PlaceWrap ==
    ASSUME NEW n \in Nat, NEW k \in 0 .. EltNbr
    PROVE  Wrap(Place(n) + k) = Place(n + k)
  <1>0. EltNbr \in Nat /\ EltNbr > 0
    BY EltNbrAssumption
  <1>1. PICK q \in Int, p \in 0 .. EltNbr - 1 : n = EltNbr * q + p /\ Place(n) = p
    BY PlaceIs DEF Slots
  <1>2. CASE p + k < EltNbr
    <2>1. n + k = EltNbr * q + (p + k)
      BY <1>0, <1>1
    <2>2. Place(n + k) = p + k
      <3>1. n + k \in Int /\ p + k \in 0 .. EltNbr - 1
        BY <1>0, <1>2
      <3>. QED  BY ONLY <2>1, <3>1, <1>1, PlaceUnique, Zenon
    <2>. QED  BY <1>0, <1>1, <1>2, <2>2 DEF Wrap
  <1>3. CASE p + k >= EltNbr
    <2>1. n + k = EltNbr * (q + 1) + (p + k - EltNbr)
      BY <1>0, <1>1
    <2>2. Place(n + k) = p + k - EltNbr
      <3>1. n + k \in Int /\ q + 1 \in Int /\ p + k - EltNbr \in 0 .. EltNbr - 1
        BY <1>0, <1>3
      <3>. QED  BY ONLY <2>1, <3>1, PlaceUnique, Zenon
    <2>. QED  BY <1>0, <1>1, <1>3, <2>2 DEF Wrap
  <1>. QED  BY <1>0, <1>2, <1>3

(* Less than a turn apart, places tell how far.                            *)
LEMMA PlaceApart ==
    ASSUME NEW y \in Nat, NEW x \in Nat, y <= x, x < y + EltNbr
    PROVE  x - y = IF Place(x) >= Place(y) THEN Place(x) - Place(y)
                                           ELSE EltNbr + (Place(x) - Place(y))
  <1>0. EltNbr \in Nat /\ EltNbr > 0
    BY EltNbrAssumption
  <1>1. PICK k \in 0 .. EltNbr : k = x - y /\ k < EltNbr
    BY <1>0
  <1>2. Place(x) = Wrap(Place(y) + k)
    <2>1. y + k = x
      BY <1>1
    <2>. QED  BY <2>1, PlaceWrap
  <1>3. Place(y) \in 0 .. EltNbr - 1
    BY PlaceIs DEF Slots
  <1>. QED  BY <1>0, <1>1, <1>2, <1>3 DEF Wrap

LEMMA PlaceDiffers ==
    ASSUME NEW y \in Nat, NEW x \in Nat, y < x, x < y + EltNbr
    PROVE  Place(x) # Place(y)
  <1>. x - y = IF Place(x) >= Place(y) THEN Place(x) - Place(y)
                                       ELSE EltNbr + (Place(x) - Place(y))
    BY PlaceApart
  <1>. Place(x) \in Int /\ Place(y) \in Int
    BY PlaceIs DEF Slots
  <1>. QED  OBVIOUS

-----------------------------------------------------------------------------
(* A ring by its four numbers.                                             *)

LEMMA BlocksAre == /\ Blocks = {GET, MAKE, SET}
                   /\ GET # MAKE /\ MAKE # SET /\ GET # SET
                   /\ NextBlock(GET) = MAKE /\ NextBlock(MAKE) = SET
                   /\ NextBlock(SET) = GET
  BY ThreeBlocks DEF Blocks, GET, MAKE, SET, NextBlock, ProdID

LEMMA EltsOf ==
    ASSUME NEW r, NEW b, NEW x \in Nat, NEW y \in Nat, y <= x, x < y + EltNbr,
           r.In[b] = Place(x), r.Out[b] = Place(y)
    PROVE  NbElt(r, b) = x - y /\ NbEltCont(r, b) = x - y /\ (HasElt(r, b) <=> y < x)
  <1>0. EltNbr \in Nat /\ EltNbr > 0
    BY EltNbrAssumption
  <1>1. x - y = IF Place(x) >= Place(y) THEN Place(x) - Place(y)
                                        ELSE EltNbr + (Place(x) - Place(y))
    BY PlaceApart
  <1>2. Place(x) \in 0 .. EltNbr - 1 /\ Place(y) \in 0 .. EltNbr - 1
    BY PlaceIs DEF Slots
  <1>3. NbEltCont(r, b) = x - y
    BY <1>1 DEF NbEltCont
  <1>4. NbElt(r, b) = x - y
    BY <1>0, <1>1, <1>2 DEF NbElt, Wrap
  <1>5. HasElt(r, b) <=> y < x
    BY <1>1, <1>2, <1>0 DEF HasElt
  <1>. QED  BY <1>3, <1>4, <1>5

(* What the tests of a ring find.                                          *)
TestsFind(r, d, p, m, g) ==
    /\ NbElt(r, SET) = p - d /\ NbEltCont(r, SET) = p - d
    /\ NbEltCont(r, GET) = EltNbr - 1 - (m + g - d)
    /\ HasElt(r, SET) <=> d < p
    /\ HasElt(r, MAKE) <=> p < m
    /\ NbElt(r, MAKE) = m - p

LEMMA RingTests ==
    ASSUME NEW r, NEW d \in Nat, NEW p \in Nat, NEW m \in Nat, NEW g \in 0 .. 1,
           RingIs(r, d, p, m, g)
    PROVE  TestsFind(r, d, p, m, g)
  <1>0. EltNbr \in Nat /\ EltNbr > 1
    BY EltNbrAssumption
  <1>1. NbElt(r, SET) = p - d /\ NbEltCont(r, SET) = p - d /\ (HasElt(r, SET) <=> d < p)
    <2>1. p + 1 \in Nat /\ d + 1 \in Nat /\ d + 1 <= p + 1 /\ p + 1 < d + 1 + EltNbr
          /\ (p + 1) - (d + 1) = p - d /\ (d + 1 < p + 1 <=> d < p)
      BY <1>0 DEF RingIs
    <2>2. r.In[SET] = Place(p + 1) /\ r.Out[SET] = Place(d + 1)
      BY DEF RingIs
    <2>3. /\ NbElt(r, SET) = (p + 1) - (d + 1) /\ NbEltCont(r, SET) = (p + 1) - (d + 1)
          /\ HasElt(r, SET) <=> d + 1 < p + 1
      BY ONLY <2>1, <2>2, EltsOf, SMTT(30)
    <2>. QED  BY ONLY <2>1, <2>3
  <1>2. NbElt(r, MAKE) = m - p /\ (HasElt(r, MAKE) <=> p < m)
    <2>1. m + 1 \in Nat /\ p + 1 \in Nat /\ p + 1 <= m + 1 /\ m + 1 < p + 1 + EltNbr
          /\ (m + 1) - (p + 1) = m - p /\ (p + 1 < m + 1 <=> p < m)
      BY <1>0 DEF RingIs
    <2>2. r.In[MAKE] = Place(m + 1) /\ r.Out[MAKE] = Place(p + 1)
      BY DEF RingIs
    <2>3. /\ NbElt(r, MAKE) = (m + 1) - (p + 1) /\ NbEltCont(r, MAKE) = (m + 1) - (p + 1)
          /\ HasElt(r, MAKE) <=> p + 1 < m + 1
      BY ONLY <2>1, <2>2, EltsOf, SMTT(30)
    <2>. QED  BY ONLY <2>1, <2>3
  <1>3. NbEltCont(r, GET) = EltNbr - 1 - (m + g - d)
    <2>1. Place(d) = Place(d + EltNbr)
      <3>1. Wrap(Place(d) + EltNbr) = Place(d + EltNbr)
        BY PlaceWrap, <1>0
      <3>2. Place(d) \in 0 .. EltNbr - 1
        BY PlaceIs DEF Slots
      <3>. QED  BY <1>0, <3>1, <3>2 DEF Wrap
    <2>2. /\ d + EltNbr \in Nat /\ m + g + 1 \in Nat /\ m + g + 1 <= d + EltNbr
          /\ d + EltNbr < m + g + 1 + EltNbr
          /\ (d + EltNbr) - (m + g + 1) = EltNbr - 1 - (m + g - d)
      BY <1>0 DEF RingIs
    <2>3. r.In[GET] = Place(d + EltNbr) /\ r.Out[GET] = Place(m + g + 1)
      BY <2>1 DEF RingIs
    <2>4. PICK x \in Nat, y \in Nat : x = d + EltNbr /\ y = m + g + 1
      BY ONLY <2>2
    <2>5. y <= x /\ x < y + EltNbr /\ r.In[GET] = Place(x) /\ r.Out[GET] = Place(y)
      BY ONLY <2>2, <2>3, <2>4
    <2>6. NbEltCont(r, GET) = x - y
      BY ONLY <2>5, EltsOf, x \in Nat, y \in Nat
    <2>. QED  BY ONLY <2>2, <2>4, <2>6
  <1>. QED  BY <1>1, <1>2, <1>3 DEF TestsFind

LEMMA AfterGetIs ==
    ASSUME NEW r \in Rings, NEW b \in Blocks, NEW n
    PROVE  AfterGet(r, b, n) = [In |-> r.In, Out |-> [r.Out EXCEPT ![b] = Wrap(@ + n)]]
  BY DEF AfterGet, Rings

LEMMA AfterPutIs ==
    ASSUME NEW r \in Rings, NEW b \in Blocks, NEW n
    PROVE  AfterPut(r, b, n) = [In |-> [r.In EXCEPT ![NextBlock(b)] = Wrap(@ + n)],
                                Out |-> r.Out]
  BY DEF AfterPut, Rings

(* A Get and a Put of n elements that are there keep the ring a ring.      *)
LEMMA GetPutType ==
    ASSUME NEW r \in Rings, NEW b \in Blocks, NEW n \in 0 .. EltNbr
    PROVE  AfterGet(r, b, n) \in Rings /\ AfterPut(r, b, n) \in Rings
  <1>0. EltNbr \in Nat /\ EltNbr > 1
    BY EltNbrAssumption
  <1>1. r.In \in [Blocks -> Slots] /\ r.Out \in [Blocks -> Slots]
    BY DEF Rings
  <1>2. \A i \in Slots : Wrap(i + n) \in Slots
    BY <1>0 DEF Slots, Wrap
  <1>3. NextBlock(b) \in Blocks
    BY BlocksAre
  <1>4. [r.Out EXCEPT ![b] = Wrap(@ + n)] \in [Blocks -> Slots]
    BY <1>1, <1>2
  <1>5. [r.In EXCEPT ![NextBlock(b)] = Wrap(@ + n)] \in [Blocks -> Slots]
    BY <1>1, <1>2, <1>3
  <1>. QED  BY <1>1, <1>4, <1>5, AfterGetIs, AfterPutIs DEF Rings

(* CO_SharedFifoGet and CO_SharedFifoPut as the four stages use them.      *)
LEMMA RingGot ==
    ASSUME NEW r \in Rings, NEW d \in Nat, NEW p \in Nat, NEW m \in Nat,
           RingIs(r, d, p, m, 0), m + 1 - d < EltNbr
    PROVE  AfterGet(r, GET, 1) \in Rings /\ RingIs(AfterGet(r, GET, 1), d, p, m, 1)
  <1>0. EltNbr \in Nat /\ EltNbr > 1 /\ 1 \in 0 .. EltNbr
    BY EltNbrAssumption
  <1>1. AfterGet(r, GET, 1) = [In |-> r.In, Out |-> [r.Out EXCEPT ![GET] = Wrap(@ + 1)]]
    BY AfterGetIs, BlocksAre
  <1>2. r.Out \in [Blocks -> Slots]
    BY DEF Rings
  <1>3. Wrap(Place(m + 0 + 1) + 1) = Place(m + 1 + 1)
    <2>1. m + 1 \in Nat /\ m + 0 + 1 = m + 1
      OBVIOUS
    <2>2. Wrap(Place(m + 1) + 1) = Place((m + 1) + 1)
      BY ONLY <2>1, <1>0, PlaceWrap
    <2>. QED  BY <2>1, <2>2
  <1>4. /\ AfterGet(r, GET, 1).In = r.In
        /\ AfterGet(r, GET, 1).Out[GET] = Place(m + 1 + 1)
        /\ AfterGet(r, GET, 1).Out[MAKE] = r.Out[MAKE]
        /\ AfterGet(r, GET, 1).Out[SET] = r.Out[SET]
    BY <1>1, <1>2, <1>3, BlocksAre DEF RingIs
  <1>5. AfterGet(r, GET, 1) \in Rings
    BY <1>0, GetPutType, BlocksAre
  <1>. QED  BY <1>4, <1>5 DEF RingIs

LEMMA RingPut ==
    ASSUME NEW r \in Rings, NEW d \in Nat, NEW p \in Nat, NEW m \in Nat,
           RingIs(r, d, p, m, 1)
    PROVE  AfterPut(r, GET, 1) \in Rings /\ RingIs(AfterPut(r, GET, 1), d, p, m + 1, 0)
  <1>0. EltNbr \in Nat /\ EltNbr > 1 /\ 1 \in 0 .. EltNbr
    BY EltNbrAssumption
  <1>1. AfterPut(r, GET, 1) = [In |-> [r.In EXCEPT ![MAKE] = Wrap(@ + 1)], Out |-> r.Out]
    BY AfterPutIs, BlocksAre
  <1>2. r.In \in [Blocks -> Slots]
    BY DEF Rings
  <1>3. Wrap(Place(m + 1) + 1) = Place(m + 1 + 1)
    BY <1>0, PlaceWrap
  <1>4. /\ AfterPut(r, GET, 1).Out = r.Out
        /\ AfterPut(r, GET, 1).In[MAKE] = Place(m + 1 + 1)
        /\ AfterPut(r, GET, 1).In[GET] = r.In[GET]
        /\ AfterPut(r, GET, 1).In[SET] = r.In[SET]
    BY <1>1, <1>2, <1>3, BlocksAre DEF RingIs
  <1>5. AfterPut(r, GET, 1) \in Rings
    BY <1>0, GetPutType, BlocksAre
  <1>6. m + 1 + 0 + 1 = m + 1 + 1 /\ p <= m + 1 /\ m + 1 + 0 - d < EltNbr
    BY DEF RingIs
  <1>. QED  BY <1>4, <1>5, <1>6 DEF RingIs

LEMMA RingPromoted ==
    ASSUME NEW r \in Rings, NEW d \in Nat, NEW p \in Nat, NEW m \in Nat, NEW g \in 0 .. 1,
           RingIs(r, d, p, m, g), p < m
    PROVE  /\ AfterPut(AfterGet(r, MAKE, 1), MAKE, 1) \in Rings
           /\ RingIs(AfterPut(AfterGet(r, MAKE, 1), MAKE, 1), d, p + 1, m, g)
  <1>0. EltNbr \in Nat /\ EltNbr > 1 /\ 1 \in 0 .. EltNbr
    BY EltNbrAssumption
  <1>. DEFINE a == AfterGet(r, MAKE, 1)
  <1>. DEFINE b == AfterPut(a, MAKE, 1)
  <1>1. a = [In |-> r.In, Out |-> [r.Out EXCEPT ![MAKE] = Wrap(@ + 1)]] /\ a \in Rings
    BY <1>0, AfterGetIs, GetPutType, BlocksAre
  <1>2. b = [In |-> [a.In EXCEPT ![SET] = Wrap(@ + 1)], Out |-> a.Out] /\ b \in Rings
    BY <1>0, <1>1, AfterPutIs, GetPutType, BlocksAre
  <1>3. Wrap(Place(p + 1) + 1) = Place(p + 1 + 1)
    BY <1>0, PlaceWrap
  <1>4. r.In \in [Blocks -> Slots] /\ r.Out \in [Blocks -> Slots]
    BY DEF Rings
  <1>5. /\ b.In[SET] = Place(p + 1 + 1) /\ b.In[GET] = r.In[GET] /\ b.In[MAKE] = r.In[MAKE]
        /\ b.Out[MAKE] = Place(p + 1 + 1) /\ b.Out[GET] = r.Out[GET]
        /\ b.Out[SET] = r.Out[SET]
    BY <1>1, <1>2, <1>3, <1>4, BlocksAre DEF RingIs
  <1>6. d <= p + 1 /\ p + 1 <= m
    BY DEF RingIs
  <1>. QED  BY <1>2, <1>5, <1>6 DEF RingIs

LEMMA RingSent ==
    ASSUME NEW r \in Rings, NEW d \in Nat, NEW p \in Nat, NEW m \in Nat, NEW g \in 0 .. 1,
           RingIs(r, d, p, m, g), NEW n \in Nat, n <= p - d
    PROVE  /\ AfterPut(AfterGet(r, SET, n), SET, n) \in Rings
           /\ RingIs(AfterPut(AfterGet(r, SET, n), SET, n), d + n, p, m, g)
  <1>0. EltNbr \in Nat /\ EltNbr > 1 /\ n \in 0 .. EltNbr
    BY EltNbrAssumption DEF RingIs
  <1>. DEFINE a == AfterGet(r, SET, n)
  <1>. DEFINE b == AfterPut(a, SET, n)
  <1>1. a = [In |-> r.In, Out |-> [r.Out EXCEPT ![SET] = Wrap(@ + n)]] /\ a \in Rings
    <2>1. SET \in Blocks
      BY BlocksAre
    <2>. QED  BY ONLY <1>0, <2>1, AfterGetIs, GetPutType, r \in Rings
  <1>2. b = [In |-> [a.In EXCEPT ![GET] = Wrap(@ + n)], Out |-> a.Out] /\ b \in Rings
    <2>1. SET \in Blocks /\ NextBlock(SET) = GET
      BY BlocksAre
    <2>. QED  BY ONLY <1>0, <1>1, <2>1, AfterPutIs, GetPutType
  <1>3. Wrap(Place(d + 1) + n) = Place(d + n + 1) /\ Wrap(Place(d) + n) = Place(d + n)
    <2>1. d + 1 \in Nat /\ d + 1 + n = d + n + 1
      OBVIOUS
    <2>2. Wrap(Place(d + 1) + n) = Place((d + 1) + n) /\ Wrap(Place(d) + n) = Place(d + n)
      BY ONLY <2>1, <1>0, PlaceWrap, d \in Nat
    <2>. QED  BY <2>1, <2>2
  <1>4. r.In \in [Blocks -> Slots] /\ r.Out \in [Blocks -> Slots]
    BY DEF Rings
  <1>5. /\ b.In[GET] = Place(d + n) /\ b.In[SET] = r.In[SET] /\ b.In[MAKE] = r.In[MAKE]
        /\ b.Out[SET] = Place(d + n + 1) /\ b.Out[GET] = r.Out[GET]
        /\ b.Out[MAKE] = r.Out[MAKE]
    BY <1>1, <1>2, <1>3, <1>4, BlocksAre DEF RingIs
  <1>6. d + n <= p /\ m + g - (d + n) < EltNbr
    BY <1>0 DEF RingIs
  <1>. QED  BY <1>2, <1>5, <1>6 DEF RingIs

-----------------------------------------------------------------------------
(* What the invariant says of one queue.                                   *)

LEMMA ConstantsAre ==
    /\ MaxFrames \in Nat \ {0} /\ QueueNbr \in Nat \ {0} /\ MaxAgg \in Nat \ {0}
    /\ IdNbr \in Nat \ {0} /\ Nodes \in Nat /\ Nodes >= IdNbr
    /\ PageNbr \in Nat /\ FramePages \in Nat /\ SgMax \in Nat /\ SgPages \in Nat
    /\ 0 \in Queues /\ TopQ \in Queues /\ 0 \in Ids
  BY HalTxAssumption DEF Queues, TopQ, Ids

LEMMA Numbers ==
    ASSUME Types, NEW q \in Queues, RingAt(q)
    PROVE  /\ idx[q] \in Rings /\ Down(q) \in Nat /\ Prom(q) \in Nat
           /\ made[q] \in Nat /\ Got(q) \in 0 .. 1
           /\ Down(q) <= Prom(q) /\ Prom(q) <= made[q]
           /\ Waits(q) <=> Prom(q) < made[q]
           /\ HasElt(idx[q], SET) <=> Down(q) < Prom(q)
           /\ NbElt(idx[q], SET) = Prom(q) - Down(q)
           /\ NbEltCont(idx[q], SET) = Prom(q) - Down(q)
           /\ NbEltCont(idx[q], GET) = EltNbr - 1 - (made[q] + Got(q) - Down(q))
  <1>0. EltNbr \in Nat /\ EltNbr > 1
    BY EltNbrAssumption
  <1>1. idx[q] \in Rings /\ Down(q) \in Nat /\ made[q] \in Nat /\ Got(q) \in 0 .. 1
    BY DEF Types, Down, Got
  <1>2. Prom(q) \in Nat
    <2>1. idx[q].In[SET] \in Slots /\ idx[q].Out[SET] \in Slots
      BY <1>1, BlocksAre DEF Rings
    <2>2. NbElt(idx[q], SET) \in Nat
      BY <1>0, <2>1 DEF NbElt, Wrap, Slots
    <2>. QED  BY <1>1, <2>2 DEF Prom
  <1>3. RingIs(idx[q], Down(q), Prom(q), made[q], Got(q))
    BY DEF RingAt
  <1>4. Down(q) <= Prom(q) /\ Prom(q) <= made[q]
    BY <1>3 DEF RingIs
  <1>5. TestsFind(idx[q], Down(q), Prom(q), made[q], Got(q))
    BY ONLY <1>1, <1>2, <1>3, RingTests
  <1>. QED  BY <1>1, <1>2, <1>4, <1>5 DEF Waits, TestsFind

LEMMA FrameIs ==
    ASSUME NEW f \in Frames
    PROVE  f.q \in Queues /\ f.n \in 1 .. MaxFrames /\ f = Frame(f.q, f.n)
  BY DEF Frames, Frame

LEMMA FrameOf ==
    ASSUME NEW q \in Queues, NEW n \in 1 .. MaxFrames
    PROVE  Frame(q, n) \in Frames /\ Frame(q, n).q = q /\ Frame(q, n).n = n
  BY DEF Frames, Frame

LEMMA MadeBound ==
    ASSUME Types, AggInv, NEW q \in Queues
    PROVE  /\ made[q] \in 0 .. load.frames[q] /\ load.frames[q] \in 0 .. MaxFrames
           /\ Filling(q) => made[q] < load.frames[q]
  <1>1. load.frames[q] \in 0 .. MaxFrames
    BY LoadsAssumption DEF Types
  <1>2. made[q] \in Nat /\ fill[q].left \in Nat
    BY DEF Types, Fills
  <1>3. AggAt(q)
    BY DEF AggInv
  <1>. QED  BY <1>1, <1>2, <1>3 DEF AggAt

(* The frame whose turn it is to be given an id,                           *)
LEMMA FirstWaiting ==
    ASSUME Types, RingInv, NEW q \in Queues, Waits(q)
    PROVE  slot[q][Pick(idx[q], MAKE)] = Frame(q, Prom(q) + 1)
  <1>1. RingAt(q)
    BY DEF RingInv
  <1>2. Prom(q) + 1 \in Down(q) + 1 .. made[q]
    BY <1>1, Numbers
  <1>3. Pick(idx[q], MAKE) = Place(Prom(q) + 1)
    BY <1>1 DEF RingAt, RingIs, Pick
  <1>. QED  BY <1>1, <1>2, <1>3 DEF RingAt

(* and those that wait for the firmware.                                   *)
LEMMA WaitInSet ==
    ASSUME Types, RingInv, NEW q \in Queues, NEW k \in 1 .. NbElt(idx[q], SET)
    PROVE  slot[q][Wrap(Pick(idx[q], SET) + k - 1)] = Frame(q, Down(q) + k)
  <1>0. EltNbr \in Nat /\ EltNbr > 1
    BY EltNbrAssumption
  <1>1. RingAt(q)
    BY DEF RingInv
  <1>2. /\ Down(q) \in Nat /\ Prom(q) \in Nat /\ made[q] \in Nat /\ Got(q) \in 0 .. 1
        /\ Down(q) + k <= Prom(q) /\ Prom(q) <= made[q] /\ k \in Nat
        /\ Down(q) + k \in Down(q) + 1 .. made[q]
    BY <1>1, Numbers
  <1>3. Pick(idx[q], SET) = Place(Down(q) + 1) /\ made[q] + Got(q) - Down(q) < EltNbr
    BY <1>1 DEF RingAt, RingIs, Pick
  <1>4. Wrap(Place(Down(q) + 1) + (k - 1)) = Place((Down(q) + 1) + (k - 1))
    <2>1. Down(q) + 1 \in Nat /\ k - 1 \in 0 .. EltNbr
      BY <1>0, <1>2, <1>3
    <2>. QED  BY <2>1, PlaceWrap
  <1>5. (Down(q) + 1) + (k - 1) = Down(q) + k
    BY <1>2
  <1>6. Place(Down(q) + 1) + (k - 1) = Place(Down(q) + 1) + k - 1
    <2>1. Place(Down(q) + 1) \in Int
      BY <1>2, PlaceIs DEF Slots
    <2>. QED  BY <1>2, <2>1
  <1>. QED  BY <1>1, <1>2, <1>3, <1>4, <1>5, <1>6 DEF RingAt

-----------------------------------------------------------------------------
(* Steps that leave a part of the invariant alone.                         *)

LEMMA NumbersKept ==
    ASSUME NEW q \in Queues, hist'.down[q] = hist.down[q], idx'[q] = idx[q]
    PROVE  Down(q)' = Down(q) /\ Prom(q)' = Prom(q)
  BY DEF Down, Prom, NbElt, Wrap

LEMMA RingAtKept ==
    ASSUME NEW q \in Queues, RingAt(q), hist'.down[q] = hist.down[q],
           idx'[q] = idx[q], slot'[q] = slot[q], made'[q] = made[q],
           fill'[q].pc = fill[q].pc, fill'[q].slot = fill[q].slot
    PROVE  RingAt(q)'
  <1>1. Down(q)' = Down(q) /\ Prom(q)' = Prom(q)
    BY NumbersKept
  <1>2. Got(q)' = Got(q)
    BY DEF Got
  <1>. QED  BY <1>1, <1>2 DEF RingAt, RingIs, Place

LEMMA RingKept ==
    ASSUME RingInv, hist'.down = hist.down, UNCHANGED <<idx, slot, made, fill>>
    PROVE  RingInv'
  BY RingAtKept DEF RingInv

LEMMA EndsKept ==
    ASSUME NEW q \in Queues, Down(q)' = Down(q), Whole(q)' = Whole(q),
           Whole(q) \in 0 .. MaxFrames, NEW ends \in SUBSET (0 .. Whole(q)),
           \A n \in 1 .. Whole(q) : desc'[Frame(q, n)].agg = desc[Frame(q, n)].agg,
           IsEnds(q, ends)
    PROVE  IsEnds(q, ends)'
  <1>1. \A e \in ends \ {Whole(q)} : desc'[Frame(q, e + 1)].agg = desc[Frame(q, e + 1)].agg
    <2>1. \A e \in ends \ {Whole(q)} : e + 1 \in 1 .. Whole(q)
      OBVIOUS
    <2>. QED  BY <2>1
  <1>. QED  BY <1>1 DEF IsEnds, Frame

LEMMA WholeIs ==
    ASSUME Types, AggInv, NEW q \in Queues
    PROVE  Whole(q) \in 0 .. made[q] /\ made[q] \in 0 .. MaxFrames
  <1>1. made[q] \in 0 .. MaxFrames /\ fill[q].first \in Nat \ {0}
    BY DEF Types, Fills
  <1>2. AggAt(q)
    BY DEF AggInv
  <1>. QED  BY <1>1, <1>2 DEF AggAt, Whole

LEMMA AggAtKept ==
    ASSUME Types, AggInv, NEW q \in Queues, Down(q)' = Down(q), made'[q] = made[q],
           fill'[q] = fill[q], load' = load,
           \A n \in 1 .. made[q] : desc'[Frame(q, n)].agg = desc[Frame(q, n)].agg
    PROVE  AggAt(q)'
  <1>1. AggAt(q)
    BY DEF AggInv
  <1>2. Whole(q) \in 0 .. made[q] /\ made[q] \in 0 .. MaxFrames /\ fill[q].first \in Nat \ {0}
    BY WholeIs DEF Types, Fills
  <1>3. Whole(q)' = Whole(q) /\ (Filling(q)' <=> Filling(q))
    BY DEF Whole, Filling
  <1>4. PICK ends \in SUBSET (0 .. Whole(q)) : IsEnds(q, ends)
    BY <1>1 DEF AggAt
  <1>5. IsEnds(q, ends)'
    <2>1. \A n \in 1 .. Whole(q) : desc'[Frame(q, n)].agg = desc[Frame(q, n)].agg
      BY <1>2
    <2>2. Whole(q) \in 0 .. MaxFrames
      BY <1>2, ConstantsAre
    <2>. QED  BY <1>3, <1>4, <2>1, <2>2, EndsKept
  <1>6. \E e \in SUBSET (0 .. Whole(q)') : IsEnds(q, e)'
    BY <1>3, <1>4, <1>5
  <1>7. Filling(q) => \A n \in fill[q].first .. made[q] : desc'[Frame(q, n)].agg = fill[q].agg
    <2>1. \A n \in fill[q].first .. made[q] : n \in 1 .. made[q]
      BY <1>2
    <2>. QED  BY <1>1, <2>1 DEF AggAt
  <1>. QED  BY <1>1, <1>3, <1>6, <1>7 DEF AggAt, Frame

LEMMA AggKept ==
    ASSUME Types, AggInv, hist'.down = hist.down, UNCHANGED <<load, made, fill>>,
           \A f \in Frames : desc'[f].agg = desc[f].agg
    PROVE  AggInv'
  <1>1. ASSUME NEW q \in Queues PROVE AggAt(q)'
    <2>1. Down(q)' = Down(q)
      BY DEF Down
    <2>2. \A n \in 1 .. made[q] : desc'[Frame(q, n)].agg = desc[Frame(q, n)].agg
      <3>1. \A n \in 1 .. made[q] : n \in 1 .. MaxFrames
        BY WholeIs, ConstantsAre
      <3>. QED  BY <3>1, FrameOf
    <2>. QED  BY <2>1, <2>2, AggAtKept
  <1>. QED  BY <1>1 DEF AggInv

LEMMA IdKept ==
    ASSUME Types, IdInv, hist'.down = hist.down, hist'.handled = hist.handled,
           UNCHANGED <<ids, desc>>, \A q \in Queues : Prom(q)' = Prom(q)
    PROVE  IdInv'
  <1>1. Handled' = Handled /\ Handled \subseteq Frames
    BY DEF Handled, RangeOf, Types
  <1>2. \A q \in Queues : Down(q)' = Down(q)
    BY DEF Down
  <1>3. \A f \in Frames : f.q \in Queues
    BY FrameIs
  <1>4. \A i \in IdsUsed : ids[i] \in Frames
    BY DEF Types
  <1>. QED  BY <1>1, <1>2, <1>3, <1>4 DEF IdInv, IdsUsed

LEMMA OutSetKept ==
    ASSUME Types, hist'.down = hist.down, ids' = ids
    PROVE  Out' = Out
  BY DEF Out, IsOut, IdsUsed, Down

LEMMA OutKept ==
    ASSUME Types, OutInv, hist'.down = hist.down, ids' = ids, status' = status,
           chip'.has = chip.has, chip'.done = chip.done, irq'.scat = irq.scat,
           Hand' = Hand, irq'.pc \notin {"set", "send"} => irq.scat = <<>>
    PROVE  OutInv'
  <1>1. Out' = Out
    BY OutSetKept
  <1>. QED  BY <1>1 DEF OutInv, RangeOf, Inj

LEMMA CountsKept ==
    ASSUME Counts, hist'.down = hist.down, UNCHANGED <<num, pages, made>>,
           chip'.has = chip.has, chip'.done = chip.done, irq'.scat = irq.scat
    PROVE  Counts'
  BY DEF Counts, MadeSet, DownSet, Down

-----------------------------------------------------------------------------
(* Steps that only move a thread on.                                       *)

Chips == [has : SUBSET Entries, done : Seq(Entries), bit : BOOLEAN]
Txoks == [pc : {"down", "take", "free", "test"}, entry : Entries \cup {NoEntry}]

LEMMA PrevQueue == \A q \in Queues : q # 0 => q - 1 \in Queues
  <1>1. QueueNbr \in Nat
    BY ConstantsAre
  <1>. QED  BY ONLY <1>1 DEF Queues

LEMMA ThreadTypes ==
    ASSUME Types, UNCHANGED <<load, idx, slot, desc, made, fill, ids, num, pages, status>>,
           hist'.down = hist.down, hist'.handled = hist.handled, flush' = flush,
           sem' \in Nat, txsem' \in Nat, irq' \in Irqs,
           lock' = IF irq'.pc \in Locked THEN "irq" ELSE "free", lastq' \in Queues,
           {upreq', drop', paused'} \subseteq BOOLEAN,
           chip' \in Chips, txok' \in Txoks, Hand' = Hand
    PROVE  Types'
  <1>1. txok'.pc = "free" => txok'.entry \in Entries
    BY DEF Types, Hand
  <1>2. /\ load' \in Loads /\ idx' \in [Queues -> Rings]
        /\ slot' \in [Queues -> [Slots -> Frames]] /\ desc' \in [Frames -> Descs]
        /\ made' \in [Queues -> 0 .. MaxFrames] /\ fill' \in [Queues -> Fills]
        /\ DOMAIN ids' \subseteq Ids /\ ids' \in [DOMAIN ids' -> Frames]
        /\ pages' \in Nat /\ num' \in [send : Nat, done : Nat, free : Nat]
        /\ status' \in Seq(Entries) /\ flush'.pc = "off" /\ flush'.calls = 0
        /\ hist'.handled \in Seq(Frames) /\ hist'.down \in [Queues -> Seq(Frames)]
    BY DEF Types, IdsUsed
  <1>. QED  BY <1>1, <1>2 DEF Types, IdsUsed, Chips, Txoks

LEMMA QuietStep ==
    ASSUME HalInv, load' = load, hist'.down = hist.down, hist'.handled = hist.handled,
           UNCHANGED <<idx, slot, desc, made, fill, ids, num, pages, status>>,
           chip'.has = chip.has, chip'.done = chip.done, irq'.scat = irq.scat,
           Hand' = Hand, irq'.pc \notin {"set", "send"} => irq.scat = <<>>
    PROVE  RingInv' /\ AggInv' /\ IdInv' /\ OutInv' /\ Counts'
  <1>1. RingInv' /\ AggInv'
    BY RingKept, AggKept DEF HalInv
  <1>2. \A q \in Queues : Prom(q)' = Prom(q)
    BY NumbersKept
  <1>3. IdInv' /\ OutInv' /\ Counts'
    BY <1>2, IdKept, OutKept, CountsKept DEF HalInv
  <1>. QED  BY <1>1, <1>3

LEMMA IrqDownStep == ASSUME HalInv, IrqDown, load' = load PROVE HalInv'
  <1>1. /\ hist'.down = hist.down /\ hist'.handled = hist.handled
        /\ UNCHANGED <<idx, slot, desc, made, fill, ids, num, pages, status, flush>>
        /\ chip'.has = chip.has /\ chip'.done = chip.done
    BY DEF HalInv, Types, IrqDown, fillVars, txokVars, irqVars
  <1>2. /\ irq' \in Irqs /\ lastq' \in Queues
        /\ lock' = IF irq'.pc \in Locked THEN "irq" ELSE "free"
    <2>1. irq \in Irqs /\ lastq \in Queues
          /\ lock = IF irq.pc \in Locked THEN "irq" ELSE "free"
      BY DEF HalInv, Types
    <2>2. irq' \in Irqs /\ lastq' \in Queues
      BY <2>1, PrevQueue DEF IrqDown, Irqs, Locked, irqVars
    <2>3. lock' = IF irq'.pc \in Locked THEN "irq" ELSE "free"
      BY <2>1 DEF IrqDown, Irqs, Locked, irqVars
    <2>. QED  BY <2>2, <2>3
  <1>3. irq'.scat = irq.scat /\ (irq'.pc \notin {"set", "send"} => irq.scat = <<>>)
    BY DEF HalInv, Types, IrqDown, Irqs, OutInv, irqVars
  <1>4. Hand' = Hand
    BY DEF HalInv, Types, IrqDown, Hand, txokVars
  <1>5. sem' \in Nat /\ txsem' \in Nat /\ {upreq', drop', paused'} \subseteq BOOLEAN
    BY DEF HalInv, Types, IrqDown, txokVars
  <1>6. chip' \in Chips /\ txok' \in Txoks
    BY DEF HalInv, Types, IrqDown, txokVars, Chips, Txoks
  <1>7. Types'
    BY <1>1, <1>2, <1>4, <1>5, <1>6, ThreadTypes DEF HalInv
  <1>. QED  BY <1>1, <1>3, <1>4, <1>7, QuietStep DEF HalInv

LEMMA ReadStatusStep == ASSUME HalInv, ReadStatus, load' = load PROVE HalInv'
  <1>1. /\ hist'.down = hist.down /\ hist'.handled = hist.handled
        /\ UNCHANGED <<idx, slot, desc, made, fill, ids, num, pages, status, flush>>
        /\ chip'.has = chip.has /\ chip'.done = chip.done
    BY DEF HalInv, Types, ReadStatus, fillVars, txokVars, irqVars
  <1>2. /\ irq' \in Irqs /\ lastq' \in Queues
        /\ lock' = IF irq'.pc \in Locked THEN "irq" ELSE "free"
    <2>1. irq \in Irqs /\ lastq \in Queues
          /\ lock = IF irq.pc \in Locked THEN "irq" ELSE "free"
      BY DEF HalInv, Types
    <2>2. irq' \in Irqs /\ lastq' \in Queues
      BY <2>1, PrevQueue DEF ReadStatus, Irqs, Locked, irqVars
    <2>3. lock' = IF irq'.pc \in Locked THEN "irq" ELSE "free"
      BY <2>1 DEF ReadStatus, Irqs, Locked, irqVars
    <2>. QED  BY <2>2, <2>3
  <1>3. irq'.scat = irq.scat /\ (irq'.pc \notin {"set", "send"} => irq.scat = <<>>)
    BY DEF HalInv, Types, ReadStatus, Irqs, OutInv, irqVars
  <1>4. Hand' = Hand
    BY DEF HalInv, Types, ReadStatus, Hand, txokVars
  <1>5. sem' \in Nat /\ txsem' \in Nat /\ {upreq', drop', paused'} \subseteq BOOLEAN
    BY DEF HalInv, Types, ReadStatus, txokVars
  <1>6. chip' \in Chips /\ txok' \in Txoks
    BY DEF HalInv, Types, ReadStatus, txokVars, Chips, Txoks
  <1>7. Types'
    BY <1>1, <1>2, <1>4, <1>5, <1>6, ThreadTypes DEF HalInv
  <1>. QED  BY <1>1, <1>3, <1>4, <1>7, QuietStep DEF HalInv

LEMMA GateStep == ASSUME HalInv, Gate, load' = load PROVE HalInv'
  <1>1. /\ hist'.down = hist.down /\ hist'.handled = hist.handled
        /\ UNCHANGED <<idx, slot, desc, made, fill, ids, num, pages, status, flush>>
        /\ chip'.has = chip.has /\ chip'.done = chip.done
    BY DEF HalInv, Types, Gate, fillVars, txokVars, irqVars
  <1>2. /\ irq' \in Irqs /\ lastq' \in Queues
        /\ lock' = IF irq'.pc \in Locked THEN "irq" ELSE "free"
    <2>1. irq \in Irqs /\ lastq \in Queues
          /\ lock = IF irq.pc \in Locked THEN "irq" ELSE "free"
      BY DEF HalInv, Types
    <2>2. irq' \in Irqs /\ lastq' \in Queues
      BY <2>1, PrevQueue DEF Gate, Irqs, Locked, irqVars
    <2>3. lock' = IF irq'.pc \in Locked THEN "irq" ELSE "free"
      BY <2>1 DEF Gate, Irqs, Locked, irqVars
    <2>. QED  BY <2>2, <2>3
  <1>3. irq'.scat = irq.scat /\ (irq'.pc \notin {"set", "send"} => irq.scat = <<>>)
    BY DEF HalInv, Types, Gate, Irqs, OutInv, irqVars
  <1>4. Hand' = Hand
    BY DEF HalInv, Types, Gate, Hand, txokVars
  <1>5. sem' \in Nat /\ txsem' \in Nat /\ {upreq', drop', paused'} \subseteq BOOLEAN
    BY DEF HalInv, Types, Gate, txokVars
  <1>6. chip' \in Chips /\ txok' \in Txoks
    BY DEF HalInv, Types, Gate, txokVars, Chips, Txoks
  <1>7. Types'
    BY <1>1, <1>2, <1>4, <1>5, <1>6, ThreadTypes DEF HalInv
  <1>. QED  BY <1>1, <1>3, <1>4, <1>7, QuietStep DEF HalInv

LEMMA EnterStep == ASSUME HalInv, Enter, load' = load PROVE HalInv'
  <1>1. /\ hist'.down = hist.down /\ hist'.handled = hist.handled
        /\ UNCHANGED <<idx, slot, desc, made, fill, ids, num, pages, status, flush>>
        /\ chip'.has = chip.has /\ chip'.done = chip.done
    BY DEF HalInv, Types, Enter, fillVars, txokVars, irqVars
  <1>2. /\ irq' \in Irqs /\ lastq' \in Queues
        /\ lock' = IF irq'.pc \in Locked THEN "irq" ELSE "free"
    <2>0. 2 * QueueNbr \in Int
      BY ConstantsAre
    <2>1. irq \in Irqs /\ lastq \in Queues
          /\ lock = IF irq.pc \in Locked THEN "irq" ELSE "free"
      BY DEF HalInv, Types
    <2>2. irq' \in Irqs /\ lastq' \in Queues
      BY <2>1, <2>0, PrevQueue DEF Enter, Irqs, Locked, irqVars
    <2>3. lock' = IF irq'.pc \in Locked THEN "irq" ELSE "free"
      BY <2>1 DEF Enter, Irqs, Locked, irqVars
    <2>. QED  BY <2>2, <2>3
  <1>3. irq'.scat = irq.scat /\ (irq'.pc \notin {"set", "send"} => irq.scat = <<>>)
    BY DEF HalInv, Types, Enter, Irqs, OutInv, irqVars
  <1>4. Hand' = Hand
    BY DEF HalInv, Types, Enter, Hand, txokVars
  <1>5. sem' \in Nat /\ txsem' \in Nat /\ {upreq', drop', paused'} \subseteq BOOLEAN
    BY DEF HalInv, Types, Enter, txokVars
  <1>6. chip' \in Chips /\ txok' \in Txoks
    BY DEF HalInv, Types, Enter, txokVars, Chips, Txoks
  <1>7. Types'
    BY <1>1, <1>2, <1>4, <1>5, <1>6, ThreadTypes DEF HalInv
  <1>. QED  BY <1>1, <1>3, <1>4, <1>7, QuietStep DEF HalInv

LEMMA AskForUpStep == ASSUME HalInv, AskForUp, load' = load PROVE HalInv'
  <1>1. /\ hist'.down = hist.down /\ hist'.handled = hist.handled
        /\ UNCHANGED <<idx, slot, desc, made, fill, ids, num, pages, status, flush>>
        /\ chip'.has = chip.has /\ chip'.done = chip.done
    BY DEF HalInv, Types, AskForUp, fillVars, txokVars, irqVars
  <1>2. /\ irq' \in Irqs /\ lastq' \in Queues
        /\ lock' = IF irq'.pc \in Locked THEN "irq" ELSE "free"
    <2>1. irq \in Irqs /\ lastq \in Queues
          /\ lock = IF irq.pc \in Locked THEN "irq" ELSE "free"
      BY DEF HalInv, Types
    <2>2. irq' \in Irqs /\ lastq' \in Queues
      BY <2>1, PrevQueue DEF AskForUp, Irqs, Locked, irqVars
    <2>3. lock' = IF irq'.pc \in Locked THEN "irq" ELSE "free"
      BY <2>1 DEF AskForUp, Irqs, Locked, irqVars
    <2>. QED  BY <2>2, <2>3
  <1>3. irq'.scat = irq.scat /\ (irq'.pc \notin {"set", "send"} => irq.scat = <<>>)
    BY DEF HalInv, Types, AskForUp, Irqs, OutInv, irqVars
  <1>4. Hand' = Hand
    BY DEF HalInv, Types, AskForUp, Hand, txokVars
  <1>5. sem' \in Nat /\ txsem' \in Nat /\ {upreq', drop', paused'} \subseteq BOOLEAN
    BY DEF HalInv, Types, AskForUp, txokVars
  <1>6. chip' \in Chips /\ txok' \in Txoks
    BY DEF HalInv, Types, AskForUp, txokVars, Chips, Txoks
  <1>7. Types'
    BY <1>1, <1>2, <1>4, <1>5, <1>6, ThreadTypes DEF HalInv
  <1>. QED  BY <1>1, <1>3, <1>4, <1>7, QuietStep DEF HalInv

LEMMA QueueDoneStep == ASSUME HalInv, QueueDone, load' = load PROVE HalInv'
  <1>1. /\ hist'.down = hist.down /\ hist'.handled = hist.handled
        /\ UNCHANGED <<idx, slot, desc, made, fill, ids, num, pages, status, flush>>
        /\ chip'.has = chip.has /\ chip'.done = chip.done
    BY DEF HalInv, Types, QueueDone, fillVars, txokVars, irqVars
  <1>2. /\ irq' \in Irqs /\ lastq' \in Queues
        /\ lock' = IF irq'.pc \in Locked THEN "irq" ELSE "free"
    <2>1. irq \in Irqs /\ lastq \in Queues
          /\ lock = IF irq.pc \in Locked THEN "irq" ELSE "free"
      BY DEF HalInv, Types
    <2>2. irq' \in Irqs /\ lastq' \in Queues
      BY <2>1, PrevQueue DEF QueueDone, Irqs, Locked, irqVars
    <2>3. lock' = IF irq'.pc \in Locked THEN "irq" ELSE "free"
      BY <2>1 DEF QueueDone, Irqs, Locked, irqVars
    <2>. QED  BY <2>2, <2>3
  <1>3. irq'.scat = irq.scat /\ (irq'.pc \notin {"set", "send"} => irq.scat = <<>>)
    BY DEF HalInv, Types, QueueDone, Irqs, OutInv, irqVars
  <1>4. Hand' = Hand
    BY DEF HalInv, Types, QueueDone, Hand, txokVars
  <1>5. sem' \in Nat /\ txsem' \in Nat /\ {upreq', drop', paused'} \subseteq BOOLEAN
    BY DEF HalInv, Types, QueueDone, txokVars
  <1>6. chip' \in Chips /\ txok' \in Txoks
    BY DEF HalInv, Types, QueueDone, txokVars, Chips, Txoks
  <1>7. Types'
    BY <1>1, <1>2, <1>4, <1>5, <1>6, ThreadTypes DEF HalInv
  <1>. QED  BY <1>1, <1>3, <1>4, <1>7, QuietStep DEF HalInv

LEMMA RelockStep == ASSUME HalInv, Relock, load' = load PROVE HalInv'
  <1>1. /\ hist'.down = hist.down /\ hist'.handled = hist.handled
        /\ UNCHANGED <<idx, slot, desc, made, fill, ids, num, pages, status, flush>>
        /\ chip'.has = chip.has /\ chip'.done = chip.done
    BY DEF HalInv, Types, Relock, fillVars, txokVars, irqVars
  <1>2. /\ irq' \in Irqs /\ lastq' \in Queues
        /\ lock' = IF irq'.pc \in Locked THEN "irq" ELSE "free"
    <2>1. irq \in Irqs /\ lastq \in Queues
          /\ lock = IF irq.pc \in Locked THEN "irq" ELSE "free"
      BY DEF HalInv, Types
    <2>2. irq' \in Irqs /\ lastq' \in Queues
      BY <2>1, PrevQueue DEF Relock, Irqs, Locked, irqVars
    <2>3. lock' = IF irq'.pc \in Locked THEN "irq" ELSE "free"
      BY <2>1 DEF Relock, Irqs, Locked, irqVars
    <2>. QED  BY <2>2, <2>3
  <1>3. irq'.scat = irq.scat /\ (irq'.pc \notin {"set", "send"} => irq.scat = <<>>)
    BY DEF HalInv, Types, Relock, Irqs, OutInv, irqVars
  <1>4. Hand' = Hand
    BY DEF HalInv, Types, Relock, Hand, txokVars
  <1>5. sem' \in Nat /\ txsem' \in Nat /\ {upreq', drop', paused'} \subseteq BOOLEAN
    BY DEF HalInv, Types, Relock, txokVars
  <1>6. chip' \in Chips /\ txok' \in Txoks
    BY DEF HalInv, Types, Relock, txokVars, Chips, Txoks
  <1>7. Types'
    BY <1>1, <1>2, <1>4, <1>5, <1>6, ThreadTypes DEF HalInv
  <1>. QED  BY <1>1, <1>3, <1>4, <1>7, QuietStep DEF HalInv

LEMMA TxokDownStep == ASSUME HalInv, TxokDown, load' = load PROVE HalInv'
  <1>1. /\ hist'.down = hist.down /\ hist'.handled = hist.handled
        /\ UNCHANGED <<idx, slot, desc, made, fill, ids, num, pages, status, flush>>
        /\ chip'.has = chip.has /\ chip'.done = chip.done
    BY DEF HalInv, Types, TxokDown, fillVars, txokVars, irqVars
  <1>2. /\ irq' \in Irqs /\ lastq' \in Queues
        /\ lock' = IF irq'.pc \in Locked THEN "irq" ELSE "free"
    <2>1. irq \in Irqs /\ lastq \in Queues
          /\ lock = IF irq.pc \in Locked THEN "irq" ELSE "free"
      BY DEF HalInv, Types
    <2>2. irq' \in Irqs /\ lastq' \in Queues
      BY <2>1, PrevQueue DEF TxokDown, Irqs, Locked, irqVars
    <2>3. lock' = IF irq'.pc \in Locked THEN "irq" ELSE "free"
      BY <2>1 DEF TxokDown, Irqs, Locked, irqVars
    <2>. QED  BY <2>2, <2>3
  <1>3. irq'.scat = irq.scat /\ (irq'.pc \notin {"set", "send"} => irq.scat = <<>>)
    BY DEF HalInv, Types, TxokDown, Irqs, OutInv, irqVars
  <1>4. Hand' = Hand
    BY DEF HalInv, Types, TxokDown, Hand, txokVars
  <1>5. sem' \in Nat /\ txsem' \in Nat /\ {upreq', drop', paused'} \subseteq BOOLEAN
    BY DEF HalInv, Types, TxokDown, txokVars
  <1>6. chip' \in Chips /\ txok' \in Txoks
    BY DEF HalInv, Types, TxokDown, txokVars, Chips, Txoks
  <1>7. Types'
    BY <1>1, <1>2, <1>4, <1>5, <1>6, ThreadTypes DEF HalInv
  <1>. QED  BY <1>1, <1>3, <1>4, <1>7, QuietStep DEF HalInv

LEMMA TxokTestStep == ASSUME HalInv, TxokTest, load' = load PROVE HalInv'
  <1>1. /\ hist'.down = hist.down /\ hist'.handled = hist.handled
        /\ UNCHANGED <<idx, slot, desc, made, fill, ids, num, pages, status, flush>>
        /\ chip'.has = chip.has /\ chip'.done = chip.done
    BY DEF HalInv, Types, TxokTest, fillVars, txokVars, irqVars
  <1>2. /\ irq' \in Irqs /\ lastq' \in Queues
        /\ lock' = IF irq'.pc \in Locked THEN "irq" ELSE "free"
    <2>1. irq \in Irqs /\ lastq \in Queues
          /\ lock = IF irq.pc \in Locked THEN "irq" ELSE "free"
      BY DEF HalInv, Types
    <2>2. irq' \in Irqs /\ lastq' \in Queues
      BY <2>1, PrevQueue DEF TxokTest, Irqs, Locked, irqVars
    <2>3. lock' = IF irq'.pc \in Locked THEN "irq" ELSE "free"
      BY <2>1 DEF TxokTest, Irqs, Locked, irqVars
    <2>. QED  BY <2>2, <2>3
  <1>3. irq'.scat = irq.scat /\ (irq'.pc \notin {"set", "send"} => irq.scat = <<>>)
    BY DEF HalInv, Types, TxokTest, Irqs, OutInv, irqVars
  <1>4. Hand' = Hand
    BY DEF HalInv, Types, TxokTest, Hand, txokVars
  <1>5. sem' \in Nat /\ txsem' \in Nat /\ {upreq', drop', paused'} \subseteq BOOLEAN
    BY DEF HalInv, Types, TxokTest, txokVars
  <1>6. chip' \in Chips /\ txok' \in Txoks
    BY DEF HalInv, Types, TxokTest, txokVars, Chips, Txoks
  <1>7. Types'
    BY <1>1, <1>2, <1>4, <1>5, <1>6, ThreadTypes DEF HalInv
  <1>. QED  BY <1>1, <1>3, <1>4, <1>7, QuietStep DEF HalInv

LEMMA PauseStep == ASSUME HalInv, Pause, load' = load PROVE HalInv'
  <1>1. /\ hist'.down = hist.down /\ hist'.handled = hist.handled
        /\ UNCHANGED <<idx, slot, desc, made, fill, ids, num, pages, status, flush>>
        /\ chip'.has = chip.has /\ chip'.done = chip.done
    BY DEF HalInv, Types, Pause, fillVars, txokVars, irqVars
  <1>2. /\ irq' \in Irqs /\ lastq' \in Queues
        /\ lock' = IF irq'.pc \in Locked THEN "irq" ELSE "free"
    <2>1. irq \in Irqs /\ lastq \in Queues
          /\ lock = IF irq.pc \in Locked THEN "irq" ELSE "free"
      BY DEF HalInv, Types
    <2>2. irq' \in Irqs /\ lastq' \in Queues
      BY <2>1, PrevQueue DEF Pause, Irqs, Locked, irqVars
    <2>3. lock' = IF irq'.pc \in Locked THEN "irq" ELSE "free"
      BY <2>1 DEF Pause, Irqs, Locked, irqVars
    <2>. QED  BY <2>2, <2>3
  <1>3. irq'.scat = irq.scat /\ (irq'.pc \notin {"set", "send"} => irq.scat = <<>>)
    BY DEF HalInv, Types, Pause, Irqs, OutInv, irqVars
  <1>4. Hand' = Hand
    BY DEF HalInv, Types, Pause, Hand, txokVars
  <1>5. sem' \in Nat /\ txsem' \in Nat /\ {upreq', drop', paused'} \subseteq BOOLEAN
    BY DEF HalInv, Types, Pause, txokVars
  <1>6. chip' \in Chips /\ txok' \in Txoks
    BY DEF HalInv, Types, Pause, txokVars, Chips, Txoks
  <1>7. Types'
    BY <1>1, <1>2, <1>4, <1>5, <1>6, ThreadTypes DEF HalInv
  <1>. QED  BY <1>1, <1>3, <1>4, <1>7, QuietStep DEF HalInv

-----------------------------------------------------------------------------
(* drv_to_hal.                                                             *)

LEMMA RingAtMoved ==
    ASSUME NEW q \in Queues, NEW d \in Nat, NEW p \in Nat, NEW m \in Nat, NEW g \in 0 .. 1,
           RingIs(idx'[q], d, p, m, g), Down(q)' = d, made'[q] = m, Got(q)' = g
    PROVE  /\ Prom(q)' = p
           /\ RingIs(idx'[q], Down(q)', Prom(q)', made'[q], Got(q)')
  <1>1. TestsFind(idx'[q], d, p, m, g)
    BY ONLY RingTests, RingIs(idx'[q], d, p, m, g), d \in Nat, p \in Nat, m \in Nat,
            g \in 0 .. 1
  <1>2. NbElt(idx'[q], SET) = p - d
    BY <1>1 DEF TestsFind
  <1>3. Prom(q)' = Down(q)' + NbElt(idx'[q], SET)
    BY DEF Prom, NbElt, Wrap
  <1>4. Prom(q)' = p
    BY <1>2, <1>3
  <1>. QED  BY <1>4

(* The other queues of a step that works on one.                           *)
LEMMA OtherQueues ==
    ASSUME Types, RingInv, AggInv, NEW q \in Queues, load' = load,
           \A r \in Queues \ {q} :
             /\ hist'.down[r] = hist.down[r] /\ idx'[r] = idx[r] /\ slot'[r] = slot[r]
             /\ made'[r] = made[r] /\ fill'[r] = fill[r],
           \A f \in Frames : f.q # q => desc'[f].agg = desc[f].agg
    PROVE  \A r \in Queues \ {q} :
             /\ RingAt(r)' /\ AggAt(r)'
             /\ Down(r)' = Down(r) /\ Prom(r)' = Prom(r)
  <1>1. ASSUME NEW r \in Queues \ {q}
        PROVE  RingAt(r)' /\ AggAt(r)' /\ Down(r)' = Down(r) /\ Prom(r)' = Prom(r)
    <2>1. RingAt(r)'
      BY RingAtKept DEF RingInv
    <2>2. Down(r)' = Down(r) /\ Prom(r)' = Prom(r)
      BY NumbersKept
    <2>3. \A n \in 1 .. made[r] : desc'[Frame(r, n)].agg = desc[Frame(r, n)].agg
      <3>1. \A n \in 1 .. made[r] : n \in 1 .. MaxFrames
        BY WholeIs, ConstantsAre
      <3>. QED  BY <3>1, FrameOf
    <2>4. AggAt(r)'
      BY <2>2, <2>3, AggAtKept
    <2>. QED  BY <2>1, <2>2, <2>4
  <1>. QED  BY <1>1

LEMMA FillBeginStep ==
    ASSUME HalInv, NEW q \in Queues, NEW v \in Vids, NEW n \in 1 .. MaxAgg,
           FillBegin(q, v, n), load' = load
    PROVE  HalInv'
  <1>0. /\ Types /\ RingInv /\ AggInv /\ IdInv /\ OutInv /\ Counts
        /\ fill[q].pc = "idle" /\ made[q] + n <= load.frames[q]
        /\ fill' = [fill EXCEPT ![q] = [pc |-> "get", left |-> n, agg |-> n, vid |-> v,
                                        slot |-> 0, first |-> made[q] + 1]]
        /\ UNCHANGED <<idx, slot, desc, made, sem, irqVars, lock, ids, pages, num,
                       event, upreq, drop, paused, chip, status, txokVars, flush, hist>>
    BY DEF HalInv, FillBegin
  <1>1. made[q] \in Nat /\ fill \in [Queues -> Fills]
    BY <1>0 DEF Types
  <1>2. fill' \in [Queues -> Fills]
    <2>1. 0 \in Slots /\ n \in 0 .. MaxAgg /\ made[q] + 1 \in Nat \ {0}
      BY <1>1, EltNbrAssumption, ConstantsAre DEF Slots
    <2>2. [pc |-> "get", left |-> n, agg |-> n, vid |-> v, slot |-> 0,
           first |-> made[q] + 1] \in Fills
      BY <2>1 DEF Fills
    <2>. QED  BY <1>0, <1>1, <2>2
  <1>3. Types'
    BY <1>0, <1>2 DEF Types, IdsUsed, irqVars, txokVars
  <1>4. /\ fill'[q].pc = "get" /\ fill'[q].left = n /\ fill'[q].agg = n
        /\ fill'[q].first = made[q] + 1
        /\ \A r \in Queues \ {q} : fill'[r] = fill[r]
    BY <1>0, <1>1
  <1>5. \A r \in Queues \ {q} : RingAt(r)' /\ AggAt(r)' /\ Prom(r)' = Prom(r)
    BY <1>0, <1>4, OtherQueues
  <1>6. Down(q)' = Down(q) /\ Prom(q)' = Prom(q) /\ Got(q)' = Got(q)
    BY <1>0, <1>4, NumbersKept DEF Got
  <1>7. RingAt(q)'
    <2>1. RingAt(q)
      BY <1>0 DEF RingInv
    <2>. QED  BY <1>0, <1>4, <1>6, <2>1 DEF RingAt, RingIs, Place
  <1>8. AggAt(q)'
    <2>1. AggAt(q)
      BY <1>0 DEF AggInv
    <2>2. Whole(q) = made[q] /\ Whole(q)' = made[q] /\ Filling(q)'
      BY <1>0, <1>1, <1>4 DEF Whole, Filling
    <2>3. PICK ends \in SUBSET (0 .. Whole(q)) : IsEnds(q, ends)
      BY <2>1 DEF AggAt
    <2>4. IsEnds(q, ends)'
      <3>1. Whole(q) \in 0 .. MaxFrames
        BY <1>0, WholeIs, ConstantsAre
      <3>. QED  BY <1>0, <1>6, <2>2, <2>3, <3>1, EndsKept
    <2>5. \E e \in SUBSET (0 .. Whole(q)') : IsEnds(q, e)'
      BY <2>2, <2>3, <2>4
    <2>6. \A k \in made[q] + 1 .. made[q] : desc'[Frame(q, k)].agg = n
      BY <1>1
    <2>. QED  BY <1>0, <1>1, <1>4, <2>1, <2>2, <2>5, <2>6 DEF AggAt, Frame
  <1>9. IdInv'
    <2>1. \A r \in Queues : Prom(r)' = Prom(r)
      BY <1>5, <1>6
    <2>. QED  BY <1>0, <2>1, IdKept
  <1>10. OutInv' /\ Counts'
    <2>1. Hand' = Hand /\ irq' = irq
      BY <1>0 DEF Hand, irqVars, txokVars
    <2>. QED  BY <1>0, <2>1, OutKept, CountsKept DEF OutInv
  <1>. QED  BY <1>3, <1>5, <1>7, <1>8, <1>9, <1>10 DEF HalInv, RingInv, AggInv

LEMMA FillUpStep ==
    ASSUME HalInv, NEW q \in Queues, FillUp(q), load' = load
    PROVE  HalInv'
  <1>0. /\ Types /\ RingInv /\ AggInv /\ IdInv /\ OutInv /\ Counts
        /\ fill[q].pc = "up" /\ fill' = [fill EXCEPT ![q] = NoBatch] /\ sem' = sem + 1
        /\ UNCHANGED <<idx, slot, desc, made, irqVars, lock, ids, pages, num,
                       event, upreq, drop, paused, chip, status, txokVars, flush, hist>>
    BY DEF HalInv, FillUp
  <1>1. made[q] \in Nat /\ fill \in [Queues -> Fills]
    BY <1>0 DEF Types
  <1>2. fill' \in [Queues -> Fills]
    <2>1. 0 \in Slots /\ 0 \in 0 .. MaxAgg
      BY EltNbrAssumption, ConstantsAre DEF Slots
    <2>2. NoBatch \in Fills
      BY <2>1 DEF Fills, NoBatch
    <2>. QED  BY <1>0, <1>1, <2>2
  <1>3. Types'
    BY <1>0, <1>2 DEF Types, IdsUsed, irqVars, txokVars
  <1>4. fill'[q].pc = "idle" /\ \A r \in Queues \ {q} : fill'[r] = fill[r]
    BY <1>0, <1>1 DEF NoBatch
  <1>5. \A r \in Queues \ {q} : RingAt(r)' /\ AggAt(r)' /\ Prom(r)' = Prom(r)
    BY <1>0, <1>4, OtherQueues
  <1>6. Down(q)' = Down(q) /\ Prom(q)' = Prom(q) /\ Got(q)' = Got(q)
    BY <1>0, <1>4, NumbersKept DEF Got
  <1>7. RingAt(q)'
    <2>1. RingAt(q)
      BY <1>0 DEF RingInv
    <2>. QED  BY <1>0, <1>4, <1>6, <2>1 DEF RingAt, RingIs, Place
  <1>8. AggAt(q)'
    <2>1. AggAt(q)
      BY <1>0 DEF AggInv
    <2>2. Whole(q) = made[q] /\ Whole(q)' = made[q] /\ ~ Filling(q)'
      BY <1>0, <1>1, <1>4 DEF Whole, Filling
    <2>3. PICK ends \in SUBSET (0 .. Whole(q)) : IsEnds(q, ends)
      BY <2>1 DEF AggAt
    <2>4. IsEnds(q, ends)'
      <3>1. Whole(q) \in 0 .. MaxFrames
        BY <1>0, WholeIs, ConstantsAre
      <3>. QED  BY <1>0, <1>6, <2>2, <2>3, <3>1, EndsKept
    <2>5. \E e \in SUBSET (0 .. Whole(q)') : IsEnds(q, e)'
      BY <2>2, <2>3, <2>4
    <2>. QED  BY <1>0, <2>1, <2>2, <2>5 DEF AggAt
  <1>9. IdInv'
    <2>1. \A r \in Queues : Prom(r)' = Prom(r)
      BY <1>5, <1>6
    <2>. QED  BY <1>0, <2>1, IdKept
  <1>10. OutInv' /\ Counts'
    <2>1. Hand' = Hand /\ irq' = irq
      BY <1>0 DEF Hand, irqVars, txokVars
    <2>. QED  BY <1>0, <2>1, OutKept, CountsKept DEF OutInv
  <1>. QED  BY <1>3, <1>5, <1>7, <1>8, <1>9, <1>10 DEF HalInv, RingInv, AggInv

LEMMA FillGetStep ==
    ASSUME HalInv, NEW q \in Queues, FillGet(q), load' = load
    PROVE  HalInv'
  <1>0. /\ Types /\ RingInv /\ AggInv /\ IdInv /\ OutInv /\ Counts
        /\ fill[q].pc = "get" /\ CanGet(idx[q], GET, 1)
        /\ fill' = [fill EXCEPT ![q].pc = "put", ![q].slot = Pick(idx[q], GET)]
        /\ idx' = [idx EXCEPT ![q] = AfterGet(@, GET, 1)]
        /\ hist' = [hist EXCEPT !.mixed = @ \/ flush.pc # "off"]
        /\ UNCHANGED <<slot, desc, made, sem, irqVars, lock, ids, pages, num,
                       event, upreq, drop, paused, chip, status, txokVars, flush>>
    BY DEF HalInv, FillGet
  <1>1. /\ made[q] \in Nat /\ fill \in [Queues -> Fills] /\ idx \in [Queues -> Rings]
        /\ RingAt(q) /\ Got(q) = 0
        /\ hist'.down = hist.down /\ hist'.handled = hist.handled
    BY <1>0 DEF Types, RingInv, Got
  <1>2. PICK r \in Rings, d \in Nat, p \in Nat, m \in Nat :
          r = idx[q] /\ d = Down(q) /\ p = Prom(q) /\ m = made[q]
    BY <1>0, <1>1, Numbers
  <1>3. RingIs(r, d, p, m, 0) /\ m + 1 - d < EltNbr
    <2>1. RingIs(r, d, p, m, 0)
      BY <1>1, <1>2 DEF RingAt
    <2>2. 1 <= EltNbr - 1 - (m + 0 - d)
      BY <1>0, <1>1, <1>2, Numbers DEF CanGet
    <2>. QED  BY <2>1, <2>2, EltNbrAssumption
  <1>4. AfterGet(r, GET, 1) \in Rings /\ RingIs(AfterGet(r, GET, 1), d, p, m, 1)
    BY ONLY <1>3, RingGot, r \in Rings, d \in Nat, p \in Nat, m \in Nat
  <1>5. idx'[q] = AfterGet(r, GET, 1) /\ idx' \in [Queues -> Rings]
    BY <1>0, <1>1, <1>2, <1>4
  <1>6. Pick(idx[q], GET) = Place(m + 1)
    BY <1>2, <1>3 DEF RingIs, Pick
  <1>7. fill' \in [Queues -> Fills] /\ fill'[q].pc = "put" /\ fill'[q].slot = Place(m + 1)
        /\ \A x \in Queues \ {q} : fill'[x] = fill[x] /\ idx'[x] = idx[x]
    <2>1. Place(m + 1) \in Slots
      BY PlaceIs
    <2>2. fill[q] \in Fills
      BY <1>1
    <2>3. [fill[q] EXCEPT !.pc = "put", !.slot = Place(m + 1)] \in Fills
      BY <2>1, <2>2 DEF Fills
    <2>4. fill' = [fill EXCEPT ![q] = [fill[q] EXCEPT !.pc = "put", !.slot = Place(m + 1)]]
      BY <1>0, <1>1, <1>6
    <2>5. [fill[q] EXCEPT !.pc = "put", !.slot = Place(m + 1)].pc = "put"
          /\ [fill[q] EXCEPT !.pc = "put", !.slot = Place(m + 1)].slot = Place(m + 1)
      BY <2>2 DEF Fills
    <2>. QED  BY <1>0, <1>1, <2>3, <2>4, <2>5
  <1>8. fill'[q].left = fill[q].left /\ fill'[q].agg = fill[q].agg
        /\ fill'[q].first = fill[q].first
    BY <1>0, <1>1 DEF Fills
  <1>9. Types'
    BY <1>0, <1>1, <1>5, <1>7 DEF Types, IdsUsed, irqVars, txokVars
  <1>10. \A x \in Queues \ {q} : RingAt(x)' /\ AggAt(x)' /\ Prom(x)' = Prom(x)
    BY <1>0, <1>1, <1>7, OtherQueues
  <1>11. Down(q)' = d /\ Got(q)' = 1 /\ made'[q] = m
    BY <1>0, <1>1, <1>2, <1>7 DEF Down, Got
  <1>12. Prom(q)' = p /\ RingIs(idx'[q], Down(q)', Prom(q)', made'[q], Got(q)')
    BY <1>4, <1>5, <1>11, RingAtMoved
  <1>13. RingAt(q)'
    <2>1. \A n \in Down(q)' + 1 .. made'[q] : slot'[q][Place(n)] = Frame(q, n)
      BY <1>0, <1>1, <1>2, <1>11 DEF RingAt
    <2>2. \A k \in 1 .. Down(q)' : hist'.down[q][k] = Frame(q, k)
      BY <1>1, <1>2, <1>11 DEF RingAt
    <2>. QED  BY <1>7, <1>11, <1>12, <2>1, <2>2 DEF RingAt, RingIs, Place, Frame
  <1>14. AggAt(q)'
    <2>1. AggAt(q)
      BY <1>0 DEF AggInv
    <2>2. Whole(q)' = Whole(q) /\ Filling(q)' /\ Filling(q)
      BY <1>0, <1>1, <1>7, <1>8 DEF Whole, Filling
    <2>3. PICK ends \in SUBSET (0 .. Whole(q)) : IsEnds(q, ends)
      BY <2>1 DEF AggAt
    <2>4. IsEnds(q, ends)'
      <3>1. Whole(q) \in 0 .. MaxFrames
        BY <1>0, WholeIs, ConstantsAre
      <3>. QED  BY <1>0, <1>2, <1>11, <2>2, <2>3, <3>1, EndsKept
    <2>5. \E e \in SUBSET (0 .. Whole(q)') : IsEnds(q, e)'
      BY <2>2, <2>3, <2>4
    <2>. QED  BY <1>0, <1>8, <2>1, <2>2, <2>5 DEF AggAt, Frame
  <1>15. IdInv'
    <2>1. \A x \in Queues : Prom(x)' = Prom(x)
      BY <1>2, <1>10, <1>12
    <2>. QED  BY <1>0, <1>1, <2>1, IdKept
  <1>16. OutInv' /\ Counts'
    <2>1. Hand' = Hand /\ irq' = irq
      BY <1>0 DEF Hand, irqVars, txokVars
    <2>. QED  BY <1>0, <1>1, <2>1, OutKept, CountsKept DEF OutInv
  <1>. QED  BY <1>9, <1>10, <1>13, <1>14, <1>15, <1>16 DEF HalInv, RingInv, AggInv

(* The set of frames at most as old as n per queue grows by one.           *)
LEMMA OneMore ==
    ASSUME NEW S, NEW x, IsFiniteSet(S), x \notin S
    PROVE  IsFiniteSet(S \cup {x}) /\ Cardinality(S \cup {x}) = Cardinality(S) + 1
  BY FS_AddElement

LEMMA FillPutStep ==
    ASSUME HalInv, NEW q \in Queues, FillPut(q), load' = load
    PROVE  HalInv'
  <1>. DEFINE f     == Frame(q, made[q] + 1)
              first == Frame(q, fill[q].first)
              d     == IF f = first
                       THEN [vid |-> fill[q].vid, agg |-> fill[q].agg, id |-> 0]
                       ELSE desc[first]
  <1>0. /\ Types /\ RingInv /\ AggInv /\ IdInv /\ OutInv /\ Counts
        /\ fill[q].pc = "put"
        /\ made' = [made EXCEPT ![q] = @ + 1]
        /\ slot' = [slot EXCEPT ![q][fill[q].slot] = f]
        /\ desc' = [desc EXCEPT ![f] = d]
        /\ num' = [num EXCEPT !.send = num.send + 1]
        /\ idx' = [idx EXCEPT ![q] = AfterPut(@, GET, 1)]
        /\ fill' = [fill EXCEPT ![q].pc = IF fill[q].left = 1 THEN "up" ELSE "get",
                                ![q].left = @ - 1]
        /\ hist' = [hist EXCEPT !.mixed = @ \/ flush.pc # "off"]
        /\ UNCHANGED <<sem, irqVars, lock, ids, pages, event, upreq, drop, paused,
                       chip, status, txokVars, flush>>
    BY DEF HalInv, FillPut, Sent, Frame
  <1>1. /\ made \in [Queues -> 0 .. MaxFrames] /\ made[q] \in Nat
        /\ fill \in [Queues -> Fills] /\ idx \in [Queues -> Rings]
        /\ slot \in [Queues -> [Slots -> Frames]] /\ desc \in [Frames -> Descs]
        /\ fill[q] \in Fills /\ fill[q].left \in Nat /\ fill[q].agg \in 0 .. MaxAgg
        /\ fill[q].first \in Nat \ {0} /\ fill[q].slot \in Slots
        /\ num \in [send : Nat, done : Nat, free : Nat]
        /\ RingAt(q) /\ AggAt(q) /\ Got(q) = 1 /\ Filling(q)
        /\ hist'.down = hist.down /\ hist'.handled = hist.handled
    <2>1. /\ made \in [Queues -> 0 .. MaxFrames]
          /\ fill \in [Queues -> Fills] /\ idx \in [Queues -> Rings]
          /\ slot \in [Queues -> [Slots -> Frames]] /\ desc \in [Frames -> Descs]
          /\ num \in [send : Nat, done : Nat, free : Nat]
      BY <1>0 DEF Types
    <2>2. made[q] \in Nat /\ fill[q] \in Fills
      BY <2>1
    <2>3. fill[q].left \in Nat /\ fill[q].agg \in 0 .. MaxAgg
          /\ fill[q].first \in Nat \ {0} /\ fill[q].slot \in Slots
      BY <2>2 DEF Fills
    <2>4. RingAt(q) /\ AggAt(q) /\ Got(q) = 1 /\ Filling(q)
      BY <1>0 DEF RingInv, AggInv, Got, Filling
    <2>5. hist'.down = hist.down /\ hist'.handled = hist.handled
      BY <1>0
    <2>. QED  BY <2>1, <2>2, <2>3, <2>4, <2>5
  <1>n. /\ made[q] \in Nat /\ fill[q].left \in Nat /\ fill[q].first \in Nat
        /\ fill[q].first > 0 /\ fill[q].agg \in Nat
    BY <1>1  <1>2. /\ fill[q].left > 0 /\ fill[q].first <= made[q] + 1
        /\ made[q] + fill[q].left = fill[q].first - 1 + fill[q].agg
        /\ made[q] + fill[q].left <= load.frames[q]
        /\ \A n \in fill[q].first .. made[q] : desc[Frame(q, n)].agg = fill[q].agg
    BY <1>1 DEF AggAt
  <1>3. /\ made[q] + 1 \in 1 .. MaxFrames /\ made[q] + 1 <= load.frames[q]
        /\ fill[q].first \in 1 .. MaxFrames
    <2>1. load.frames[q] \in 0 .. MaxFrames
      BY <1>0, MadeBound
    <2>. QED  BY <1>1, <1>2, <2>1, ConstantsAre
  <1>4. f \in Frames /\ first \in Frames /\ f.q = q /\ f.n = made[q] + 1
    BY <1>3, FrameOf
  <1>5. d \in Descs /\ d.agg = fill[q].agg
    <2>1. CASE f = first
      <3>1. [vid |-> fill[q].vid, agg |-> fill[q].agg, id |-> 0] \in Descs
        BY <1>1, ConstantsAre DEF Descs, Fills
      <3>. QED  BY <2>1, <3>1
    <2>2. CASE f # first
      <3>1. fill[q].first \in fill[q].first .. made[q]
        <4>1. fill[q].first # made[q] + 1
          BY <2>2
        <4>. QED  BY <1>n, <1>2, <4>1
      <3>. QED  BY <1>1, <1>2, <1>4, <2>2, <3>1
    <2>. QED  BY <2>1, <2>2
  <1>6. /\ desc' \in [Frames -> Descs] /\ desc'[f].agg = fill[q].agg
        /\ \A g \in Frames : g # f => desc'[g] = desc[g]
    BY <1>0, <1>1, <1>4, <1>5
  <1>7. /\ made' \in [Queues -> 0 .. MaxFrames] /\ made'[q] = made[q] + 1
        /\ \A x \in Queues \ {q} : made'[x] = made[x]
    <2>1. made[q] + 1 \in 0 .. MaxFrames
      BY <1>3
    <2>. QED  BY <1>0, <1>1, <2>1
  <1>8. /\ slot' \in [Queues -> [Slots -> Frames]] /\ slot'[q][fill[q].slot] = f
        /\ \A s \in Slots : s # fill[q].slot => slot'[q][s] = slot[q][s]
        /\ \A x \in Queues \ {q} : slot'[x] = slot[x]
    <2>1. slot' = [slot EXCEPT ![q] = [slot[q] EXCEPT ![fill[q].slot] = f]]
      BY <1>0, <1>1
    <2>2. slot[q] \in [Slots -> Frames]
      BY <1>1
    <2>3. [slot[q] EXCEPT ![fill[q].slot] = f] \in [Slots -> Frames]
      BY <1>1, <1>4, <2>2
    <2>. QED  BY <1>1, <2>1, <2>2, <2>3
  <1>9. /\ fill' \in [Queues -> Fills]
        /\ fill'[q].pc = IF fill[q].left = 1 THEN "up" ELSE "get"
        /\ fill'[q].left = fill[q].left - 1 /\ fill'[q].agg = fill[q].agg
        /\ fill'[q].first = fill[q].first
        /\ \A x \in Queues \ {q} : fill'[x] = fill[x]
    <2>. DEFINE to == IF fill[q].left = 1 THEN "up" ELSE "get"
                less == fill[q].left - 1
                b == [fill[q] EXCEPT !.pc = to, !.left = less]
    <2>1. fill' = [fill EXCEPT ![q] = b]
      BY <1>0, <1>1
    <2>2. fill[q].left \in 0 .. MaxAgg
      BY <1>1 DEF Fills
    <2>3. to \in {"idle", "get", "put", "up"} /\ less \in 0 .. MaxAgg
      BY <1>2, <2>2, ConstantsAre
    <2>4. b \in Fills /\ b.pc = to /\ b.left = less /\ b.agg = fill[q].agg
          /\ b.first = fill[q].first
      <3>. HIDE DEF to, less
      <3>. QED  BY <1>1, <2>3 DEF Fills
    <2>. QED  BY <1>1, <2>1, <2>4
  <1>10. PICK r \in Rings, dn \in Nat, p \in Nat, m \in Nat :
           r = idx[q] /\ dn = Down(q) /\ p = Prom(q) /\ m = made[q]
    BY <1>0, <1>1, Numbers
  <1>11. RingIs(r, dn, p, m, 1)
    BY <1>1, <1>10 DEF RingAt
  <1>12. AfterPut(r, GET, 1) \in Rings /\ RingIs(AfterPut(r, GET, 1), dn, p, m + 1, 0)
    BY ONLY <1>11, RingPut, r \in Rings, dn \in Nat, p \in Nat, m \in Nat
  <1>13. /\ idx'[q] = AfterPut(r, GET, 1) /\ idx' \in [Queues -> Rings]
         /\ \A x \in Queues \ {q} : idx'[x] = idx[x]
    BY <1>0, <1>1, <1>10, <1>12
  <1>14. Types'
    <2>1. num' \in [send : Nat, done : Nat, free : Nat]
      BY <1>0, <1>1
    <2>. QED  BY <1>0, <1>1, <1>6, <1>7, <1>8, <1>9, <1>13, <2>1
              DEF Types, IdsUsed, irqVars, txokVars
  <1>15. \A x \in Queues \ {q} : RingAt(x)' /\ AggAt(x)' /\ Prom(x)' = Prom(x)
    <2>1. \A g \in Frames : g.q # q => desc'[g].agg = desc[g].agg
      BY <1>4, <1>6
    <2>. QED  BY <1>0, <1>1, <1>7, <1>8, <1>9, <1>13, <2>1, OtherQueues
  <1>16. Down(q)' = dn /\ Got(q)' = 0 /\ made'[q] = m + 1
    BY <1>1, <1>7, <1>9, <1>10 DEF Down, Got
  <1>17. Prom(q)' = p /\ RingIs(idx'[q], Down(q)', Prom(q)', made'[q], Got(q)')
    <2>1. m + 1 \in Nat /\ 0 \in 0 .. 1 /\ RingIs(idx'[q], dn, p, m + 1, 0)
      BY <1>12, <1>13
    <2>. QED  BY ONLY <1>16, <2>1, RingAtMoved, q \in Queues, dn \in Nat, p \in Nat
  <1>18. RingAt(q)'
    <2>1. \A n \in Down(q)' + 1 .. made'[q] : slot'[q][Place(n)] = Frame(q, n)
      <3>1. SUFFICES ASSUME NEW n \in dn + 1 .. m + 1
                     PROVE  slot'[q][Place(n)] = Frame(q, n)
        BY <1>16
      <3>2. fill[q].slot = Place(m + 1)
        BY <1>0, <1>1, <1>10 DEF RingAt
      <3>3. CASE n = m + 1
        BY <1>8, <1>10, <3>2, <3>3
      <3>4. CASE n # m + 1
        <4>1. n \in dn + 1 .. m /\ n \in Nat /\ m + 1 \in Nat /\ n < m + 1
              /\ m + 1 < n + EltNbr
          BY <1>11, <3>4, EltNbrAssumption DEF RingIs
        <4>2. Place(m + 1) # Place(n)
          BY <4>1, PlaceDiffers
        <4>3. Place(n) \in Slots /\ slot[q][Place(n)] = Frame(q, n)
          BY <1>1, <1>10, <4>1, PlaceIs DEF RingAt
        <4>. QED  BY <1>8, <3>2, <4>2, <4>3
      <3>. QED  BY <3>3, <3>4
    <2>2. \A k \in 1 .. Down(q)' : hist'.down[q][k] = Frame(q, k)
      BY <1>1, <1>10, <1>16 DEF RingAt
    <2>3. fill'[q].pc # "put"
      BY <1>9
    <2>. QED  BY <1>16, <1>17, <2>1, <2>2, <2>3 DEF RingAt, RingIs, Place, Frame
  <1>19. AggAt(q)'
    <2>1. Whole(q) = fill[q].first - 1 /\ Whole(q) \in 0 .. made[q]
          /\ Whole(q) \in 0 .. MaxFrames
      <3>1. Whole(q) = fill[q].first - 1
        BY <1>1 DEF Whole
      <3>. QED  BY <3>1, <1>n, <1>2, <1>3, ConstantsAre
    <2>2. PICK ends \in SUBSET (0 .. Whole(q)) : IsEnds(q, ends)
      BY <1>1 DEF AggAt
    <2>3. Down(q)' = Down(q)
      BY <1>10, <1>16
    <2>4. \A n \in 1 .. made[q] : desc'[Frame(q, n)] = desc[Frame(q, n)]
      <3>1. SUFFICES ASSUME NEW n \in 1 .. made[q] PROVE desc'[Frame(q, n)] = desc[Frame(q, n)]
        OBVIOUS
      <3>2. n \in 1 .. MaxFrames /\ n # made[q] + 1
        BY <1>n, <1>3, ConstantsAre
      <3>3. Frame(q, n) \in Frames /\ Frame(q, n) # f
        BY <1>4, <3>2, FrameOf
      <3>. QED  BY <1>6, <3>3
    <2>5. CASE fill[q].left = 1
      <3>1. ~ Filling(q)' /\ Whole(q)' = made[q] + 1
        BY <1>7, <1>9, <2>5 DEF Filling, Whole
      <3>2. Whole(q) + fill[q].agg = made[q] + 1 /\ fill[q].agg > 0
        BY <1>1, <1>2, <2>1, <2>5
      <3>3. desc'[Frame(q, Whole(q) + 1)].agg = fill[q].agg
        <4>1. Whole(q) + 1 = fill[q].first
          BY <1>1, <2>1
        <4>2. CASE fill[q].first = made[q] + 1
          BY <1>6, <4>1, <4>2
        <4>3. CASE fill[q].first # made[q] + 1
          <5>1. fill[q].first \in fill[q].first .. made[q] /\ fill[q].first \in 1 .. made[q]
            BY <1>n, <1>2, <4>3
          <5>. QED  BY <1>2, <2>4, <4>1, <5>1
        <4>. QED  BY <4>2, <4>3
      <3>4. PICK more \in SUBSET (0 .. made[q] + 1) : more = ends \cup {made[q] + 1}
        <4>1. 0 .. Whole(q) \subseteq 0 .. made[q] + 1 /\ made[q] + 1 \in 0 .. made[q] + 1
          BY <1>n, <2>1
        <4>2. ends \cup {made[q] + 1} \in SUBSET (0 .. made[q] + 1)
          BY <4>1
        <4>. QED  BY <4>2
      <3>5. 0 \in more /\ Down(q) \in more /\ made[q] + 1 \in more
        BY <2>2, <3>4 DEF IsEnds
      <3>6. ASSUME NEW e \in more \ {made[q] + 1}
            PROVE  /\ desc'[Frame(q, e + 1)].agg > 0
                   /\ e + desc'[Frame(q, e + 1)].agg \in more
                   /\ \A g \in more : e < g => e + desc'[Frame(q, e + 1)].agg <= g
        <4>1. e \in ends /\ e \in 0 .. Whole(q)
          BY <3>4
        <4>2. CASE e = Whole(q)
          <5>1. desc'[Frame(q, e + 1)].agg = fill[q].agg
            BY <3>3, <4>2
          <5>2. e + fill[q].agg = made[q] + 1
            BY <3>2, <4>2
          <5>3. \A g \in more : e < g => g = made[q] + 1
            BY <1>n, <2>1, <3>4, <4>2
          <5>. QED  BY <1>n, <3>2, <3>5, <5>1, <5>2, <5>3
        <4>3. CASE e # Whole(q)
          <5>1. e + 1 \in 1 .. made[q]
            BY <1>n, <2>1, <4>1, <4>3
          <5>2. desc'[Frame(q, e + 1)].agg = desc[Frame(q, e + 1)].agg
            BY <2>4, <5>1
          <5>3. /\ desc[Frame(q, e + 1)].agg > 0
                /\ e + desc[Frame(q, e + 1)].agg \in ends
                /\ \A g \in ends : e < g => e + desc[Frame(q, e + 1)].agg <= g
            BY <2>2, <4>1, <4>3 DEF IsEnds
          <5>4. e + desc[Frame(q, e + 1)].agg <= made[q] + 1
            <6>1. \A t \in ends : t <= made[q] + 1
              BY <1>n, <2>1
            <6>. QED  BY <5>3, <6>1
          <5>. QED  BY <3>4, <5>2, <5>3, <5>4
        <4>. QED  BY <4>2, <4>3
      <3>7. IsEnds(q, more)'
        <4>. QED  BY <2>3, <3>1, <3>5, <3>6 DEF IsEnds, Frame
      <3>8. \E e \in SUBSET (0 .. Whole(q)') : IsEnds(q, e)'
        BY <1>7, <3>1, <3>4, <3>7
      <3>. QED  BY <1>3, <1>7, <3>1, <3>8, load' = load DEF AggAt
    <2>6. CASE fill[q].left # 1
      <3>1. Filling(q)' /\ Whole(q)' = Whole(q)
        BY <1>9, <2>1, <2>6 DEF Filling, Whole
      <3>2. IsEnds(q, ends)'
        <4>1. \A n \in 1 .. Whole(q) : desc'[Frame(q, n)].agg = desc[Frame(q, n)].agg
          BY <1>1, <2>1, <2>4
        <4>. QED  BY <2>1, <2>2, <2>3, <3>1, <4>1, EndsKept
      <3>3. \E e \in SUBSET (0 .. Whole(q)') : IsEnds(q, e)'
        BY <2>2, <3>1, <3>2
      <3>4. \A n \in fill[q].first .. made[q] + 1 : desc'[Frame(q, n)].agg = fill[q].agg
        <4>1. SUFFICES ASSUME NEW n \in fill[q].first .. made[q] + 1
                       PROVE  desc'[Frame(q, n)].agg = fill[q].agg
          OBVIOUS
        <4>2. CASE n = made[q] + 1
          BY <1>6, <4>2
        <4>3. CASE n # made[q] + 1
          <5>1. n \in fill[q].first .. made[q] /\ n \in 1 .. made[q]
            BY <1>n, <4>3
          <5>. QED  BY <1>2, <2>4, <5>1
        <4>. QED  BY <4>2, <4>3
      <3>5. /\ fill'[q].left > 0
            /\ made'[q] + fill'[q].left = fill'[q].first - 1 + fill'[q].agg
            /\ fill'[q].first <= made'[q] + 1
            /\ made'[q] + fill'[q].left <= load'.frames[q]
        <4>1. load.frames[q] \in Nat
          BY <1>0, MadeBound
        <4>2. made'[q] = made[q] + 1 /\ fill'[q].left = fill[q].left - 1
              /\ fill'[q].agg = fill[q].agg /\ fill'[q].first = fill[q].first
          BY <1>7, <1>9
        <4>. QED  BY <1>n, <1>2, <2>6, <4>1, <4>2, load' = load
      <3>6. made'[q] <= load'.frames[q]
        BY <1>3, <1>7, load' = load
      <3>. QED  BY <1>7, <1>9, <3>1, <3>3, <3>4, <3>5, <3>6 DEF AggAt, Frame
    <2>. QED  BY <2>5, <2>6
  <1>20. IdInv'
    <2>1. \A x \in Queues : Prom(x)' = Prom(x) /\ Down(x)' = Down(x)
      BY <1>1, <1>10, <1>15, <1>17 DEF Down
    <2>2. \A g \in Frames : g.n <= Prom(g.q) => desc'[g] = desc[g]
      <3>1. SUFFICES ASSUME NEW g \in Frames, g.n <= Prom(g.q) PROVE g # f
        BY <1>6
      <3>2. Prom(q) \in Nat /\ Prom(q) <= made[q]
        BY <1>0, <1>1, Numbers
      <3>3. f.n <= made[q] => FALSE
        BY <1>n, <1>4
      <3>4. g.n \in Nat
        BY FrameIs
      <3>5. CASE g = f
        <4>1. made[q] + 1 <= Prom(q)
          BY <1>4, <3>1, <3>5
        <4>. QED  BY ONLY <1>n, <3>2, <4>1
      <3>. QED  BY <3>5
    <2>3. Handled' = Handled /\ Handled \subseteq Frames
      <3>1. hist.handled \in Seq(Frames)
        BY <1>0 DEF Types
      <3>. QED  BY <1>1, <3>1 DEF Handled, RangeOf
    <2>4. \A i \in IdsUsed : ids[i] \in Frames
      BY <1>0 DEF Types
    <2>5. \A g \in Frames : g.q \in Queues
      BY FrameIs
    <2>6. ids' = ids
      BY <1>0
    <2>7. /\ \A i \in DOMAIN ids : /\ ids[i].n <= Prom(ids[i].q)
                                   /\ desc'[ids[i]].id = i
                                   /\ ids[i] \notin Handled
          /\ \A g \in Frames : g.n <= Prom(g.q) /\ g \notin Handled =>
                                 desc'[g].id \in DOMAIN ids /\ ids[desc'[g].id] = g
      BY <1>0, <2>2, <2>4 DEF IdInv, IdsUsed
    <2>8. /\ \A g \in Handled : g.n <= Down(g.q)
          /\ \A j, k \in DOMAIN hist'.handled :
               hist'.handled[j] = hist'.handled[k] => j = k
      BY <1>0, <1>1 DEF IdInv
    <2>. QED  BY <2>1, <2>3, <2>4, <2>5, <2>6, <2>7, <2>8 DEF IdInv, IdsUsed
  <1>21. OutInv'
    <2>1. Hand' = Hand /\ irq' = irq
      BY <1>0 DEF Hand, irqVars, txokVars
    <2>. QED  BY <1>0, <1>1, <2>1, OutKept DEF OutInv
  <1>22. Counts'
    <2>1. f \notin MadeSet
      BY <1>1, <1>4 DEF MadeSet
    <2>2. MadeSet' = MadeSet \cup {f}
      <3>1. \A g \in Frames : g.n <= made'[g.q] <=> g.n <= made[g.q] \/ g = f
        <4>1. SUFFICES ASSUME NEW g \in Frames
                       PROVE  g.n <= made'[g.q] <=> g.n <= made[g.q] \/ g = f
          OBVIOUS
        <4>2. g.q \in Queues /\ g.n \in Nat /\ g = Frame(g.q, g.n)
          BY FrameIs
        <4>3. CASE g.q # q
          BY <1>4, <1>7, <4>2, <4>3
        <4>4. CASE g.q = q
          BY <1>n, <1>4, <1>7, <4>2, <4>4 DEF Frame
        <4>. QED  BY <4>3, <4>4
      <3>. QED  BY <1>4, <3>1 DEF MadeSet
    <2>3. IsFiniteSet(MadeSet') /\ Cardinality(MadeSet') = Cardinality(MadeSet) + 1
      BY <1>0, <2>1, <2>2, OneMore DEF Counts
    <2>4. DownSet' = DownSet
      BY <1>1 DEF DownSet, Down
    <2>5. num'.send = num.send + 1 /\ num'.done = num.done /\ num'.free = num.free
      BY <1>0, <1>1
    <2>6. irq' = irq /\ chip' = chip /\ pages' = pages
      BY <1>0 DEF irqVars
    <2>. QED  BY <1>0, <2>3, <2>4, <2>5, <2>6 DEF Counts
  <1>. QED  BY <1>14, <1>15, <1>18, <1>19, <1>20, <1>21, <1>22 DEF HalInv, RingInv, AggInv

-----------------------------------------------------------------------------
(* A frame is given an id.                                                 *)

LEMMA LeastOf ==
    ASSUME NEW S \in SUBSET Nat, S # {}
    PROVE  \E m \in S : \A x \in S : m <= x
  <1>1. PICK m \in S : \A x \in S : <<x, m>> \notin OpToRel(<, Nat)
    BY WFMin, NatLessThanWellFounded, Zenon
  <1>2. \A x \in S : ~ (x < m)
    BY <1>1, Zenon DEF OpToRel
  <1>. QED  BY <1>2

LEMMA FirstFreeIs ==
    ASSUME IdsUsed \subseteq Ids, IdsLeft
    PROVE  FirstFree \in Ids /\ FirstFree \notin IdsUsed
  <1>1. Ids \ IdsUsed \in SUBSET Nat /\ Ids \ IdsUsed # {}
    <2>1. Ids \in SUBSET Nat
      BY ConstantsAre DEF Ids
    <2>. QED  BY <2>1 DEF IdsLeft
  <1>2. \E i \in Ids \ IdsUsed : \A j \in Ids \ IdsUsed : i <= j
    BY <1>1, LeastOf
  <1>3. FirstFree \in Ids \ IdsUsed
    BY <1>2, Zenon DEF FirstFree
  <1>. QED  BY <1>3

LEMMA WithIdIs ==
    ASSUME IdsUsed \subseteq Ids, ids \in [IdsUsed -> Frames], NEW f \in Frames, IdsLeft
    PROVE  /\ DOMAIN WithId(f) = IdsUsed \cup {FirstFree}
           /\ WithId(f) \in [DOMAIN WithId(f) -> Frames]
           /\ WithId(f)[FirstFree] = f
           /\ \A i \in IdsUsed : WithId(f)[i] = ids[i]
  <1>1. FirstFree \in Ids /\ FirstFree \notin IdsUsed
    BY FirstFreeIs
  <1>2. DOMAIN WithId(f) = IdsUsed \cup {FirstFree}
    BY DEF WithId
  <1>3. WithId(f)[FirstFree] = f /\ \A i \in IdsUsed : WithId(f)[i] = ids[i]
    BY <1>1 DEF WithId
  <1>4. \A i \in IdsUsed \cup {FirstFree} :
          (IF i = FirstFree THEN f ELSE ids[i]) \in Frames
    BY <1>1
  <1>5. WithId(f) \in [IdsUsed \cup {FirstFree} -> Frames]
    BY <1>4 DEF WithId
  <1>. QED  BY <1>2, <1>3, <1>5

LEMMA PromoteStep ==
    ASSUME HalInv, NEW q \in Queues, Waits(q), Promote(q),
           UNCHANGED <<slot, made, fill, num, pages, status, chip, txok, txsem, sem,
                       flush, hist, load, upreq, drop, paused, lastq>>,
           irq' \in Irqs, lock' = IF irq'.pc \in Locked THEN "irq" ELSE "free",
           irq'.scat = irq.scat, irq'.pc \notin {"set", "send"} => irq.scat = <<>>
    PROVE  HalInv'
  <1>. DEFINE f == Frame(q, Prom(q) + 1)
              x == FirstFree
  <1>0. /\ Types /\ RingInv /\ AggInv /\ IdInv /\ OutInv /\ Counts
    BY DEF HalInv
  <1>1. slot[q][Pick(idx[q], MAKE)] = f
    BY <1>0, FirstWaiting
  <1>2. /\ ids' = WithId(f) /\ desc' = [desc EXCEPT ![f].id = x]
        /\ idx' = [idx EXCEPT ![q] = AfterPut(AfterGet(@, MAKE, 1), MAKE, 1)]
        /\ IdsLeft
    BY <1>1 DEF Promote
  <1>3. /\ idx \in [Queues -> Rings] /\ desc \in [Frames -> Descs]
        /\ IdsUsed \subseteq Ids /\ ids \in [IdsUsed -> Frames]
    BY <1>0 DEF Types
  <1>4. RingAt(q)
    BY <1>0 DEF RingInv
  <1>5. PICK r \in Rings, d \in Nat, p \in Nat, m \in Nat, g \in 0 .. 1 :
          /\ r = idx[q] /\ d = Down(q) /\ p = Prom(q) /\ m = made[q] /\ g = Got(q)
          /\ d <= p /\ p < m
    BY <1>0, <1>4, Numbers
  <1>6. m <= MaxFrames /\ p + 1 \in 1 .. MaxFrames
    BY <1>0, <1>5, WholeIs, ConstantsAre
  <1>7. f \in Frames /\ f.q = q /\ f.n = p + 1
    BY <1>5, <1>6, FrameOf
  <1>8. RingIs(r, d, p, m, g)
    BY <1>4, <1>5 DEF RingAt
  <1>9. /\ AfterPut(AfterGet(r, MAKE, 1), MAKE, 1) \in Rings
        /\ RingIs(AfterPut(AfterGet(r, MAKE, 1), MAKE, 1), d, p + 1, m, g)
    BY ONLY <1>8, <1>5, RingPromoted
  <1>10. /\ idx' \in [Queues -> Rings]
         /\ idx'[q] = AfterPut(AfterGet(r, MAKE, 1), MAKE, 1)
         /\ \A y \in Queues \ {q} : idx'[y] = idx[y]
    BY <1>2, <1>3, <1>5, <1>9
  <1>11. x \in Ids /\ x \notin IdsUsed
    BY <1>2, <1>3, FirstFreeIs
  <1>12. /\ DOMAIN ids' = IdsUsed \cup {x} /\ ids' \in [DOMAIN ids' -> Frames]
         /\ ids'[x] = f /\ \A i \in IdsUsed : ids'[i] = ids[i]
    BY <1>2, <1>3, <1>7, WithIdIs
  <1>13. /\ desc' \in [Frames -> Descs] /\ desc'[f].id = x
         /\ \A h \in Frames : desc'[h].agg = desc[h].agg
         /\ \A h \in Frames : h # f => desc'[h] = desc[h]
    <2>1. desc' = [desc EXCEPT ![f] = [desc[f] EXCEPT !.id = x]]
      BY <1>2, <1>3, <1>7
    <2>2. desc[f] \in Descs
      BY <1>3, <1>7
    <2>3. [desc[f] EXCEPT !.id = x] \in Descs /\ [desc[f] EXCEPT !.id = x].id = x
          /\ [desc[f] EXCEPT !.id = x].agg = desc[f].agg
      BY <1>11, <2>2 DEF Descs
    <2>. HIDE DEF f, x
    <2>. QED  BY <1>3, <1>7, <2>1, <2>3
  <1>14. Types'
    <2>1. IdsUsed' \subseteq Ids /\ ids' \in [IdsUsed' -> Frames]
      BY <1>3, <1>11, <1>12 DEF IdsUsed
    <2>. QED  BY <1>0, <1>10, <1>13, <2>1 DEF Types
  <1>15. \A y \in Queues \ {q} :
           RingAt(y)' /\ AggAt(y)' /\ Prom(y)' = Prom(y) /\ Down(y)' = Down(y)
    BY <1>0, <1>10, <1>13, OtherQueues
  <1>16. Down(q)' = d /\ Got(q)' = g /\ made'[q] = m
    BY <1>5 DEF Down, Got
  <1>17. Prom(q)' = p + 1 /\ RingIs(idx'[q], Down(q)', Prom(q)', made'[q], Got(q)')
    <2>1. p + 1 \in Nat /\ RingIs(idx'[q], d, p + 1, m, g)
      BY <1>9, <1>10
    <2>. QED  BY ONLY <1>5, <1>16, <2>1, RingAtMoved, q \in Queues
  <1>18. RingAt(q)'
    BY <1>4, <1>5, <1>16, <1>17 DEF RingAt, RingIs, Place, Frame
  <1>19. AggInv'
    BY <1>0, <1>13, AggKept
  <1>20. \A h \in Frames : h.n <= Prom(h.q) => h # f
    BY <1>5, <1>7
  <1>21. Handled' = Handled /\ Handled \subseteq Frames
    <2>1. hist.handled \in Seq(Frames)
      BY <1>0 DEF Types
    <2>. QED  BY <2>1 DEF Handled, RangeOf
  <1>22. f \notin Handled
    BY <1>0, <1>5, <1>7 DEF IdInv
  <1>23. IdInv'
    <2>1. ASSUME NEW i \in IdsUsed', NEW h \in Frames, ids'[i] = h
          PROVE  h.n <= Prom(h.q)' /\ desc'[h].id = i /\ h \notin Handled'
      <3>0. h.q \in Queues /\ h.n \in Nat
        BY FrameIs
      <3>1. CASE i = x
        <4>1. h = f
          BY <1>12, <2>1, <3>1
        <4>2. h.q = q /\ h.n = p + 1 /\ desc'[h].id = x
          BY <1>7, <1>13, <4>1
        <4>3. Prom(h.q)' = p + 1
          BY <1>17, <4>2
        <4>. QED  BY <1>21, <1>22, <3>1, <4>1, <4>2, <4>3
      <3>2. CASE i # x
        <4>1. i \in IdsUsed /\ ids[i] = h
          BY <1>3, <1>12, <2>1, <3>2 DEF IdsUsed
        <4>2. h.n <= Prom(h.q) /\ desc[h].id = i /\ h \notin Handled
          BY <1>0, <4>1 DEF IdInv
        <4>3. h.n <= Prom(h.q)'
          <5>1. CASE h.q = q
            BY <1>5, <1>17, <3>0, <4>2, <5>1
          <5>2. CASE h.q # q
            BY <1>15, <3>0, <4>2, <5>2
          <5>. QED  BY <5>1, <5>2
        <4>. QED  BY <1>13, <1>20, <1>21, <4>2, <4>3
      <3>. QED  BY <3>1, <3>2
    <2>2. ASSUME NEW h \in Frames, h.n <= Prom(h.q)', h \notin Handled'
          PROVE  desc'[h].id \in IdsUsed' /\ ids'[desc'[h].id] = h
      <3>0. h.q \in Queues /\ h.n \in Nat /\ h = Frame(h.q, h.n)
        BY FrameIs
      <3>1. CASE h = f
        BY <1>12, <1>13, <3>1 DEF IdsUsed
      <3>2. CASE h # f
        <4>1. h.n <= Prom(h.q)
          <5>1. CASE h.q = q
            <6>1. h.n # p + 1
              BY <1>5, <3>0, <3>2, <5>1
            <6>. QED  BY <1>5, <1>17, <2>2, <3>0, <5>1, <6>1
          <5>2. CASE h.q # q
            BY <1>15, <2>2, <3>0, <5>2
          <5>. QED  BY <5>1, <5>2
        <4>2. desc[h].id \in IdsUsed /\ ids[desc[h].id] = h
          BY <1>0, <1>21, <2>2, <4>1 DEF IdInv
        <4>. QED  BY <1>12, <1>13, <3>2, <4>2 DEF IdsUsed
      <3>. QED  BY <3>1, <3>2
    <2>3. \A h \in Handled' : h.n <= Down(h.q)'
      BY <1>0, <1>21 DEF IdInv, Down
    <2>4. \A j, k \in DOMAIN hist'.handled : hist'.handled[j] = hist'.handled[k] => j = k
      BY <1>0 DEF IdInv
    <2>. QED  BY <2>1, <2>2, <2>3, <2>4 DEF IdInv
  <1>24. Out' = Out
    <2>2. ASSUME NEW e \in Entries PROVE IsOut(e)' <=> IsOut(e)
      <3>1. Down(e.frame.q)' = Down(e.frame.q)
        BY DEF Down
      <3>2. CASE e.id = x
        <4>1. ~ IsOut(e)
          BY <1>11, <3>2 DEF IsOut
        <4>2. e.frame = f => ~ (e.frame.n <= Down(e.frame.q))
          BY <1>5, <1>7
        <4>. QED  BY <1>12, <3>1, <3>2, <4>1, <4>2 DEF IsOut, IdsUsed
      <3>3. CASE e.id # x
        BY <1>12, <3>1, <3>3 DEF IsOut, IdsUsed
      <3>. QED  BY <3>2, <3>3
    <2>. QED  BY <2>2 DEF Out
  <1>25. OutInv'
    <2>1. Hand' = Hand
      BY DEF Hand
    <2>2. RangeOf(chip.done)' = RangeOf(chip.done) /\ RangeOf(status)' = RangeOf(status)
          /\ RangeOf(irq.scat)' = RangeOf(irq.scat) /\ chip'.has = chip.has
          /\ Inj(chip.done)' /\ Inj(status)' /\ Inj(irq.scat)'
      BY <1>0 DEF RangeOf, OutInv, Inj
    <2>. QED  BY <1>0, <1>24, <2>1, <2>2 DEF OutInv
  <1>26. Counts'
    BY <1>0, CountsKept
  <1>. QED  BY <1>14, <1>15, <1>18, <1>19, <1>23, <1>25, <1>26 DEF HalInv, RingInv


-----------------------------------------------------------------------------
(* hal_txframe_pre.                                                        *)

LEMMA PreStep ==
    ASSUME HalInv, NEW q \in Queues,
           irq.pc \in {"turns", "drain"}, irq' \in Irqs, irq'.pc \in Locked,
           irq'.scat = irq.scat,
           (Waits(q) /\ Promote(q)) \/ UNCHANGED <<ids, desc, idx>>,
           UNCHANGED <<slot, fillVars, sem, lock, lastq, pages, num, event, upreq,
                       drop, paused, chip, status, txokVars, flush, hist, load>>
    PROVE  HalInv'
  <1>1. irq.scat = <<>> /\ lock = "irq"
    BY DEF HalInv, OutInv, Types, Locked
  <1>2. lock' = IF irq'.pc \in Locked THEN "irq" ELSE "free"
    BY <1>1
  <1>3. UNCHANGED <<made, fill, txok, txsem>>
    BY DEF fillVars, txokVars
  <1>4. CASE Waits(q) /\ Promote(q)
    BY <1>1, <1>2, <1>3, <1>4, PromoteStep
  <1>5. CASE UNCHANGED <<ids, desc, idx>>
    <2>1. Hand' = Hand
      BY <1>3 DEF Hand
    <2>2. sem' \in Nat /\ txsem' \in Nat /\ lastq' \in Queues
          /\ {upreq', drop', paused'} \subseteq BOOLEAN /\ chip' \in Chips /\ txok' \in Txoks
      BY <1>3 DEF HalInv, Types, Chips, Txoks
    <2>3. Types'
      BY <1>2, <1>3, <1>5, <2>1, <2>2, ThreadTypes DEF HalInv
    <2>. QED  BY <1>1, <1>3, <1>5, <2>1, <2>3, QuietStep DEF HalInv
  <1>. QED  BY <1>4, <1>5

LEMMA TakeTurnStep == ASSUME HalInv, TakeTurn, load' = load PROVE HalInv'
  <1>1. irq.q \in Queues /\ irq \in Irqs /\ irq.turns - 1 \in Int
    BY DEF HalInv, Types, Irqs
  <1>2. PICK q \in Queues : q = Prev(irq.q)
    BY <1>1, PrevQueue, ConstantsAre DEF Prev
  <1>3. irq' \in Irqs /\ irq'.pc \in Locked /\ irq'.scat = irq.scat
    <2>1. TopQ \in Queues
      BY ConstantsAre
    <2>2. PICK left \in Int : left = irq.turns - 1
      BY <1>1
    <2>3. \/ irq' = [irq EXCEPT !.pc = "set", !.q = TopQ]
          \/ irq' = [irq EXCEPT !.pc = "full", !.q = TopQ]
          \/ irq' = [irq EXCEPT !.pc = IF left = 0 THEN "drain" ELSE "turns",
                                !.q = IF left = 0 THEN TopQ ELSE q, !.turns = left]
      BY <1>2, <2>2 DEF TakeTurn
    <2>. QED  BY <1>1, <2>1, <2>2, <2>3 DEF Irqs, Locked
  <1>4. (Waits(q) /\ Promote(q)) \/ UNCHANGED <<ids, desc, idx>>
    BY <1>2 DEF TakeTurn
  <1>5. irq.pc \in {"turns", "drain"}
        /\ UNCHANGED <<slot, fillVars, sem, lock, lastq, pages, num, event, upreq,
                       drop, paused, chip, status, txokVars, flush, hist>>
    BY DEF TakeTurn
  <1>. QED  BY <1>3, <1>4, <1>5, PreStep

LEMMA DrainStep == ASSUME HalInv, Drain, load' = load PROVE HalInv'
  <1>1. irq.q \in Queues /\ irq \in Irqs
    BY DEF HalInv, Types, Irqs
  <1>2. PICK q \in Queues : q = irq.q
    BY <1>1
  <1>3. irq' \in Irqs /\ irq'.pc \in Locked /\ irq'.scat = irq.scat
    BY <1>1, PrevQueue, ConstantsAre DEF Drain, Irqs, Locked
  <1>4. (Waits(q) /\ Promote(q)) \/ UNCHANGED <<ids, desc, idx>>
    BY <1>2 DEF Drain
  <1>5. irq.pc \in {"turns", "drain"}
        /\ UNCHANGED <<slot, fillVars, sem, lock, lastq, pages, num, event, upreq,
                       drop, paused, chip, status, txokVars, flush, hist>>
    BY DEF Drain
  <1>. QED  BY <1>3, <1>4, <1>5, PreStep

-----------------------------------------------------------------------------
(* The entries of a sequence.                                              *)

LEMMA RangeOfAppend ==
    ASSUME NEW S, NEW s \in Seq(S), NEW e \in S
    PROVE  /\ Append(s, e) \in Seq(S) /\ Len(Append(s, e)) = Len(s) + 1
           /\ RangeOf(Append(s, e)) = RangeOf(s) \cup {e}
           /\ Inj(s) /\ e \notin RangeOf(s) => Inj(Append(s, e))
  <1>1. /\ Append(s, e) \in Seq(S) /\ Len(Append(s, e)) = Len(s) + 1
        /\ DOMAIN Append(s, e) = 1 .. Len(s) + 1
        /\ \A k \in 1 .. Len(s) : Append(s, e)[k] = s[k]
        /\ Append(s, e)[Len(s) + 1] = e
        /\ Len(s) \in Nat /\ DOMAIN s = 1 .. Len(s)
    OBVIOUS
  <1>2. RangeOf(Append(s, e)) = RangeOf(s) \cup {e}
    BY <1>1 DEF RangeOf
  <1>3. Inj(s) /\ e \notin RangeOf(s) => Inj(Append(s, e))
    <2>1. \A j \in 1 .. Len(s) + 1 : j \in 1 .. Len(s) \/ j = Len(s) + 1
      BY <1>1
    <2>. QED  BY <1>1, <2>1 DEF RangeOf, Inj
  <1>. QED  BY <1>1, <1>2, <1>3

LEMMA RangeOfConcat ==
    ASSUME NEW S, NEW s \in Seq(S), NEW t \in Seq(S)
    PROVE  /\ s \o t \in Seq(S) /\ Len(s \o t) = Len(s) + Len(t)
           /\ RangeOf(s \o t) = RangeOf(s) \cup RangeOf(t)
           /\ Inj(s) /\ Inj(t) /\ RangeOf(s) \cap RangeOf(t) = {} => Inj(s \o t)
  <1>1. /\ s \o t \in Seq(S) /\ Len(s \o t) = Len(s) + Len(t)
        /\ DOMAIN (s \o t) = 1 .. Len(s) + Len(t)
        /\ Len(s) \in Nat /\ DOMAIN s = 1 .. Len(s)
        /\ Len(t) \in Nat /\ DOMAIN t = 1 .. Len(t)
    OBVIOUS
  <1>2. \A k \in 1 .. Len(s) : (s \o t)[k] = s[k]
    OBVIOUS
  <1>3. \A k \in Len(s) + 1 .. Len(s) + Len(t) :
          (s \o t)[k] = t[k - Len(s)] /\ k - Len(s) \in 1 .. Len(t)
    OBVIOUS
  <1>4. \A k \in 1 .. Len(t) : (s \o t)[k + Len(s)] = t[k]
                               /\ k + Len(s) \in 1 .. Len(s) + Len(t)
    OBVIOUS
  <1>5. \A k \in 1 .. Len(s) + Len(t) : k \in 1 .. Len(s) \/ k \in Len(s) + 1 .. Len(s) + Len(t)
    BY <1>1
  <1>6. RangeOf(s \o t) = RangeOf(s) \cup RangeOf(t)
    <2>1. \A x \in RangeOf(s \o t) : x \in RangeOf(s) \cup RangeOf(t)
      BY <1>1, <1>2, <1>3, <1>5 DEF RangeOf
    <2>2. \A x \in RangeOf(s) : x \in RangeOf(s \o t)
      BY <1>1, <1>2 DEF RangeOf
    <2>3. \A x \in RangeOf(t) : x \in RangeOf(s \o t)
      BY <1>1, <1>4 DEF RangeOf
    <2>. QED  BY <2>1, <2>2, <2>3
  <1>7. Inj(s) /\ Inj(t) /\ RangeOf(s) \cap RangeOf(t) = {} => Inj(s \o t)
    <2>1. SUFFICES ASSUME Inj(s), Inj(t), RangeOf(s) \cap RangeOf(t) = {},
                          NEW j \in 1 .. Len(s) + Len(t), NEW k \in 1 .. Len(s) + Len(t),
                          (s \o t)[j] = (s \o t)[k]
                   PROVE  j = k
      BY <1>1 DEF Inj
    <2>2. \A a \in 1 .. Len(s) : s[a] \in RangeOf(s)
      BY <1>1 DEF RangeOf
    <2>3. \A a \in 1 .. Len(t) : t[a] \in RangeOf(t)
      BY <1>1 DEF RangeOf
    <2>4. CASE j \in 1 .. Len(s) /\ k \in 1 .. Len(s)
      BY <1>1, <1>2, <2>1, <2>4 DEF Inj
    <2>5. CASE j \in Len(s) + 1 .. Len(s) + Len(t) /\ k \in Len(s) + 1 .. Len(s) + Len(t)
      <3>1. t[j - Len(s)] = t[k - Len(s)] /\ j - Len(s) \in 1 .. Len(t)
            /\ k - Len(s) \in 1 .. Len(t)
        BY <1>3, <2>1, <2>5
      <3>2. j - Len(s) = k - Len(s)
        BY <1>1, <2>1, <3>1 DEF Inj
      <3>. QED  BY <1>1, <3>2
    <2>6. CASE j \in 1 .. Len(s) /\ k \in Len(s) + 1 .. Len(s) + Len(t)
      BY <1>2, <1>3, <2>1, <2>2, <2>3, <2>6
    <2>7. CASE k \in 1 .. Len(s) /\ j \in Len(s) + 1 .. Len(s) + Len(t)
      BY <1>2, <1>3, <2>1, <2>2, <2>3, <2>7
    <2>. QED  BY <1>5, <2>4, <2>5, <2>6, <2>7
  <1>. QED  BY <1>1, <1>6, <1>7

LEMMA RangeOfTail ==
    ASSUME NEW S, NEW s \in Seq(S), s # <<>>
    PROVE  /\ Head(s) \in S /\ Tail(s) \in Seq(S)
           /\ RangeOf(s) = {Head(s)} \cup RangeOf(Tail(s))
           /\ Inj(s) => Inj(Tail(s)) /\ Head(s) \notin RangeOf(Tail(s))
  <1>1. /\ Head(s) = s[1] /\ Tail(s) \in Seq(S) /\ Len(s) \in Nat /\ Len(s) >= 1
        /\ DOMAIN s = 1 .. Len(s) /\ DOMAIN Tail(s) = 1 .. Len(s) - 1
        /\ \A k \in 1 .. Len(s) - 1 : Tail(s)[k] = s[k + 1]
    OBVIOUS
  <1>2. s[1] \in S
    BY <1>1
  <1>3. \A k \in 1 .. Len(s) - 1 : k + 1 \in 1 .. Len(s) /\ k + 1 # 1
    BY <1>1
  <1>4. \A k \in 1 .. Len(s) : k = 1 \/ (k - 1 \in 1 .. Len(s) - 1 /\ s[k] = Tail(s)[k - 1])
    BY <1>1
  <1>5. RangeOf(s) = {Head(s)} \cup RangeOf(Tail(s))
    <2>0. \A k \in 1 .. Len(s) - 1 : Tail(s)[k] \in RangeOf(Tail(s))
      BY <1>1 DEF RangeOf
    <2>1. ASSUME NEW x \in RangeOf(s) PROVE x = Head(s) \/ x \in RangeOf(Tail(s))
      <3>1. PICK k \in 1 .. Len(s) : x = s[k]
        BY <1>1 DEF RangeOf
      <3>. QED  BY <1>1, <1>4, <2>0, <3>1
    <2>2. \A x \in RangeOf(Tail(s)) : x \in RangeOf(s)
      BY <1>1, <1>3 DEF RangeOf
    <2>3. Head(s) \in RangeOf(s)
      BY <1>1 DEF RangeOf
    <2>. QED  BY <2>1, <2>2, <2>3
  <1>6. Inj(s) => Inj(Tail(s)) /\ Head(s) \notin RangeOf(Tail(s))
    <2>. SUFFICES ASSUME Inj(s) PROVE Inj(Tail(s)) /\ Head(s) \notin RangeOf(Tail(s))
      OBVIOUS
    <2>1. \A j, k \in 1 .. Len(s) - 1 : s[j + 1] = s[k + 1] => j = k
      <3>. TAKE j, k \in 1 .. Len(s) - 1
      <3>1. s[j + 1] = s[k + 1] => j + 1 = k + 1
        BY <1>1, <1>3 DEF Inj
      <3>. QED  BY <1>1, <3>1
    <2>2. 1 \in 1 .. Len(s)
      BY <1>1
    <2>3. \A k \in 1 .. Len(s) - 1 : s[k + 1] # s[1]
      BY <1>1, <1>3, <2>2 DEF Inj
    <2>. QED  BY <1>1, <2>1, <2>3 DEF Inj, RangeOf
  <1>. QED  BY <1>1, <1>2, <1>5, <1>6

LEMMA EntriesOf ==
    ASSUME NEW S, NEW s \in Seq(S), Inj(s)
    PROVE  IsFiniteSet(RangeOf(s)) /\ Cardinality(RangeOf(s)) = Len(s)
  <1>1. Len(s) \in Nat /\ DOMAIN s = 1 .. Len(s) /\ s \in [1 .. Len(s) -> S]
    OBVIOUS
  <1>2. IsFiniteSet(1 .. Len(s)) /\ Cardinality(1 .. Len(s)) = Len(s)
    BY <1>1, FS_Interval
  <1>3. s \in [1 .. Len(s) -> RangeOf(s)]
    <2>1. \A k \in 1 .. Len(s) : s[k] \in RangeOf(s)
      BY <1>1 DEF RangeOf
    <2>. QED  BY <1>1, <2>1
  <1>4. \A x \in RangeOf(s) : \E k \in 1 .. Len(s) : s[k] = x
    BY <1>1 DEF RangeOf
  <1>5. s \in Bijection(1 .. Len(s), RangeOf(s))
    BY <1>1, <1>3, <1>4 DEF Bijection, Injection, Surjection, Inj, IsInjective
  <1>6. ExistsBijection(1 .. Len(s), RangeOf(s))
    BY <1>5 DEF ExistsBijection
  <1>. QED  BY <1>2, <1>6, FS_Bijection

-----------------------------------------------------------------------------
(* The firmware and hi_soft_tx_irq.                                        *)

(* A step that only moves entries of frames that left the ring.            *)
LEMMA PartsKept ==
    ASSUME HalInv, load' = load, hist'.down = hist.down, hist'.handled = hist.handled,
           UNCHANGED <<idx, slot, desc, made, fill, ids>>
    PROVE  RingInv' /\ AggInv' /\ IdInv' /\ Out' = Out
           /\ MadeSet' = MadeSet /\ DownSet' = DownSet
  <1>1. RingInv' /\ AggInv'
    BY RingKept, AggKept DEF HalInv
  <1>2. \A q \in Queues : Prom(q)' = Prom(q)
    BY NumbersKept
  <1>3. IdInv' /\ Out' = Out
    BY <1>2, IdKept, OutSetKept DEF HalInv
  <1>4. MadeSet' = MadeSet /\ DownSet' = DownSet
    BY DEF MadeSet, DownSet, Down
  <1>. QED  BY <1>1, <1>3, <1>4

LEMMA CompleteStep ==
    ASSUME HalInv, NEW e \in chip.has, Complete(e), load' = load
    PROVE  HalInv'
  <1>0. /\ Types /\ OutInv /\ Counts
        /\ chip' = [has |-> chip.has \ {e}, done |-> Append(chip.done, e), bit |-> TRUE]
        /\ sem' = sem + 1
        /\ UNCHANGED <<idx, slot, desc, made, fill, irq, lastq, lock, ids, pages, num,
                       upreq, drop, paused, status, txok, txsem, flush, hist>>
    BY DEF HalInv, Complete, fillVars, irqVars, txokVars
  <1>1. chip \in Chips /\ e \in Entries /\ chip.done \in Seq(Entries)
        /\ irq.scat \in Seq(Entries)
    BY <1>0 DEF Types, Chips, Irqs
  <1>2. /\ chip'.has = chip.has \ {e} /\ chip'.done = Append(chip.done, e)
        /\ Append(chip.done, e) \in Seq(Entries)
        /\ Len(Append(chip.done, e)) = Len(chip.done) + 1
        /\ RangeOf(chip'.done) = RangeOf(chip.done) \cup {e}
        /\ Inj(chip'.done)
    <2>1. e \notin RangeOf(chip.done) /\ Inj(chip.done)
      BY <1>0 DEF OutInv
    <2>. QED  BY <1>0, <1>1, <2>1, RangeOfAppend
  <1>3. Hand' = Hand
    BY <1>0 DEF Hand
  <1>4. Types'
    <2>1. chip' \in Chips
      BY <1>0, <1>1, <1>2 DEF Chips
    <2>2. sem' \in Nat /\ txsem' \in Nat /\ irq' \in Irqs /\ lastq' \in Queues
          /\ lock' = (IF irq'.pc \in Locked THEN "irq" ELSE "free")
          /\ {upreq', drop', paused'} \subseteq BOOLEAN /\ txok' \in Txoks
      BY <1>0 DEF Types, Txoks
    <2>. QED  BY <1>0, <1>3, <2>1, <2>2, ThreadTypes
  <1>5. RingInv' /\ AggInv' /\ IdInv' /\ Out' = Out /\ MadeSet' = MadeSet /\ DownSet' = DownSet
    BY <1>0, PartsKept
  <1>6. OutInv'
    <2>1. /\ RangeOf(irq.scat)' = RangeOf(irq.scat) /\ RangeOf(status)' = RangeOf(status)
          /\ RangeOf(chip.done)' = RangeOf(chip.done) \cup {e}
          /\ Inj(irq.scat)' /\ Inj(status)' /\ Inj(chip.done)'
      BY <1>0, <1>2 DEF OutInv, RangeOf, Inj
    <2>. QED  BY <1>0, <1>2, <1>3, <1>5, <2>1 DEF OutInv
  <1>7. Counts'
    <2>1. IsFiniteSet(chip'.has) /\ Cardinality(chip'.has) = Cardinality(chip.has) - 1
      BY <1>0, <1>2, FS_RemoveElement DEF Counts
    <2>2. Cardinality(chip.has) \in Nat /\ Len(chip.done) \in Nat /\ Len(irq.scat) \in Nat
      BY <1>0, <1>1, FS_CardinalityType DEF Counts
    <2>3. Len(irq.scat) + Cardinality(chip'.has) + Len(chip'.done)
            = Len(irq.scat) + Cardinality(chip.has) + Len(chip.done)
      <3>1. PICK a \in Nat, b \in Nat, c \in Nat :
              a = Len(irq.scat) /\ b = Cardinality(chip.has) /\ c = Len(chip.done)
        BY <2>2
      <3>2. a + (b - 1) + (c + 1) = a + b + c
        OBVIOUS
      <3>. QED  BY <1>2, <2>1, <3>1, <3>2
    <2>. QED  BY <1>0, <1>5, <2>1, <2>3 DEF Counts
  <1>. QED  BY <1>4, <1>5, <1>6, <1>7 DEF HalInv

LEMMA SendFrameStep == ASSUME HalInv, SendFrame, load' = load PROVE HalInv'
  <1>0. /\ Types /\ OutInv /\ Counts /\ irq.pc = "send"
        /\ chip' = [chip EXCEPT !.has = @ \cup RangeOf(irq.scat)]
        /\ irq' = [irq EXCEPT !.pc = "relock", !.scat = <<>>]
        /\ UNCHANGED <<idx, slot, desc, made, fill, sem, lastq, lock, ids, pages, num,
                       upreq, drop, paused, status, txok, txsem, flush, hist>>
    BY DEF HalInv, SendFrame, fillVars, txokVars, RangeOf
  <1>1. chip \in Chips /\ irq \in Irqs /\ irq.scat \in Seq(Entries) /\ Inj(irq.scat)
        /\ RangeOf(irq.scat) \subseteq Entries
    <2>1. chip \in Chips /\ irq \in Irqs /\ irq.scat \in Seq(Entries) /\ Inj(irq.scat)
      BY <1>0 DEF Types, Chips, Irqs, OutInv
    <2>. QED  BY <2>1 DEF RangeOf
  <1>2. /\ chip'.has = chip.has \cup RangeOf(irq.scat) /\ chip'.done = chip.done
        /\ chip' \in Chips /\ irq' \in Irqs /\ irq'.scat = <<>> /\ irq'.pc = "relock"
        /\ RangeOf(irq'.scat) = {} /\ Len(irq'.scat) = 0 /\ Inj(irq'.scat)
    <2>1. chip'.has = chip.has \cup RangeOf(irq.scat) /\ chip'.done = chip.done
          /\ chip' \in Chips
      BY <1>0, <1>1 DEF Chips
    <2>2. irq' \in Irqs /\ irq'.scat = <<>> /\ irq'.pc = "relock"
      <3>1. <<>> \in Seq(Entries)
        OBVIOUS
      <3>. QED  BY <1>0, <1>1, <3>1 DEF Irqs
    <2>. QED  BY <2>1, <2>2 DEF RangeOf, Inj
  <1>3. Hand' = Hand
    BY <1>0 DEF Hand
  <1>4. Types'
    <2>1. sem' \in Nat /\ txsem' \in Nat /\ lastq' \in Queues
          /\ {upreq', drop', paused'} \subseteq BOOLEAN /\ txok' \in Txoks
      BY <1>0 DEF Types, Txoks
    <2>2. lock' = (IF irq'.pc \in Locked THEN "irq" ELSE "free")
      BY <1>0, <1>2 DEF Types, Locked
    <2>. QED  BY <1>0, <1>2, <1>3, <2>1, <2>2, ThreadTypes
  <1>5. RingInv' /\ AggInv' /\ IdInv' /\ Out' = Out /\ MadeSet' = MadeSet /\ DownSet' = DownSet
    BY <1>0, PartsKept
  <1>6. OutInv'
    <2>1. /\ RangeOf(irq.scat)' = {} /\ RangeOf(status)' = RangeOf(status)
          /\ RangeOf(chip.done)' = RangeOf(chip.done)
          /\ Inj(irq.scat)' /\ Inj(status)' /\ Inj(chip.done)'
      BY <1>0, <1>2 DEF OutInv, RangeOf, Inj
    <2>. QED  BY <1>0, <1>2, <1>3, <1>5, <2>1 DEF OutInv
  <1>7. Counts'
    <2>1. /\ IsFiniteSet(RangeOf(irq.scat)) /\ Cardinality(RangeOf(irq.scat)) = Len(irq.scat)
          /\ chip.has \cap RangeOf(irq.scat) = {} /\ IsFiniteSet(chip.has)
      BY <1>0, <1>1, EntriesOf DEF Counts, OutInv
    <2>2. Cardinality(chip.has) \in Nat /\ Len(irq.scat) \in Nat /\ Len(chip.done) \in Nat
      BY <1>1, <2>1, FS_CardinalityType DEF Chips
    <2>3. IsFiniteSet(chip'.has)
          /\ Cardinality(chip'.has) = Cardinality(chip.has) + Len(irq.scat)
      <3>1. IsFiniteSet(chip'.has)
            /\ Cardinality(chip'.has)
                 = Cardinality(chip.has) + Cardinality(RangeOf(irq.scat)) - Cardinality({})
        BY <1>2, <2>1, FS_Union
      <3>2. Cardinality({}) = 0
        BY FS_EmptySet
      <3>. QED  BY <2>1, <2>2, <3>1, <3>2
    <2>4. Len(irq'.scat) + Cardinality(chip'.has) + Len(chip'.done)
            = Len(irq.scat) + Cardinality(chip.has) + Len(chip.done)
      BY <1>2, <2>2, <2>3
    <2>. QED  BY <1>0, <1>5, <2>3, <2>4 DEF Counts
  <1>. QED  BY <1>4, <1>5, <1>6, <1>7 DEF HalInv

(* No more entries are out than there are ids.                             *)
LEMMA FewOut ==
    ASSUME Types
    PROVE  IsFiniteSet(Out) /\ Cardinality(Out) <= IdNbr
  <1>. DEFINE f == [e \in Out |-> e.id]
  <1>1. f \in Injection(Out, Ids)
    <2>1. \A e \in Out : e.id \in Ids
      BY DEF Out, Entries
    <2>2. \A d, e \in Out : d.id = e.id => d = e
      <3>. TAKE d, e \in Out
      <3>1. d = [frame |-> d.frame, id |-> d.id] /\ e = [frame |-> e.frame, id |-> e.id]
        BY DEF Out, Entries
      <3>2. d.frame = ids[d.id] /\ e.frame = ids[e.id]
        BY DEF Out, IsOut
      <3>. QED  BY <3>1, <3>2
    <2>. QED  BY <2>1, <2>2 DEF Injection, IsInjective
  <1>2. IsFiniteSet(Ids) /\ Cardinality(Ids) = IdNbr
    <2>1. 0 \in Int /\ IdNbr - 1 \in Int /\ ~ (0 > IdNbr - 1) /\ IdNbr - 1 - 0 + 1 = IdNbr
      BY ConstantsAre
    <2>. QED  BY <2>1, FS_Interval DEF Ids
  <1>. HIDE DEF f
  <1>. QED  BY <1>1, <1>2, FS_Injection

(* A node is found for every completion.                                   *)
LEMMA NodesSuffice ==
    ASSUME HalInv
    PROVE  Len(chip.done) <= FreeNodes
  <1>0. Types /\ OutInv
    BY DEF HalInv
  <1>1. chip.done \in Seq(Entries) /\ status \in Seq(Entries) /\ Inj(chip.done) /\ Inj(status)
    BY <1>0 DEF Types, OutInv
  <1>2. PICK D, S, H : D = RangeOf(chip.done) /\ S = RangeOf(status) /\ H = Hand
    OBVIOUS
  <1>3. /\ IsFiniteSet(D) /\ Cardinality(D) = Len(chip.done)
        /\ IsFiniteSet(S) /\ Cardinality(S) = Len(status)
    BY <1>1, <1>2, EntriesOf
  <1>4. PICK x \in Nat, y \in Nat, h \in 0 .. 1 :
          x = Len(chip.done) /\ y = Len(status) /\ h = IF txok.pc = "free" THEN 1 ELSE 0
    <2>1. Len(chip.done) \in Nat /\ Len(status) \in Nat
      BY <1>1
    <2>. QED  BY <2>1
  <1>5. IsFiniteSet(H) /\ Cardinality(H) = h
    <2>1. CASE txok.pc = "free"
      BY <1>2, <1>4, <2>1, FS_Singleton DEF Hand
    <2>2. CASE txok.pc # "free"
      BY <1>2, <1>4, <2>2, FS_EmptySet DEF Hand
    <2>. QED  BY <2>1, <2>2
  <1>6. D \cap S = {} /\ (D \cup S) \cap H = {} /\ D \cup S \cup H \subseteq Out
    BY <1>0, <1>2 DEF OutInv
  <1>7. IsFiniteSet((D \cup S) \cup H) /\ Cardinality((D \cup S) \cup H) = x + y + h
    <2>1. Cardinality({}) = 0
      BY FS_EmptySet
    <2>2. IsFiniteSet(D \cup S) /\ Cardinality(D \cup S) = x + y - 0
      BY <1>3, <1>4, <1>6, <2>1, FS_Union
    <2>3. /\ IsFiniteSet((D \cup S) \cup H)
          /\ Cardinality((D \cup S) \cup H) = (x + y - 0) + h - 0
      <3>1. PICK E : E = D \cup S
        OBVIOUS
      <3>2. IsFiniteSet(E) /\ IsFiniteSet(H) /\ E \cap H = {}
        BY <1>5, <1>6, <2>2, <3>1
      <3>3. /\ IsFiniteSet(E \cup H)
            /\ Cardinality(E \cup H) = Cardinality(E) + Cardinality(H) - Cardinality({})
        BY <3>2, FS_Union
      <3>4. Cardinality(E) = x + y - 0 /\ Cardinality(H) = h
        BY <1>5, <2>2, <3>1
      <3>. QED  BY <2>1, <3>1, <3>3, <3>4
    <2>. QED  BY <1>4, <2>3
  <1>8. x + y + h <= IdNbr
    <2>1. Cardinality((D \cup S) \cup H) <= Cardinality(Out)
      BY <1>0, <1>6, FewOut, FS_Subset
    <2>2. Cardinality(Out) <= IdNbr /\ Cardinality(Out) \in Nat /\ IdNbr \in Nat
      BY <1>0, FewOut, FS_CardinalityType, ConstantsAre
    <2>. QED  BY <1>7, <2>1, <2>2
  <1>9. x <= Nodes - y - h
    <2>1. IdNbr <= Nodes /\ IdNbr \in Nat /\ Nodes \in Nat
      BY ConstantsAre
    <2>. QED  BY <1>8, <2>1
  <1>. QED  BY <1>4, <1>9 DEF FreeNodes

LEMMA SoftTxIrqStep == ASSUME HalInv, SoftTxIrq, load' = load PROVE HalInv'
  <1>0. /\ Types /\ OutInv /\ Counts /\ irq.pc = "softtx"
        /\ UNCHANGED <<idx, slot, desc, made, fill, sem, lock, lastq, ids, event, upreq,
                       drop, paused, txok, flush, hist>>
    BY DEF HalInv, SoftTxIrq, fillVars
  <1>1. /\ chip \in Chips /\ chip.done \in Seq(Entries) /\ status \in Seq(Entries)
        /\ irq \in Irqs /\ num \in [send : Nat, done : Nat, free : Nat] /\ pages \in Nat
        /\ irq.scat \in Seq(Entries) /\ txsem \in Nat
    BY <1>0 DEF Types, Chips, Irqs
  <1>2. PICK k \in Nat : k = Len(chip.done)
    BY <1>1
  <1>3. SubSeq(chip.done, 1, k) = chip.done
    BY <1>1, <1>2
  <1>4. /\ pages' = pages + FramePages * k /\ status' = status \o chip.done
        /\ num' = [num EXCEPT !.free = @ + k] /\ chip' = [chip EXCEPT !.done = <<>>]
        /\ txsem' = txsem + 1 /\ irq' = [irq EXCEPT !.pc = "gate"]
    BY <1>2, <1>3, NodesSuffice DEF SoftTxIrq, Credit, TxokUps
  <1>5. /\ status' \in Seq(Entries) /\ RangeOf(status') = RangeOf(status) \cup RangeOf(chip.done)
        /\ Inj(status')
    <2>1. Inj(status) /\ Inj(chip.done) /\ RangeOf(status) \cap RangeOf(chip.done) = {}
      BY <1>0 DEF OutInv
    <2>. QED  BY <1>1, <1>4, <2>1, RangeOfConcat
  <1>6. /\ chip'.has = chip.has /\ chip'.done = <<>> /\ chip' \in Chips
        /\ irq' \in Irqs /\ irq'.scat = irq.scat /\ irq'.pc = "gate"
    <2>1. <<>> \in Seq(Entries)
      OBVIOUS
    <2>. QED  BY <1>1, <1>4, <2>1 DEF Chips, Irqs
  <1>7. RangeOf(chip'.done) = {} /\ Len(chip'.done) = 0 /\ Inj(chip'.done)
    BY <1>6 DEF RangeOf, Inj
  <1>8. /\ num' \in [send : Nat, done : Nat, free : Nat] /\ pages' \in Nat
        /\ num'.send = num.send /\ num'.done = num.done /\ num'.free = num.free + k
    <2>1. FramePages * k \in Nat
      BY <1>2, ConstantsAre
    <2>2. /\ num' \in [send : Nat, done : Nat, free : Nat]
          /\ num'.send = num.send /\ num'.done = num.done /\ num'.free = num.free + k
      <3>1. num.free + k \in Nat
        BY <1>1
      <3>2. num' = [num EXCEPT !.free = num.free + k]
        BY <1>4
      <3>. QED  BY ONLY <1>1, <3>1, <3>2
    <2>. QED  BY <1>1, <1>4, <2>1, <2>2
  <1>9. Types'
    <2>1. /\ load' \in Loads /\ idx' \in [Queues -> Rings]
          /\ slot' \in [Queues -> [Slots -> Frames]] /\ desc' \in [Frames -> Descs]
          /\ made' \in [Queues -> 0 .. MaxFrames] /\ fill' \in [Queues -> Fills]
          /\ sem' \in Nat /\ lastq' \in Queues
          /\ IdsUsed' \subseteq Ids /\ ids' \in [IdsUsed' -> Frames]
          /\ upreq' \in BOOLEAN /\ drop' \in BOOLEAN /\ paused' \in BOOLEAN
          /\ txok' \in [pc : {"down", "take", "free", "test"}, entry : Entries \cup {NoEntry}]
          /\ (txok'.pc = "free" => txok'.entry \in Entries)
          /\ flush'.pc = "off" /\ flush'.calls = 0
          /\ hist'.handled \in Seq(Frames) /\ hist'.down \in [Queues -> Seq(Frames)]
      BY <1>0 DEF Types, IdsUsed
    <2>2. lock' = IF irq'.pc \in Locked THEN "irq" ELSE "free"
      BY <1>0, <1>6 DEF Types, Locked
    <2>3. txsem' \in Nat
      BY <1>1, <1>4
    <2>. QED  BY <1>5, <1>6, <1>8, <2>1, <2>2, <2>3 DEF Types, Chips
  <1>10. RingInv' /\ AggInv' /\ IdInv' /\ Out' = Out /\ MadeSet' = MadeSet /\ DownSet' = DownSet
    BY <1>0, PartsKept
  <1>11. OutInv'
    <2>1. /\ RangeOf(irq.scat)' = RangeOf(irq.scat)
          /\ RangeOf(status)' = RangeOf(status) \cup RangeOf(chip.done)
          /\ RangeOf(chip.done)' = {}
      BY <1>5, <1>6, <1>7 DEF RangeOf
    <2>4. Inj(irq.scat)' /\ Inj(status)' /\ Inj(chip.done)'
      BY <1>0, <1>5, <1>6, <1>7 DEF OutInv, Inj
    <2>2. Hand' = Hand
      BY <1>0 DEF Hand
    <2>3. irq.scat = <<>> /\ irq'.scat = <<>>
      BY <1>0, <1>6 DEF OutInv
    <2>. QED  BY <1>0, <1>6, <1>10, <2>1, <2>2, <2>3, <2>4 DEF OutInv
  <1>12. Counts'
    <2>1. Cardinality(chip.has) \in Nat /\ Len(irq.scat) \in Nat
      BY <1>0, <1>1, FS_CardinalityType DEF Counts
    <2>2. PICK a \in Nat, b \in Nat, d \in Nat, f \in Nat, F \in Nat :
            a = Len(irq.scat) /\ b = Cardinality(chip.has) /\ d = num.done /\ f = num.free
            /\ F = FramePages
      BY <1>1, <2>1, ConstantsAre
    <2>3. d - f = a + b + k /\ pages + F * (d - f) = PageNbr
      BY <1>0, <1>2, <2>2 DEF Counts
    <2>4. d - (f + k) = a + b + 0
      BY <2>3
    <2>5. (pages + F * k) + F * (d - (f + k)) = PageNbr
      BY <1>1, <2>3
    <2>. QED  BY <1>0, <1>4, <1>6, <1>7, <1>8, <1>10, <2>2, <2>4, <2>5 DEF Counts
  <1>. QED  BY <1>9, <1>10, <1>11, <1>12 DEF HalInv

-----------------------------------------------------------------------------
(* The txok thread.                                                        *)

LEMMA TxokTakeStep == ASSUME HalInv, TxokTake, load' = load PROVE HalInv'
  <1>0. /\ Types /\ OutInv /\ Counts /\ txok.pc = "take"
        /\ UNCHANGED <<idx, slot, desc, made, fill, sem, irq, lastq, lock, ids, pages, num,
                       upreq, drop, paused, chip, txsem, flush, hist>>
    BY DEF HalInv, TxokTake, fillVars, irqVars
  <1>1. Hand = {} /\ status \in Seq(Entries) /\ Inj(status)
    BY <1>0 DEF Hand, Types, OutInv
  <1>2. RingInv' /\ AggInv' /\ IdInv' /\ Out' = Out /\ MadeSet' = MadeSet /\ DownSet' = DownSet
    BY <1>0, PartsKept
  <1>3. Counts'
    BY <1>0, CountsKept
  <1>4. CASE status = <<>>
    <2>1. txok' = [txok EXCEPT !.pc = "test"] /\ status' = status
      BY <1>4 DEF TxokTake
    <2>2. Hand' = Hand /\ txok' \in Txoks
      BY <1>0, <2>1 DEF Hand, Types, Txoks
    <2>3. OutInv'
      BY <1>0, <2>1, <2>2, OutKept DEF OutInv
    <2>4. Types'
      <3>1. /\ sem' \in Nat /\ txsem' \in Nat /\ irq' \in Irqs /\ lastq' \in Queues
            /\ lock' = (IF irq'.pc \in Locked THEN "irq" ELSE "free")
            /\ {upreq', drop', paused'} \subseteq BOOLEAN /\ chip' \in Chips
        BY <1>0 DEF Types, Chips
      <3>. QED  BY <1>0, <2>1, <2>2, <3>1, ThreadTypes
    <2>. QED  BY <1>2, <1>3, <2>3, <2>4 DEF HalInv
  <1>5. CASE status # <<>>
    <2>1. txok' = [pc |-> "free", entry |-> Head(status)] /\ status' = Tail(status)
      BY <1>5 DEF TxokTake
    <2>2. /\ Head(status) \in Entries /\ Tail(status) \in Seq(Entries)
          /\ RangeOf(status) = {Head(status)} \cup RangeOf(Tail(status))
          /\ Inj(Tail(status)) /\ Head(status) \notin RangeOf(Tail(status))
      BY <1>1, <1>5, RangeOfTail
    <2>3. txok' \in [pc : {"down", "take", "free", "test"}, entry : Entries \cup {NoEntry}]
          /\ txok'.entry \in Entries /\ Hand' = {Head(status)}
      BY <2>1, <2>2 DEF Hand
    <2>4. Types'
      BY <1>0, <2>1, <2>2, <2>3 DEF Types, IdsUsed
    <2>5. OutInv'
      <3>1. /\ RangeOf(irq.scat)' = RangeOf(irq.scat)
            /\ RangeOf(status)' = RangeOf(Tail(status))
            /\ RangeOf(chip.done)' = RangeOf(chip.done)
            /\ Inj(irq.scat)' /\ Inj(status)' /\ Inj(chip.done)'
        BY <1>0, <2>1, <2>2 DEF OutInv, RangeOf, Inj
      <3>. QED  BY <1>0, <1>1, <1>2, <2>2, <2>3, <3>1 DEF OutInv
    <2>. QED  BY <1>2, <1>3, <2>4, <2>5 DEF HalInv
  <1>. QED  BY <1>4, <1>5

LEMMA TxokFreeStep == ASSUME HalInv, TxokFree, load' = load PROVE HalInv'
  <1>0. /\ Types /\ RingInv /\ AggInv /\ IdInv /\ OutInv /\ Counts /\ txok.pc = "free"
        /\ UNCHANGED <<idx, slot, desc, made, fill, sem, irq, lastq, lock, pages, num,
                       upreq, paused, chip, status, txsem, flush>>
        /\ txok' = [txok EXCEPT !.pc = "take"]
    BY DEF HalInv, TxokFree, fillVars, irqVars
  <1>1. PICK e \in Entries : e = txok.entry /\ Hand = {e}
    BY <1>0 DEF Types, Hand
  <1>2. e \in Out /\ e.id \in IdsUsed /\ ids[e.id] = e.frame
        /\ e.frame.n <= Down(e.frame.q) /\ e.id \in Ids
    <2>1. e \in Out
      BY <1>0, <1>1 DEF OutInv
    <2>. QED  BY <2>1 DEF Out, IsOut, Entries
  <1>3. PICK f \in Frames, x \in Ids : f = e.frame /\ x = e.id /\ f = ids[x] /\ x \in IdsUsed
    BY <1>2 DEF Entries
  <1>4. /\ ids' = WithoutId(x) /\ drop' = (drop /\ IdsUsed # {x})
        /\ hist' = [hist EXCEPT !.handled = Append(@, f)]
    BY <1>1, <1>2, <1>3 DEF TxokFree, FreeId
  <1>5. hist'.down = hist.down /\ hist'.handled = Append(hist.handled, f)
    BY <1>4, <1>0 DEF Types
  <1>6. /\ DOMAIN ids' = IdsUsed \ {x} /\ \A i \in IdsUsed \ {x} : ids'[i] = ids[i]
        /\ IdsUsed' = IdsUsed \ {x}
    BY <1>4 DEF WithoutId, IdsUsed
  <1>7. desc[f].id = x /\ f \notin Handled
    BY <1>0, <1>3 DEF IdInv
  <1>8. /\ hist'.handled \in Seq(Frames) /\ Handled' = Handled \cup {f} /\ Inj(hist'.handled)
    <2>1. hist.handled \in Seq(Frames) /\ Inj(hist.handled) /\ f \notin RangeOf(hist.handled)
      BY <1>0, <1>7 DEF Types, IdInv, Inj, Handled
    <2>. QED  BY <1>5, <2>1, RangeOfAppend DEF Handled
  <1>9. txok' \in Txoks /\ txok'.pc = "take" /\ Hand' = {}
    BY <1>0 DEF Types, Hand, Txoks
  <1>10. Types'
    <2>1. ids' \in [IdsUsed' -> Frames] /\ IdsUsed' \subseteq Ids
      <3>1. IdsUsed \subseteq Ids /\ ids \in [IdsUsed -> Frames]
        BY <1>0 DEF Types
      <3>2. ids' \in [IdsUsed \ {x} -> Frames]
        BY <1>4, <3>1 DEF WithoutId
      <3>. QED  BY <1>6, <3>1, <3>2
    <2>2. drop' \in BOOLEAN
      BY <1>4
    <2>. QED  BY <1>0, <1>5, <1>8, <1>9, <2>1, <2>2 DEF Types, Txoks
  <1>11. RingInv' /\ AggInv' /\ Counts'
    BY <1>0, <1>5, RingKept, AggKept, CountsKept
  <1>12. \A q \in Queues : Prom(q)' = Prom(q) /\ Down(q)' = Down(q)
    BY <1>0, <1>5, NumbersKept
  <1>13. IdInv'
    <2>1. ASSUME NEW i \in IdsUsed', NEW h \in Frames, ids'[i] = h
          PROVE  h.n <= Prom(h.q)' /\ desc'[h].id = i /\ h \notin Handled'
      <3>1. i \in IdsUsed /\ i # x /\ ids[i] = h
        BY <1>6, <2>1
      <3>2. h.n <= Prom(h.q) /\ desc[h].id = i /\ h \notin Handled /\ h.q \in Queues
        BY <1>0, <3>1, FrameIs DEF IdInv
      <3>. QED  BY <1>0, <1>7, <1>8, <1>12, <3>1, <3>2
    <2>2. ASSUME NEW h \in Frames, h.n <= Prom(h.q)', h \notin Handled'
          PROVE  desc'[h].id \in IdsUsed' /\ ids'[desc'[h].id] = h
      <3>1. h.n <= Prom(h.q) /\ h \notin Handled /\ h # f
        BY <1>8, <1>12, <2>2, FrameIs
      <3>2. desc[h].id \in IdsUsed /\ ids[desc[h].id] = h
        BY <1>0, <3>1 DEF IdInv
      <3>. QED  BY <1>0, <1>3, <1>6, <3>1, <3>2
    <2>3. \A h \in Handled' : h.n <= Down(h.q)'
      <3>1. f.q \in Queues /\ f.n <= Down(f.q) /\ f.n <= Down(f.q)'
        BY <1>2, <1>3, <1>12, FrameIs
      <3>2. \A h \in Handled : h \in Frames
        BY <1>0 DEF Handled, RangeOf, Types
      <3>3. \A h \in Handled : h.n <= Down(h.q)'
        BY <1>0, <1>12, <3>2, FrameIs DEF IdInv
      <3>. QED  BY <1>8, <3>1, <3>3
    <2>4. \A j, k \in DOMAIN hist'.handled : hist'.handled[j] = hist'.handled[k] => j = k
      BY <1>8 DEF Inj
    <2>. QED  BY <2>1, <2>2, <2>3, <2>4 DEF IdInv
  <1>14. Out' = Out \ {e}
    <2>1. ASSUME NEW d \in Entries PROVE IsOut(d)' <=> IsOut(d) /\ d # e
      <3>1. d = [frame |-> d.frame, id |-> d.id] /\ e = [frame |-> e.frame, id |-> e.id]
        BY DEF Entries
      <3>2. IsOut(d) /\ d.id = x => d = e
        BY <1>2, <1>3, <3>1 DEF IsOut
      <3>3. Down(d.frame.q)' = Down(d.frame.q)
        BY <1>5 DEF Down
      <3>. QED  BY <1>3, <1>6, <3>2, <3>3 DEF IsOut
    <2>. QED  BY <2>1 DEF Out
  <1>15. OutInv'
    <2>1. /\ RangeOf(irq.scat)' = RangeOf(irq.scat)
          /\ RangeOf(status)' = RangeOf(status)
          /\ RangeOf(chip.done)' = RangeOf(chip.done)
          /\ Inj(irq.scat)' /\ Inj(status)' /\ Inj(chip.done)'
      BY <1>0 DEF OutInv, RangeOf, Inj
    <2>. QED  BY <1>0, <1>1, <1>9, <1>14, <2>1 DEF OutInv
  <1>. QED  BY <1>10, <1>11, <1>13, <1>15 DEF HalInv

-----------------------------------------------------------------------------
(* hal_txframe_pre: an aggregate leaves the ring.                          *)

(* The aggregate at the head of SET, when all of it is there, ends where   *)
(* one of the aggregates does.                                             *)
LEMMA HeadIsWhole ==
    ASSUME HalInv, NEW q \in Queues, Downloads(q)
    PROVE  \E n \in 1 .. MaxAgg :
             /\ n = HeadAgg(q) /\ n <= Prom(q) - Down(q) /\ n * FramePages <= pages
             /\ \A ends \in SUBSET (0 .. Whole(q)) : IsEnds(q, ends) => Down(q) + n \in ends
  <1>0. Types /\ RingInv /\ AggInv /\ RingAt(q) /\ AggAt(q)
    BY DEF HalInv, RingInv, AggInv
  <1>1. PICK d \in Nat, p \in Nat, m \in Nat : d = Down(q) /\ p = Prom(q) /\ m = made[q]
    BY <1>0, Numbers
  <1>2. d < p /\ p <= m /\ m <= MaxFrames
    BY <1>0, <1>1, Numbers, WholeIs DEF Downloads
  <1>3. slot[q][Pick(idx[q], SET)] = Frame(q, d + 1)
    <2>1. d + 1 \in Down(q) + 1 .. made[q]
      BY <1>1, <1>2
    <2>. QED  BY <1>0, <1>1, <2>1 DEF RingAt, RingIs, Pick
  <1>4. HeadAgg(q) = desc[Frame(q, d + 1)].agg
    BY <1>3 DEF HeadAgg
  <1>5. HeadAgg(q) \in 0 .. MaxAgg
    <2>1. d + 1 \in 1 .. MaxFrames
      BY <1>2, ConstantsAre
    <2>. QED  BY <1>0, <1>4, <2>1, FrameOf DEF Types, Descs
  <1>6. PICK n \in 0 .. MaxAgg : n = HeadAgg(q)
    BY <1>5
  <1>7. n <= p - d /\ n * FramePages <= pages
    <2>1. NbEltCont(idx[q], SET) = Prom(q) - Down(q)
      BY <1>0, Numbers
    <2>. QED  BY <1>1, <1>6, <2>1 DEF Downloads, Fits
  <1>8. Whole(q) \in 0 .. m
    BY <1>0, <1>1, WholeIs
  <1>9. d # Whole(q)
    <2>1. SUFFICES ASSUME d = Whole(q) PROVE FALSE
      OBVIOUS
    <2>2. Filling(q)
      BY <1>1, <1>2, <2>1 DEF Whole
    <2>3. PICK a \in Nat, l \in Nat, f \in Nat :
            a = fill[q].agg /\ l = fill[q].left /\ f = fill[q].first
      <3>1. fill[q] \in Fills
        BY <1>0 DEF Types
      <3>2. fill[q].agg \in 0 .. MaxAgg /\ fill[q].left \in 0 .. MaxAgg
            /\ fill[q].first \in Nat
        BY <3>1 DEF Fills
      <3>3. fill[q].agg \in Nat /\ fill[q].left \in Nat
        BY <3>2, ConstantsAre
      <3>. QED  BY <3>2, <3>3
    <2>4. f - 1 = d /\ l > 0 /\ m + l = f - 1 + a
      BY <1>0, <1>1, <2>1, <2>2, <2>3 DEF Whole, AggAt
    <2>5. desc[Frame(q, d + 1)].agg = a
      <3>1. d + 1 \in fill[q].first .. made[q]
        BY <1>1, <1>2, <2>3, <2>4
      <3>. QED  BY <1>0, <2>2, <2>3, <3>1 DEF AggAt
    <2>6. n = a
      BY <1>4, <1>6, <2>5
    <2>. QED  BY <1>2, <1>7, <2>4, <2>6
  <1>10. ASSUME NEW ends \in SUBSET (0 .. Whole(q)), IsEnds(q, ends)
         PROVE  n > 0 /\ Down(q) + n \in ends
    <2>1. d \in ends \ {Whole(q)}
      BY <1>1, <1>9, <1>10 DEF IsEnds
    <2>. QED  BY <1>1, <1>4, <1>6, <1>10, <2>1 DEF IsEnds
  <1>11. n > 0
    BY <1>0, <1>10 DEF AggAt
  <1>. QED  BY <1>1, <1>6, <1>7, <1>10, <1>11

(* The frames that leave.                                                  *)
AreNext(F, q, d, n) ==
    F \in Seq(Frames) /\ Len(F) = n /\ \A k \in 1 .. n : F[k] = Frame(q, d + k)
NextFrames(q, d, n) == {f \in Frames : f.q = q /\ f.n > d /\ f.n <= d + n}

LEMMA FramesLeave ==
    ASSUME NEW q \in Queues, NEW d \in Nat, NEW n \in Nat, d + n <= MaxFrames,
           NEW F, AreNext(F, q, d, n)
    PROVE  Inj(F) /\ RangeOf(F) = NextFrames(q, d, n)
  <1>0. \A k \in 1 .. n : d + k \in 1 .. MaxFrames
    BY ConstantsAre
  <1>1. \A k \in 1 .. n : Frame(q, d + k) \in Frames /\ Frame(q, d + k).q = q
                          /\ Frame(q, d + k).n = d + k
    BY <1>0, FrameOf
  <1>2. DOMAIN F = 1 .. n /\ \A k \in 1 .. n : F[k] = Frame(q, d + k)
    BY DEF AreNext
  <1>3. Inj(F)
    <2>1. \A k \in 1 .. n : F[k].n = d + k
      BY <1>1, <1>2
    <2>2. \A j, k \in 1 .. n : d + j = d + k => j = k
      OBVIOUS
    <2>. QED  BY <1>2, <2>1, <2>2 DEF Inj
  <1>4. ASSUME NEW f \in Frames, f.q = q, f.n > d, f.n <= d + n
        PROVE  f \in RangeOf(F)
    <2>1. f.n \in Nat /\ f = Frame(f.q, f.n)
      BY FrameIs, ConstantsAre
    <2>2. f.n - d \in 1 .. n /\ d + (f.n - d) = f.n
      BY <1>4, <2>1
    <2>3. F[f.n - d] = f
      BY <1>2, <1>4, <2>1, <2>2
    <2>. QED  BY <1>2, <2>2, <2>3 DEF RangeOf
  <1>5. \A f \in RangeOf(F) : f \in Frames /\ f.q = q /\ f.n > d /\ f.n <= d + n
    <2>1. \A k \in 1 .. n : d + k > d /\ d + k <= d + n
      OBVIOUS
    <2>. QED  BY <1>1, <1>2, <2>1 DEF RangeOf
  <1>. QED  BY <1>3, <1>4, <1>5 DEF NextFrames

LEMMA DownloadStep == ASSUME HalInv, Download, load' = load PROVE HalInv'
  <1>0. /\ Types /\ RingInv /\ AggInv /\ IdInv /\ OutInv /\ Counts
        /\ irq.pc = "set" /\ Downloads(irq.q)
        /\ UNCHANGED <<slot, desc, made, fill, sem, lock, ids, upreq, drop, paused,
                       chip, status, txok, txsem, flush>>
    BY DEF HalInv, Download, fillVars, txokVars
  <1>1. irq \in Irqs /\ irq.q \in Queues /\ irq.scat \in Seq(Entries)
    BY <1>0 DEF Types, Irqs
  <1>2. PICK q \in Queues : q = irq.q
    BY <1>1
  <1>3. PICK n \in 1 .. MaxAgg :
          /\ n = HeadAgg(q) /\ n <= Prom(q) - Down(q) /\ n * FramePages <= pages
          /\ \A ends \in SUBSET (0 .. Whole(q)) : IsEnds(q, ends) => Down(q) + n \in ends
    BY <1>0, <1>2, HeadIsWhole
  <1>4. RingAt(q) /\ AggAt(q)
    BY <1>0 DEF RingInv, AggInv
  <1>5. PICK r \in Rings, d \in Nat, p \in Nat, m \in Nat, g \in 0 .. 1 :
          /\ r = idx[q] /\ d = Down(q) /\ p = Prom(q) /\ m = made[q] /\ g = Got(q)
          /\ p <= m /\ m <= MaxFrames /\ NbElt(idx[q], SET) = p - d
    <2>1. made[q] <= MaxFrames
      BY <1>0, WholeIs, ConstantsAre
    <2>. QED  BY <1>0, <1>4, <2>1, Numbers
  <1>n. n \in Nat /\ n > 0 /\ d + n <= p /\ d + n <= MaxFrames /\ d + n \in Nat
    BY <1>3, <1>5, ConstantsAre
  <1>6. \A k \in 1 .. n : slot[q][Wrap(Pick(idx[q], SET) + k - 1)] = Frame(q, d + k)
    <2>1. \A k \in 1 .. n : k \in 1 .. NbElt(idx[q], SET)
      BY <1>5, <1>n
    <2>. QED  BY <1>0, <1>5, <2>1, WaitInSet
  <1>7. PICK F, T : /\ F = [k \in 1 .. n |-> Frame(q, d + k)]
                    /\ T = [k \in 1 .. n |-> Entry(Frame(q, d + k), desc[Frame(q, d + k)].id)]
    OBVIOUS
  <1>8. /\ irq' = [irq EXCEPT !.scat = @ \o T]
        /\ idx' = [idx EXCEPT ![q] = AfterPut(AfterGet(@, SET, n), SET, n)]
        /\ pages' = pages - n * FramePages /\ num' = [num EXCEPT !.done = @ + n]
        /\ lastq' = q /\ hist' = [hist EXCEPT !.down[q] = @ \o F]
    <2>1. [k \in 1 .. n |-> Entry(slot[q][Wrap(Pick(idx[q], SET) + k - 1)],
                                  desc[slot[q][Wrap(Pick(idx[q], SET) + k - 1)]].id)] = T
      BY <1>6, <1>7
    <2>2. [k \in 1 .. n |-> slot[q][Wrap(Pick(idx[q], SET) + k - 1)]] = F
      BY <1>6, <1>7
    <2>. QED  BY <1>2, <1>3, <2>1, <2>2 DEF Download
  <1>9. /\ F \in Seq(Frames) /\ Len(F) = n /\ Inj(F)
        /\ RangeOf(F) = {f \in Frames : f.q = q /\ f.n > d /\ f.n <= d + n}
    <2>1. \A k \in 1 .. n : F[k] = Frame(q, d + k)
      BY <1>7
    <2>2. \A k \in 1 .. n : Frame(q, d + k) \in Frames
      <3>1. \A k \in 1 .. n : d + k \in 1 .. MaxFrames
        BY <1>n, ConstantsAre
      <3>. QED  BY <3>1, FrameOf
    <2>3. F \in [1 .. n -> Frames]
      BY <1>7, <2>2
    <2>4. F \in Seq(Frames) /\ Len(F) = n
      BY ONLY <1>n, <2>3
    <2>5. /\ Inj(F)
          /\ RangeOf(F) = {f \in Frames : f.q = q /\ f.n > d /\ f.n <= d + n}
      <3>1. n \in Nat /\ d + n <= MaxFrames
        BY <1>n
      <3>2. AreNext(F, q, d, n)
        BY <2>1, <2>4 DEF AreNext
      <3>3. Inj(F) /\ RangeOf(F) = NextFrames(q, d, n)
        BY ONLY <3>1, <3>2, FramesLeave, q \in Queues, d \in Nat
      <3>. QED  BY <3>3 DEF NextFrames
    <2>. QED  BY <2>4, <2>5
  <1>10. \A k \in 1 .. n : F[k] = Frame(q, d + k) /\ F[k] \in Frames /\ F[k] \in RangeOf(F)
    BY <1>7, <1>9 DEF RangeOf
  <1>11. /\ T \in Seq(Entries) /\ Len(T) = n /\ Inj(T) /\ IsFiniteSet(RangeOf(F))
         /\ RangeOf(T) = {e \in Entries : e.frame \in RangeOf(F) /\ e.id = desc[e.frame].id}
         /\ Cardinality(RangeOf(F)) = n
    <2>1. \A f \in Frames : desc[f].id \in Ids
      BY <1>0 DEF Types, Descs
    <2>2. \A k \in 1 .. n : T[k] = Entry(F[k], desc[F[k]].id) /\ T[k] \in Entries
                              /\ T[k].frame = F[k] /\ T[k].id = desc[F[k]].id
      BY <1>7, <1>10, <2>1 DEF Entry, Entries
    <2>3. T \in Seq(Entries) /\ Len(T) = n /\ DOMAIN T = 1 .. n /\ DOMAIN F = 1 .. n
      <3>1. DOMAIN T = 1 .. n /\ DOMAIN F = 1 .. n /\ T = [k \in 1 .. n |-> T[k]]
        BY <1>7
      <3>2. T \in [1 .. n -> Entries]
        BY <2>2, <3>1
      <3>3. T \in Seq(Entries) /\ Len(T) = n
        BY ONLY <1>n, <3>2
      <3>. QED  BY <3>1, <3>3
    <2>4. Inj(T)
      BY <1>9, <2>2, <2>3 DEF Inj
    <2>5. \A e \in RangeOf(T) : e \in Entries /\ e.frame \in RangeOf(F) /\ e.id = desc[e.frame].id
      <3>. SUFFICES ASSUME NEW e \in RangeOf(T)
                    PROVE  e \in Entries /\ e.frame \in RangeOf(F) /\ e.id = desc[e.frame].id
        OBVIOUS
      <3>1. PICK k \in 1 .. n : e = T[k]
        BY <2>3 DEF RangeOf
      <3>. QED  BY <1>10, <2>2, <3>1
    <2>6. ASSUME NEW e \in Entries, e.frame \in RangeOf(F), e.id = desc[e.frame].id
          PROVE  e \in RangeOf(T)
      <3>1. PICK k \in 1 .. n : e.frame = F[k]
        BY <2>3, <2>6 DEF RangeOf
      <3>2. e = T[k]
        BY <2>2, <2>6, <3>1 DEF Entries, Entry
      <3>. QED  BY <2>3, <3>2 DEF RangeOf
    <2>. QED  BY <1>9, <2>3, <2>4, <2>5, <2>6, EntriesOf
  <1>12. /\ irq' \in Irqs /\ irq'.pc = "set" /\ irq'.scat = irq.scat \o T
         /\ irq'.scat \in Seq(Entries) /\ Len(irq'.scat) = Len(irq.scat) + n
         /\ RangeOf(irq'.scat) = RangeOf(irq.scat) \cup RangeOf(T)
    <2>1. irq.scat \o T \in Seq(Entries) /\ Len(irq.scat \o T) = Len(irq.scat) + n
          /\ RangeOf(irq.scat \o T) = RangeOf(irq.scat) \cup RangeOf(T)
      <3>1. PICK a \in Seq(Entries) : a = irq.scat
        BY <1>1
      <3>2. T \in Seq(Entries) /\ Len(T) = n
        BY <1>11
      <3>3. a \o T \in Seq(Entries) /\ Len(a \o T) = Len(a) + Len(T)
            /\ RangeOf(a \o T) = RangeOf(a) \cup RangeOf(T)
        BY ONLY <3>2, RangeOfConcat, a \in Seq(Entries)
      <3>. QED  BY <3>1, <3>2, <3>3
    <2>2. irq' \in Irqs /\ irq'.pc = "set" /\ irq'.scat = irq.scat \o T
      BY <1>0, <1>1, <1>8, <2>1 DEF Irqs
    <2>. QED  BY <2>1, <2>2
  <1>13. /\ AfterPut(AfterGet(r, SET, n), SET, n) \in Rings
         /\ RingIs(AfterPut(AfterGet(r, SET, n), SET, n), d + n, p, m, g)
    <2>1. RingIs(r, d, p, m, g)
      BY <1>4, <1>5 DEF RingAt
    <2>2. n <= p - d
      BY <1>n, <1>5
    <2>. QED  BY ONLY <1>n, <2>1, <2>2, RingSent, r \in Rings, d \in Nat, p \in Nat,
                      m \in Nat, g \in 0 .. 1
  <1>14. /\ idx' \in [Queues -> Rings]
         /\ idx'[q] = AfterPut(AfterGet(r, SET, n), SET, n)
         /\ \A y \in Queues \ {q} : idx'[y] = idx[y]
    <2>1. idx \in [Queues -> Rings]
      BY <1>0 DEF Types
    <2>. QED  BY <1>5, <1>8, <1>13, <2>1
  <1>15. /\ hist'.handled = hist.handled /\ hist'.down \in [Queues -> Seq(Frames)]
         /\ hist'.down[q] = hist.down[q] \o F
         /\ \A y \in Queues \ {q} : hist'.down[y] = hist.down[y]
    <2>1. hist.down \in [Queues -> Seq(Frames)] /\ hist.down[q] \o F \in Seq(Frames)
      BY <1>0, <1>9 DEF Types
    <2>2. hist'.handled = hist.handled /\ hist'.down = [hist.down EXCEPT ![q] = @ \o F]
      BY <1>8, <2>1
    <2>. QED  BY <2>1, <2>2
  <1>16. /\ num' \in [send : Nat, done : Nat, free : Nat]
         /\ num'.send = num.send /\ num'.done = num.done + n /\ num'.free = num.free
         /\ pages' \in Nat /\ pages' = pages - n * FramePages
    <2>1. num \in [send : Nat, done : Nat, free : Nat] /\ num.done + n \in Nat
          /\ num' = [num EXCEPT !.done = num.done + n]
      BY <1>0, <1>8, <1>n DEF Types
    <2>2. num' \in [send : Nat, done : Nat, free : Nat]
          /\ num'.send = num.send /\ num'.done = num.done + n /\ num'.free = num.free
      BY ONLY <2>1
    <2>3. n * FramePages \in Nat /\ pages \in Nat
      BY <1>0, <1>n, ConstantsAre DEF Types
    <2>. QED  BY <1>3, <1>8, <2>2, <2>3
  <1>17. Types'
    <2>1. lock' = IF irq'.pc \in Locked THEN "irq" ELSE "free"
      BY <1>0, <1>12 DEF Types, Locked
    <2>. QED  BY <1>0, <1>8, <1>12, <1>14, <1>15, <1>16, <2>1 DEF Types, IdsUsed
  <1>18. \A y \in Queues \ {q} :
           RingAt(y)' /\ AggAt(y)' /\ Prom(y)' = Prom(y) /\ Down(y)' = Down(y)
    BY <1>0, <1>14, <1>15, OtherQueues
  <1>19. Down(q)' = d + n /\ Got(q)' = g /\ made'[q] = m
    <2>1. hist.down[q] \in Seq(Frames)
      BY <1>0 DEF Types
    <2>2. Len(hist.down[q] \o F) = Len(hist.down[q]) + n
      BY <1>9, <2>1
    <2>. QED  BY <1>0, <1>5, <1>15, <2>2 DEF Down, Got
  <1>20. Prom(q)' = p /\ RingIs(idx'[q], Down(q)', Prom(q)', made'[q], Got(q)')
    <2>1. RingIs(idx'[q], d + n, p, m, g)
      BY <1>13, <1>14
    <2>. QED  BY ONLY <1>n, <1>5, <1>19, <2>1, RingAtMoved, q \in Queues
  <1>21. RingAt(q)'
    <2>1. \A k \in 1 .. Down(q)' : hist'.down[q][k] = Frame(q, k)
      <3>1. hist.down[q] \in Seq(Frames) /\ Len(hist.down[q]) = d
        BY <1>0, <1>5 DEF Types, Down
      <3>2. ASSUME NEW k \in 1 .. d + n PROVE (hist.down[q] \o F)[k] = Frame(q, k)
        <4>1. CASE k \in 1 .. d
          <5>1. (hist.down[q] \o F)[k] = hist.down[q][k]
            BY <1>9, <3>1, <4>1
          <5>. QED  BY <1>4, <1>5, <4>1, <5>1 DEF RingAt
        <4>2. CASE k \in d + 1 .. d + n
          <5>1. PICK a \in Seq(Frames) : a = hist.down[q] /\ Len(a) = d
            BY <3>1
          <5>2. F \in Seq(Frames) /\ Len(F) = n
            BY <1>9
          <5>3. (a \o F)[k] = F[k - d] /\ k - d \in 1 .. n /\ d + (k - d) = k
            <6>1. \A j \in Len(a) + 1 .. Len(a) + Len(F) : (a \o F)[j] = F[j - Len(a)]
              BY ONLY <5>2, a \in Seq(Frames)
            <6>2. (a \o F)[k] = F[k - d]
              BY ONLY <6>1, <4>2, <5>1, <5>2
            <6>3. k - d \in 1 .. n /\ d + (k - d) = k
              BY ONLY <1>n, <4>2, d \in Nat
            <6>. QED  BY <6>2, <6>3
          <5>. QED  BY <1>10, <5>1, <5>3
        <4>3. k \in 1 .. d \/ k \in d + 1 .. d + n
          BY ONLY <1>n, <3>2, d \in Nat
        <4>. QED  BY <4>1, <4>2, <4>3
      <3>. QED  BY <1>15, <1>19, <3>2
    <2>2. \A k \in Down(q)' + 1 .. made'[q] : slot'[q][Place(k)] = Frame(q, k)
      <3>1. \A k \in d + n + 1 .. m : k \in d + 1 .. m
        BY <1>n
      <3>. QED  BY <1>0, <1>4, <1>5, <1>19, <3>1 DEF RingAt
    <2>3. fill'[q].pc = "put" => fill'[q].slot = Place(made'[q] + 1)
      BY <1>0, <1>4 DEF RingAt
    <2>. QED  BY <1>20, <2>1, <2>2, <2>3 DEF RingAt, Place, Frame
  <1>22. AggAt(q)'
    <2>1. PICK ends \in SUBSET (0 .. Whole(q)) : IsEnds(q, ends)
      BY <1>4 DEF AggAt
    <2>2. d + n \in ends
      BY <1>3, <1>5, <2>1
    <2>3. Whole(q)' = Whole(q) /\ (Filling(q)' <=> Filling(q))
      BY <1>0 DEF Whole, Filling
    <2>4. IsEnds(q, ends)'
      BY <1>0, <1>19, <2>1, <2>2, <2>3 DEF IsEnds, Frame
    <2>5. \E e \in SUBSET (0 .. Whole(q)') : IsEnds(q, e)'
      BY <2>3, <2>4
    <2>. QED  BY <1>0, <1>4, <2>3, <2>5 DEF AggAt, Frame
  <1>23. \A y \in Queues : Prom(y)' = Prom(y) /\ Down(y) \in Nat /\ Down(y)' \in Nat
                            /\ Down(y) <= Down(y)' /\ (y # q => Down(y)' = Down(y))
    <2>1. \A y \in Queues : Down(y) \in Nat
      BY <1>0 DEF Down, Types
    <2>2. Prom(q)' = Prom(q) /\ Down(q) <= Down(q)' /\ Down(q)' \in Nat
      BY <1>5, <1>n, <1>19, <1>20
    <2>. QED  BY <1>18, <2>1, <2>2
  <1>24. Handled' = Handled /\ Handled \subseteq Frames
    <2>1. hist.handled \in Seq(Frames)
      BY <1>0 DEF Types
    <2>. QED  BY <1>15, <2>1 DEF Handled, RangeOf
  <1>25. \A f \in Frames : f.n <= Down(f.q) => f.n <= Down(f.q)'
    <2>. SUFFICES ASSUME NEW f \in Frames, f.n <= Down(f.q) PROVE f.n <= Down(f.q)'
      OBVIOUS
    <2>1. f.q \in Queues /\ f.n \in Nat
      BY FrameIs
    <2>2. PICK a \in Nat, b \in Nat : a = Down(f.q) /\ b = Down(f.q)' /\ a <= b
      BY <1>23, <2>1
    <2>. QED  BY <2>1, <2>2
  <1>26. IdInv'
    <2>1. ASSUME NEW i \in IdsUsed', NEW h \in Frames, ids'[i] = h
          PROVE  h.n <= Prom(h.q)' /\ desc'[h].id = i /\ h \notin Handled'
      BY <1>0, <1>23, <1>24, <2>1, FrameIs DEF IdInv, IdsUsed
    <2>2. ASSUME NEW h \in Frames, h.n <= Prom(h.q)', h \notin Handled'
          PROVE  desc'[h].id \in IdsUsed' /\ ids'[desc'[h].id] = h
      BY <1>0, <1>23, <1>24, <2>2, FrameIs DEF IdInv, IdsUsed
    <2>3. \A h \in Handled' : h.n <= Down(h.q)'
      BY <1>0, <1>24, <1>25 DEF IdInv
    <2>4. \A j, k \in DOMAIN hist'.handled : hist'.handled[j] = hist'.handled[k] => j = k
      BY <1>0, <1>15 DEF IdInv
    <2>. QED  BY <2>1, <2>2, <2>3, <2>4 DEF IdInv
  <1>27. \A f \in Frames : f.n <= Down(f.q)' <=> f.n <= Down(f.q) \/ f \in RangeOf(F)
    <2>. SUFFICES ASSUME NEW f \in Frames
                  PROVE  f.n <= Down(f.q)' <=> f.n <= Down(f.q) \/ f \in RangeOf(F)
      OBVIOUS
    <2>1. f.q \in Queues /\ f.n \in Nat
      BY FrameIs
    <2>2. CASE f.q = q
      <3>1. f \in RangeOf(F) <=> f.n > d /\ f.n <= d + n
        BY <1>9, <2>2
      <3>. QED  BY <1>n, <1>5, <1>19, <2>1, <2>2, <3>1
    <2>3. CASE f.q # q
      BY <1>9, <1>23, <2>1, <2>3
    <2>. QED  BY <2>2, <2>3
  <1>28. Out' = Out \cup RangeOf(T) /\ Out \cap RangeOf(T) = {}
    <2>0. \A f \in RangeOf(F) : /\ f \in Frames /\ ~ (f.n <= Down(f.q))
                                 /\ f.n <= Prom(f.q) /\ f \notin Handled
      <3>. SUFFICES ASSUME NEW f \in RangeOf(F)
                    PROVE  /\ f \in Frames /\ ~ (f.n <= Down(f.q))
                           /\ f.n <= Prom(f.q) /\ f \notin Handled
        OBVIOUS
      <3>1. f \in Frames /\ f.q = q /\ f.n > d /\ f.n <= d + n /\ f.n \in Nat
        BY <1>9, FrameIs
      <3>2. ~ (f.n <= Down(f.q)) /\ f.n <= Prom(f.q)
        BY <1>5, <1>n, <3>1
      <3>. QED  BY <1>0, <3>1, <3>2 DEF IdInv
    <2>1. ASSUME NEW e \in Entries
          PROVE  /\ IsOut(e)' <=> IsOut(e) \/ e \in RangeOf(T)
                 /\ ~ (IsOut(e) /\ e \in RangeOf(T))
      <3>0. e.frame \in Frames /\ e.id \in Ids
        BY DEF Entries
      <3>1. e.frame.n <= Down(e.frame.q)' <=> e.frame.n <= Down(e.frame.q) \/ e.frame \in RangeOf(F)
        BY <1>27, <3>0
      <3>2. e \in RangeOf(T) <=> e.frame \in RangeOf(F) /\ e.id = desc[e.frame].id
        BY <1>11
      <3>3. e.frame \in RangeOf(F) /\ e.id = desc[e.frame].id
              => e.id \in IdsUsed /\ ids[e.id] = e.frame
        BY <1>0, <2>0, <3>0 DEF IdInv
      <3>4. e.id \in IdsUsed /\ ids[e.id] = e.frame => e.id = desc[e.frame].id
        BY <1>0, <3>0 DEF IdInv
      <3>5. IsOut(e)' <=> e.id \in IdsUsed /\ ids[e.id] = e.frame /\ e.frame.n <= Down(e.frame.q)'
        BY <1>0 DEF IsOut, IdsUsed
      <3>. QED  BY <2>0, <3>1, <3>2, <3>3, <3>4, <3>5 DEF IsOut
    <2>. QED  BY <1>11, <2>1 DEF Out
  <1>29. OutInv'
    <2>1. /\ RangeOf(irq.scat)' = RangeOf(irq.scat) \cup RangeOf(T)
          /\ RangeOf(status)' = RangeOf(status) /\ RangeOf(chip.done)' = RangeOf(chip.done)
          /\ chip'.has = chip.has /\ Hand' = Hand /\ irq'.pc = "set"
      BY <1>0, <1>12 DEF RangeOf, Hand
    <2>2. Inj(irq.scat)'
      <3>1. RangeOf(irq.scat) \cap RangeOf(T) = {} /\ Inj(irq.scat)
        BY <1>0, <1>28 DEF OutInv
      <3>2. Inj(irq.scat \o T)
        BY <1>1, <1>11, <3>1, RangeOfConcat
      <3>. QED  BY <1>12, <3>2 DEF Inj
    <2>3. Inj(status)' /\ Inj(chip.done)'
      BY <1>0 DEF OutInv, Inj
    <2>4. PICK H, S, D, P, X, O : /\ H = chip.has /\ S = RangeOf(irq.scat)
                                  /\ D = RangeOf(chip.done) /\ P = RangeOf(status)
                                  /\ X = Hand /\ O = Out
      OBVIOUS
    <2>5. /\ H \cup S \cup D \cup P \cup X = O /\ H \cap S = {}
          /\ (H \cup S) \cap D = {} /\ (H \cup S \cup D) \cap P = {}
          /\ (H \cup S \cup D \cup P) \cap X = {}
      BY <1>0, <2>4 DEF OutInv
    <2>6. PICK Z : Z = RangeOf(T)
      OBVIOUS
    <2>7. O \cap Z = {}
      BY <1>28, <2>4, <2>6
    <2>8. /\ H \cup (S \cup Z) \cup D \cup P \cup X = O \cup Z /\ H \cap (S \cup Z) = {}
          /\ (H \cup (S \cup Z)) \cap D = {} /\ (H \cup (S \cup Z) \cup D) \cap P = {}
          /\ (H \cup (S \cup Z) \cup D \cup P) \cap X = {}
      BY ONLY <2>5, <2>7
    <2>. QED  BY <1>28, <2>1, <2>2, <2>3, <2>4, <2>6, <2>8 DEF OutInv
  <1>30. Counts'
    <2>1. MadeSet' = MadeSet
      BY <1>0 DEF MadeSet
    <2>2. DownSet' = DownSet \cup RangeOf(F) /\ DownSet \cap RangeOf(F) = {}
      <3>1. \A f \in RangeOf(F) : f \in Frames /\ ~ (f.n <= Down(f.q))
        <4>. TAKE f \in RangeOf(F)
        <4>1. f \in Frames /\ f.q = q /\ f.n > d /\ f.n \in Nat
          BY <1>9, FrameIs
        <4>. QED  BY <1>5, <4>1
      <3>. QED  BY <1>27, <3>1 DEF DownSet
    <2>3. IsFiniteSet(DownSet') /\ Cardinality(DownSet') = Cardinality(DownSet) + n - 0
      <3>1. PICK A, B : A = DownSet /\ B = RangeOf(F)
        OBVIOUS
      <3>2. IsFiniteSet(A) /\ IsFiniteSet(B) /\ A \cap B = {} /\ Cardinality(B) = n
        BY <1>0, <1>11, <2>2, <3>1 DEF Counts
      <3>3. IsFiniteSet(A \cup B)
            /\ Cardinality(A \cup B) = Cardinality(A) + Cardinality(B) - Cardinality({})
        BY <3>2, FS_Union
      <3>4. Cardinality({}) = 0
        BY FS_EmptySet
      <3>. QED  BY <2>2, <3>1, <3>2, <3>3, <3>4
    <2>4. Len(irq.scat) \in Nat /\ Cardinality(chip.has) \in Nat /\ Len(chip.done) \in Nat
          /\ num.done \in Nat /\ num.free \in Nat /\ pages \in Nat
      BY <1>0, <1>1, FS_CardinalityType DEF Counts, Types
    <2>5. PICK a \in Nat, b \in Nat, c \in Nat, x \in Nat, f \in Nat, Z \in Nat :
            a = Len(irq.scat) /\ b = Cardinality(chip.has) /\ c = Len(chip.done)
            /\ x = num.done /\ f = num.free /\ Z = FramePages
      BY <2>4, ConstantsAre
    <2>6. x - f = a + b + c /\ pages + Z * (x - f) = PageNbr /\ x = Cardinality(DownSet)
      BY <1>0, <2>5 DEF Counts
    <2>7. (x + n) - f = (a + n) + b + c
      <3>1. x - f = a + b + c /\ n \in Nat
        BY <1>n, <2>6
      <3>. QED  BY ONLY <3>1, x \in Nat, f \in Nat, a \in Nat, b \in Nat, c \in Nat
    <2>8. (pages - n * Z) + Z * ((x + n) - f) = PageNbr
      <3>1. pages + Z * (x - f) = PageNbr /\ n \in Nat /\ pages \in Nat
        BY <1>n, <2>4, <2>6
      <3>. QED  BY ONLY <3>1, x \in Nat, f \in Nat, Z \in Nat
    <2>9. Cardinality(DownSet') = x + n
      BY <1>n, <2>3, <2>6
    <2>. QED  BY <1>0, <1>12, <1>16, <2>1, <2>3, <2>5, <2>7, <2>8, <2>9 DEF Counts
  <1>. QED  BY <1>17, <1>18, <1>21, <1>22, <1>26, <1>29, <1>30 DEF HalInv, RingInv, AggInv

-----------------------------------------------------------------------------
(* Every behaviour, until a flush begins.                                  *)

LEMMA InitHolds == ASSUME Init PROVE HalInv /\ FlushIs
  <1>0. EltNbr \in Nat /\ EltNbr >= 2 /\ Place(0) = 0 /\ Place(1) = 1
    <2>1. EltNbr \in Nat /\ EltNbr >= 2
      BY EltNbrAssumption
    <2>2. PICK z \in Int : z = 0
      OBVIOUS
    <2>3. 0 = EltNbr * z + 0 /\ 1 = EltNbr * z + 1 /\ 0 \in 0 .. EltNbr - 1
          /\ 1 \in 0 .. EltNbr - 1
      BY <2>1, <2>2
    <2>4. Place(0) = 0
      BY ONLY <2>3, PlaceUnique, z \in Int, 0 \in Int, Zenon
    <2>5. Place(1) = 1
      BY ONLY <2>3, PlaceUnique, z \in Int, 1 \in Int, Zenon
    <2>. QED  BY <2>1, <2>4, <2>5
  <1>1. FlushIs
    BY DEF Init, FlushIs
  <1>2. /\ load \in Loads
        /\ \A q \in Queues : load.frames[q] \in 0 .. MaxFrames
    BY LoadsAssumption DEF Init
  <1>3. RingInit \in Rings
    BY <1>0, BlocksAre DEF RingInit, Rings, Slots, ProdID, GET, MAKE, SET
  <1>4. Types
    <2>1. idx \in [Queues -> Rings] /\ slot \in [Queues -> [Slots -> Frames]]
      <3>1. \A q \in Queues : [q |-> q, n |-> 1] \in Frames
        BY ConstantsAre DEF Frames
      <3>. QED  BY <1>3, <3>1 DEF Init
    <2>2. desc \in [Frames -> Descs]
      <3>1. [vid |-> AllVids, agg |-> 0, id |-> 0] \in Descs
        BY ConstantsAre DEF Descs
      <3>. QED  BY <3>1 DEF Init
    <2>3. made \in [Queues -> 0 .. MaxFrames] /\ fill \in [Queues -> Fills]
      <3>1. NoBatch \in Fills /\ 0 \in 0 .. MaxFrames
        BY <1>0, ConstantsAre DEF NoBatch, Fills, Slots
      <3>. QED  BY <3>1 DEF Init
    <2>4. irq \in Irqs /\ lock = (IF irq.pc \in Locked THEN "irq" ELSE "free")
          /\ lastq \in Queues
      <3>1. <<>> \in Seq(Entries)
        OBVIOUS
      <3>. QED  BY <3>1, ConstantsAre DEF Init, Irqs, Locked
    <2>5. IdsUsed \subseteq Ids /\ ids \in [IdsUsed -> Frames]
      <3>1. ids = <<>> /\ IdsUsed = {}
        BY DEF Init, IdsUsed
      <3>. QED  BY <3>1
    <2>6. pages \in Nat /\ num \in [send : Nat, done : Nat, free : Nat]
      BY ConstantsAre DEF Init
    <2>7. /\ chip \in [has : SUBSET Entries, done : Seq(Entries), bit : BOOLEAN]
          /\ status \in Seq(Entries)
      <3>1. <<>> \in Seq(Entries)
        OBVIOUS
      <3>. QED  BY <3>1 DEF Init
    <2>8. hist.handled \in Seq(Frames) /\ hist.down \in [Queues -> Seq(Frames)]
      <3>1. <<>> \in Seq(Frames)
        OBVIOUS
      <3>. QED  BY <3>1 DEF Init
    <2>9. /\ txok \in [pc : {"down", "take", "free", "test"}, entry : Entries \cup {NoEntry}]
          /\ txok.pc # "free"
      BY DEF Init
    <2>10. sem \in Nat /\ txsem \in Nat /\ upreq \in BOOLEAN /\ drop \in BOOLEAN
           /\ paused \in BOOLEAN /\ flush.pc = "off" /\ flush.calls = 0
      BY DEF Init
    <2>. QED  BY <1>2, <2>1, <2>2, <2>3, <2>4, <2>5, <2>6, <2>7, <2>8, <2>9, <2>10 DEF Types
  <1>5. ASSUME NEW q \in Queues
        PROVE  /\ Down(q) = 0 /\ made[q] = 0 /\ Got(q) = 0 /\ Prom(q) = 0
               /\ RingIs(idx[q], 0, 0, 0, 0)
    <2>1. Down(q) = 0 /\ made[q] = 0 /\ Got(q) = 0
      BY DEF Init, Down, Got, NoBatch
    <2>2. /\ idx[q].In[GET] = 0 /\ idx[q].In[MAKE] = 1 /\ idx[q].In[SET] = 1
          /\ idx[q].Out[GET] = 1 /\ idx[q].Out[MAKE] = 1 /\ idx[q].Out[SET] = 1
      BY BlocksAre DEF Init, RingInit, ProdID, GET, MAKE, SET
    <2>3. RingIs(idx[q], 0, 0, 0, 0)
      BY <1>0, <2>2 DEF RingIs
    <2>4. NbElt(idx[q], SET) = 0
      BY <1>0, <2>2 DEF NbElt, Wrap
    <2>. QED  BY <2>1, <2>3, <2>4 DEF Prom
  <1>6. RingInv
    <2>1. \A q \in Queues : fill[q].pc = "idle"
      BY DEF Init, NoBatch
    <2>. QED  BY <1>5, <2>1 DEF RingInv, RingAt
  <1>7. AggInv
    <2>1. ASSUME NEW q \in Queues PROVE AggAt(q)
      <3>1. ~ Filling(q) /\ Whole(q) = 0 /\ made[q] <= load.frames[q]
        BY <1>2, <1>5 DEF Init, NoBatch, Filling, Whole
      <3>2. {0} \in SUBSET (0 .. Whole(q)) /\ IsEnds(q, {0})
        BY <1>5, <3>1 DEF IsEnds
      <3>. QED  BY <3>1, <3>2 DEF AggAt
    <2>. QED  BY <2>1 DEF AggInv
  <1>8. \A f \in Frames : ~ (f.n <= Prom(f.q)) /\ ~ (f.n <= Down(f.q)) /\ ~ (f.n <= made[f.q])
    <2>. SUFFICES ASSUME NEW f \in Frames
                  PROVE  ~ (f.n <= Prom(f.q)) /\ ~ (f.n <= Down(f.q)) /\ ~ (f.n <= made[f.q])
      OBVIOUS
    <2>1. f.q \in Queues /\ f.n \in 1 .. MaxFrames
      BY FrameIs
    <2>. QED  BY <1>5, <2>1
  <1>9. Handled = {} /\ IdsUsed = {} /\ Hand = {} /\ DOMAIN hist.handled = {}
    BY DEF Init, Handled, RangeOf, IdsUsed, Hand
  <1>10. IdInv
    BY <1>8, <1>9 DEF IdInv
  <1>11. OutInv
    <2>1. Out = {}
      BY <1>9 DEF Out, IsOut
    <2>2. /\ chip.has = {} /\ RangeOf(irq.scat) = {} /\ RangeOf(chip.done) = {}
          /\ RangeOf(status) = {} /\ Inj(irq.scat) /\ Inj(chip.done) /\ Inj(status)
          /\ irq.scat = <<>>
      BY DEF Init, RangeOf, Inj
    <2>. QED  BY <1>9, <2>1, <2>2 DEF OutInv
  <1>12. Counts
    <2>1. MadeSet = {} /\ DownSet = {}
      BY <1>8 DEF MadeSet, DownSet
    <2>2. IsFiniteSet({}) /\ Cardinality({}) = 0
      BY FS_EmptySet
    <2>3. /\ num.send = 0 /\ num.done = 0 /\ num.free = 0 /\ Len(irq.scat) = 0
          /\ chip.has = {} /\ Len(chip.done) = 0 /\ pages = PageNbr
      BY DEF Init
    <2>. QED  BY <2>1, <2>2, <2>3, ConstantsAre DEF Counts
  <1>. QED  BY <1>1, <1>4, <1>6, <1>7, <1>10, <1>11, <1>12 DEF HalInv

(* Only its beginning counts a call of hal_tx_flush; before that none of   *)
(* its other steps can be taken.                                           *)
LEMMA FlushSteps ==
    ASSUME UntilFlushed, Flush
    PROVE  UntilFlushed'
  <1>1. CASE \E v \in load.flushes : FlushBegin(v)
    <2>1. FlushIs' /\ flush'.calls = flush.calls + 1
      BY <1>1 DEF FlushIs, FlushBegin, UntilFlushed
    <2>2. flush.calls \in Nat
      BY DEF FlushIs, UntilFlushed
    <2>. QED  BY <2>1, <2>2 DEF Unflushed, UntilFlushed
  <1>2. CASE FlushLock \/ FlushMake \/ FlushSet \/ FlushRequeue \/ FlushNext
    <2>1. FlushIs' /\ flush'.calls = flush.calls /\ flush.pc # "off"
      BY <1>2 DEF FlushIs, FlushLock, FlushMake, FlushSet, FlushRequeue, FlushNext, UntilFlushed
    <2>2. ~ Unflushed
      BY <2>1 DEF UntilFlushed, HalInv, Types
    <2>. QED  BY <2>1, <2>2 DEF Unflushed, UntilFlushed
  <1>. QED  BY <1>1, <1>2 DEF Flush

LEMMA OtherSteps ==
    ASSUME HalInv, load' = load,
           \/ \E q \in Queues : \E v \in Vids, n \in 1 .. MaxAgg : FillBegin(q, v, n)
           \/ \E q \in Queues : Fill(q)
           \/ Irq \/ Firmware \/ Txok \/ Pause
    PROVE  HalInv'
  <1>1. ASSUME NEW q \in Queues, NEW v \in Vids, NEW n \in 1 .. MaxAgg, FillBegin(q, v, n)
        PROVE  HalInv'
    BY <1>1, FillBeginStep
  <1>2. ASSUME NEW q \in Queues, Fill(q) PROVE HalInv'
    BY <1>2, FillGetStep, FillPutStep, FillUpStep DEF Fill
  <1>3. CASE Irq
    BY <1>3, IrqDownStep, ReadStatusStep, SoftTxIrqStep, GateStep, EnterStep, TakeTurnStep,
       DrainStep, AskForUpStep, DownloadStep, QueueDoneStep, SendFrameStep, RelockStep
       DEF Irq
  <1>4. CASE Firmware
    BY <1>4, CompleteStep DEF Firmware
  <1>5. CASE Txok
    BY <1>5, TxokDownStep, TxokTakeStep, TxokFreeStep, TxokTestStep DEF Txok
  <1>6. CASE Pause
    BY <1>6, PauseStep
  <1>. QED  BY <1>1, <1>2, <1>3, <1>4, <1>5, <1>6

LEMMA FlushLeft ==
    ASSUME \/ \E q \in Queues : \E v \in Vids, n \in 1 .. MaxAgg : FillBegin(q, v, n)
           \/ \E q \in Queues : Fill(q)
           \/ Irq \/ Firmware \/ Txok \/ Pause
    PROVE  flush' = flush
  <1>1. ASSUME NEW q \in Queues, NEW v \in Vids, NEW n \in 1 .. MaxAgg, FillBegin(q, v, n)
        PROVE  flush' = flush
    BY <1>1 DEF FillBegin
  <1>2. ASSUME NEW q \in Queues, Fill(q) PROVE flush' = flush
    BY <1>2 DEF Fill, FillGet, FillPut, FillUp
  <1>3. CASE Irq
    BY <1>3 DEF Irq, IrqDown, ReadStatus, SoftTxIrq, Gate, Enter, TakeTurn, Drain, AskForUp,
                Download, QueueDone, SendFrame, Relock
  <1>4. CASE Firmware
    BY <1>4 DEF Firmware, Complete
  <1>5. CASE Txok
    BY <1>5 DEF Txok, TxokDown, TxokTake, TxokFree, TxokTest
  <1>6. CASE Pause
    BY <1>6 DEF Pause
  <1>. QED  BY <1>1, <1>2, <1>3, <1>4, <1>5, <1>6

LEMMA StepHolds ==
    ASSUME UntilFlushed, [Next]_vars
    PROVE  UntilFlushed'
  <1>1. CASE Flush /\ load' = load
    BY <1>1, FlushSteps
  <1>2. ASSUME \/ \E q \in Queues : \E v \in Vids, n \in 1 .. MaxAgg : FillBegin(q, v, n)
               \/ \E q \in Queues : Fill(q)
               \/ Irq \/ Firmware \/ Txok \/ Pause,
               load' = load
        PROVE  UntilFlushed'
    <2>1. flush' = flush
      BY <1>2, FlushLeft
    <2>2. Unflushed => HalInv'
      BY <1>2, OtherSteps DEF UntilFlushed
    <2>. QED  BY <2>1, <2>2 DEF UntilFlushed, Unflushed, FlushIs
  <1>3. CASE UNCHANGED vars
    <2>1. UNCHANGED <<idx, slot, desc, made, fill, sem, irq, lastq, lock, ids, pages, num,
                      upreq, drop, paused, chip, status, txok, txsem, flush, load, hist>>
      BY <1>3 DEF vars, irqVars, fillVars, txokVars
    <2>2. ASSUME HalInv PROVE HalInv'
      <3>1. irq'.pc \notin {"set", "send"} => irq.scat = <<>>
        BY <2>1, <2>2 DEF HalInv, OutInv
      <3>2. Hand' = Hand
        BY <2>1 DEF Hand
      <3>3. RingInv' /\ AggInv' /\ IdInv' /\ OutInv' /\ Counts'
        BY <2>1, <2>2, <3>1, <3>2, QuietStep
      <3>4. Types'
        BY <2>1, <2>2 DEF HalInv, Types, IdsUsed
      <3>. QED  BY <3>3, <3>4 DEF HalInv
    <2>. QED  BY <2>1, <2>2 DEF UntilFlushed, Unflushed, FlushIs
  <1>. QED  BY <1>1, <1>2, <1>3 DEF Next, Step

LEMMA Invariant == Spec => []UntilFlushed
  <1>1. Init => UntilFlushed
    BY InitHolds DEF UntilFlushed
  <1>2. UntilFlushed /\ [Next]_vars => UntilFlushed'
    BY StepHolds
  <1>. QED  BY <1>1, <1>2, PTL DEF Spec

-----------------------------------------------------------------------------
(* What the invariant says of the properties.                              *)

LEMMA Owned ==
    ASSUME NEW r, NEW b, NEW y \in Nat, NEW x \in Nat, y <= x, x < y + EltNbr,
           r.In[b] = Place(x), r.Out[b] = Place(y)
    PROVE  OwnedSlots(r, b) = {Place(k) : k \in y .. x - 1}
  <1>0. EltNbr \in Nat /\ EltNbr > 0 /\ NbElt(r, b) = x - y
    BY EltNbrAssumption, EltsOf
  <1>1. ASSUME NEW k \in y .. x - 1
        PROVE  Place(k) \in Slots /\ Dist(Place(y), Place(k)) = k - y /\ k - y < x - y
    <2>1. k \in Nat /\ y <= k /\ k < y + EltNbr /\ k - y < x - y
      BY <1>0
    <2>2. Place(k) \in 0 .. EltNbr - 1 /\ Place(y) \in 0 .. EltNbr - 1
      BY <2>1, PlaceIs DEF Slots
    <2>3. k - y = IF Place(k) >= Place(y) THEN Place(k) - Place(y)
                                          ELSE EltNbr + (Place(k) - Place(y))
      BY <2>1, PlaceApart
    <2>. QED  BY <1>0, <2>1, <2>2, <2>3 DEF Dist, Slots
  <1>2. ASSUME NEW s \in Slots, Dist(Place(y), s) < x - y
        PROVE  \E k \in y .. x - 1 : s = Place(k)
    <2>1. PICK p \in 0 .. EltNbr - 1 : p = Place(y)
      BY PlaceIs DEF Slots
    <2>2. PICK j \in 0 .. EltNbr - 1 : j = Dist(p, s) /\ s = Wrap(p + j)
      <3>1. Dist(p, s) \in 0 .. EltNbr - 1
        BY ONLY <1>0, p \in 0 .. EltNbr - 1, s \in Slots DEF Dist, Slots
      <3>2. s = Wrap(p + Dist(p, s))
        BY ONLY <1>0, p \in 0 .. EltNbr - 1, s \in Slots DEF Dist, Wrap, Slots
      <3>. QED  BY <3>1, <3>2
    <2>3. j \in 0 .. EltNbr /\ j < x - y
      BY <1>0, <1>2, <2>1, <2>2
    <2>4. s = Place(y + j)
      BY <2>1, <2>2, <2>3, PlaceWrap
    <2>5. y + j \in y .. x - 1
      BY <2>3
    <2>. QED  BY <2>4, <2>5
  <1>3. ASSUME NEW k \in y .. x - 1 PROVE Place(k) \in OwnedSlots(r, b)
    BY <1>0, <1>1 DEF OwnedSlots
  <1>4. ASSUME NEW s \in OwnedSlots(r, b) PROVE s \in {Place(k) : k \in y .. x - 1}
    BY <1>0, <1>2 DEF OwnedSlots
  <1>. QED  BY <1>3, <1>4

(* The slots of a queue's frames that wait for the firmware, and of those  *)
(* that wait for an id.                                                    *)
LEMMA SlotsOf ==
    ASSUME HalInv, NEW q \in Queues
    PROVE  /\ \A s \in OwnedSlots(idx[q], SET) : \E k \in Down(q) + 1 .. Prom(q) :
                s = Place(k) /\ slot[q][s] = Frame(q, k)
           /\ \A k \in Down(q) + 1 .. Prom(q) :
                Place(k) \in OwnedSlots(idx[q], SET) /\ slot[q][Place(k)] = Frame(q, k)
           /\ \A s \in OwnedSlots(idx[q], MAKE) : \E k \in Prom(q) + 1 .. made[q] :
                slot[q][s] = Frame(q, k)
           /\ \A k \in 1 .. made[q] : k \in 1 .. MaxFrames
           /\ Down(q) \in Nat /\ Prom(q) \in Nat /\ made[q] \in Nat
           /\ Down(q) <= Prom(q) /\ Prom(q) <= made[q]
  <1>0. Types /\ RingAt(q) /\ AggInv
    BY DEF HalInv, RingInv
  <1>1. PICK r \in Rings, d \in Nat, p \in Nat, m \in Nat, g \in 0 .. 1 :
          /\ r = idx[q] /\ d = Down(q) /\ p = Prom(q) /\ m = made[q] /\ g = Got(q)
          /\ d <= p /\ p <= m
    BY <1>0, Numbers
  <1>2. RingIs(r, d, p, m, g) /\ m < d + EltNbr
    <2>1. RingIs(r, d, p, m, g)
      BY <1>0, <1>1 DEF RingAt
    <2>. QED  BY <2>1, EltNbrAssumption DEF RingIs
  <1>3. \A k \in d + 1 .. m : slot[q][Place(k)] = Frame(q, k)
    BY <1>0, <1>1 DEF RingAt
  <1>4. OwnedSlots(r, SET) = {Place(k) : k \in d + 1 .. p}
    <2>1. /\ d + 1 \in Nat /\ p + 1 \in Nat /\ d + 1 <= p + 1
          /\ p + 1 < d + 1 + EltNbr /\ (p + 1) - 1 = p
      BY <1>1, <1>2, EltNbrAssumption
    <2>2. r.In[SET] = Place(p + 1) /\ r.Out[SET] = Place(d + 1)
      BY <1>2 DEF RingIs
    <2>3. OwnedSlots(r, SET) = {Place(k) : k \in d + 1 .. (p + 1) - 1}
      BY ONLY <2>1, <2>2, Owned
    <2>. QED  BY <2>1, <2>3
  <1>5. OwnedSlots(r, MAKE) = {Place(k) : k \in p + 1 .. m}
    <2>1. /\ p + 1 \in Nat /\ m + 1 \in Nat /\ p + 1 <= m + 1
          /\ m + 1 < p + 1 + EltNbr /\ (m + 1) - 1 = m
      BY <1>1, <1>2, EltNbrAssumption
    <2>2. r.In[MAKE] = Place(m + 1) /\ r.Out[MAKE] = Place(p + 1)
      BY <1>2 DEF RingIs
    <2>3. OwnedSlots(r, MAKE) = {Place(k) : k \in p + 1 .. (m + 1) - 1}
      BY ONLY <2>1, <2>2, Owned
    <2>. QED  BY <2>1, <2>3
  <1>6. \A k \in d + 1 .. p : k \in d + 1 .. m
    BY <1>1
  <1>7. \A k \in p + 1 .. m : k \in d + 1 .. m
    BY <1>1
  <1>8. \A k \in 1 .. made[q] : k \in 1 .. MaxFrames
    BY <1>0, WholeIs, ConstantsAre
  <1>. QED  BY <1>1, <1>3, <1>4, <1>5, <1>6, <1>7, <1>8

LEMMA HoldsTypeOK == ASSUME HalInv PROVE TypeOK
  <1>0. Types /\ Counts
    BY DEF HalInv
  <1>1. /\ idx \in [Queues -> Rings] /\ slot \in [Queues -> [Slots -> Frames]]
        /\ desc \in [Frames -> [vid : Vids \cup {AllVids}, agg : 0 .. MaxAgg, id : Ids]]
        /\ made \in [Queues -> 0 .. MaxFrames] /\ sem \in Nat /\ txsem \in Nat
        /\ lastq \in Queues /\ IdsUsed \subseteq Ids /\ ids \in [IdsUsed -> Frames]
        /\ upreq \in BOOLEAN /\ drop \in BOOLEAN /\ paused \in BOOLEAN
        /\ num \in [send : Nat, done : Nat, free : Nat]
    BY <1>0 DEF Types, Descs
  <1>2. /\ lock \in {"free", "irq", "flush"}
        /\ (lock = "irq") = (irq.pc \in {"turns", "drain", "full", "set"})
        /\ (lock = "flush") = (flush.pc \in {"make", "set", "requeue"})
    BY <1>0 DEF Types, Locked
  <1>3. \A k \in {"send", "done", "free"} : num[k] \in Nat
    BY <1>1
  <1>4. pages \in 0 .. PageNbr
    <2>1. Len(irq.scat) \in Nat /\ Cardinality(chip.has) \in Nat /\ Len(chip.done) \in Nat
          /\ pages \in Nat
      BY <1>0, FS_CardinalityType DEF Counts, Types, Irqs
    <2>2. PICK w \in Nat : w = num.done - num.free
      BY <1>0, <2>1 DEF Counts
    <2>3. FramePages * w \in Nat /\ PageNbr \in Nat
      BY ConstantsAre
    <2>. QED  BY <1>0, <2>1, <2>2, <2>3 DEF Counts
  <1>. QED  BY <1>1, <1>2, <1>3, <1>4 DEF TypeOK

LEMMA QueuedIs ==
    ASSUME HalInv
    PROVE  /\ chip.has \cup RangeOf(Queued) = Out /\ Inj(Queued)
           /\ chip.has \cap RangeOf(Queued) = {}
  <1>0. Types /\ OutInv
    BY DEF HalInv
  <1>1. PICK a \in Seq(Entries), b \in Seq(Entries), c \in Seq(Entries), d \in Seq(Entries) :
          a = irq.scat /\ b = chip.done /\ c = status /\ d = InHand
    <2>1. InHand \in Seq(Entries)
      BY <1>0 DEF InHand, Types
    <2>. QED  BY <1>0, <2>1 DEF Types, Irqs
  <1>2. RangeOf(d) = Hand /\ Inj(d)
    BY <1>1 DEF InHand, Hand, RangeOf, Inj
  <1>3. /\ chip.has \cup RangeOf(a) \cup RangeOf(b) \cup RangeOf(c) \cup RangeOf(d) = Out
        /\ Inj(a) /\ Inj(b) /\ Inj(c)
        /\ chip.has \cap RangeOf(a) = {}
        /\ (chip.has \cup RangeOf(a)) \cap RangeOf(b) = {}
        /\ (chip.has \cup RangeOf(a) \cup RangeOf(b)) \cap RangeOf(c) = {}
        /\ (chip.has \cup RangeOf(a) \cup RangeOf(b) \cup RangeOf(c)) \cap RangeOf(d) = {}
    BY <1>0, <1>1, <1>2 DEF OutInv
  <1>4. a \o b \in Seq(Entries) /\ RangeOf(a \o b) = RangeOf(a) \cup RangeOf(b) /\ Inj(a \o b)
    <2>1. RangeOf(a) \cap RangeOf(b) = {}
      BY <1>3
    <2>. QED  BY <1>3, <2>1, RangeOfConcat
  <1>5. PICK x \in Seq(Entries) : x = a \o b /\ Inj(x) /\ RangeOf(x) = RangeOf(a) \cup RangeOf(b)
    BY <1>4
  <1>6. x \o c \in Seq(Entries) /\ Inj(x \o c) /\ RangeOf(x \o c) = RangeOf(x) \cup RangeOf(c)
    <2>1. RangeOf(x) \cap RangeOf(c) = {}
      BY <1>3, <1>5
    <2>2. Inj(x) /\ Inj(c)
      BY <1>3, <1>5
    <2>3. x \o c \in Seq(Entries)
      OBVIOUS
    <2>4. RangeOf(x \o c) = RangeOf(x) \cup RangeOf(c)
      BY ONLY RangeOfConcat, x \in Seq(Entries), c \in Seq(Entries)
    <2>5. Inj(x \o c)
      BY ONLY <2>1, <2>2, RangeOfConcat, x \in Seq(Entries), c \in Seq(Entries)
    <2>. QED  BY <2>3, <2>4, <2>5
  <1>7. PICK y \in Seq(Entries) :
          y = x \o c /\ Inj(y) /\ RangeOf(y) = RangeOf(a) \cup RangeOf(b) \cup RangeOf(c)
    BY <1>5, <1>6
  <1>8. Inj(y \o d) /\ RangeOf(y \o d) = RangeOf(y) \cup RangeOf(d)
    <2>1. RangeOf(y) \cap RangeOf(d) = {}
      BY <1>3, <1>7
    <2>2. Inj(y) /\ Inj(d)
      BY <1>2, <1>7
    <2>3. RangeOf(y \o d) = RangeOf(y) \cup RangeOf(d)
      BY ONLY RangeOfConcat, y \in Seq(Entries), d \in Seq(Entries)
    <2>4. Inj(y \o d)
      BY ONLY <2>1, <2>2, RangeOfConcat, y \in Seq(Entries), d \in Seq(Entries)
    <2>. QED  BY <2>3, <2>4
  <1>9. Queued = y \o d
    BY <1>1, <1>5, <1>7 DEF Queued
  <1>. QED  BY <1>3, <1>7, <1>8, <1>9

LEMMA CarriedIs ==
    ASSUME HalInv
    PROVE  Carried = {Entry(ids[i], i) : i \in IdsUsed}
  <1>0. Types /\ IdInv /\ \A i \in IdsUsed : ids[i] \in Frames /\ i \in Ids
    BY DEF HalInv, Types
  <1>1. Carried = {Entry(f, desc[f].id) : f \in UNION {InSet(q) : q \in Queues}} \cup Out
    <2>1. PICK S, R : S = chip.has /\ R = RangeOf(Queued)
      OBVIOUS
    <2>2. S \cup R = Out
      BY <2>1, QueuedIs
    <2>. QED  BY <2>1, <2>2 DEF Carried
  <1>2. ASSUME NEW q \in Queues, NEW f \in InSet(q)
        PROVE  Entry(f, desc[f].id) \in {Entry(ids[i], i) : i \in IdsUsed}
    <2>1. PICK k \in Down(q) + 1 .. Prom(q) : f = Frame(q, k)
      BY SlotsOf DEF InSet
    <2>2. k \in 1 .. made[q] /\ k > Down(q) /\ k <= Prom(q)
      BY SlotsOf
    <2>3. f \in Frames /\ f.q = q /\ f.n = k
      BY <2>1, <2>2, SlotsOf, FrameOf
    <2>4. ~ (f.n <= Down(f.q)) /\ f.n <= Prom(f.q)
      BY <2>2, <2>3, SlotsOf
    <2>5. desc[f].id \in IdsUsed /\ ids[desc[f].id] = f
      BY <1>0, <2>3, <2>4 DEF IdInv
    <2>. QED  BY <2>5
  <1>3. ASSUME NEW e \in Out PROVE e \in {Entry(ids[i], i) : i \in IdsUsed}
    <2>1. e.id \in IdsUsed /\ ids[e.id] = e.frame /\ e = Entry(e.frame, e.id)
      BY DEF Out, IsOut, Entry, Entries
    <2>. QED  BY <2>1
  <1>4. ASSUME NEW i \in IdsUsed
        PROVE  \/ Entry(ids[i], i) \in Out
               \/ \E q \in Queues : \E f \in InSet(q) : Entry(ids[i], i) = Entry(f, desc[f].id)
    <2>1. PICK f \in Frames : f = ids[i]
      BY <1>0
    <2>2. f.n <= Prom(f.q) /\ desc[f].id = i
      BY <1>0, <2>1 DEF IdInv
    <2>3. f.q \in Queues /\ f.n \in 1 .. MaxFrames /\ f = Frame(f.q, f.n)
      BY FrameIs
    <2>4. CASE f.n <= Down(f.q)
      BY <1>0, <2>1, <2>4 DEF Out, IsOut, Entry, Entries
    <2>5. CASE ~ (f.n <= Down(f.q))
      <3>1. f.n \in Down(f.q) + 1 .. Prom(f.q)
        BY <2>2, <2>3, <2>5, SlotsOf
      <3>2. f \in InSet(f.q)
        BY <2>3, <3>1, SlotsOf DEF InSet
      <3>. QED  BY <2>1, <2>2, <2>3, <3>2
    <2>. QED  BY <2>4, <2>5
  <1>5. ASSUME NEW e \in Carried PROVE e \in {Entry(ids[i], i) : i \in IdsUsed}
    BY <1>1, <1>2, <1>3
  <1>6. ASSUME NEW i \in IdsUsed PROVE Entry(ids[i], i) \in Carried
    BY <1>1, <1>4
  <1>. QED  BY <1>5, <1>6

LEMMA HoldsNothingTwice == ASSUME HalInv PROVE NothingTwice
  <1>1. ASSUME NEW q \in Queues, NEW r \in Queues, NEW s \in OwnedSlots(idx[q], SET),
               NEW t \in OwnedSlots(idx[r], SET), slot[q][s] = slot[r][t]
        PROVE  q = r /\ s = t
    <2>1. PICK j \in Down(q) + 1 .. Prom(q) : s = Place(j) /\ slot[q][s] = Frame(q, j)
      BY SlotsOf
    <2>2. PICK k \in Down(r) + 1 .. Prom(r) : t = Place(k) /\ slot[r][t] = Frame(r, k)
      BY SlotsOf
    <2>3. q = r /\ j = k
      BY <1>1, <2>1, <2>2 DEF Frame
    <2>. QED  BY <2>1, <2>2, <2>3
  <1>2. \A j, k \in DOMAIN Queued : Queued[j] = Queued[k] => j = k
    BY QueuedIs DEF Inj
  <1>3. chip.has \cap RangeOf(Queued) = {}
    BY QueuedIs
  <1>4. ASSUME NEW q \in Queues, NEW e \in chip.has \cup RangeOf(Queued), e.frame \in InSet(q)
        PROVE  FALSE
    <2>1. e \in Out
      BY QueuedIs
    <2>2. e.frame.n <= Down(e.frame.q)
      BY <2>1 DEF Out, IsOut
    <2>3. PICK k \in Down(q) + 1 .. Prom(q) : e.frame = Frame(q, k)
      BY <1>4, SlotsOf DEF InSet
    <2>4. e.frame.q = q /\ e.frame.n = k
      BY <2>3 DEF Frame
    <2>. QED  BY <2>2, <2>4, SlotsOf
  <1>. QED  BY <1>1, <1>2, <1>3, <1>4 DEF NothingTwice

LEMMA HoldsResources == ASSUME HalInv PROVE ResourcesConserved
  <1>1. IdsAccounted
    BY CarriedIs, HoldsNothingTwice DEF IdsAccounted
  <1>2. PagesConserved
    BY DEF HalInv, Counts, PagesConserved
  <1>. QED  BY <1>1, <1>2, HoldsTypeOK DEF ResourcesConserved

LEMMA HoldsIdle == ASSUME HalInv PROVE TxEmptyMeansIdle
  <1>0. Types /\ Counts
    BY DEF HalInv
  <1>1. SUFFICES ASSUME num.send = num.free, num.send = num.done
                 PROVE  /\ \A q \in Queues : ~ Waits(q) /\ ~ HasElt(idx[q], SET)
                        /\ irq.scat = <<>> /\ chip.has = {} /\ chip.done = <<>>
    BY DEF TxEmptyMeansIdle, TxEmpty
  <1>2. irq.scat \in Seq(Entries) /\ chip.done \in Seq(Entries)
    BY <1>0 DEF Types, Irqs
  <1>3. PICK a \in Nat, b \in Nat, c \in Nat :
          a = Len(irq.scat) /\ b = Cardinality(chip.has) /\ c = Len(chip.done)
    BY <1>0, <1>2, FS_CardinalityType DEF Counts
  <1>4. a = 0 /\ b = 0 /\ c = 0
    <2>1. num.done - num.free = 0
      BY <1>0, <1>1 DEF Types
    <2>2. num.done - num.free = a + b + c
      BY <1>0, <1>3 DEF Counts
    <2>. QED  BY <2>1, <2>2
  <1>5. irq.scat = <<>> /\ chip.done = <<>> /\ chip.has = {}
    <2>1. irq.scat = <<>> /\ chip.done = <<>>
      <3>1. \A s \in Seq(Entries) : Len(s) = 0 => s = <<>>
        OBVIOUS
      <3>. QED  BY <1>2, <1>3, <1>4, <3>1
    <2>2. IsFiniteSet(chip.has) /\ Cardinality(chip.has) = 0
      BY <1>0, <1>3, <1>4 DEF Counts
    <2>3. chip.has = {}
      BY <2>2, FS_EmptySet
    <2>. QED  BY <2>1, <2>3
  <1>6. ASSUME NEW q \in Queues PROVE Down(q) = made[q]
    <2>1. DownSet \in SUBSET MadeSet
      <3>1. ASSUME NEW f \in Frames, f.n <= Down(f.q) PROVE f.n <= made[f.q]
        <4>1. f.q \in Queues /\ f.n \in Nat
          BY FrameIs
        <4>. QED  BY <3>1, <4>1, SlotsOf
      <3>. QED  BY <3>1 DEF DownSet, MadeSet
    <2>2. MadeSet = DownSet
      BY <1>0, <1>1, <2>1, FS_Subset DEF Counts
    <2>3. CASE Down(q) < made[q]
      <3>1. Down(q) + 1 \in 1 .. made[q]
        BY <2>3, SlotsOf
      <3>2. Frame(q, Down(q) + 1) \in Frames /\ Frame(q, Down(q) + 1).q = q
            /\ Frame(q, Down(q) + 1).n = Down(q) + 1
        BY <3>1, SlotsOf, FrameOf
      <3>3. Down(q) + 1 <= made[q] /\ ~ (Down(q) + 1 <= Down(q))
        BY <3>1, SlotsOf
      <3>4. Frame(q, Down(q) + 1) \in MadeSet /\ Frame(q, Down(q) + 1) \notin DownSet
        BY <3>2, <3>3 DEF MadeSet, DownSet
      <3>. QED  BY <2>2, <3>4
    <2>. QED  BY <2>3, SlotsOf
  <1>7. ASSUME NEW q \in Queues PROVE ~ Waits(q) /\ ~ HasElt(idx[q], SET)
    <2>1. RingAt(q)
      BY DEF HalInv, RingInv
    <2>. QED  BY <1>0, <1>6, <2>1, Numbers
  <1>. QED  BY <1>5, <1>7

LEMMA HoldsOnceAndInOrder == ASSUME HalInv PROVE OnceAndInOrder
  <1>1. ASSUME NEW q \in Queues, NEW k \in DOMAIN hist.down[q]
        PROVE  hist.down[q][k] = [q |-> q, n |-> k]
    <2>1. k \in 1 .. Down(q)
      BY DEF HalInv, Types, Down
    <2>. QED  BY <2>1 DEF HalInv, RingInv, RingAt, Frame
  <1>2. ASSUME NEW q \in Queues PROVE WholeAggregates(q)
    <2>1. AggAt(q)
      BY DEF HalInv, AggInv
    <2>2. PICK ends \in SUBSET (0 .. Whole(q)) : IsEnds(q, ends)
      BY <2>1 DEF AggAt
    <2>3. PICK all \in Nat, w \in Nat : all = Down(q) /\ w = Whole(q) /\ all \in ends /\ all <= w
      <3>1. Down(q) \in ends
        BY <2>2 DEF IsEnds
      <3>2. Down(q) \in Nat /\ Whole(q) \in Nat
        BY SlotsOf, WholeIs DEF HalInv
      <3>. QED  BY <3>1, <3>2
    <2>4. PICK E : E = ends \cap (0 .. all)
      OBVIOUS
    <2>5. E \in SUBSET (0 .. all) /\ {0, all} \subseteq E
      BY <2>2, <2>3, <2>4 DEF IsEnds
    <2>6. ASSUME NEW e \in E \ {all}
          PROVE  /\ desc[Frame(q, e + 1)].agg > 0
                 /\ e + desc[Frame(q, e + 1)].agg \in E
      <3>1. e \in ends \ {w} /\ e < all /\ e \in Nat
        BY <2>3, <2>4
      <3>2. /\ desc[Frame(q, e + 1)].agg > 0
            /\ e + desc[Frame(q, e + 1)].agg \in ends
            /\ e + desc[Frame(q, e + 1)].agg <= all
        BY <2>2, <2>3, <3>1 DEF IsEnds
      <3>3. e + desc[Frame(q, e + 1)].agg \in 0 .. all
        <4>1. PICK x : x = e + desc[Frame(q, e + 1)].agg
          OBVIOUS
        <4>2. x \in 0 .. w /\ x <= all
          BY <2>2, <2>3, <3>2, <4>1
        <4>. QED  BY <4>1, <4>2
      <3>. QED  BY <2>4, <3>2, <3>3
    <2>. QED  BY <2>3, <2>5, <2>6 DEF WholeAggregates, Down, Frame
  <1>3. HandedBackOnce
    <2>1. \A j, k \in DOMAIN hist.handled : hist.handled[j] = hist.handled[k] => j = k
      BY DEF HalInv, IdInv
    <2>2. ASSUME NEW q \in Queues, NEW s \in OwnedSlots(idx[q], MAKE)
          PROVE  slot[q][s] \notin RangeOf(hist.handled)
      <3>1. PICK k \in Prom(q) + 1 .. made[q] : slot[q][s] = Frame(q, k)
        BY SlotsOf
      <3>2. Frame(q, k).q = q /\ Frame(q, k).n = k /\ ~ (k <= Down(q))
        BY SlotsOf DEF Frame
      <3>. QED  BY <3>1, <3>2 DEF HalInv, IdInv, Handled
    <2>3. ASSUME NEW e \in Carried PROVE e.frame \notin RangeOf(hist.handled)
      <3>1. PICK i \in IdsUsed : e = Entry(ids[i], i)
        BY CarriedIs
      <3>2. ids[i] \in Frames /\ e.frame = ids[i]
        BY <3>1 DEF HalInv, Types, Entry
      <3>. QED  BY <3>2 DEF HalInv, IdInv, Handled
    <2>. QED  BY <2>1, <2>2, <2>3 DEF HandedBackOnce
  <1>. QED  BY <1>1, <1>2, <1>3 DEF OnceAndInOrder, DownloadsInOrder

LEMMA NotFlushed ==
    ASSUME NoFlushes
    PROVE  Spec => []Unflushed
  <1>1. Init => load \in Loads /\ FlushIs /\ Unflushed
    BY DEF Init, FlushIs, Unflushed
  <1>2. load \in Loads /\ Unflushed /\ UntilFlushed /\ [Next]_vars => (load \in Loads /\ Unflushed)'
    <2>. SUFFICES ASSUME load \in Loads, Unflushed, UntilFlushed, [Next]_vars
                  PROVE  (load \in Loads /\ Unflushed)'
      OBVIOUS
    <2>1. load' = load
      BY DEF Next, vars
    <2>2. ~ Flush
      <3>1. load.flushes = {} /\ flush.pc = "off"
        BY DEF NoFlushes, UntilFlushed, HalInv, Types
      <3>. QED  BY <3>1 DEF Flush, FlushLock, FlushMake, FlushSet, FlushRequeue, FlushNext
    <2>3. flush' = flush
      <3>1. CASE UNCHANGED vars
        BY <3>1 DEF vars
      <3>2. CASE Next
        BY <2>2, <3>2, FlushLeft DEF Next, Step
      <3>. QED  BY <3>1, <3>2
    <2>. QED  BY <2>1, <2>3 DEF Unflushed
  <1>. QED  BY <1>1, <1>2, Invariant, PTL DEF Spec

-----------------------------------------------------------------------------
(* Until hal_tx_flush is called no tx id and no page is lost or counted    *)
(* twice, whatever the rings, the queues, the ids, the pages and the       *)
(* interleaving of drv_to_hal, the two threads and the firmware.           *)
THEOREM HalResourcesConserved == Spec => [](Unflushed => ResourcesConserved)
  <1>1. UntilFlushed => (Unflushed => ResourcesConserved)
    BY HoldsResources DEF UntilFlushed
  <1>. QED  BY <1>1, Invariant, PTL

(* Until then hal_tx_empty tells the truth as well: when its counters      *)
(* agree, no frame is in a ring, on the bus or in the chip.                *)
THEOREM HalAccountsHonest == Spec => [](Unflushed => AccountsHonest)
  <1>1. UntilFlushed => (Unflushed => AccountsHonest)
    BY HoldsResources, HoldsIdle DEF UntilFlushed, AccountsHonest
  <1>. QED  BY <1>1, Invariant, PTL

(* When no load flushes, the frames of a queue are downloaded in the order *)
(* they were filled and in whole aggregates, and each is handed back once, *)
(* when it is nowhere on the way any more.                                 *)
THEOREM HalOnceAndInOrder ==
    ASSUME NoFlushes
    PROVE  Spec => []OnceAndInOrder
  <1>1. UntilFlushed /\ Unflushed => OnceAndInOrder
    BY HoldsOnceAndInOrder DEF UntilFlushed
  <1>. QED  BY <1>1, Invariant, NotFlushed, PTL

-----------------------------------------------------------------------------
(* With flushes.  A flush moves frames to the end of the ring, so that its *)
(* places are no longer the numbers of the frames: d of them have left the *)
(* ring, p have been given an id and m are filled, and e says at which     *)
(* places the frames are that the flush of this queue still keeps.         *)

At(q, n)     == slot[q][Place(n)]
Kept(q)      == IF flush.q = q THEN flush.keep ELSE <<>>
Before(f, g) == desc[f].vid = desc[g].vid => f.n < g.n
Own(q, f)    == f \in Frames /\ f.q = q /\ f.n <= made[q]
FlushLocked  == {"make", "set", "requeue"}

(* What is there is at its place; what is kept is not written over before  *)
(* it is filled in again.                                                  *)
PlacesAre(q, d, p, m, e) ==
    /\ RingIs(idx[q], d, p, m, Got(q))
    /\ fill[q].pc = "put" => fill[q].slot = Place(m + 1)
    /\ Len(e) = Len(Kept(q))
    /\ \A i \in 1 .. Len(e) :
         Kept(q)[i] = Place(e[i]) /\ e[i] <= d /\ m + i < e[i] + EltNbr
    /\ flush.q = q /\ flush.pc = "set" => p = m /\ m + Len(e) < d + EltNbr
    /\ flush.q = q /\ flush.pc = "requeue" => d = p

(* An interface's frames have left in order and stand in order: first what *)
(* the flush keeps and then the ring, or, when it has begun to fill what   *)
(* it keeps in again, first the ring.                                      *)
InLine(q, d, m, e) ==
    /\ \A n \in d + 1 .. m : Own(q, At(q, n))
    /\ \A i \in 1 .. Len(e) : Own(q, At(q, e[i]))
    /\ \A k \in 1 .. Down(q) : Own(q, hist.down[q][k])
    /\ \A j, k \in 1 .. Down(q) : j < k => Before(hist.down[q][j], hist.down[q][k])
    /\ \A k \in 1 .. Down(q), n \in d + 1 .. m : Before(hist.down[q][k], At(q, n))
    /\ \A k \in 1 .. Down(q), i \in 1 .. Len(e) : Before(hist.down[q][k], At(q, e[i]))
    /\ \A n, o \in d + 1 .. m : n < o => Before(At(q, n), At(q, o))
    /\ \A i, j \in 1 .. Len(e) : i < j => Before(At(q, e[i]), At(q, e[j]))
    /\ \A i \in 1 .. Len(e), n \in d + 1 .. m :
         IF flush.pc = "set" THEN Before(At(q, e[i]), At(q, n))
                             ELSE Before(At(q, n), At(q, e[i]))

LineAt(q) == \E d, p, m \in Nat, e \in Seq(Nat) :
               PlacesAre(q, d, p, m, e) /\ InLine(q, d, m, e)

BatchAt(q) ==
    /\ made[q] <= load.frames[q]
    /\ Filling(q) => /\ fill[q].left > 0 /\ fill[q].first <= made[q] + 1
                     /\ made[q] + fill[q].left <= load.frames[q]

(* The records are records and the lock is held by whom it says.           *)
DescIs == desc = [f \in Frames |-> [vid |-> desc[f].vid, agg |-> desc[f].agg,
                                    id |-> desc[f].id]]

LockIs == /\ irq = [pc |-> irq.pc, q |-> irq.q, turns |-> irq.turns, scat |-> irq.scat]
          /\ irq.q \in Queues /\ lastq \in Queues
          /\ irq.pc \in Locked => lock = "irq"
          /\ flush.pc \in FlushLocked => lock = "flush"

FlushAt == /\ FlushIs
           /\ flush.pc \in FlushLocked \cup {"off", "lock"}
           /\ flush.q \in Queues /\ flush.keep \in Seq(Slots)
           /\ flush.pc \notin {"set", "requeue"} => flush.keep = <<>>
           /\ flush.pc # "off" => \A q \in Queues : fill[q].pc # "put"

Shapes ==
    /\ load \in Loads
    /\ idx \in [Queues -> Rings] /\ slot \in [Queues -> [Slots -> Frames]]
    /\ DescIs /\ \A f \in Frames : desc[f].agg \in Nat
    /\ made \in [Queues -> 0 .. MaxFrames] /\ fill \in [Queues -> Fills]
    /\ hist.down \in [Queues -> Seq(Frames)]

Ordered == Shapes /\ LockIs /\ FlushAt /\ \A q \in Queues : BatchAt(q) /\ LineAt(q)

HistIs == hist = [handled |-> hist.handled, lost |-> hist.lost, down |-> hist.down,
                  missed |-> hist.missed, mixed |-> hist.mixed,
                  starved |-> hist.starved]

(* No fill met a flush and no flush ran out of ids.                        *)
Undisturbed == ~ hist.mixed /\ ~ hist.starved

OrderInv == HistIs /\ (Undisturbed => Ordered)

-----------------------------------------------------------------------------

(* Numbered frames keep their interface.                                   *)
VidsKept(q) == \A f \in Frames : Own(q, f) => desc'[f].vid = desc[f].vid

LEMMA BeforeKept ==
    ASSUME NEW q \in Queues, VidsKept(q), NEW f, NEW g, Own(q, f), Own(q, g), Before(f, g)
    PROVE  Before(f, g)'
  BY DEF VidsKept, Own, Before

LEMMA AtKept ==
    ASSUME NEW q \in Queues, slot'[q] = slot[q], NEW n
    PROVE  At(q, n)' = At(q, n)
  BY DEF At, Place

LEMMA InLineKept ==
    ASSUME NEW q \in Queues, NEW d \in Nat, NEW m \in Nat, NEW e \in Seq(Nat),
           InLine(q, d, m, e), slot'[q] = slot[q], made'[q] = made[q],
           hist'.down[q] = hist.down[q], VidsKept(q),
           e = <<>> \/ d = m \/ (flush'.pc = "set" <=> flush.pc = "set")
    PROVE  InLine(q, d, m, e)'
  <1>1. Down(q)' = Down(q) /\ \A f : Own(q, f)' <=> Own(q, f)
    BY DEF Down, Own
  <1>2. \A n : At(q, n)' = At(q, n)
    BY AtKept
  <1>3. /\ \A n \in d + 1 .. m : Own(q, At(q, n))'
        /\ \A i \in 1 .. Len(e) : Own(q, At(q, e[i]))'
        /\ \A k \in 1 .. Down(q) : Own(q, hist.down[q][k])'
    BY <1>1, <1>2 DEF InLine
  <1>4. /\ \A j, k \in 1 .. Down(q) : j < k => Before(hist.down[q][j], hist.down[q][k])'
        /\ \A k \in 1 .. Down(q), n \in d + 1 .. m : Before(hist.down[q][k], At(q, n))'
        /\ \A k \in 1 .. Down(q), i \in 1 .. Len(e) : Before(hist.down[q][k], At(q, e[i]))'
    BY <1>1, <1>2, BeforeKept DEF InLine
  <1>5. /\ \A n, o \in d + 1 .. m : n < o => Before(At(q, n), At(q, o))'
        /\ \A i, j \in 1 .. Len(e) : i < j => Before(At(q, e[i]), At(q, e[j]))'
    BY <1>1, <1>2, BeforeKept DEF InLine
  <1>6. \A i \in 1 .. Len(e), n \in d + 1 .. m :
          IF flush'.pc = "set" THEN Before(At(q, e[i]), At(q, n))'
                               ELSE Before(At(q, n), At(q, e[i]))'
    <2>1. CASE e = <<>> \/ d = m
      BY <2>1
    <2>2. CASE flush'.pc = "set" <=> flush.pc = "set"
      BY <2>2, <1>1, <1>2, BeforeKept DEF InLine
    <2>. QED  BY <2>1, <2>2
  <1>. QED  BY <1>1, <1>2, <1>3, <1>4, <1>5, <1>6 DEF InLine

LEMMA PlacesKept ==
    ASSUME NEW q \in Queues, NEW d \in Nat, NEW p \in Nat, NEW m \in Nat, NEW e \in Seq(Nat),
           PlacesAre(q, d, p, m, e), idx'[q] = idx[q],
           fill'[q].pc = fill[q].pc, fill'[q].slot = fill[q].slot, Kept(q)' = Kept(q),
           flush'.q = q /\ flush'.pc \in {"set", "requeue"}
             => flush'.q = flush.q /\ flush'.pc = flush.pc
    PROVE  PlacesAre(q, d, p, m, e)'
  <1>1. Got(q)' = Got(q)
    BY DEF Got
  <1>2. RingIs(idx[q], d, p, m, Got(q))'
    BY <1>1 DEF RingIs, Place, PlacesAre
  <1>3. \A i \in 1 .. Len(e) : Kept(q)'[i] = Place(e[i])
    BY DEF PlacesAre
  <1>. QED  BY <1>2, <1>3 DEF PlacesAre, Place

(* A step that leaves a queue alone.                                       *)
LEMMA LineKept ==
    ASSUME NEW q \in Queues, LineAt(q), idx'[q] = idx[q], slot'[q] = slot[q],
           made'[q] = made[q], hist'.down[q] = hist.down[q],
           fill'[q].pc = fill[q].pc, fill'[q].slot = fill[q].slot,
           Kept(q)' = Kept(q), VidsKept(q),
           flush'.q = q /\ flush'.pc \in {"set", "requeue"}
             => flush'.q = flush.q /\ flush'.pc = flush.pc,
           Kept(q) = <<>> \/ (flush'.pc = "set" <=> flush.pc = "set")
    PROVE  LineAt(q)'
  <1>1. PICK d \in Nat, p \in Nat, m \in Nat, e \in Seq(Nat) :
          PlacesAre(q, d, p, m, e) /\ InLine(q, d, m, e)
    BY DEF LineAt
  <1>2. PlacesAre(q, d, p, m, e)'
    BY <1>1, PlacesKept
  <1>3. e = <<>> \/ (flush'.pc = "set" <=> flush.pc = "set")
    <2>1. Len(e) = Len(Kept(q))
      BY <1>1 DEF PlacesAre
    <2>. QED  BY <2>1
  <1>4. InLine(q, d, m, e)'
    BY <1>1, <1>3, InLineKept
  <1>. QED  BY <1>2, <1>4 DEF LineAt

LEMMA GotIs == \A q \in Queues : Got(q) \in 0 .. 1
  BY DEF Got

(* A frame of the queue is given an id, or its id is found to be due.      *)
LEMMA LinePromoted ==
    ASSUME Shapes, NEW q \in Queues, LineAt(q), Waits(q),
           idx'[q] = AfterPut(AfterGet(idx[q], MAKE, 1), MAKE, 1),
           slot'[q] = slot[q], made'[q] = made[q], hist'.down[q] = hist.down[q],
           fill'[q].pc = fill[q].pc, fill'[q].slot = fill[q].slot, VidsKept(q),
           flush' = flush, flush.pc \notin {"set", "requeue"}, flush.keep = <<>>
    PROVE  idx'[q] \in Rings /\ LineAt(q)'
  <1>1. PICK d \in Nat, p \in Nat, m \in Nat, e \in Seq(Nat) :
          PlacesAre(q, d, p, m, e) /\ InLine(q, d, m, e)
    BY DEF LineAt
  <1>2. idx[q] \in Rings /\ RingIs(idx[q], d, p, m, Got(q)) /\ Got(q) \in 0 .. 1
    BY <1>1, GotIs DEF Shapes, PlacesAre
  <1>3. p < m
    <2>1. TestsFind(idx[q], d, p, m, Got(q))
      BY <1>2, RingTests
    <2>. QED  BY <2>1 DEF TestsFind, Waits
  <1>4. idx'[q] \in Rings /\ RingIs(idx'[q], d, p + 1, m, Got(q))
    BY <1>2, <1>3, RingPromoted
  <1>5. Got(q)' = Got(q) /\ Kept(q)' = Kept(q) /\ Kept(q) = <<>>
    BY DEF Got, Kept
  <1>6. PlacesAre(q, d, p + 1, m, e)'
    BY <1>1, <1>4, <1>5 DEF PlacesAre, RingIs, Place
  <1>7. InLine(q, d, m, e)'
    BY <1>1, InLineKept
  <1>. QED  BY <1>4, <1>6, <1>7 DEF LineAt

(* drv_to_hal takes a slot,                                                *)
LEMMA LineGot ==
    ASSUME Shapes, NEW q \in Queues, LineAt(q), fill[q].pc = "get",
           CanGet(idx[q], GET, 1), idx'[q] = AfterGet(idx[q], GET, 1),
           slot'[q] = slot[q], made'[q] = made[q], hist'.down[q] = hist.down[q],
           fill'[q].pc = "put", fill'[q].slot = Pick(idx[q], GET), VidsKept(q),
           flush' = flush, flush.pc = "off", flush.keep = <<>>
    PROVE  idx'[q] \in Rings /\ LineAt(q)'
  <1>1. PICK d \in Nat, p \in Nat, m \in Nat, e \in Seq(Nat) :
          PlacesAre(q, d, p, m, e) /\ InLine(q, d, m, e)
    BY DEF LineAt
  <1>2. Got(q) = 0 /\ Got(q)' = 1 /\ Kept(q)' = Kept(q) /\ Kept(q) = <<>>
    BY DEF Got, Kept
  <1>3. idx[q] \in Rings /\ RingIs(idx[q], d, p, m, 0)
    BY <1>1, <1>2 DEF Shapes, PlacesAre
  <1>4. m + 1 - d < EltNbr
    <2>1. TestsFind(idx[q], d, p, m, 0)
      BY <1>3, RingTests
    <2>. QED  BY <2>1, EltNbrAssumption DEF TestsFind, CanGet
  <1>5. idx'[q] \in Rings /\ RingIs(idx'[q], d, p, m, 1)
    BY <1>3, <1>4, RingGot
  <1>6. fill'[q].slot = Place(m + 1)
    BY <1>3 DEF RingIs, Pick
  <1>7. PlacesAre(q, d, p, m, e)'
    BY <1>1, <1>2, <1>5, <1>6 DEF PlacesAre, RingIs, Place
  <1>8. InLine(q, d, m, e)'
    BY <1>1, InLineKept
  <1>. QED  BY <1>5, <1>7, <1>8 DEF LineAt

(* Places of a ring that is not full differ.                               *)
LEMMA OtherPlace ==
    ASSUME NEW q \in Queues, NEW m \in Nat, NEW f,
           slot \in [Queues -> [Slots -> Frames]],
           slot' = [slot EXCEPT ![q][Place(m + 1)] = f]
    PROVE  /\ At(q, m + 1)' = f
           /\ \A n \in Nat : n <= m /\ m + 1 < n + EltNbr => At(q, n)' = At(q, n)
           /\ \A r \in Queues \ {q} : slot'[r] = slot[r]
  <1>1. Place(m + 1) \in Slots /\ \A n \in Nat : Place(n) \in Slots
    BY PlaceIs
  <1>2. ASSUME NEW n \in Nat, n <= m, m + 1 < n + EltNbr PROVE At(q, n)' = At(q, n)
    <2>1. Place(m + 1) # Place(n)
      <3>1. n < m + 1 /\ m + 1 < n + EltNbr /\ m + 1 \in Nat
        BY <1>2
      <3>. QED  BY <3>1, PlaceDiffers
    <2>2. slot'[q][Place(n)] = slot[q][Place(n)]
      BY <1>1, <2>1
    <2>. QED  BY <2>2 DEF At, Place
  <1>3. slot'[q][Place(m + 1)] = f
    BY <1>1
  <1>. QED  BY <1>2, <1>3 DEF At, Place

(* and fills in the next frame, which is newer than all others.            *)
LEMMA LinePut ==
    ASSUME Shapes, NEW q \in Queues, LineAt(q), fill[q].pc = "put",
           made[q] + 1 <= MaxFrames,
           idx'[q] = AfterPut(idx[q], GET, 1),
           slot' = [slot EXCEPT ![q][fill[q].slot] = Frame(q, made[q] + 1)],
           made'[q] = made[q] + 1, hist'.down[q] = hist.down[q],
           fill'[q].pc # "put", VidsKept(q),
           flush' = flush, flush.pc = "off", flush.keep = <<>>
    PROVE  idx'[q] \in Rings /\ LineAt(q)'
  <1>0. PICK f : f = Frame(q, made[q] + 1)
    OBVIOUS
  <1>1. PICK d \in Nat, p \in Nat, m \in Nat, e \in Seq(Nat) :
          PlacesAre(q, d, p, m, e) /\ InLine(q, d, m, e)
    BY DEF LineAt
  <1>2. Got(q) = 1 /\ Got(q)' = 0 /\ Kept(q)' = Kept(q) /\ Kept(q) = <<>>
    BY DEF Got, Kept
  <1>3. idx[q] \in Rings /\ RingIs(idx[q], d, p, m, 1) /\ fill[q].slot = Place(m + 1)
    BY <1>1, <1>2 DEF Shapes, PlacesAre
  <1>4. idx'[q] \in Rings /\ RingIs(idx'[q], d, p, m + 1, 0)
    BY <1>3, RingPut
  <1>5. PlacesAre(q, d, p, m + 1, e)'
    BY <1>1, <1>2, <1>4 DEF PlacesAre, RingIs, Place
  <1>6. f \in Frames /\ f.q = q /\ f.n = made[q] + 1 /\ made[q] \in Nat
    <2>1. made[q] \in 0 .. MaxFrames /\ MaxFrames \in Nat
      BY ConstantsAre DEF Shapes
    <2>2. made[q] + 1 \in 1 .. MaxFrames /\ made[q] \in Nat
      BY <2>1
    <2>. QED  BY <1>0, <2>2, FrameOf
  <1>7. Own(q, f)' /\ \A g : Own(q, g) => Own(q, g)' /\ Before(g, f)'
    <2>1. Own(q, f)'
      BY <1>6 DEF Own
    <2>2. ASSUME NEW g, Own(q, g) PROVE Own(q, g)' /\ Before(g, f)'
      <3>1. g \in Frames /\ g.q = q /\ g.n \in Nat /\ g.n <= made[q]
        BY <2>2, FrameIs DEF Own
      <3>. QED  BY <1>6, <3>1 DEF Own, Before
    <2>. QED  BY <2>1, <2>2
  <1>8. /\ At(q, m + 1)' = f
        /\ \A n \in d + 1 .. m : At(q, n)' = At(q, n)
    <2>1. \A n \in d + 1 .. m : n \in Nat /\ n <= m /\ m + 1 < n + EltNbr
      BY <1>3, EltNbrAssumption DEF RingIs
    <2>. QED  BY <1>0, <1>3, <2>1, OtherPlace DEF Shapes
  <1>9. Down(q)' = Down(q) /\ e = <<>> /\ Len(e) = 0
    BY <1>1, <1>2 DEF Down, PlacesAre
  <1>10. \A n \in d + 1 .. m + 1 : n = m + 1 \/ n \in d + 1 .. m
    OBVIOUS
  <1>11. /\ \A n \in d + 1 .. m + 1 : Own(q, At(q, n))'
         /\ \A k \in 1 .. Down(q) : Own(q, hist.down[q][k])'
    BY <1>1, <1>7, <1>8, <1>10 DEF InLine
  <1>12. \A j, k \in 1 .. Down(q) : j < k => Before(hist.down[q][j], hist.down[q][k])'
    BY <1>1, BeforeKept DEF InLine
  <1>13. \A k \in 1 .. Down(q), n \in d + 1 .. m + 1 : Before(hist.down[q][k], At(q, n))'
    BY <1>1, <1>7, <1>8, <1>10, BeforeKept DEF InLine
  <1>14. \A n, o \in d + 1 .. m + 1 : n < o => Before(At(q, n), At(q, o))'
    <2>1. SUFFICES ASSUME NEW n \in d + 1 .. m + 1, NEW o \in d + 1 .. m + 1, n < o
                   PROVE  Before(At(q, n), At(q, o))'
      OBVIOUS
    <2>2. n \in d + 1 .. m /\ Own(q, At(q, n)) /\ At(q, n)' = At(q, n)
      BY <1>1, <1>8, <2>1 DEF InLine
    <2>3. CASE o = m + 1
      BY <1>7, <1>8, <2>2, <2>3
    <2>4. CASE o \in d + 1 .. m
      BY <1>1, <1>8, <2>1, <2>2, <2>4, BeforeKept DEF InLine
    <2>. QED  BY <1>10, <2>3, <2>4
  <1>15. InLine(q, d, m + 1, e)'
    BY <1>9, <1>11, <1>12, <1>13, <1>14 DEF InLine
  <1>16. m + 1 \in Nat
    OBVIOUS
  <1>. QED  BY <1>4, <1>5, <1>15, <1>16 DEF LineAt

LEMMA ConcatIs ==
    ASSUME NEW S, NEW s \in Seq(S), NEW t \in Seq(S)
    PROVE  /\ s \o t \in Seq(S) /\ Len(s \o t) = Len(s) + Len(t)
           /\ \A k \in 1 .. Len(s) : (s \o t)[k] = s[k]
           /\ \A k \in Len(s) + 1 .. Len(s) + Len(t) : (s \o t)[k] = t[k - Len(s)]
  OBVIOUS

LEMMA AppendIs ==
    ASSUME NEW S, NEW s \in Seq(S), NEW x \in S
    PROVE  /\ Append(s, x) \in Seq(S) /\ Len(Append(s, x)) = Len(s) + 1 /\ Len(s) \in Nat
           /\ Append(s, x)[Len(s) + 1] = x
           /\ \A k \in 1 .. Len(s) : Append(s, x)[k] = s[k]
  OBVIOUS

LEMMA TailIs ==
    ASSUME NEW S, NEW s \in Seq(S), s # <<>>
    PROVE  /\ Tail(s) \in Seq(S) /\ Len(Tail(s)) = Len(s) - 1 /\ Len(s) \in Nat \ {0}
           /\ Head(s) = s[1] /\ \A k \in 1 .. Len(s) - 1 : Tail(s)[k] = s[k + 1]
  OBVIOUS

(* The n frames at the head of SET leave the ring.                         *)
LEMMA LineDownloaded ==
    ASSUME Shapes, NEW q \in Queues, LineAt(q), NEW n \in Nat, n <= NbEltCont(idx[q], SET),
           idx'[q] = AfterPut(AfterGet(idx[q], SET, n), SET, n),
           hist'.down[q] = hist.down[q] \o [k \in 1 .. n |->
                             slot[q][Wrap(Pick(idx[q], SET) + k - 1)]],
           slot'[q] = slot[q], made'[q] = made[q],
           fill'[q].pc = fill[q].pc, fill'[q].slot = fill[q].slot, VidsKept(q),
           flush' = flush, flush.pc \notin {"set", "requeue"}, flush.keep = <<>>
    PROVE  idx'[q] \in Rings /\ hist'.down[q] \in Seq(Frames) /\ LineAt(q)'
  <1>1. PICK d \in Nat, p \in Nat, m \in Nat, e \in Seq(Nat) :
          PlacesAre(q, d, p, m, e) /\ InLine(q, d, m, e)
    BY DEF LineAt
  <1>2. idx[q] \in Rings /\ RingIs(idx[q], d, p, m, Got(q)) /\ Got(q) \in 0 .. 1
    BY <1>1, GotIs DEF Shapes, PlacesAre
  <1>3. n <= p - d
    <2>1. TestsFind(idx[q], d, p, m, Got(q))
      BY <1>2, RingTests
    <2>. QED  BY <2>1 DEF TestsFind
  <1>4. idx'[q] \in Rings /\ RingIs(idx'[q], d + n, p, m, Got(q))
    BY <1>2, <1>3, RingSent
  <1>5. Got(q)' = Got(q) /\ Kept(q)' = Kept(q) /\ Kept(q) = <<>> /\ e = <<>> /\ Len(e) = 0
    BY <1>1 DEF Got, Kept, PlacesAre
  <1>6. PlacesAre(q, d + n, p, m, e)'
    BY <1>1, <1>4, <1>5 DEF PlacesAre, RingIs, Place
  <1>7. PICK F \in Seq(Frames) :
          /\ hist'.down[q] = hist.down[q] \o F /\ Len(F) = n
          /\ \A k \in 1 .. n : F[k] = At(q, d + k)
    <2>1. ASSUME NEW k \in 1 .. n
          PROVE  slot[q][Wrap(Pick(idx[q], SET) + k - 1)] = At(q, d + k) /\ At(q, d + k) \in Frames
      <3>1. d + 1 \in Nat /\ k - 1 \in 0 .. EltNbr /\ d + 1 + (k - 1) = d + k
        BY <1>2, <1>3, EltNbrAssumption DEF RingIs
      <3>2. Wrap(Place(d + 1) + (k - 1)) = Place(d + k)
        BY <3>1, PlaceWrap
      <3>3. Pick(idx[q], SET) + k - 1 = Place(d + 1) + (k - 1)
        <4>1. Pick(idx[q], SET) = Place(d + 1) /\ Place(d + 1) \in Int
          BY <1>2, <3>1, PlaceIs DEF RingIs, Pick, Slots
        <4>. QED  BY <4>1
      <3>4. Place(d + k) \in Slots
        BY PlaceIs
      <3>. QED  BY <3>2, <3>3, <3>4 DEF At, Shapes
    <2>2. PICK F : F = [k \in 1 .. n |-> slot[q][Wrap(Pick(idx[q], SET) + k - 1)]]
      OBVIOUS
    <2>3. F \in Seq(Frames) /\ Len(F) = n /\ \A k \in 1 .. n : F[k] = At(q, d + k)
      <3>1. F \in [1 .. n -> Frames] /\ \A k \in 1 .. n : F[k] = At(q, d + k)
        BY <2>1, <2>2
      <3>2. F \in Seq(Frames) /\ Len(F) = n
        BY ONLY <3>1, n \in Nat
      <3>. QED  BY <3>1, <3>2
    <2>. QED  BY <2>2, <2>3
  <1>8. PICK D \in Nat : D = Down(q)
    BY DEF Down, Shapes
  <1>9. /\ hist'.down[q] \in Seq(Frames) /\ Down(q)' = D + n
        /\ \A k \in 1 .. D : hist'.down[q][k] = hist.down[q][k]
        /\ \A k \in D + 1 .. D + n : hist'.down[q][k] = At(q, d + (k - D))
    <2>1. hist.down[q] \in Seq(Frames) /\ Len(hist.down[q]) = D
      BY <1>8 DEF Down, Shapes
    <2>2. PICK a \in Seq(Frames) : a = hist.down[q] /\ Len(a) = D
      BY <2>1
    <2>3. /\ a \o F \in Seq(Frames) /\ Len(a \o F) = D + n
          /\ \A k \in 1 .. D : (a \o F)[k] = a[k]
          /\ \A k \in D + 1 .. D + n : (a \o F)[k] = F[k - D]
      <3>1. Len(a) = D /\ Len(F) = n
        BY <1>7, <2>2
      <3>. QED  BY ONLY <3>1, ConcatIs, a \in Seq(Frames), F \in Seq(Frames)
    <2>4. \A k \in D + 1 .. D + n : k - D \in 1 .. n
      OBVIOUS
    <2>. QED  BY <1>7, <2>2, <2>3, <2>4 DEF Down
  <1>10. \A k \in D + 1 .. D + n : d + (k - D) \in d + 1 .. d + n /\ d + (k - D) \in d + 1 .. m
    BY <1>2, <1>3 DEF RingIs
  <1>11. \A k \in 1 .. D + n : k \in 1 .. D \/ k \in D + 1 .. D + n
    OBVIOUS
  <1>12. (\A x : At(q, x)' = At(q, x)) /\ (\A g : Own(q, g)' <=> Own(q, g))
    BY AtKept DEF Own
  <1>13. \A x \in d + n + 1 .. m : x \in d + 1 .. m
    OBVIOUS
  <1>14. /\ \A x \in d + n + 1 .. m : Own(q, At(q, x))'
         /\ \A k \in 1 .. D + n : Own(q, hist.down[q][k])'
    <2>1. \A x \in d + n + 1 .. m : Own(q, At(q, x))'
      BY <1>1, <1>12, <1>13 DEF InLine
    <2>2. ASSUME NEW k \in 1 .. D + n PROVE Own(q, hist.down[q][k])'
      <3>1. PICK f : f = hist'.down[q][k]
        OBVIOUS
      <3>2. CASE k \in 1 .. D
        BY <1>1, <1>8, <1>9, <3>1, <3>2 DEF InLine, Own
      <3>3. CASE k \in D + 1 .. D + n
        BY <1>1, <1>9, <1>10, <3>1, <3>3 DEF InLine, Own
      <3>. QED  BY <1>11, <3>2, <3>3
    <2>. QED  BY <2>1, <2>2
  <1>15. ASSUME NEW j \in 1 .. D + n, NEW k \in 1 .. D + n, j < k
         PROVE  Before(hist.down[q][j], hist.down[q][k])'
    <2>1. CASE k \in 1 .. D
      <3>1. j \in 1 .. D
        BY <1>15, <2>1
      <3>2. PICK f, g : f = hist.down[q][j] /\ g = hist.down[q][k]
        OBVIOUS
      <3>3. Own(q, f) /\ Own(q, g) /\ Before(f, g)
        BY <1>1, <1>8, <1>15, <2>1, <3>1, <3>2 DEF InLine
      <3>4. Before(f, g)'
        BY <3>3, BeforeKept
      <3>5. hist'.down[q][j] = f /\ hist'.down[q][k] = g
        BY <1>9, <2>1, <3>1, <3>2
      <3>. QED  BY <3>4, <3>5 DEF Before
    <2>2. CASE j \in 1 .. D /\ k \in D + 1 .. D + n
      BY <1>1, <1>8, <1>9, <1>10, <2>2, BeforeKept DEF InLine, Before
    <2>3. CASE j \in D + 1 .. D + n /\ k \in D + 1 .. D + n
      <3>1. d + (j - D) < d + (k - D)
        BY <1>15
      <3>. QED  BY <1>1, <1>9, <1>10, <2>3, <3>1, BeforeKept DEF InLine, Before
    <2>. QED  BY <1>11, <1>15, <2>1, <2>2, <2>3
  <1>16. ASSUME NEW k \in 1 .. D + n, NEW x \in d + n + 1 .. m
         PROVE  Before(hist.down[q][k], At(q, x))'
    <2>1. CASE k \in 1 .. D
      BY <1>1, <1>8, <1>9, <1>12, <1>13, <2>1, BeforeKept DEF InLine, Before
    <2>2. CASE k \in D + 1 .. D + n
      <3>1. d + (k - D) < x
        BY <1>10, <2>2
      <3>. QED  BY <1>1, <1>9, <1>10, <1>12, <1>13, <2>2, <3>1, BeforeKept DEF InLine, Before
    <2>. QED  BY <1>11, <2>1, <2>2
  <1>17. \A x, y \in d + n + 1 .. m : x < y => Before(At(q, x), At(q, y))'
    BY <1>1, <1>12, <1>13, BeforeKept DEF InLine, Before
  <1>18. InLine(q, d + n, m, e)'
    <2>1. 1 .. Down(q)' = 1 .. D + n /\ Len(e) = 0 /\ 1 .. Len(e) = {}
      BY <1>5, <1>9
    <2>2. /\ \A j, k \in 1 .. D + n : j < k => Before(hist.down[q][j], hist.down[q][k])'
          /\ \A k \in 1 .. D + n, x \in d + n + 1 .. m : Before(hist.down[q][k], At(q, x))'
      BY <1>15, <1>16
    <2>. QED  BY <2>1, <2>2, <1>14, <1>17 DEF InLine
  <1>19. d + n \in Nat
    OBVIOUS
  <1>. QED  BY <1>4, <1>6, <1>9, <1>18, <1>19 DEF LineAt

(* A flush has seen to MAKE, and what is in SET comes next;                *)
LEMMA LineToSet ==
    ASSUME Shapes, NEW q \in Queues, LineAt(q), ~ Waits(q), flush.q = q,
           flush.keep = <<>>, flush'.q = q, flush'.pc = "set", flush'.keep = <<>>,
           idx'[q] = idx[q], slot'[q] = slot[q], made'[q] = made[q],
           hist'.down[q] = hist.down[q],
           fill'[q].pc = fill[q].pc, fill'[q].slot = fill[q].slot, VidsKept(q)
    PROVE  LineAt(q)'
  <1>1. PICK d \in Nat, p \in Nat, m \in Nat, e \in Seq(Nat) :
          PlacesAre(q, d, p, m, e) /\ InLine(q, d, m, e)
    BY DEF LineAt
  <1>2. RingIs(idx[q], d, p, m, Got(q)) /\ Got(q) \in 0 .. 1
    BY <1>1, GotIs DEF PlacesAre
  <1>3. TestsFind(idx[q], d, p, m, Got(q))
    BY <1>2, RingTests
  <1>4. p = m /\ m < d + EltNbr
    BY <1>2, <1>3, EltNbrAssumption DEF RingIs, TestsFind, Waits
  <1>5. Kept(q) = <<>> /\ Kept(q)' = <<>> /\ Got(q)' = Got(q) /\ Len(e) = 0 /\ e = <<>>
    BY <1>1 DEF Kept, Got, PlacesAre
  <1>6. PlacesAre(q, d, p, m, e)'
    BY <1>1, <1>4, <1>5 DEF PlacesAre, RingIs, Place
  <1>7. InLine(q, d, m, e)'
    BY <1>1, <1>5, InLineKept
  <1>. QED  BY <1>6, <1>7 DEF LineAt

(* SET is empty, and what was kept comes next.                             *)
LEMMA LineToRequeue ==
    ASSUME Shapes, NEW q \in Queues, LineAt(q), ~ HasElt(idx[q], SET), flush.q = q,
           flush.pc = "set", flush'.q = q, flush'.pc = "requeue",
           flush'.keep = flush.keep,
           idx'[q] = idx[q], slot'[q] = slot[q], made'[q] = made[q],
           hist'.down[q] = hist.down[q],
           fill'[q].pc = fill[q].pc, fill'[q].slot = fill[q].slot, VidsKept(q)
    PROVE  LineAt(q)'
  <1>1. PICK d \in Nat, p \in Nat, m \in Nat, e \in Seq(Nat) :
          PlacesAre(q, d, p, m, e) /\ InLine(q, d, m, e)
    BY DEF LineAt
  <1>2. RingIs(idx[q], d, p, m, Got(q)) /\ Got(q) \in 0 .. 1
    BY <1>1, GotIs DEF PlacesAre
  <1>3. TestsFind(idx[q], d, p, m, Got(q))
    BY <1>2, RingTests
  <1>4. p = m /\ d = p
    BY <1>1, <1>2, <1>3 DEF PlacesAre, RingIs, TestsFind
  <1>5. Kept(q)' = Kept(q) /\ Got(q)' = Got(q)
    BY DEF Kept, Got
  <1>6. PlacesAre(q, d, p, m, e)'
    BY <1>1, <1>4, <1>5 DEF PlacesAre, RingIs, Place
  <1>7. InLine(q, d, m, e)'
    BY <1>1, <1>4, InLineKept
  <1>. QED  BY <1>6, <1>7 DEF LineAt

(* The frame at the head of SET is handed back,                            *)
LEMMA LineDropped ==
    ASSUME Shapes, NEW q \in Queues, LineAt(q), HasElt(idx[q], SET), flush.q = q,
           flush.pc = "set", flush' = flush,
           idx'[q] = AfterPut(AfterGet(idx[q], SET, 1), SET, 1),
           slot'[q] = slot[q], made'[q] = made[q], hist'.down[q] = hist.down[q],
           fill'[q].pc = fill[q].pc, fill'[q].slot = fill[q].slot, VidsKept(q)
    PROVE  idx'[q] \in Rings /\ LineAt(q)'
  <1>1. PICK d \in Nat, p \in Nat, m \in Nat, e \in Seq(Nat) :
          PlacesAre(q, d, p, m, e) /\ InLine(q, d, m, e)
    BY DEF LineAt
  <1>2. idx[q] \in Rings /\ RingIs(idx[q], d, p, m, Got(q)) /\ Got(q) \in 0 .. 1
    BY <1>1, GotIs DEF Shapes, PlacesAre
  <1>3. TestsFind(idx[q], d, p, m, Got(q))
    BY <1>2, RingTests
  <1>4. 1 <= p - d /\ p = m /\ m + Len(e) < d + EltNbr
    BY <1>1, <1>3 DEF TestsFind, PlacesAre
  <1>5. idx'[q] \in Rings /\ RingIs(idx'[q], d + 1, p, m, Got(q))
    BY <1>2, <1>4, RingSent
  <1>6. Kept(q)' = Kept(q) /\ Got(q)' = Got(q)
    BY DEF Kept, Got
  <1>7. PlacesAre(q, d + 1, p, m, e)'
    <2>1. ASSUME NEW i \in 1 .. Len(e) PROVE e[i] \in Nat /\ e[i] <= d /\ e[i] <= d + 1
      <3>1. e[i] \in Nat
        BY ONLY e \in Seq(Nat), i \in 1 .. Len(e)
      <3>2. e[i] <= d
        BY <1>1 DEF PlacesAre
      <3>. QED  BY ONLY <3>1, <3>2, d \in Nat
    <2>2. Len(e) \in Nat /\ EltNbr \in Nat /\ m + Len(e) < d + 1 + EltNbr
      BY <1>4, EltNbrAssumption
    <2>. QED  BY <1>1, <1>4, <1>5, <1>6, <2>1, <2>2 DEF PlacesAre, RingIs, Place
  <1>8. InLine(q, d, m, e)'
    BY <1>1, InLineKept
  <1>9. InLine(q, d + 1, m, e)'
    <2>1. \A n \in d + 1 + 1 .. m : n \in d + 1 .. m
      OBVIOUS
    <2>. QED  BY <1>8, <2>1 DEF InLine
  <1>10. d + 1 \in Nat
    OBVIOUS
  <1>. QED  BY <1>5, <1>7, <1>9, <1>10 DEF LineAt

(* or kept.                                                                *)
LEMMA LineTaken ==
    ASSUME Shapes, NEW q \in Queues, LineAt(q), HasElt(idx[q], SET), flush.q = q,
           flush.pc = "set", flush.keep \in Seq(Slots), flush'.q = q, flush'.pc = "set",
           flush'.keep = Append(flush.keep, Pick(idx[q], SET)),
           idx'[q] = AfterPut(AfterGet(idx[q], SET, 1), SET, 1),
           slot'[q] = slot[q], made'[q] = made[q], hist'.down[q] = hist.down[q],
           fill'[q].pc = fill[q].pc, fill'[q].slot = fill[q].slot, VidsKept(q)
    PROVE  idx'[q] \in Rings /\ flush'.keep \in Seq(Slots) /\ LineAt(q)'
  <1>1. PICK d \in Nat, p \in Nat, m \in Nat, e \in Seq(Nat) :
          PlacesAre(q, d, p, m, e) /\ InLine(q, d, m, e)
    BY DEF LineAt
  <1>2. idx[q] \in Rings /\ RingIs(idx[q], d, p, m, Got(q)) /\ Got(q) \in 0 .. 1
    BY <1>1, GotIs DEF Shapes, PlacesAre
  <1>3. TestsFind(idx[q], d, p, m, Got(q))
    BY <1>2, RingTests
  <1>4. 1 <= p - d /\ p = m /\ m + Len(e) < d + EltNbr
    BY <1>1, <1>3 DEF TestsFind, PlacesAre
  <1>5. idx'[q] \in Rings /\ RingIs(idx'[q], d + 1, p, m, Got(q))
    BY <1>2, <1>4, RingSent
  <1>6. PICK L \in Nat, a \in Seq(Nat) :
          /\ L = Len(e) /\ a = Append(e, d + 1) /\ Len(a) = L + 1 /\ a[L + 1] = d + 1
          /\ \A i \in 1 .. L : a[i] = e[i]
    <2>1. d + 1 \in Nat
      OBVIOUS
    <2>2. PICK a : a = Append(e, d + 1)
      OBVIOUS
    <2>3. a \in Seq(Nat) /\ Len(a) = Len(e) + 1 /\ Len(e) \in Nat /\ a[Len(e) + 1] = d + 1
          /\ \A k \in 1 .. Len(e) : a[k] = e[k]
      BY ONLY <2>1, <2>2, AppendIs, e \in Seq(Nat)
    <2>. QED  BY <2>2, <2>3
  <1>7. \A i \in 1 .. L + 1 : i \in 1 .. L \/ i = L + 1
    OBVIOUS
  <1>8. /\ Kept(q) = flush.keep /\ Kept(q)' = flush'.keep /\ Got(q)' = Got(q)
        /\ Len(flush.keep) = L /\ Pick(idx[q], SET) = Place(d + 1) /\ Place(d + 1) \in Slots
    BY <1>1, <1>2, <1>6, PlaceIs DEF Kept, Got, PlacesAre, RingIs, Pick
  <1>9. /\ flush'.keep \in Seq(Slots) /\ Len(flush'.keep) = L + 1
        /\ flush'.keep[L + 1] = Place(d + 1)
        /\ \A i \in 1 .. L : flush'.keep[i] = flush.keep[i]
    BY <1>8
  <1>10. \A i \in 1 .. L + 1 :
           flush'.keep[i] = Place(a[i]) /\ a[i] <= d + 1 /\ m + i < a[i] + EltNbr
    <2>1. ASSUME NEW i \in 1 .. L
          PROVE  flush'.keep[i] = Place(a[i]) /\ a[i] <= d + 1 /\ m + i < a[i] + EltNbr
      <3>1. flush.keep[i] = Place(e[i]) /\ e[i] <= d /\ m + i < e[i] + EltNbr /\ e[i] \in Nat
        BY <1>1, <1>6, <1>8 DEF PlacesAre
      <3>. QED  BY <1>6, <1>9, <3>1
    <2>2. m + (L + 1) < d + 1 + EltNbr
      BY <1>4, <1>6, EltNbrAssumption
    <2>. QED  BY <1>6, <1>7, <1>9, <2>1, <2>2
  <1>11. PlacesAre(q, d + 1, p, m, a)'
    <2>1. m + (L + 1) < d + 1 + EltNbr
      BY <1>4, <1>6, EltNbrAssumption
    <2>2. fill'[q].pc = "put" => fill'[q].slot = Place(m + 1)
      BY <1>1 DEF PlacesAre
    <2>. QED  BY <1>4, <1>5, <1>6, <1>8, <1>9, <1>10, <2>1, <2>2 DEF PlacesAre, RingIs, Place
  <1>12. InLine(q, d, m, e)'
    BY <1>1, InLineKept
  <1>13. d + 1 \in d + 1 .. m /\ \A n \in d + 1 + 1 .. m : n \in d + 1 .. m /\ d + 1 < n
    BY <1>4
  <1>14. InLine(q, d + 1, m, a)'
    <2>1. /\ \A n \in d + 1 + 1 .. m : Own(q, At(q, n))'
          /\ \A i \in 1 .. L + 1 : Own(q, At(q, a[i]))'
      BY <1>6, <1>7, <1>12, <1>13 DEF InLine
    <2>2. /\ \A k \in 1 .. Down(q)', i \in 1 .. L + 1 : Before(hist.down[q][k], At(q, a[i]))'
      BY <1>6, <1>7, <1>12, <1>13 DEF InLine
    <2>3. ASSUME NEW i \in 1 .. L + 1, NEW j \in 1 .. L + 1, i < j
          PROVE  Before(At(q, a[i]), At(q, a[j]))'
      <3>1. i \in 1 .. L
        BY <2>3
      <3>2. CASE j \in 1 .. L
        BY <1>6, <1>12, <2>3, <3>1, <3>2 DEF InLine
      <3>3. CASE j = L + 1
        BY <1>6, <1>12, <1>13, <3>1, <3>3 DEF InLine
      <3>. QED  BY <1>7, <3>2, <3>3
    <2>4. \A i \in 1 .. L + 1, n \in d + 1 + 1 .. m : Before(At(q, a[i]), At(q, n))'
      BY <1>6, <1>7, <1>12, <1>13 DEF InLine
    <2>. QED  BY <1>6, <1>12, <1>13, <2>1, <2>2, <2>3, <2>4 DEF InLine
  <1>15. d + 1 \in Nat
    OBVIOUS
  <1>16. LineAt(q)'
    BY <1>11, <1>14, <1>15 DEF LineAt
  <1>. QED  BY <1>5, <1>9, <1>16

(* The first frame kept is filled in again at the end of the ring.         *)
LEMMA LineRequeued ==
    ASSUME Shapes, NEW q \in Queues, LineAt(q), CanGet(idx[q], GET, 1), flush.q = q,
           flush.pc = "requeue", flush.keep \in Seq(Slots), flush.keep # <<>>,
           fill[q].pc # "put",
           flush'.q = q, flush'.pc = "requeue", flush'.keep = Tail(flush.keep),
           idx'[q] = AfterPut(AfterGet(idx[q], GET, 1), GET, 1),
           slot' = [slot EXCEPT ![q][Pick(idx[q], GET)] = slot[q][Head(flush.keep)]],
           made'[q] = made[q], hist'.down[q] = hist.down[q],
           fill'[q].pc = fill[q].pc, fill'[q].slot = fill[q].slot, VidsKept(q)
    PROVE  /\ idx'[q] \in Rings /\ flush'.keep \in Seq(Slots)
           /\ slot' \in [Queues -> [Slots -> Frames]]
           /\ \A r \in Queues \ {q} : slot'[r] = slot[r]
           /\ LineAt(q)'
  <1>1. PICK d \in Nat, p \in Nat, m \in Nat, e \in Seq(Nat) :
          PlacesAre(q, d, p, m, e) /\ InLine(q, d, m, e)
    BY DEF LineAt
  <1>2. Got(q) = 0 /\ Got(q)' = 0 /\ Kept(q) = flush.keep /\ Kept(q)' = flush'.keep
    BY DEF Got, Kept
  <1>3. idx[q] \in Rings /\ RingIs(idx[q], d, p, m, 0) /\ d = p
    BY <1>1, <1>2 DEF Shapes, PlacesAre
  <1>4. m + 1 - d < EltNbr
    <2>1. TestsFind(idx[q], d, p, m, 0)
      BY <1>3, RingTests
    <2>. QED  BY <2>1, EltNbrAssumption DEF TestsFind, CanGet
  <1>5. idx'[q] \in Rings /\ RingIs(idx'[q], d, p, m + 1, 0)
    <2>1. AfterGet(idx[q], GET, 1) \in Rings /\ RingIs(AfterGet(idx[q], GET, 1), d, p, m, 1)
      BY <1>3, <1>4, RingGot
    <2>. QED  BY <2>1, RingPut
  <1>6. PICK L \in Nat, a \in Seq(Nat) :
          /\ Len(e) = L + 1 /\ Len(a) = L /\ \A i \in 1 .. L : a[i] = e[i + 1]
          /\ e[1] \in Nat
    <2>1. Len(e) # 0
      BY <1>1, <1>2 DEF PlacesAre
    <2>2. e # <<>>
      BY <2>1
    <2>3. PICK a : a = Tail(e)
      OBVIOUS
    <2>4. a \in Seq(Nat) /\ Len(a) = Len(e) - 1 /\ Len(e) \in Nat \ {0}
          /\ \A k \in 1 .. Len(e) - 1 : a[k] = e[k + 1]
      BY ONLY <2>2, <2>3, TailIs, e \in Seq(Nat)
    <2>5. PICK L \in Nat : L = Len(e) - 1
      BY <2>4
    <2>6. e[1] \in Nat
      BY ONLY <2>4, e \in Seq(Nat)
    <2>7. /\ Len(e) = L + 1 /\ Len(a) = L
          /\ \A i \in 1 .. L : a[i] = e[i + 1]
      BY ONLY <2>4, <2>5
    <2>. QED  BY ONLY <2>4, <2>6, <2>7, L \in Nat
  <1>7. /\ flush'.keep \in Seq(Slots) /\ Len(flush'.keep) = L /\ Len(flush.keep) = L + 1
        /\ Head(flush.keep) = Place(e[1])
        /\ \A i \in 1 .. L : flush'.keep[i] = flush.keep[i + 1]
    <2>1. Len(flush.keep) = L + 1 /\ flush.keep[1] = Place(e[1])
      BY <1>1, <1>2, <1>6 DEF PlacesAre
    <2>2. PICK s \in Seq(Slots) : s = flush.keep /\ s # <<>>
      OBVIOUS
    <2>3. /\ Tail(s) \in Seq(Slots) /\ Len(Tail(s)) = Len(s) - 1 /\ Len(s) \in Nat \ {0}
          /\ Head(s) = s[1] /\ \A k \in 1 .. Len(s) - 1 : Tail(s)[k] = s[k + 1]
      BY ONLY <2>2, TailIs
    <2>4. Len(s) = L + 1
      BY <2>1, <2>2
    <2>5. /\ Tail(s) \in Seq(Slots) /\ Len(Tail(s)) = L /\ Head(s) = s[1]
          /\ \A k \in 1 .. L : Tail(s)[k] = s[k + 1]
      BY ONLY <2>3, <2>4, L \in Nat
    <2>. QED  BY <2>1, <2>2, <2>5
  <1>8. \A i \in 1 .. L : i + 1 \in 1 .. L + 1 /\ i + 1 > 1
    OBVIOUS
  <1>9. \A i \in 1 .. L + 1 : /\ flush.keep[i] = Place(e[i]) /\ e[i] <= d
                              /\ m + i < e[i] + EltNbr /\ e[i] \in Nat
    <2>1. \A i \in 1 .. L + 1 : e[i] \in Nat
      BY ONLY <1>6, e \in Seq(Nat)
    <2>. QED  BY <1>1, <1>2, <1>6, <2>1 DEF PlacesAre
  <1>10. PlacesAre(q, d, p, m + 1, a)'
    <2>1. ASSUME NEW i \in 1 .. L
          PROVE  flush'.keep[i] = Place(a[i]) /\ a[i] <= d /\ m + 1 + i < a[i] + EltNbr
      <3>1. m + (i + 1) = m + 1 + i
        OBVIOUS
      <3>. QED  BY <1>6, <1>7, <1>8, <1>9, <3>1
    <2>. QED  BY <1>2, <1>3, <1>5, <1>6, <1>7, <2>1 DEF PlacesAre, RingIs, Place
  <1>11. PICK f : f = At(q, e[1]) /\ Own(q, f) /\ slot[q][Head(flush.keep)] = f
    <2>1. 1 \in 1 .. Len(e)
      BY <1>6
    <2>2. Own(q, At(q, e[1]))
      BY <1>1, <2>1 DEF InLine
    <2>3. slot[q][Head(flush.keep)] = At(q, e[1])
      BY <1>7 DEF At
    <2>. QED  BY <2>2, <2>3
  <1>12. Pick(idx[q], GET) = Place(m + 1) /\ Place(m + 1) \in Slots
    <2>1. m + 0 + 1 = m + 1 /\ m + 1 \in Int
      OBVIOUS
    <2>. QED  BY <1>3, <2>1, PlaceIs DEF RingIs, Pick
  <1>13. slot' = [slot EXCEPT ![q][Place(m + 1)] = f] /\ slot \in [Queues -> [Slots -> Frames]]
    BY <1>11, <1>12 DEF Shapes
  <1>14. /\ At(q, m + 1)' = f
         /\ \A n \in Nat : n <= m /\ m + 1 < n + EltNbr => At(q, n)' = At(q, n)
         /\ \A r \in Queues \ {q} : slot'[r] = slot[r]
    BY ONLY <1>13, OtherPlace, q \in Queues, m \in Nat
  <1>15. slot' \in [Queues -> [Slots -> Frames]]
    BY <1>11, <1>12, <1>13 DEF Own
  <1>16. \A n \in d + 1 .. m : At(q, n)' = At(q, n)
    <2>1. \A n \in d + 1 .. m : n \in Nat /\ n <= m /\ m + 1 < n + EltNbr
      BY <1>4, EltNbrAssumption
    <2>. QED  BY <1>14, <2>1
  <1>17. \A i \in 1 .. L : At(q, a[i])' = At(q, e[i + 1])
    <2>1. ASSUME NEW i \in 1 .. L
          PROVE  a[i] \in Nat /\ a[i] <= m /\ m + 1 < a[i] + EltNbr
      <3>1. a[i] = e[i + 1] /\ a[i] \in Nat /\ a[i] <= d /\ m + (i + 1) < a[i] + EltNbr
        BY <1>6, <1>8, <1>9
      <3>2. d <= m
        BY <1>3 DEF RingIs
      <3>3. i \in Nat /\ i >= 1 /\ EltNbr \in Nat
        BY EltNbrAssumption
      <3>. QED  BY ONLY <3>1, <3>2, <3>3, d \in Nat, m \in Nat
    <2>. QED  BY <1>6, <1>14, <2>1
  <1>18. Down(q)' = Down(q) /\ \A g : Own(q, g)' <=> Own(q, g)
    BY DEF Down, Own
  <1>19. \A n \in d + 1 .. m + 1 : n = m + 1 \/ n \in d + 1 .. m
    OBVIOUS
  <1>20. InLine(q, d, m + 1, a)'
    <2>1. /\ \A n \in d + 1 .. m + 1 : Own(q, At(q, n))'
          /\ \A i \in 1 .. L : Own(q, At(q, a[i]))'
          /\ \A k \in 1 .. Down(q) : Own(q, hist.down[q][k])'
      <3>1. ASSUME NEW n \in d + 1 .. m + 1 PROVE Own(q, At(q, n))'
        <4>1. PICK g : g = At(q, n)'
          OBVIOUS
        <4>2. Own(q, g)
          BY <1>1, <1>11, <1>14, <1>16, <1>19, <4>1 DEF InLine
        <4>. QED  BY <4>1, <4>2 DEF Own
      <3>2. ASSUME NEW i \in 1 .. L PROVE Own(q, At(q, a[i]))'
        <4>1. PICK g : g = At(q, a[i])'
          OBVIOUS
        <4>2. Own(q, g)
          BY <1>1, <1>6, <1>8, <1>17, <4>1 DEF InLine
        <4>. QED  BY <4>1, <4>2 DEF Own
      <3>3. \A k \in 1 .. Down(q) : Own(q, hist.down[q][k])'
        BY <1>1 DEF InLine, Own
      <3>. QED  BY <3>1, <3>2, <3>3
    <2>2. \A j, k \in 1 .. Down(q) : j < k => Before(hist.down[q][j], hist.down[q][k])'
      BY <1>1, BeforeKept DEF InLine
    <2>3. \A k \in 1 .. Down(q), n \in d + 1 .. m + 1 : Before(hist.down[q][k], At(q, n))'
      <3>1. ASSUME NEW k \in 1 .. Down(q), NEW n \in d + 1 .. m + 1
            PROVE  Before(hist.down[q][k], At(q, n))'
        <4>1. PICK f1, g : f1 = hist.down[q][k] /\ g = At(q, n)'
          OBVIOUS
        <4>2. Own(q, f1) /\ Own(q, g) /\ Before(f1, g)
          <5>1. CASE n = m + 1
            <6>1. g = At(q, e[1]) /\ 1 \in 1 .. Len(e)
              BY <1>6, <1>11, <1>14, <4>1, <5>1
            <6>. QED  BY <1>1, <4>1, <6>1 DEF InLine
          <5>2. CASE n \in d + 1 .. m
            BY <1>1, <1>16, <4>1, <5>2 DEF InLine
          <5>. QED  BY <1>19, <5>1, <5>2
        <4>3. Before(f1, g)'
          BY <4>2, BeforeKept
        <4>. QED  BY <4>1, <4>3 DEF Before
      <3>. QED  BY <3>1
    <2>4. \A k \in 1 .. Down(q), i \in 1 .. L : Before(hist.down[q][k], At(q, a[i]))'
      <3>1. ASSUME NEW k \in 1 .. Down(q), NEW i \in 1 .. L
            PROVE  Before(hist.down[q][k], At(q, a[i]))'
        <4>1. PICK f1, g : f1 = hist.down[q][k] /\ g = At(q, a[i])'
          OBVIOUS
        <4>2. Own(q, f1) /\ Own(q, g) /\ Before(f1, g)
          BY <1>1, <1>6, <1>8, <1>17, <4>1 DEF InLine
        <4>3. Before(f1, g)'
          BY <4>2, BeforeKept
        <4>. QED  BY <4>1, <4>3 DEF Before
      <3>. QED  BY <3>1
    <2>5. \A n, o \in d + 1 .. m + 1 : n < o => Before(At(q, n), At(q, o))'
      <3>1. ASSUME NEW n \in d + 1 .. m + 1, NEW o \in d + 1 .. m + 1, n < o
            PROVE  Before(At(q, n), At(q, o))'
        <4>1. PICK f1, g : f1 = At(q, n)' /\ g = At(q, o)'
          OBVIOUS
        <4>2. n \in d + 1 .. m /\ f1 = At(q, n)
          BY <1>16, <3>1, <4>1
        <4>3. Own(q, f1) /\ Own(q, g) /\ Before(f1, g)
          <5>1. CASE o = m + 1
            <6>1. g = At(q, e[1]) /\ 1 \in 1 .. Len(e)
              BY <1>6, <1>11, <1>14, <4>1, <5>1
            <6>. QED  BY <1>1, <4>2, <6>1 DEF InLine
          <5>2. CASE o \in d + 1 .. m
            BY <1>1, <1>16, <3>1, <4>1, <4>2, <5>2 DEF InLine
          <5>. QED  BY <1>19, <5>1, <5>2
        <4>4. Before(f1, g)'
          BY <4>3, BeforeKept
        <4>. QED  BY <4>1, <4>4 DEF Before
      <3>. QED  BY <3>1
    <2>6. \A i, j \in 1 .. L : i < j => Before(At(q, a[i]), At(q, a[j]))'
      <3>1. ASSUME NEW i \in 1 .. L, NEW j \in 1 .. L, i < j
            PROVE  Before(At(q, a[i]), At(q, a[j]))'
        <4>1. PICK f1, g : f1 = At(q, a[i])' /\ g = At(q, a[j])'
          OBVIOUS
        <4>2. i + 1 < j + 1
          BY <3>1
        <4>3. Own(q, f1) /\ Own(q, g) /\ Before(f1, g)
          BY <1>1, <1>6, <1>8, <1>17, <4>1, <4>2 DEF InLine
        <4>4. Before(f1, g)'
          BY <4>3, BeforeKept
        <4>. QED  BY <4>1, <4>4 DEF Before
      <3>. QED  BY <3>1
    <2>7. \A i \in 1 .. L, n \in d + 1 .. m + 1 : Before(At(q, n), At(q, a[i]))'
      <3>1. ASSUME NEW i \in 1 .. L, NEW n \in d + 1 .. m + 1
            PROVE  Before(At(q, n), At(q, a[i]))'
        <4>1. PICK f1, g : f1 = At(q, n)' /\ g = At(q, a[i])'
          OBVIOUS
        <4>2. g = At(q, e[i + 1]) /\ i + 1 \in 1 .. Len(e) /\ 1 < i + 1
          BY <1>6, <1>8, <1>17, <4>1
        <4>3. Own(q, f1) /\ Own(q, g) /\ Before(f1, g)
          <5>1. CASE n = m + 1
            <6>1. f1 = At(q, e[1]) /\ 1 \in 1 .. Len(e)
              BY <1>6, <1>11, <1>14, <4>1, <5>1
            <6>. QED  BY <1>1, <4>2, <6>1 DEF InLine
          <5>2. CASE n \in d + 1 .. m
            BY <1>1, <1>16, <4>1, <4>2, <5>2 DEF InLine
          <5>. QED  BY <1>19, <5>1, <5>2
        <4>4. Before(f1, g)'
          BY <4>3, BeforeKept
        <4>. QED  BY <4>1, <4>4 DEF Before
      <3>. QED  BY <3>1
    <2>. QED  BY <1>6, <1>18, <2>1, <2>2, <2>3, <2>4, <2>5, <2>6, <2>7 DEF InLine
  <1>21. m + 1 \in Nat
    OBVIOUS
  <1>22. LineAt(q)'
    BY <1>10, <1>20, <1>21 DEF LineAt
  <1>. QED  BY <1>5, <1>7, <1>14, <1>15, <1>22

-----------------------------------------------------------------------------
(* Every step.                                                             *)

LEMMA RecordKept ==
    ASSUME HistIs, hist' = hist
    PROVE  HistIs' /\ (Undisturbed' => Undisturbed) /\ hist'.down = hist.down
  BY DEF HistIs, Undisturbed

LEMMA RecordSteps ==
    ASSUME HistIs, [Next]_vars
    PROVE  HistIs' /\ (Undisturbed' => Undisturbed)
  <1>1. CASE UNCHANGED vars
    BY <1>1, RecordKept DEF vars
  <1>2. ASSUME NEW q \in Queues, NEW v \in Vids, NEW n \in 1 .. MaxAgg, FillBegin(q, v, n)
        PROVE  HistIs' /\ (Undisturbed' => Undisturbed)
    BY <1>2, RecordKept DEF FillBegin
  <1>3. ASSUME NEW q \in Queues, Fill(q)
        PROVE  HistIs' /\ (Undisturbed' => Undisturbed)
    <2>1. CASE FillGet(q)
      BY <2>1 DEF FillGet, HistIs, Undisturbed
    <2>2. CASE FillPut(q)
      BY <2>2 DEF FillPut, HistIs, Undisturbed
    <2>3. CASE FillUp(q)
      BY <2>3, RecordKept DEF FillUp
    <2>. QED  BY <1>3, <2>1, <2>2, <2>3 DEF Fill
  <1>4. CASE Irq
    <2>1. CASE IrqDown \/ ReadStatus \/ SoftTxIrq \/ Gate \/ Enter
      BY <2>1, RecordKept DEF IrqDown, ReadStatus, SoftTxIrq, Gate, Enter
    <2>2. CASE TakeTurn \/ Drain
      BY <2>2, RecordKept DEF TakeTurn, Drain
    <2>3. CASE AskForUp
      BY <2>3 DEF AskForUp, HistIs, Undisturbed
    <2>4. CASE Download
      BY <2>4 DEF Download, HistIs, Undisturbed
    <2>5. CASE QueueDone \/ SendFrame \/ Relock
      BY <2>5, RecordKept DEF QueueDone, SendFrame, Relock
    <2>. QED  BY <1>4, <2>1, <2>2, <2>3, <2>4, <2>5 DEF Irq
  <1>5. CASE Firmware
    BY <1>5, RecordKept DEF Firmware, Complete
  <1>6. CASE Txok
    <2>1. CASE TxokDown \/ TxokTake \/ TxokTest
      BY <2>1, RecordKept DEF TxokDown, TxokTake, TxokTest
    <2>2. CASE TxokFree
      BY <2>2 DEF TxokFree, HistIs, Undisturbed
    <2>. QED  BY <1>6, <2>1, <2>2 DEF Txok
  <1>7. CASE Pause
    BY <1>7, RecordKept DEF Pause
  <1>8. CASE Flush
    <2>1. ASSUME NEW v \in load.flushes, FlushBegin(v)
          PROVE  HistIs' /\ (Undisturbed' => Undisturbed)
      BY <2>1 DEF FlushBegin, HistIs, Undisturbed
    <2>2. CASE FlushLock \/ FlushRequeue \/ FlushNext
      BY <2>2, RecordKept DEF FlushLock, FlushRequeue, FlushNext
    <2>3. CASE FlushMake
      BY <2>3 DEF FlushMake, HistIs, Undisturbed
    <2>4. CASE FlushSet
      BY <2>4 DEF FlushSet, HistIs, Undisturbed
    <2>. QED  BY <1>8, <2>1, <2>2, <2>3, <2>4 DEF Flush
  <1>. QED  BY <1>1, <1>2, <1>3, <1>4, <1>5, <1>6, <1>7, <1>8 DEF Next, Step

(* What an unfinished batch has still to fill is unchanged.                *)
LEMMA BatchKept ==
    ASSUME NEW q \in Queues, BatchAt(q), load' = load, made'[q] = made[q], fill'[q] = fill[q]
    PROVE  BatchAt(q)'
  BY DEF BatchAt, Filling

(* Steps that leave the rings and the flush alone.                         *)
LEMMA AloneStep ==
    ASSUME Ordered, load' = load, UNCHANGED <<idx, slot, desc, made, fill, flush>>,
           hist'.down = hist.down, LockIs'
    PROVE  Ordered'
  <1>1. Shapes' /\ FlushAt'
    BY DEF Ordered, Shapes, DescIs, FlushAt, FlushIs
  <1>2. ASSUME NEW q \in Queues PROVE BatchAt(q)' /\ LineAt(q)'
    <2>1. VidsKept(q) /\ Kept(q)' = Kept(q)
      BY DEF VidsKept, Kept
    <2>. QED  BY <2>1, LineKept, BatchKept DEF Ordered
  <1>. QED  BY <1>1, <1>2 DEF Ordered

LEMMA PrevIs == \A q \in Queues : Prev(q) \in Queues
  BY PrevQueue, ConstantsAre DEF Prev

(* The irq thread with the ring left out.                                  *)
LEMMA IrqAlone ==
    ASSUME Ordered, load' = load, HistIs,
           \/ IrqDown \/ ReadStatus \/ SoftTxIrq \/ Gate \/ Enter \/ AskForUp
           \/ QueueDone \/ SendFrame \/ Relock
    PROVE  Ordered'
  <1>1. UNCHANGED <<idx, slot, desc, made, fill, flush>>
    BY DEF IrqDown, ReadStatus, SoftTxIrq, Gate, Enter, AskForUp, QueueDone, SendFrame,
           Relock, fillVars
  <1>2. hist'.down = hist.down
    BY DEF IrqDown, ReadStatus, SoftTxIrq, Gate, Enter, AskForUp, QueueDone, SendFrame,
           Relock, HistIs
  <1>3. LockIs'
    <2>1. LockIs /\ lastq' = lastq
      BY DEF Ordered, IrqDown, ReadStatus, SoftTxIrq, Gate, Enter, AskForUp, QueueDone,
             SendFrame, Relock
    <2>2. CASE IrqDown \/ ReadStatus \/ SoftTxIrq \/ Gate \/ SendFrame
      BY <1>1, <2>1, <2>2 DEF LockIs, IrqDown, ReadStatus, SoftTxIrq, Gate, SendFrame, Locked
    <2>3. CASE Enter \/ AskForUp
      BY <1>1, <2>1, <2>3 DEF LockIs, Enter, AskForUp, Locked, FlushLocked
    <2>4. CASE QueueDone \/ Relock
      BY <1>1, <2>1, <2>4, PrevQueue DEF LockIs, QueueDone, Relock, Locked, FlushLocked
    <2>. QED  BY <2>2, <2>3, <2>4
  <1>. QED  BY <1>1, <1>2, <1>3, AloneStep

(* The firmware, the txok thread and hal_txframe_pause.                    *)
LEMMA OthersAlone ==
    ASSUME Ordered, load' = load, HistIs, Firmware \/ Txok \/ Pause
    PROVE  Ordered'
  <1>1. UNCHANGED <<idx, slot, desc, made, fill, flush, irq, lock, lastq>>
    BY DEF Firmware, Complete, Txok, TxokDown, TxokTake, TxokFree, TxokTest, Pause,
           fillVars, irqVars
  <1>2. hist'.down = hist.down
    <2>1. CASE TxokFree
      BY <2>1 DEF TxokFree, HistIs
    <2>2. CASE ~ TxokFree
      BY <2>2 DEF Firmware, Complete, Txok, TxokDown, TxokTake, TxokTest, Pause
    <2>. QED  BY <2>1, <2>2
  <1>3. LockIs'
    BY <1>1 DEF Ordered, LockIs
  <1>. QED  BY <1>1, <1>2, <1>3, AloneStep

LEMMA DescGets ==
    ASSUME DescIs, NEW f \in Frames, NEW x, desc' = [desc EXCEPT ![f].id = x]
    PROVE  DescIs' /\ \A g \in Frames : desc'[g].vid = desc[g].vid /\ desc'[g].agg = desc[g].agg
  <1>1. DOMAIN desc = Frames /\ \A g \in Frames :
          desc[g] = [vid |-> desc[g].vid, agg |-> desc[g].agg, id |-> desc[g].id]
    BY DEF DescIs
  <1>2. desc' = [g \in Frames |-> IF g = f THEN [desc[f] EXCEPT !.id = x] ELSE desc[g]]
    BY <1>1
  <1>3. [desc[f] EXCEPT !.id = x] = [vid |-> desc[f].vid, agg |-> desc[f].agg, id |-> x]
    BY <1>1
  <1>4. ASSUME NEW g \in Frames
        PROVE  /\ desc'[g].vid = desc[g].vid /\ desc'[g].agg = desc[g].agg
               /\ desc'[g] = [vid |-> desc'[g].vid, agg |-> desc'[g].agg, id |-> desc'[g].id]
    BY <1>1, <1>2, <1>3
  <1>. QED  BY <1>2, <1>4 DEF DescIs

LEMMA PickIs == \A q \in Queues, b \in Blocks : Shapes => slot[q][Pick(idx[q], b)] \in Frames
  BY DEF Shapes, Pick, Rings

(* A frame is given an id, by the irq thread or by a flush.                *)
LEMMA PromoteOrdered ==
    ASSUME Ordered, NEW q \in Queues, Promote(q), Waits(q), load' = load,
           UNCHANGED <<slot, made, fill, flush>>, hist'.down = hist.down,
           flush.pc \notin {"set", "requeue"}, LockIs'
    PROVE  Ordered'
  <1>1. Shapes /\ FlushAt /\ LineAt(q)
    BY DEF Ordered
  <1>2. PICK f \in Frames : desc' = [desc EXCEPT ![f].id = FirstFree]
    BY <1>1, PickIs, BlocksAre DEF Promote
  <1>3. DescIs' /\ \A g \in Frames : desc'[g].vid = desc[g].vid /\ desc'[g].agg = desc[g].agg
    BY <1>1, <1>2, DescGets DEF Shapes
  <1>4. \A r \in Queues : VidsKept(r) /\ Kept(r)' = Kept(r)
    BY <1>3 DEF VidsKept, Kept
  <1>5. idx' = [idx EXCEPT ![q] = AfterPut(AfterGet(@, MAKE, 1), MAKE, 1)]
    BY DEF Promote
  <1>6. idx'[q] = AfterPut(AfterGet(idx[q], MAKE, 1), MAKE, 1)
        /\ \A r \in Queues \ {q} : idx'[r] = idx[r]
    BY <1>1, <1>5 DEF Shapes
  <1>7. idx'[q] \in Rings /\ LineAt(q)'
    BY <1>1, <1>4, <1>6, LinePromoted DEF FlushAt
  <1>8. Shapes' /\ FlushAt'
    <2>1. idx' \in [Queues -> Rings]
      BY <1>1, <1>5, <1>6, <1>7 DEF Shapes
    <2>. QED  BY <1>1, <1>3, <2>1 DEF Shapes, FlushAt, FlushIs
  <1>9. ASSUME NEW r \in Queues PROVE BatchAt(r)' /\ LineAt(r)'
    <2>1. BatchAt(r)'
      BY BatchKept DEF Ordered
    <2>2. CASE r # q
      BY <1>4, <1>6, <2>1, <2>2, LineKept DEF Ordered
    <2>. QED  BY <1>7, <2>1, <2>2
  <1>. QED  BY <1>8, <1>9 DEF Ordered

LEMMA PreOrdered ==
    ASSUME Ordered, load' = load, TakeTurn \/ Drain
    PROVE  Ordered'
  <1>1. LockIs /\ FlushAt /\ irq.pc \in Locked
    BY DEF Ordered, TakeTurn, Drain, Locked
  <1>2. flush.pc \notin {"set", "requeue"}
    BY <1>1 DEF LockIs, FlushLocked
  <1>3. UNCHANGED <<slot, made, fill, flush, hist, lock, lastq>>
    BY DEF TakeTurn, Drain, fillVars
  <1>4. LockIs'
    <2>1. \A q \in Queues : Prev(q) \in Queues /\ (q # 0 => q - 1 \in Queues) /\ TopQ \in Queues
      BY PrevIs, PrevQueue, ConstantsAre
    <2>2. CASE TakeTurn
      BY <1>1, <1>3, <2>1, <2>2 DEF TakeTurn, LockIs, Locked
    <2>3. CASE Drain
      BY <1>1, <1>3, <2>1, <2>3 DEF Drain, LockIs, Locked
    <2>. QED  BY <2>2, <2>3
  <1>5. \/ \E q \in Queues : Waits(q) /\ Promote(q)
        \/ UNCHANGED <<idx, desc>>
    <2>1. Prev(irq.q) \in Queues /\ irq.q \in Queues
      BY <1>1, PrevIs DEF LockIs
    <2>. QED  BY <2>1 DEF TakeTurn, Drain
  <1>. QED  BY <1>2, <1>3, <1>4, <1>5, PromoteOrdered, AloneStep

LEMMA DownloadOrdered ==
    ASSUME Ordered, load' = load, HistIs, Download
    PROVE  Ordered'
  <1>1. Shapes /\ LockIs /\ FlushAt /\ irq.pc \in Locked
    BY DEF Ordered, Download, Locked
  <1>2. flush.pc \notin {"set", "requeue"} /\ flush.keep = <<>>
    BY <1>1 DEF LockIs, FlushLocked, FlushAt
  <1>3. UNCHANGED <<slot, desc, made, fill, flush, lock>>
    BY DEF Download, fillVars
  <1>4. PICK q \in Queues : q = irq.q
    BY <1>1 DEF LockIs
  <1>5. PICK n \in Nat : n = HeadAgg(q) /\ n <= NbEltCont(idx[q], SET)
    <2>1. HeadAgg(q) \in Nat
      BY <1>1, PickIs, BlocksAre DEF HeadAgg, Shapes
    <2>. QED  BY <1>4, <2>1 DEF Download, Downloads, Fits
  <1>6. /\ idx' = [idx EXCEPT ![q] = AfterPut(AfterGet(@, SET, n), SET, n)]
        /\ hist' = [hist EXCEPT !.down[q] = @ \o [k \in 1 .. n |->
                                  slot[q][Wrap(Pick(idx[q], SET) + k - 1)]]]
        /\ lastq' = q
    BY <1>4, <1>5 DEF Download
  <1>7. /\ idx'[q] = AfterPut(AfterGet(idx[q], SET, n), SET, n)
        /\ \A r \in Queues \ {q} : idx'[r] = idx[r]
    BY <1>1, <1>6 DEF Shapes
  <1>8. /\ hist'.down[q] = hist.down[q] \o [k \in 1 .. n |->
                             slot[q][Wrap(Pick(idx[q], SET) + k - 1)]]
        /\ \A r \in Queues \ {q} : hist'.down[r] = hist.down[r]
        /\ DOMAIN hist'.down = Queues
        /\ hist'.down = [r \in Queues |-> hist'.down[r]]
    <2>1. PICK t : t = hist.down[q] \o [k \in 1 .. n |->
                             slot[q][Wrap(Pick(idx[q], SET) + k - 1)]]
      OBVIOUS
    <2>2. hist'.down = [hist.down EXCEPT ![q] = t]
      BY <1>6, <2>1 DEF HistIs
    <2>. QED  BY <1>1, <2>1, <2>2 DEF Shapes
  <1>9. \A r \in Queues : VidsKept(r) /\ Kept(r)' = Kept(r)
    BY <1>3 DEF VidsKept, Kept
  <1>10. idx'[q] \in Rings /\ hist'.down[q] \in Seq(Frames) /\ LineAt(q)'
    <2>1. LineAt(q) /\ VidsKept(q)
      BY <1>9 DEF Ordered
    <2>2. slot'[q] = slot[q] /\ made'[q] = made[q] /\ fill'[q].pc = fill[q].pc
          /\ fill'[q].slot = fill[q].slot /\ flush' = flush
      BY <1>3
    <2>. QED  BY ONLY <1>1, <1>2, <1>5, <1>7, <1>8, <2>1, <2>2, LineDownloaded,
                      q \in Queues, n \in Nat
  <1>11. Shapes' /\ FlushAt'
    <2>1. idx' \in [Queues -> Rings]
      BY <1>1, <1>6, <1>7, <1>10 DEF Shapes
    <2>2. hist'.down \in [Queues -> Seq(Frames)]
      BY <1>1, <1>8, <1>10 DEF Shapes
    <2>. QED  BY <1>1, <1>3, <2>1, <2>2 DEF Shapes, DescIs, FlushAt, FlushIs
  <1>12. LockIs'
    BY <1>1, <1>3, <1>6 DEF Download, LockIs, Locked
  <1>13. ASSUME NEW r \in Queues PROVE BatchAt(r)' /\ LineAt(r)'
    <2>1. BatchAt(r)'
      BY <1>3, BatchKept DEF Ordered
    <2>2. CASE r # q
      BY <1>3, <1>7, <1>8, <1>9, <2>1, <2>2, LineKept DEF Ordered
    <2>. QED  BY <1>10, <2>1, <2>2
  <1>. QED  BY <1>11, <1>12, <1>13 DEF Ordered

-----------------------------------------------------------------------------
(* drv_to_hal, which meets no flush.                                       *)

LEMMA FillBeginOrdered ==
    ASSUME Ordered, load' = load, NEW q \in Queues, NEW v \in Vids, NEW n \in 1 .. MaxAgg,
           FillBegin(q, v, n)
    PROVE  Ordered'
  <1>1. /\ Shapes /\ LockIs /\ FlushAt
        /\ UNCHANGED <<idx, slot, desc, made, irq, lastq, lock, flush, hist>>
    BY DEF Ordered, FillBegin, irqVars
  <1>2. PICK b : /\ fill' = [fill EXCEPT ![q] = b]
                 /\ b = [pc |-> "get", left |-> n, agg |-> n, vid |-> v, slot |-> 0,
                         first |-> made[q] + 1]
    BY DEF FillBegin
  <1>3. b \in Fills /\ made[q] \in Nat /\ made[q] + n <= load.frames[q]
    <2>1. MaxAgg \in Nat /\ made[q] \in Nat /\ 0 \in Slots
      BY <1>1, ConstantsAre, EltNbrAssumption DEF Shapes, Slots
    <2>2. n \in 0 .. MaxAgg /\ made[q] + 1 \in Nat \ {0}
      BY <2>1
    <2>. QED  BY <1>2, <2>1, <2>2 DEF Fills, FillBegin
  <1>4. /\ fill' \in [Queues -> Fills] /\ fill'[q] = b
        /\ \A r \in Queues \ {q} : fill'[r] = fill[r]
    BY <1>1, <1>2, <1>3 DEF Shapes
  <1>5. Shapes' /\ LockIs' /\ FlushAt'
    <2>1. \A r \in Queues : fill'[r].pc = "put" => fill[r].pc = "put"
      BY <1>2, <1>4
    <2>. QED  BY <1>1, <1>4, <2>1 DEF Shapes, DescIs, LockIs, FlushAt, FlushIs
  <1>6. ASSUME NEW r \in Queues PROVE BatchAt(r)' /\ LineAt(r)'
    <2>1. BatchAt(r) /\ LineAt(r) /\ VidsKept(r) /\ Kept(r)' = Kept(r)
      BY <1>1 DEF Ordered, VidsKept, Kept
    <2>2. CASE r # q
      BY <1>1, <1>4, <2>1, <2>2, LineKept, BatchKept
    <2>3. CASE r = q
      <3>1. BatchAt(r)'
        BY <1>1, <1>2, <1>3, <1>4, <2>1, <2>3 DEF BatchAt, Filling
      <3>2. LineAt(r)'
        <4>1. PICK d \in Nat, p \in Nat, m \in Nat, e \in Seq(Nat) :
                PlacesAre(q, d, p, m, e) /\ InLine(q, d, m, e)
          BY <2>1, <2>3 DEF LineAt
        <4>2. Got(q)' = Got(q) /\ fill'[q].pc # "put"
          BY <1>2, <1>4 DEF Got, FillBegin
        <4>3. PlacesAre(q, d, p, m, e)'
          BY <1>1, <2>1, <2>3, <4>1, <4>2 DEF PlacesAre, RingIs, Place
        <4>4. InLine(q, d, m, e)'
          BY <1>1, <2>1, <2>3, <4>1, InLineKept
        <4>. QED  BY <2>3, <4>3, <4>4 DEF LineAt
      <3>. QED  BY <3>1, <3>2
    <2>. QED  BY <2>2, <2>3
  <1>. QED  BY <1>5, <1>6 DEF Ordered

LEMMA FillUpOrdered ==
    ASSUME Ordered, load' = load, NEW q \in Queues, FillUp(q)
    PROVE  Ordered'
  <1>1. /\ Shapes /\ LockIs /\ FlushAt /\ fill[q].pc = "up"
        /\ UNCHANGED <<idx, slot, desc, made, irq, lastq, lock, flush, hist>>
        /\ fill' = [fill EXCEPT ![q] = NoBatch]
    BY DEF Ordered, FillUp, irqVars
  <1>2. NoBatch \in Fills /\ NoBatch.pc = "idle"
    <2>1. 0 \in Slots /\ 0 \in 0 .. MaxAgg
      BY ConstantsAre, EltNbrAssumption DEF Slots
    <2>. QED  BY <2>1 DEF NoBatch, Fills
  <1>3. /\ fill' \in [Queues -> Fills] /\ fill'[q] = NoBatch
        /\ \A r \in Queues \ {q} : fill'[r] = fill[r]
    BY <1>1, <1>2 DEF Shapes
  <1>4. Shapes' /\ LockIs' /\ FlushAt'
    <2>1. \A r \in Queues : fill'[r].pc = "put" => fill[r].pc = "put"
      BY <1>2, <1>3
    <2>. QED  BY <1>1, <1>3, <2>1 DEF Shapes, DescIs, LockIs, FlushAt, FlushIs
  <1>5. ASSUME NEW r \in Queues PROVE BatchAt(r)' /\ LineAt(r)'
    <2>1. BatchAt(r) /\ LineAt(r) /\ VidsKept(r) /\ Kept(r)' = Kept(r)
      BY <1>1 DEF Ordered, VidsKept, Kept
    <2>2. CASE r # q
      BY <1>1, <1>3, <2>1, <2>2, LineKept, BatchKept
    <2>3. CASE r = q
      <3>1. BatchAt(r)'
        BY <1>1, <1>2, <1>3, <2>1, <2>3 DEF BatchAt, Filling
      <3>2. LineAt(r)'
        <4>1. PICK d \in Nat, p \in Nat, m \in Nat, e \in Seq(Nat) :
                PlacesAre(q, d, p, m, e) /\ InLine(q, d, m, e)
          BY <2>1, <2>3 DEF LineAt
        <4>2. Got(q)' = Got(q) /\ fill'[q].pc # "put"
          BY <1>1, <1>2, <1>3 DEF Got
        <4>3. PlacesAre(q, d, p, m, e)'
          BY <1>1, <2>1, <2>3, <4>1, <4>2 DEF PlacesAre, RingIs, Place
        <4>4. InLine(q, d, m, e)'
          BY <1>1, <2>1, <2>3, <4>1, InLineKept
        <4>. QED  BY <2>3, <4>3, <4>4 DEF LineAt
      <3>. QED  BY <3>1, <3>2
    <2>. QED  BY <2>2, <2>3
  <1>. QED  BY <1>4, <1>5 DEF Ordered

LEMMA FillGetOrdered ==
    ASSUME Ordered, load' = load, HistIs, Undisturbed', NEW q \in Queues, FillGet(q)
    PROVE  Ordered'
  <1>1. /\ Shapes /\ LockIs /\ FlushAt /\ fill[q].pc = "get" /\ CanGet(idx[q], GET, 1)
        /\ UNCHANGED <<slot, desc, made, irq, lastq, lock, flush>>
        /\ fill' = [fill EXCEPT ![q].pc = "put", ![q].slot = Pick(idx[q], GET)]
        /\ idx' = [idx EXCEPT ![q] = AfterGet(@, GET, 1)]
    BY DEF Ordered, FillGet, irqVars
  <1>2. hist'.down = hist.down /\ flush.pc = "off" /\ flush.keep = <<>>
    BY <1>1 DEF FillGet, HistIs, Undisturbed, FlushAt
  <1>3. PICK s \in Slots : s = Pick(idx[q], GET)
    BY <1>1, BlocksAre DEF Shapes, Rings, Pick
  <1>4. PICK b \in Fills :
          /\ fill' = [fill EXCEPT ![q] = b] /\ b.pc = "put" /\ b.slot = s
          /\ b.left = fill[q].left /\ b.first = fill[q].first
    <2>1. fill[q] \in Fills
      BY <1>1 DEF Shapes
    <2>2. PICK b : b = [fill[q] EXCEPT !.pc = "put", !.slot = s]
      OBVIOUS
    <2>3. fill' = [fill EXCEPT ![q] = b]
      BY <1>1, <1>3, <2>2 DEF Shapes
    <2>4. b \in Fills /\ b.pc = "put" /\ b.slot = s /\ b.left = fill[q].left
          /\ b.first = fill[q].first
      BY <2>1, <2>2 DEF Fills
    <2>. QED  BY <2>3, <2>4
  <1>5. /\ fill' \in [Queues -> Fills] /\ fill'[q] = b
        /\ \A r \in Queues \ {q} : fill'[r] = fill[r]
        /\ idx'[q] = AfterGet(idx[q], GET, 1)
        /\ \A r \in Queues \ {q} : idx'[r] = idx[r]
    BY <1>1, <1>4 DEF Shapes
  <1>6. \A r \in Queues : VidsKept(r) /\ Kept(r)' = Kept(r)
    BY <1>1 DEF VidsKept, Kept
  <1>7. idx'[q] \in Rings /\ LineAt(q)'
    <2>1. LineAt(q)
      BY DEF Ordered
    <2>. QED  BY <1>1, <1>2, <1>3, <1>4, <1>5, <1>6, <2>1, LineGot
  <1>8. Shapes' /\ LockIs' /\ FlushAt'
    <2>1. idx' \in [Queues -> Rings]
      BY <1>1, <1>5, <1>7 DEF Shapes
    <2>. QED  BY <1>1, <1>2, <1>5, <2>1 DEF Shapes, DescIs, LockIs, FlushAt, FlushIs
  <1>9. ASSUME NEW r \in Queues PROVE BatchAt(r)' /\ LineAt(r)'
    <2>1. BatchAt(r) /\ LineAt(r)
      BY DEF Ordered
    <2>2. CASE r # q
      BY <1>1, <1>2, <1>5, <1>6, <2>1, <2>2, LineKept, BatchKept
    <2>3. BatchAt(q)'
      BY <1>1, <1>4, <1>5, <2>1 DEF BatchAt, Filling, Ordered
    <2>. QED  BY <1>7, <2>2, <2>3
  <1>. QED  BY <1>8, <1>9 DEF Ordered

LEMMA FillPutOrdered ==
    ASSUME Ordered, load' = load, HistIs, Undisturbed', NEW q \in Queues, FillPut(q)
    PROVE  Ordered'
  <1>1. /\ Shapes /\ LockIs /\ FlushAt /\ fill[q].pc = "put" /\ BatchAt(q) /\ LineAt(q)
        /\ UNCHANGED <<irq, lastq, lock, flush>>
        /\ made' = [made EXCEPT ![q] = @ + 1]
        /\ slot' = [slot EXCEPT ![q][fill[q].slot] = Frame(q, made[q] + 1)]
        /\ idx' = [idx EXCEPT ![q] = AfterPut(@, GET, 1)]
        /\ fill' = [fill EXCEPT ![q].pc = IF fill[q].left = 1 THEN "up" ELSE "get",
                                ![q].left = @ - 1]
    BY DEF Ordered, FillPut, irqVars, Frame
  <1>2. hist'.down = hist.down /\ flush.pc = "off" /\ flush.keep = <<>>
    BY <1>1 DEF FillPut, HistIs, Undisturbed, FlushAt
  <1>3. /\ made[q] \in Nat /\ fill[q].left \in Nat /\ fill[q].left > 0
        /\ fill[q].first \in Nat \ {0} /\ fill[q].first <= made[q] + 1
        /\ made[q] + fill[q].left <= load.frames[q] /\ load.frames[q] \in 0 .. MaxFrames
        /\ MaxFrames \in Nat /\ fill[q].slot \in Slots /\ fill[q].left \in 0 .. MaxAgg
    <2>1. fill[q] \in Fills /\ made[q] \in 0 .. MaxFrames /\ MaxFrames \in Nat
      BY <1>1, ConstantsAre DEF Shapes
    <2>2. fill[q].first \in Nat \ {0} /\ fill[q].slot \in Slots /\ fill[q].left \in 0 .. MaxAgg
      BY <2>1 DEF Fills
    <2>3. fill[q].left > 0 /\ fill[q].first <= made[q] + 1
          /\ made[q] + fill[q].left <= load.frames[q]
      BY <1>1 DEF BatchAt, Filling
    <2>4. load.frames[q] \in 0 .. MaxFrames
      BY <1>1, LoadsAssumption DEF Shapes
    <2>5. made[q] \in Nat /\ fill[q].left \in Nat
      BY <2>1, <2>2
    <2>. QED  BY <2>1, <2>2, <2>3, <2>4, <2>5
  <1>4. made[q] + 1 \in 1 .. MaxFrames /\ made[q] + 1 <= load.frames[q]
        /\ fill[q].first \in 1 .. MaxFrames
    BY <1>3
  <1>5. PICK f \in Frames : f = Frame(q, made[q] + 1) /\ f.q = q /\ f.n = made[q] + 1
    BY <1>4, FrameOf
  <1>6. PICK x : /\ desc' = [desc EXCEPT ![f] = x]
                 /\ x = [vid |-> x.vid, agg |-> x.agg, id |-> x.id] /\ x.agg \in Nat
    <2>1. Frame(q, fill[q].first) \in Frames
      BY <1>4, FrameOf
    <2>2. CASE f = Frame(q, fill[q].first)
      <3>1. desc' = [desc EXCEPT ![f] = [vid |-> fill[q].vid, agg |-> fill[q].agg, id |-> 0]]
        BY <1>5, <2>2 DEF FillPut, Frame
      <3>2. fill[q].agg \in Nat
        BY <1>1, ConstantsAre DEF Shapes, Fills
      <3>3. PICK y : y = [vid |-> fill[q].vid, agg |-> fill[q].agg, id |-> 0]
        OBVIOUS
      <3>4. y = [vid |-> y.vid, agg |-> y.agg, id |-> y.id] /\ y.agg \in Nat
        BY ONLY <3>2, <3>3
      <3>. QED  BY <3>1, <3>3, <3>4
    <2>3. CASE f # Frame(q, fill[q].first)
      <3>1. desc' = [desc EXCEPT ![f] = desc[Frame(q, fill[q].first)]]
        BY <1>5, <2>3 DEF FillPut, Frame
      <3>2. PICK g \in Frames : g = Frame(q, fill[q].first)
        BY <2>1
      <3>3. desc[g] = [vid |-> desc[g].vid, agg |-> desc[g].agg, id |-> desc[g].id]
            /\ desc[g].agg \in Nat
        BY <1>1 DEF Shapes, DescIs
      <3>. QED  BY <3>1, <3>2, <3>3
    <2>. QED  BY <2>2, <2>3
  <1>7. /\ DescIs' /\ \A g \in Frames : desc'[g].agg \in Nat
        /\ \A g \in Frames : g # f => desc'[g] = desc[g]
    <2>1. DOMAIN desc = Frames /\ \A g \in Frames :
            desc[g] = [vid |-> desc[g].vid, agg |-> desc[g].agg, id |-> desc[g].id]
      BY <1>1 DEF Shapes, DescIs
    <2>2. desc' = [g \in Frames |-> IF g = f THEN x ELSE desc[g]]
      BY <1>6, <2>1
    <2>3. ASSUME NEW g \in Frames
          PROVE  desc'[g] = [vid |-> desc'[g].vid, agg |-> desc'[g].agg, id |-> desc'[g].id]
                 /\ desc'[g].agg \in Nat
      BY <1>1, <1>6, <2>1, <2>2 DEF Shapes
    <2>. QED  BY <2>2, <2>3 DEF DescIs
  <1>8. \A r \in Queues : VidsKept(r) /\ Kept(r)' = Kept(r)
    <2>1. \A r \in Queues, g \in Frames : Own(r, g) => g # f
      BY <1>3, <1>5 DEF Own
    <2>. QED  BY <1>1, <1>7, <2>1 DEF VidsKept, Kept
  <1>9. PICK b \in Fills :
          /\ fill' = [fill EXCEPT ![q] = b] /\ b.pc \in {"up", "get"}
          /\ b.left = fill[q].left - 1 /\ b.first = fill[q].first
          /\ b.pc = "get" => b.left > 0
    <2>1. fill[q] \in Fills
      BY <1>1 DEF Shapes
    <2>2. PICK b : b = [fill[q] EXCEPT !.pc = IF fill[q].left = 1 THEN "up" ELSE "get",
                                       !.left = @ - 1]
      OBVIOUS
    <2>3. fill' = [fill EXCEPT ![q] = b]
      BY <1>1, <2>2 DEF Shapes
    <2>4. b \in Fills /\ b.left = fill[q].left - 1 /\ b.first = fill[q].first
          /\ b.pc = IF fill[q].left = 1 THEN "up" ELSE "get"
      <3>1. fill[q].left - 1 \in 0 .. MaxAgg
        BY <1>3, ConstantsAre
      <3>. QED  BY <2>1, <2>2, <3>1 DEF Fills
    <2>5. b.pc = "get" => b.left > 0
      BY <1>3, <2>4
    <2>. QED  BY <2>3, <2>4, <2>5
  <1>10. /\ fill' \in [Queues -> Fills] /\ fill'[q] = b
         /\ idx'[q] = AfterPut(idx[q], GET, 1) /\ made'[q] = made[q] + 1
         /\ \A r \in Queues \ {q} : /\ fill'[r] = fill[r] /\ idx'[r] = idx[r]
                                    /\ made'[r] = made[r] /\ slot'[r] = slot[r]
         /\ slot' \in [Queues -> [Slots -> Frames]] /\ made' \in [Queues -> 0 .. MaxFrames]
    <2>1. made[q] + 1 \in 0 .. MaxFrames
      BY <1>4
    <2>2. /\ fill' \in [Queues -> Fills] /\ fill'[q] = b
          /\ \A r \in Queues \ {q} : fill'[r] = fill[r]
      BY <1>1, <1>9 DEF Shapes
    <2>3. /\ made' \in [Queues -> 0 .. MaxFrames] /\ made'[q] = made[q] + 1
          /\ \A r \in Queues \ {q} : made'[r] = made[r]
      BY <1>1, <2>1 DEF Shapes
    <2>4. /\ idx'[q] = AfterPut(idx[q], GET, 1)
          /\ \A r \in Queues \ {q} : idx'[r] = idx[r]
      BY <1>1 DEF Shapes
    <2>5. /\ slot' \in [Queues -> [Slots -> Frames]]
          /\ \A r \in Queues \ {q} : slot'[r] = slot[r]
      BY <1>1, <1>3, <1>5 DEF Shapes
    <2>. QED  BY <2>2, <2>3, <2>4, <2>5
  <1>11. idx'[q] \in Rings /\ LineAt(q)'
    <2>1. made[q] + 1 <= MaxFrames /\ hist'.down[q] = hist.down[q] /\ fill'[q].pc # "put"
      BY <1>2, <1>4, <1>9, <1>10
    <2>. QED  BY <1>1, <1>2, <1>8, <1>10, <2>1, LinePut
  <1>12. Shapes' /\ LockIs' /\ FlushAt'
    <2>1. idx' \in [Queues -> Rings]
      BY <1>1, <1>10, <1>11 DEF Shapes
    <2>. QED  BY <1>1, <1>2, <1>7, <1>10, <2>1 DEF Shapes, LockIs, FlushAt, FlushIs
  <1>13. ASSUME NEW r \in Queues PROVE BatchAt(r)' /\ LineAt(r)'
    <2>1. BatchAt(r) /\ LineAt(r)
      BY DEF Ordered
    <2>2. CASE r # q
      BY <1>1, <1>2, <1>8, <1>10, <2>1, <2>2, LineKept, BatchKept
    <2>3. BatchAt(q)'
      BY <1>3, <1>4, <1>9, <1>10 DEF BatchAt, Filling
    <2>. QED  BY <1>11, <2>2, <2>3
  <1>. QED  BY <1>12, <1>13 DEF Ordered

-----------------------------------------------------------------------------
(* hal_tx_flush.                                                           *)

(* Steps of the flush at its queue,                                        *)
LEMMA FlushAtQueue ==
    ASSUME Ordered, load' = load, NEW q \in Queues, flush.q = q, flush'.q = q,
           UNCHANGED <<made, fill, irq, lastq, lock, desc>>, hist'.down = hist.down,
           idx' \in [Queues -> Rings], slot' \in [Queues -> [Slots -> Frames]],
           \A r \in Queues \ {q} : idx'[r] = idx[r] /\ slot'[r] = slot[r],
           LineAt(q)', FlushIs', flush.pc \in FlushLocked, flush'.pc \in FlushLocked,
           flush'.keep \in Seq(Slots),
           flush'.pc = "make" => flush'.keep = <<>>
    PROVE  Ordered'
  <1>1. Shapes /\ LockIs /\ FlushAt
    BY DEF Ordered
  <1>2. Shapes' /\ LockIs'
    BY <1>1 DEF Shapes, DescIs, LockIs
  <1>3. FlushAt'
    BY <1>1 DEF FlushAt, FlushLocked
  <1>4. ASSUME NEW r \in Queues PROVE BatchAt(r)' /\ LineAt(r)'
    <2>1. BatchAt(r) /\ LineAt(r) /\ VidsKept(r)
      BY DEF Ordered, VidsKept
    <2>2. BatchAt(r)'
      BY <2>1, BatchKept
    <2>3. CASE r # q
      <3>1. Kept(r) = <<>> /\ Kept(r)' = <<>>
        BY <2>3 DEF Kept
      <3>. QED  BY <2>1, <2>2, <2>3, <3>1, LineKept
    <2>. QED  BY <2>2, <2>3
  <1>. QED  BY <1>2, <1>3, <1>4 DEF Ordered

(* and between its queues.                                                 *)
LEMMA FlushBetween ==
    ASSUME Ordered, load' = load, UNCHANGED <<idx, slot, desc, made, fill>>,
           hist'.down = hist.down, flush.keep = <<>>, flush'.keep = <<>>,
           flush'.pc \notin {"set", "requeue"}, FlushAt', LockIs'
    PROVE  Ordered'
  <1>1. Shapes'
    BY DEF Ordered, Shapes, DescIs
  <1>2. ASSUME NEW r \in Queues PROVE BatchAt(r)' /\ LineAt(r)'
    <2>1. BatchAt(r) /\ LineAt(r) /\ VidsKept(r)
      BY DEF Ordered, VidsKept
    <2>2. Kept(r) = <<>> /\ Kept(r)' = <<>>
      BY DEF Kept
    <2>. QED  BY <2>1, <2>2, LineKept, BatchKept
  <1>. QED  BY <1>1, <1>2 DEF Ordered

LEMMA FlushTurns ==
    ASSUME Ordered, load' = load, HistIs, Undisturbed',
           \/ \E v \in load.flushes : FlushBegin(v)
           \/ FlushLock \/ FlushNext
    PROVE  Ordered'
  <1>1. Shapes /\ LockIs /\ FlushAt /\ UNCHANGED <<idx, slot, desc, made, fill, irq, lastq>>
    BY DEF Ordered, FlushBegin, FlushLock, FlushNext, FlushUnchanged, irqVars, fillVars
  <1>2. ASSUME NEW v \in load.flushes, FlushBegin(v) PROVE Ordered'
    <2>1. flush' = [pc |-> "lock", vid |-> v, q |-> 0, keep |-> <<>>,
                    calls |-> flush.calls + 1] /\ lock' = lock /\ flush.pc = "off"
      BY <1>2 DEF FlushBegin
    <2>2. hist'.down = hist.down /\ \A q \in Queues : fill[q].pc # "put"
      BY <1>2 DEF FlushBegin, HistIs, Undisturbed
    <2>3. FlushAt' /\ LockIs'
      <3>1. flush'.keep = <<>> /\ <<>> \in Seq(Slots)
        BY <2>1
      <3>2. FlushIs'
        BY <1>1, <2>1 DEF FlushAt, FlushIs
      <3>3. flush'.q \in Queues /\ flush'.pc = "lock"
        BY <2>1, ConstantsAre
      <3>. QED  BY <1>1, <2>1, <2>2, <3>1, <3>2, <3>3 DEF FlushAt, LockIs, FlushLocked
    <2>. QED  BY <1>1, <2>1, <2>2, <2>3, FlushBetween DEF FlushAt
  <1>3. CASE FlushLock
    <2>1. /\ flush' = [flush EXCEPT !.pc = "make"] /\ flush.pc = "lock"
          /\ lock = "free" /\ lock' = "flush" /\ hist' = hist
      BY <1>3 DEF FlushLock
    <2>2. FlushIs' /\ flush'.pc = "make" /\ flush'.q = flush.q /\ flush'.keep = flush.keep
      BY <1>1, <2>1 DEF FlushAt, FlushIs
    <2>3. FlushAt' /\ LockIs'
      BY <1>1, <2>1, <2>2 DEF FlushAt, LockIs, FlushLocked
    <2>. QED  BY <1>1, <2>1, <2>2, <2>3, FlushBetween DEF FlushAt
  <1>4. CASE FlushNext
    <2>1. /\ flush.pc = "requeue" /\ flush.keep = <<>> /\ hist' = hist
          /\ \/ flush' = [flush EXCEPT !.pc = "off"] /\ lock' = "free"
             \/ /\ flush.q # TopQ /\ lock' = lock
                /\ flush' = [flush EXCEPT !.pc = "make", !.q = @ + 1]
      BY <1>4 DEF FlushNext
    <2>2. flush.q \in Queues /\ (flush.q # TopQ => flush.q + 1 \in Queues)
      BY <1>1, ConstantsAre DEF FlushAt, Queues, TopQ
    <2>3. /\ FlushIs' /\ flush'.q \in Queues /\ flush'.keep = <<>>
          /\ \/ flush'.pc = "off" /\ lock' = "free"
             \/ flush'.pc = "make" /\ lock' = lock
      BY <1>1, <2>1, <2>2 DEF FlushAt, FlushIs
    <2>4. FlushAt' /\ LockIs'
      BY <1>1, <2>1, <2>3 DEF FlushAt, LockIs, FlushLocked
    <2>. QED  BY <1>1, <2>1, <2>3, <2>4, FlushBetween
  <1>. QED  BY <1>2, <1>3, <1>4

LEMMA FlushMakeOrdered ==
    ASSUME Ordered, load' = load, HistIs, Undisturbed', FlushMake
    PROVE  Ordered'
  <1>1. /\ Shapes /\ LockIs /\ FlushAt /\ flush.pc = "make" /\ flush.keep = <<>>
        /\ UNCHANGED <<slot, made, fill, irq, lastq, lock>>
    BY DEF Ordered, FlushMake, FlushUnchanged, irqVars, fillVars, FlushAt
  <1>2. PICK q \in Queues : q = flush.q
    BY <1>1 DEF FlushAt
  <1>3. LineAt(q)
    BY DEF Ordered
  <1>4. CASE ~ Waits(q)
    <2>1. flush' = [flush EXCEPT !.pc = "set"] /\ UNCHANGED <<idx, desc, hist>>
      BY <1>2, <1>4 DEF FlushMake
    <2>2. FlushIs' /\ flush'.pc = "set" /\ flush'.q = q /\ flush'.keep = <<>>
      BY <1>1, <1>2, <2>1 DEF FlushAt, FlushIs
    <2>3. VidsKept(q)
      BY <2>1 DEF VidsKept
    <2>4. LineAt(q)'
      BY <1>1, <1>2, <1>3, <1>4, <2>1, <2>2, <2>3, LineToSet
    <2>5. idx' \in [Queues -> Rings] /\ slot' \in [Queues -> [Slots -> Frames]]
      BY <1>1, <2>1 DEF Shapes
    <2>6. flush'.keep \in Seq(Slots)
      BY <2>2
    <2>. QED  BY <1>1, <1>2, <2>1, <2>2, <2>4, <2>5, <2>6, FlushAtQueue DEF FlushLocked
  <1>5. CASE Waits(q) /\ Flushed(slot[q][Pick(idx[q], MAKE)])
    <2>1. /\ idx' = [idx EXCEPT ![q] = AfterPut(AfterGet(@, MAKE, 1), MAKE, 1)]
          /\ UNCHANGED <<desc, flush, hist>>
      BY <1>2, <1>5 DEF FlushMake
    <2>2. idx'[q] = AfterPut(AfterGet(idx[q], MAKE, 1), MAKE, 1)
          /\ \A r \in Queues \ {q} : idx'[r] = idx[r]
      BY <1>1, <2>1 DEF Shapes
    <2>3. VidsKept(q)
      BY <2>1 DEF VidsKept
    <2>4. idx'[q] \in Rings /\ LineAt(q)'
      BY <1>1, <1>3, <1>5, <2>1, <2>2, <2>3, LinePromoted
    <2>5. idx' \in [Queues -> Rings] /\ slot' \in [Queues -> [Slots -> Frames]]
      BY <1>1, <2>1, <2>2, <2>4 DEF Shapes
    <2>6. FlushIs' /\ flush'.keep \in Seq(Slots)
      BY <1>1, <2>1 DEF FlushAt, FlushIs
    <2>. QED  BY <1>1, <1>2, <2>1, <2>2, <2>4, <2>5, <2>6, FlushAtQueue DEF FlushLocked
  <1>6. CASE Waits(q) /\ ~ Flushed(slot[q][Pick(idx[q], MAKE)])
    <2>1. IdsLeft
      BY <1>2, <1>6 DEF FlushMake, HistIs, Undisturbed
    <2>2. Promote(q) /\ UNCHANGED <<flush, hist>>
      BY <1>2, <1>6, <2>1 DEF FlushMake
    <2>3. LockIs'
      BY <1>1, <2>2 DEF LockIs
    <2>. QED  BY <1>1, <1>6, <2>2, <2>3, PromoteOrdered
  <1>. QED  BY <1>4, <1>5, <1>6

LEMMA FlushSetOrdered ==
    ASSUME Ordered, load' = load, HistIs, FlushSet
    PROVE  Ordered'
  <1>1. /\ Shapes /\ LockIs /\ FlushAt /\ flush.pc = "set" /\ flush.keep \in Seq(Slots)
        /\ UNCHANGED <<slot, desc, made, fill, irq, lastq, lock>>
    BY DEF Ordered, FlushSet, FlushUnchanged, irqVars, fillVars, FlushAt
  <1>2. PICK q \in Queues : q = flush.q
    BY <1>1 DEF FlushAt
  <1>3. LineAt(q) /\ VidsKept(q)
    BY <1>1 DEF Ordered, VidsKept
  <1>4. CASE ~ HasElt(idx[q], SET)
    <2>1. flush' = [flush EXCEPT !.pc = "requeue"] /\ UNCHANGED <<idx, hist>>
      BY <1>2, <1>4 DEF FlushSet
    <2>2. FlushIs' /\ flush'.pc = "requeue" /\ flush'.q = q /\ flush'.keep = flush.keep
      BY <1>1, <1>2, <2>1 DEF FlushAt, FlushIs
    <2>3. LineAt(q)'
      BY <1>1, <1>2, <1>3, <1>4, <2>1, <2>2, LineToRequeue
    <2>4. idx' \in [Queues -> Rings] /\ slot' \in [Queues -> [Slots -> Frames]]
      BY <1>1, <2>1 DEF Shapes
    <2>. QED  BY <1>1, <1>2, <2>1, <2>2, <2>3, <2>4, FlushAtQueue DEF FlushLocked
  <1>5. CASE HasElt(idx[q], SET)
    <2>1. /\ idx' = [idx EXCEPT ![q] = AfterPut(AfterGet(@, SET, 1), SET, 1)]
          /\ hist'.down = hist.down
          /\ \/ flush' = flush
             \/ flush' = [flush EXCEPT !.keep = Append(@, Pick(idx[q], SET))]
      BY <1>2, <1>5 DEF FlushSet, HistIs
    <2>2. idx'[q] = AfterPut(AfterGet(idx[q], SET, 1), SET, 1)
          /\ \A r \in Queues \ {q} : idx'[r] = idx[r]
      BY <1>1, <2>1 DEF Shapes
    <2>3. idx'[q] \in Rings /\ LineAt(q)' /\ FlushIs' /\ flush'.q = q /\ flush'.pc = "set"
          /\ flush'.keep \in Seq(Slots)
      <3>1. CASE flush' = flush
        <4>1. FlushIs'
          BY <1>1, <3>1 DEF FlushAt, FlushIs
        <4>. QED  BY <1>1, <1>2, <1>3, <1>5, <2>1, <2>2, <3>1, <4>1, LineDropped
      <3>2. CASE flush' = [flush EXCEPT !.keep = Append(@, Pick(idx[q], SET))]
        <4>1. FlushIs' /\ flush'.q = q /\ flush'.pc = "set"
              /\ flush'.keep = Append(flush.keep, Pick(idx[q], SET))
          BY <1>1, <1>2, <3>2 DEF FlushAt, FlushIs
        <4>. QED  BY <1>1, <1>2, <1>3, <1>5, <2>1, <2>2, <4>1, LineTaken
      <3>. QED  BY <2>1, <3>1, <3>2
    <2>4. idx' \in [Queues -> Rings] /\ slot' \in [Queues -> [Slots -> Frames]]
      BY <1>1, <2>1, <2>2, <2>3 DEF Shapes
    <2>. QED  BY <1>1, <1>2, <2>1, <2>2, <2>3, <2>4, FlushAtQueue DEF FlushLocked
  <1>. QED  BY <1>4, <1>5

LEMMA FlushRequeueOrdered ==
    ASSUME Ordered, load' = load, HistIs, FlushRequeue
    PROVE  Ordered'
  <1>1. /\ Shapes /\ LockIs /\ FlushAt /\ flush.pc = "requeue" /\ flush.keep \in Seq(Slots)
        /\ flush.keep # <<>>
        /\ UNCHANGED <<desc, made, fill, irq, lastq, lock, hist>>
    BY DEF Ordered, FlushRequeue, FlushUnchanged, irqVars, fillVars, FlushAt
  <1>2. PICK q \in Queues : q = flush.q
    BY <1>1 DEF FlushAt
  <1>3. LineAt(q) /\ VidsKept(q) /\ fill[q].pc # "put"
    BY <1>1 DEF Ordered, VidsKept, FlushAt
  <1>4. /\ CanGet(idx[q], GET, 1)
        /\ slot' = [slot EXCEPT ![q][Pick(idx[q], GET)] = slot[q][Head(flush.keep)]]
        /\ idx' = [idx EXCEPT ![q] = AfterPut(AfterGet(@, GET, 1), GET, 1)]
        /\ flush' = [flush EXCEPT !.keep = Tail(@)]
    BY <1>2 DEF FlushRequeue, FirstKept
  <1>5. idx'[q] = AfterPut(AfterGet(idx[q], GET, 1), GET, 1)
        /\ \A r \in Queues \ {q} : idx'[r] = idx[r]
    BY <1>1, <1>4 DEF Shapes
  <1>6. FlushIs' /\ flush'.q = q /\ flush'.pc = "requeue" /\ flush'.keep = Tail(flush.keep)
    BY <1>1, <1>2, <1>4 DEF FlushAt, FlushIs
  <1>7. /\ idx'[q] \in Rings /\ flush'.keep \in Seq(Slots)
        /\ slot' \in [Queues -> [Slots -> Frames]]
        /\ \A r \in Queues \ {q} : slot'[r] = slot[r]
        /\ LineAt(q)'
    <2>1. made'[q] = made[q] /\ hist'.down[q] = hist.down[q] /\ fill'[q] = fill[q]
      BY <1>1
    <2>. QED  BY <1>1, <1>2, <1>3, <1>4, <1>5, <1>6, <2>1, LineRequeued
  <1>8. idx' \in [Queues -> Rings]
    BY <1>1, <1>4, <1>5, <1>7 DEF Shapes
  <1>. QED  BY <1>1, <1>2, <1>5, <1>6, <1>7, <1>8, FlushAtQueue DEF FlushLocked

LEMMA StepOrdered == OrderInv /\ [Next]_vars => OrderInv'
  <1>. SUFFICES ASSUME OrderInv, [Next]_vars
                PROVE  OrderInv'
    OBVIOUS
  <1>1. HistIs /\ HistIs' /\ (Undisturbed' => Undisturbed)
    BY RecordSteps DEF OrderInv
  <1>. SUFFICES ASSUME Undisturbed'
                PROVE  Ordered'
    BY <1>1 DEF OrderInv
  <1>2. Ordered /\ load' = load
    BY <1>1 DEF OrderInv, Next, vars
  <1>3. CASE UNCHANGED vars
    <2>1. LockIs'
      BY <1>2, <1>3 DEF Ordered, LockIs, vars, irqVars
    <2>. QED  BY <1>2, <1>3, <2>1, AloneStep DEF vars, fillVars
  <1>4. CASE Step
    <2>1. ASSUME NEW q \in Queues, NEW v \in Vids, NEW n \in 1 .. MaxAgg, FillBegin(q, v, n)
          PROVE  Ordered'
      BY <1>2, <2>1, FillBeginOrdered
    <2>2. ASSUME NEW q \in Queues, Fill(q)
          PROVE  Ordered'
      BY <1>1, <1>2, <2>2, FillGetOrdered, FillPutOrdered, FillUpOrdered DEF Fill
    <2>3. CASE Irq
      BY <1>1, <1>2, <2>3, IrqAlone, PreOrdered, DownloadOrdered DEF Irq
    <2>4. CASE Firmware \/ Txok \/ Pause
      BY <1>1, <1>2, <2>4, OthersAlone
    <2>5. CASE Flush
      BY <1>1, <1>2, <2>5, FlushTurns, FlushMakeOrdered, FlushSetOrdered,
         FlushRequeueOrdered DEF Flush
    <2>. QED  BY <1>4, <2>1, <2>2, <2>3, <2>4, <2>5 DEF Step
  <1>. QED  BY <1>3, <1>4 DEF Next

LEMMA InitOrdered == ASSUME Init PROVE OrderInv
  <1>1. HalInv /\ FlushIs
    BY InitHolds
  <1>2. HistIs /\ \A q \in Queues : hist.down[q] = <<>>
    BY DEF Init, HistIs
  <1>3. Shapes
    <2>1. DescIs /\ \A f \in Frames : desc[f].agg \in Nat
      BY DEF Init, DescIs
    <2>. QED  BY <1>1, <2>1 DEF Shapes, HalInv, Types
  <1>4. LockIs
    BY ConstantsAre DEF Init, LockIs, Locked, FlushLocked
  <1>5. FlushAt
    <2>1. flush.keep = <<>> /\ <<>> \in Seq(Slots)
      BY DEF Init
    <2>. QED  BY <1>1, <2>1, ConstantsAre DEF Init, FlushAt
  <1>6. ASSUME NEW q \in Queues PROVE BatchAt(q) /\ LineAt(q)
    <2>1. made[q] = 0 /\ fill[q] = NoBatch /\ NoBatch.pc = "idle"
      BY DEF Init, NoBatch
    <2>2. BatchAt(q)
      <3>1. load.frames[q] \in 0 .. MaxFrames
        BY <1>3, LoadsAssumption DEF Shapes
      <3>. QED  BY <2>1, <3>1, ConstantsAre DEF BatchAt, Filling
    <2>3. Down(q) = 0 /\ Got(q) = 0 /\ Kept(q) = <<>> /\ flush.pc = "off"
      BY <1>2, <2>1 DEF Down, Got, Kept, Init
    <2>4. PICK p \in Nat : p = Prom(q) /\ RingIs(idx[q], 0, p, 0, 0)
      <3>1. RingAt(q)
        BY <1>1 DEF HalInv, RingInv
      <3>2. Prom(q) \in Nat
        BY <1>1, <3>1, Numbers DEF HalInv
      <3>. QED  BY <2>1, <2>3, <3>1, <3>2 DEF RingAt
    <2>5. PICK e : e = <<>> /\ e \in Seq(Nat)
      <3>1. <<>> \in Seq(Nat)
        OBVIOUS
      <3>. QED  BY <3>1, Zenon
    <2>6. PlacesAre(q, 0, p, 0, e)
      BY <2>1, <2>3, <2>4, <2>5 DEF PlacesAre
    <2>7. InLine(q, 0, 0, e)
      BY <2>3, <2>5 DEF InLine
    <2>8. 0 \in Nat
      OBVIOUS
    <2>. QED  BY <2>2, <2>4, <2>5, <2>6, <2>7, <2>8 DEF LineAt
  <1>. QED  BY <1>2, <1>3, <1>4, <1>5, <1>6 DEF OrderInv, Ordered

LEMMA InvariantOrdered == Spec => []OrderInv
  BY InitOrdered, StepOrdered, PTL DEF Spec

LEMMA HoldsKept == ASSUME OrderInv PROVE KeptInOrder
  <1>. SUFFICES ASSUME Undisturbed, NEW q \in Queues, NEW j \in DOMAIN hist.down[q],
                       NEW k \in DOMAIN hist.down[q], j < k,
                       desc[hist.down[q][j]].vid = desc[hist.down[q][k]].vid
                PROVE  hist.down[q][j].n < hist.down[q][k].n
    BY DEF KeptInOrder, Undisturbed
  <1>1. PICK d, m, e : InLine(q, d, m, e)
    BY DEF OrderInv, Ordered, LineAt
  <1>2. j \in 1 .. Down(q) /\ k \in 1 .. Down(q)
    <2>1. hist.down[q] \in Seq(Frames)
      BY DEF OrderInv, Ordered, Shapes
    <2>. QED  BY <2>1 DEF Down
  <1>. QED  BY <1>1, <1>2 DEF InLine, Before

(* With flushes of any interfaces at any time: the frames of an interface  *)
(* leave each queue in the order they were filled and none twice, although *)
(* a flush takes what it keeps out of the ring and fills it in again, for  *)
(* as long as none meets a fill or runs out of ids.                        *)
THEOREM HalKeptInOrder == Spec => []KeptInOrder
  BY InvariantOrdered, HoldsKept, PTL
=============================================================================
