-------------------------- MODULE RxReorderProofs --------------------------
(***************************************************************************)
(* The reorder window, for every size of Block Ack window, ring and        *)
(* sequence space that RxReorder's assumptions allow, and every number the *)
(* peer may start at.  The heart of it is arithmetic: a frame's distance   *)
(* from seq_next, taken modulo SeqMax, tells whether the window has passed *)
(* it, as long as peer and receiver stay in step (InStep).  The part on    *)
(* the remainder modulo a constant that is not a numeral comes first.      *)
(***************************************************************************)
EXTENDS RxReorder, OsTimer, WellFoundedInduction, TLAPS

-----------------------------------------------------------------------------
(* A number is a multiple of m and a remainder.                            *)
LEMMA Split ==
    ASSUME NEW m \in Nat, m > 0, NEW a \in Int
    PROVE  \E q \in Int, r \in 0 .. m - 1 : a = m * q + r
  <1>1. PICK r \in 0 .. m - 1, q \in Int : r = a - m * q
    <2>1. a % m \in 0 .. m - 1 /\ a \div m \in Int
      OBVIOUS
    <2>2. a % m = a - m * (a \div m)
      OBVIOUS
    <2>. QED  BY ONLY <2>1, <2>2, Zenon
  <1>2. m * q \in Int OBVIOUS
  <1>3. a = m * q + r BY <1>1, <1>2
  <1>. QED  BY <1>3

(* The remainder is the only one there is.                                 *)
LEMMA ModUnique ==
    ASSUME NEW m \in Nat, m > 0, NEW a \in Int, NEW q \in Int, NEW r \in 0 .. m - 1,
           a = m * q + r
    PROVE  a % m = r
  OBVIOUS

(* Multiples of m do not matter.                                           *)
LEMMA ModShift ==
    ASSUME NEW m \in Nat, m > 0, NEW a \in Int, NEW k \in Int
    PROVE  (a + m * k) % m = a % m
  <1>1. PICK q \in Int, r \in 0 .. m - 1 : a = m * q + r
    BY Split
  <1>2. a % m = r
    BY <1>1, ModUnique
  <1>3. a + m * k = m * (q + k) + r
    BY <1>1
  <1>4. \A b \in Int, p \in Int : b = m * p + r => b % m = r
    BY ModUnique
  <1>5. (a + m * k) % m = r
    <2>1. q + k \in Int /\ a + m * k \in Int
      OBVIOUS
    <2>. QED  BY ONLY <1>3, <1>4, <2>1, Zenon
  <1>. QED  BY <1>2, <1>5

(* A remainder may be taken before an addition,                            *)
LEMMA ModAdd ==
    ASSUME NEW m \in Nat, m > 0, NEW a \in Int, NEW b \in Int
    PROVE  ((a % m) + b) % m = (a + b) % m
  <1>1. PICK q \in Int, r \in 0 .. m - 1 : a = m * q + r
    BY Split
  <1>2. a % m = r
    BY <1>1, ModUnique
  <1>3. a + b = (r + b) + m * q
    BY <1>1
  <1>4. ((r + b) + m * q) % m = (r + b) % m
    <2>1. r + b \in Int
      OBVIOUS
    <2>. QED  BY <2>1, ModShift
  <1>. QED  BY ONLY <1>2, <1>3, <1>4, Zenon

(* and on both sides of a subtraction.                                     *)
LEMMA ModSub ==
    ASSUME NEW m \in Nat, m > 0, NEW a \in Int, NEW b \in Int
    PROVE  ((a % m) - (b % m)) % m = (a - b) % m
  <1>1. PICK q \in Int, r \in 0 .. m - 1 : a = m * q + r
    BY Split
  <1>2. PICK p \in Int, s \in 0 .. m - 1 : b = m * p + s
    BY Split
  <1>3. a % m = r /\ b % m = s
    BY <1>1, <1>2, ModUnique
  <1>4. PICK c \in Int, k \in Int : c = r - s /\ a - b = c + m * k
    <2>1. r - s \in Int /\ q - p \in Int /\ a - b = (r - s) + m * (q - p)
      BY <1>1, <1>2
    <2>. QED  BY ONLY <2>1
  <1>5. (c + m * k) % m = c % m
    BY ModShift
  <1>. QED  BY ONLY <1>3, <1>4, <1>5, Zenon

(* A remainder is below m.                                                 *)
LEMMA ModRange ==
    ASSUME NEW m \in Nat, m > 0, NEW a \in Int
    PROVE  a % m \in 0 .. m - 1
  OBVIOUS

(* The remainder of a number less than m away from 0 .. m - 1.             *)
LEMMA ModSmall ==
    ASSUME NEW m \in Nat, m > 0, NEW a \in Int
    PROVE  /\ a >= 0 /\ a < m => a % m = a
           /\ a < 0 /\ a >= -m => a % m = a + m
           /\ a >= m /\ a < 2 * m => a % m = a - m
  OBVIOUS

-----------------------------------------------------------------------------
(* A bounded set of numbers has a least and a greatest member.             *)
LEMMA MinIs ==
    ASSUME NEW S \in SUBSET Nat, S # {}
    PROVE  Min(S) \in S /\ \A x \in S : Min(S) <= x
  <1>1. PICK m \in S : \A x \in S : <<x, m>> \notin OpToRel(<, Nat)
    BY WFMin, NatLessThanWellFounded, Zenon
  <1>2. \A x \in S : ~ (x < m)
    BY <1>1, Zenon DEF OpToRel
  <1>3. \A x \in S : m <= x
    BY <1>2
  <1>. QED  BY <1>3 DEF Min

(* And its greatest.                                                       *)
LEMMA MaxIs ==
    ASSUME NEW n \in Nat, NEW S \in SUBSET (0 .. n), S # {}
    PROVE  Max(S) \in S /\ \A x \in S : Max(S) >= x
  <1>. DEFINE above == {m \in Nat : \A x \in S : x <= m}
  <1>1. above \in SUBSET Nat /\ above # {}
    <2>1. n \in above
      OBVIOUS
    <2>. QED  BY <2>1
  <1>2. PICK m \in above : \A y \in above : m <= y
    BY <1>1, MinIs
  <1>3. m \in S
    <2>. SUFFICES ASSUME m \notin S PROVE FALSE
      OBVIOUS
    <2>1. \A x \in S : x < m
      BY <1>2
    <2>2. m - 1 \in above
      <3>1. PICK x \in S : TRUE
        OBVIOUS
      <3>2. m >= 1 /\ m \in Nat
        BY <2>1, <3>1
      <3>. QED  BY <2>1, <3>2
    <2>. QED  BY <1>2, <2>2
  <1>4. \A x \in S : m >= x
    BY <1>2
  <1>. QED  BY <1>3, <1>4 DEF Max

-----------------------------------------------------------------------------
(* The window.                                                             *)
Windows == [head : Slots, tail : Slots, seq : 0 .. SeqMax - 1, real : Nat,
            buf : [Slots -> Nat]]

(* The frame held at distance d from head is the d-th from seq_next on.    *)
Mirrors(w) ==
    \A s \in Slots : w.buf[s] # Empty =>
        /\ Dist(w, s) < Gap(w)
        /\ Dist(w, s) < Win
        /\ w.buf[s] = w.real + Dist(w, s)

(* The assumptions on the constants, as the proofs use them.               *)
LEMMA Sizes ==
    /\ Bufs \in Nat /\ Bufs > 0 /\ Win \in Nat /\ Win > 0 /\ Win < Bufs
    /\ SeqMax \in Nat /\ SeqMax > 8 * Win
  BY WinAssumption, BufsAssumption, SeqMaxAssumption

(* Round a ring of b places: i places on from h, and from h to s.          *)
LEMMA RingOn ==
    ASSUME NEW b \in Nat, b > 0, NEW h \in 0 .. b - 1, NEW i \in 0 .. b
    PROVE  /\ (h + i) % b = IF h + i < b THEN h + i ELSE h + i - b
           /\ (h + i) % b \in 0 .. b - 1
  OBVIOUS

(* From h to s.                                                            *)
LEMMA RingFrom ==
    ASSUME NEW b \in Nat, b > 0, NEW h \in 0 .. b - 1, NEW s \in 0 .. b - 1
    PROVE  /\ (s - h) % b = IF s >= h THEN s - h ELSE s - h + b
           /\ (s - h) % b \in 0 .. b - 1
  OBVIOUS

(* The distance of a slot from head,                                       *)
LEMMA DistIs ==
    ASSUME NEW w, w.head \in Slots, NEW s \in Slots
    PROVE  /\ Dist(w, s) = IF s >= w.head THEN s - w.head ELSE s - w.head + Bufs
           /\ Dist(w, s) \in 0 .. Bufs - 1
  BY RingFrom, Sizes DEF Dist, Slots

(* and the slot at a distance.                                             *)
LEMMA SlotAtIs ==
    ASSUME NEW w, w.head \in Slots, NEW i \in 0 .. Bufs - 1
    PROVE  /\ SlotAt(w, i) = IF w.head + i < Bufs THEN w.head + i ELSE w.head + i - Bufs
           /\ SlotAt(w, i) \in Slots
  BY RingOn, Sizes DEF SlotAt, Slots

(* Slots and distances below Bufs correspond.                              *)
LEMMA SlotFacts ==
    ASSUME NEW w \in Windows
    PROVE  /\ \A i \in 0 .. Bufs : SlotAt(w, i) \in Slots
           /\ \A s \in Slots : /\ Dist(w, s) \in 0 .. Bufs - 1
                               /\ SlotAt(w, Dist(w, s)) = s
           /\ \A i \in 0 .. Bufs - 1 : Dist(w, SlotAt(w, i)) = i
           /\ Gap(w) \in 0 .. Bufs - 1
           /\ Gap(w) = 0 <=> w.head = w.tail
  <1>1. w.head \in Slots /\ w.tail \in Slots /\ Slots = 0 .. Bufs - 1
    BY DEF Windows, Slots
  <1>2. ASSUME NEW i \in 0 .. Bufs PROVE SlotAt(w, i) \in Slots
    BY <1>1, RingOn, Sizes DEF SlotAt
  <1>3. ASSUME NEW s \in Slots PROVE Dist(w, s) \in 0 .. Bufs - 1 /\ SlotAt(w, Dist(w, s)) = s
    <2>1. PICK d \in 0 .. Bufs - 1 :
            /\ d = Dist(w, s)
            /\ d = IF s >= w.head THEN s - w.head ELSE s - w.head + Bufs
      BY <1>1, DistIs
    <2>2. SlotAt(w, d) = IF w.head + d < Bufs THEN w.head + d ELSE w.head + d - Bufs
      BY <1>1, SlotAtIs
    <2>3. SlotAt(w, d) = s
      BY <1>1, <2>1, <2>2, Sizes, SMTT(30)
    <2>. QED  BY <2>1, <2>3
  <1>4. ASSUME NEW i \in 0 .. Bufs - 1 PROVE Dist(w, SlotAt(w, i)) = i
    <2>1. PICK s \in Slots :
            /\ s = SlotAt(w, i)
            /\ s = IF w.head + i < Bufs THEN w.head + i ELSE w.head + i - Bufs
      BY <1>1, SlotAtIs
    <2>2. Dist(w, s) = IF s >= w.head THEN s - w.head ELSE s - w.head + Bufs
      BY <1>1, DistIs
    <2>3. Dist(w, s) = i
      BY <1>1, <2>1, <2>2, Sizes
    <2>. QED  BY <2>1, <2>3
  <1>5. /\ Gap(w) \in 0 .. Bufs - 1
        /\ Gap(w) = IF w.tail >= w.head THEN w.tail - w.head ELSE w.tail - w.head + Bufs
    BY <1>1, RingFrom, Sizes DEF Gap
  <1>6. Gap(w) = 0 <=> w.head = w.tail
    BY <1>1, <1>5, Sizes
  <1>. QED  BY <1>2, <1>3, <1>4, <1>5, <1>6

(* Taking the first k positions out.                                       *)
LEMMA Advanced ==
    ASSUME NEW w \in Windows, NEW k \in Nat
    PROVE  LET v == Advance(w, k) IN
           /\ v \in Windows
           /\ v.real = w.real + k /\ v.tail = w.tail /\ v.seq = (w.seq + k) % SeqMax
           /\ \A s \in Slots : v.buf[s] = IF Dist(w, s) < k THEN Empty ELSE w.buf[s]
           /\ k < Bufs => \A s \in Slots : Dist(w, s) >= k => Dist(v, s) = Dist(w, s) - k
           /\ k <= Gap(w) => Gap(v) = Gap(w) - k
           /\ Mirrors(w) => Mirrors(v)
  <1>. DEFINE v == Advance(w, k)
              rest == [s \in Slots |-> IF Dist(w, s) < k THEN Empty ELSE w.buf[s]]
  <1>1. /\ w.head \in Slots /\ w.tail \in Slots /\ w.real \in Nat
        /\ w.seq \in 0 .. SeqMax - 1 /\ w.buf \in [Slots -> Nat]
        /\ Slots = 0 .. Bufs - 1
    BY DEF Windows, Slots
  <1>2. /\ (w.head + k) % Bufs \in Slots
        /\ (w.seq + k) % SeqMax \in 0 .. SeqMax - 1
    <2>1. w.head + k \in Int /\ w.seq + k \in Int
      BY <1>1, Sizes
    <2>2. (w.head + k) % Bufs \in 0 .. Bufs - 1
      BY ONLY <2>1, ModRange, Sizes
    <2>3. (w.seq + k) % SeqMax \in 0 .. SeqMax - 1
      BY ONLY <2>1, ModRange, Sizes
    <2>. QED  BY ONLY <1>1, <2>2, <2>3, Zenon
  <1>3. rest \in [Slots -> Nat]
    BY <1>1 DEF Empty
  <1>4. /\ v.head = (w.head + k) % Bufs /\ v.tail = w.tail
        /\ v.seq = (w.seq + k) % SeqMax /\ v.real = w.real + k
        /\ v.buf = rest
        /\ v = [head |-> (w.head + k) % Bufs, tail |-> w.tail,
                seq |-> (w.seq + k) % SeqMax, real |-> w.real + k, buf |-> rest]
    <2>1. v = [w EXCEPT !.head = (w.head + k) % Bufs, !.seq = (w.seq + k) % SeqMax,
                        !.real = w.real + k, !.buf = rest]
      BY Zenon DEF Advance
    <2>. HIDE DEF v, rest
    <2>2. PICK h, q, r : h = (w.head + k) % Bufs /\ q = (w.seq + k) % SeqMax /\ r = w.real + k
      BY Zenon
    <2>3. v = [w EXCEPT !.head = h, !.seq = q, !.real = r, !.buf = rest]
      BY <2>1, <2>2, Zenon
    <2>4. /\ v.head = h /\ v.tail = w.tail /\ v.seq = q /\ v.real = r /\ v.buf = rest
          /\ v = [head |-> h, tail |-> w.tail, seq |-> q, real |-> r, buf |-> rest]
      BY ONLY <2>3, w \in Windows DEF Windows
    <2>. QED  BY ONLY <2>2, <2>4, Zenon
  <1>5. \A s \in Slots : v.buf[s] = IF Dist(w, s) < k THEN Empty ELSE w.buf[s]
    BY <1>4
  <1>. HIDE DEF v, rest
  <1>6. v \in Windows
    <2>1. PICK h \in Slots, q \in 0 .. SeqMax - 1 :
            h = (w.head + k) % Bufs /\ q = (w.seq + k) % SeqMax
      BY <1>2
    <2>. QED  BY ONLY <1>1, <1>3, <1>4, <2>1, k \in Nat, SMTT(30) DEF Windows
  <1>7. ASSUME k < Bufs, NEW s \in Slots, Dist(w, s) >= k
        PROVE  Dist(v, s) = Dist(w, s) - k
    <2>1. v.head = IF w.head + k < Bufs THEN w.head + k ELSE w.head + k - Bufs
      <3>1. w.head \in 0 .. Bufs - 1 /\ k \in 0 .. Bufs /\ Bufs \in Nat /\ Bufs > 0
        BY <1>1, <1>7, Sizes
      <3>2. (w.head + k) % Bufs = IF w.head + k < Bufs THEN w.head + k ELSE w.head + k - Bufs
        BY ONLY <3>1, RingOn
      <3>. QED  BY ONLY <1>4, <3>2, Zenon
    <2>2. Dist(w, s) = IF s >= w.head THEN s - w.head ELSE s - w.head + Bufs
      BY <1>1, DistIs
    <2>3. v.head \in Slots
      BY <1>6 DEF Windows
    <2>4. Dist(v, s) = IF s >= v.head THEN s - v.head ELSE s - v.head + Bufs
      BY <2>3, DistIs
    <2>5. w.head \in 0 .. Bufs - 1 /\ s \in 0 .. Bufs - 1 /\ Bufs \in Nat /\ k \in Nat
      BY <1>1, Sizes
    <2>. QED  BY ONLY <1>7, <2>1, <2>2, <2>4, <2>5
  <1>8. Gap(w) = Dist(w, w.tail) /\ Gap(v) = Dist(v, w.tail) /\ Gap(w) \in 0 .. Bufs - 1
    BY <1>4, SlotFacts DEF Gap, Dist
  <1>9. k <= Gap(w) => Gap(v) = Gap(w) - k
    BY <1>1, <1>7, <1>8, Sizes
  <1>10. ASSUME Mirrors(w) PROVE Mirrors(v)
    <2>. SUFFICES ASSUME NEW s \in Slots, v.buf[s] # Empty
                  PROVE  /\ Dist(v, s) < Gap(v) /\ Dist(v, s) < Win
                         /\ v.buf[s] = v.real + Dist(v, s)
      BY DEF Mirrors
    <2>1. /\ Dist(w, s) \in 0 .. Bufs - 1 /\ Dist(w, s) >= k
          /\ v.buf[s] = w.buf[s]
      BY <1>5, SlotFacts
    <2>2. /\ Dist(w, s) < Gap(w) /\ Dist(w, s) < Win
          /\ w.buf[s] = w.real + Dist(w, s)
      BY <1>10, <2>1 DEF Mirrors
    <2>3. k < Bufs /\ k <= Gap(w)
      BY ONLY <1>8, <2>1, <2>2, k \in Nat, Sizes
    <2>4. Dist(v, s) = Dist(w, s) - k /\ Gap(v) = Gap(w) - k
      BY <1>7, <1>9, <2>1, <2>3
    <2>5. v.real = w.real + k /\ w.real \in Nat
      BY <1>1, <1>4
    <2>. QED  BY ONLY <1>8, <2>1, <2>2, <2>4, <2>5, k \in Nat, Sizes
  <1>. QED  BY <1>4, <1>5, <1>6, <1>7, <1>9, <1>10 DEF v

(* What a position of the window holds is found at a slot, and what is at  *)
(* position i of a window that mirrors is the i-th frame.                  *)
LEMMA AtPosition ==
    ASSUME NEW w \in Windows, Mirrors(w), NEW i \in 0 .. Bufs - 1
    PROVE  /\ At(w, i) \in Nat
           /\ At(w, i) # Empty => At(w, i) = w.real + i /\ i < Gap(w) /\ i < Win
  <1>1. SlotAt(w, i) \in Slots /\ Dist(w, SlotAt(w, i)) = i
    BY SlotFacts, Sizes
  <1>2. w.buf \in [Slots -> Nat]
    BY DEF Windows
  <1>. QED  BY <1>1, <1>2 DEF At, Mirrors

(* Putting the i-th frame into its place.                                  *)
LEMMA Stored ==
    ASSUME NEW w \in Windows, Mirrors(w), NEW i \in 0 .. Win - 1
    PROVE  LET v == Store(w, i, w.real + i) IN
           /\ v \in Windows /\ Mirrors(v)
           /\ v.head = w.head /\ v.seq = w.seq /\ v.real = w.real
           /\ \A s \in Slots : v.buf[s] \in {w.buf[s], w.real + i}
  <1>. DEFINE v == Store(w, i, w.real + i)
  <1>1. /\ w.head \in Slots /\ w.tail \in Slots /\ w.real \in Nat
        /\ w.seq \in 0 .. SeqMax - 1 /\ w.buf \in [Slots -> Nat]
    BY DEF Windows
  <1>2. PICK p \in Slots, t \in Slots, b \in [Slots -> Nat] :
          /\ p = SlotAt(w, i)
          /\ t = IF i >= Gap(w) THEN SlotAt(w, i + 1) ELSE w.tail
          /\ b = [w.buf EXCEPT ![p] = w.real + i]
    <2>1. SlotAt(w, i) \in Slots /\ SlotAt(w, i + 1) \in Slots
      BY SlotFacts, Sizes
    <2>2. [w.buf EXCEPT ![SlotAt(w, i)] = w.real + i] \in [Slots -> Nat]
      BY <1>1, <2>1, Sizes
    <2>. QED  BY <1>1, <2>1, <2>2
  <1>3. /\ v.head = w.head /\ v.seq = w.seq /\ v.real = w.real /\ v.tail = t /\ v.buf = b
        /\ v = [head |-> w.head, tail |-> t, seq |-> w.seq, real |-> w.real, buf |-> b]
    <2>1. v = [w EXCEPT !.buf = b, !.tail = t]
      <3>1. v = [w EXCEPT !.buf = [w.buf EXCEPT ![SlotAt(w, i)] = w.real + i],
                          !.tail = IF i >= Gap(w) THEN SlotAt(w, i + 1) ELSE w.tail]
        BY <1>1 DEF Store, Windows
      <3>. QED  BY ONLY <3>1, <1>2, Zenon
    <2>. HIDE DEF v
    <2>. QED  BY ONLY <2>1, w \in Windows DEF Windows
  <1>4. v \in Windows
    BY <1>1, <1>2, <1>3 DEF Windows
  <1>. HIDE DEF v
  <1>5. \A s \in Slots : v.buf[s] = IF s = p THEN w.real + i ELSE w.buf[s]
    BY <1>1, <1>2, <1>3
  <1>6. \A s \in Slots : Dist(v, s) = Dist(w, s)
    BY <1>3 DEF Dist
  <1>7. Gap(v) = IF i >= Gap(w) THEN i + 1 ELSE Gap(w)
    <2>1. CASE i >= Gap(w)
      <3>1. i + 1 \in 0 .. Bufs - 1
        BY Sizes
      <3>2. Dist(w, SlotAt(w, i + 1)) = i + 1
        BY <3>1, SlotFacts
      <3>. QED  BY <1>2, <1>3, <2>1, <3>2 DEF Gap, Dist
    <2>2. CASE ~ (i >= Gap(w))
      BY <1>2, <1>3, <2>2 DEF Gap
    <2>. QED  BY <2>1, <2>2
  <1>8. Mirrors(v)
    <2>. SUFFICES ASSUME NEW s \in Slots, v.buf[s] # Empty
                  PROVE  /\ Dist(v, s) < Gap(v) /\ Dist(v, s) < Win
                         /\ v.buf[s] = v.real + Dist(v, s)
      BY DEF Mirrors
    <2>1. Gap(w) \in 0 .. Bufs - 1 /\ Dist(w, s) \in 0 .. Bufs - 1
      BY SlotFacts
    <2>2. CASE s = p
      <3>1. Dist(w, s) = i
        BY <1>2, <2>2, SlotFacts, Sizes
      <3>2. v.buf[s] = w.real + i
        BY <1>5, <2>2
      <3>. QED  BY <1>3, <1>6, <1>7, <2>1, <3>1, <3>2, Sizes
    <2>3. CASE s # p
      <3>1. v.buf[s] = w.buf[s]
        BY <1>5, <2>3
      <3>2. /\ Dist(w, s) < Gap(w) /\ Dist(w, s) < Win
            /\ w.buf[s] = w.real + Dist(w, s)
        BY <3>1 DEF Mirrors
      <3>. QED  BY <1>3, <1>6, <1>7, <2>1, <3>1, <3>2, Sizes
    <2>. QED  BY <2>2, <2>3
  <1>. QED  BY <1>3, <1>4, <1>5, <1>8 DEF v

(* The run without a hole, and the run of frames that waited long enough.  *)
LEMMA FilledIs ==
    ASSUME NEW w \in Windows
    PROVE  /\ Filled(w) \in 0 .. Gap(w)
           /\ \A j \in 0 .. Filled(w) - 1 : At(w, j) # Empty
  <1>. DEFINE ends == {k \in 0 .. Gap(w) : k = Gap(w) \/ At(w, k) = Empty}
  <1>1. Gap(w) \in Nat
    BY SlotFacts
  <1>2. ends \in SUBSET Nat /\ ends # {}
    <2>1. Gap(w) \in ends
      BY <1>1
    <2>. QED  BY <1>1, <2>1
  <1>3. Filled(w) \in ends /\ \A k \in ends : Filled(w) <= k
    BY <1>2, MinIs DEF Filled
  <1>4. \A j \in 0 .. Filled(w) - 1 : j \notin ends /\ j \in 0 .. Gap(w)
    BY <1>1, <1>3
  <1>. QED  BY <1>3, <1>4

(* Nor does that of frames that waited long enough end in a hole.          *)
LEMMA ExpiredIs ==
    ASSUME NEW w \in Windows
    PROVE  /\ Expired(w) \in 0 .. Gap(w)
           /\ Expired(w) # 0 => At(w, Expired(w) - 1) # Empty
  <1>. DEFINE ends == {i \in 0 .. Gap(w) :
                         i = Gap(w) \/ (At(w, i) # Empty /\ SlotAt(w, i) \notin aged)}
              held == {j \in 0 .. FirstFresh(w) - 1 : At(w, j) # Empty}
              past == {0} \cup {i + 1 : i \in held}
  <1>1. Gap(w) \in Nat
    BY SlotFacts
  <1>2. FirstFresh(w) \in 0 .. Gap(w)
    <2>1. Gap(w) \in ends
      BY <1>1
    <2>2. ends \in SUBSET Nat /\ ends # {}
      BY <1>1, <2>1
    <2>3. FirstFresh(w) \in ends
      BY <2>2, MinIs DEF FirstFresh
    <2>. QED  BY <2>3
  <1>3. past \in SUBSET (0 .. Gap(w)) /\ past # {}
    BY <1>1, <1>2
  <1>4. Expired(w) \in past
    BY <1>1, <1>3, MaxIs DEF Expired
  <1>5. Expired(w) # 0 => \E i \in held : Expired(w) = i + 1
    BY <1>4
  <1>6. Expired(w) # 0 => At(w, Expired(w) - 1) # Empty
    BY <1>2, <1>5
  <1>. QED  BY <1>3, <1>4, <1>6

-----------------------------------------------------------------------------
(* What is sent up: frames from lo on and below hi, in ascending order.    *)
Ascending(frames, lo, hi) ==
    /\ frames \in Seq(Nat)
    /\ \A i \in Held(frames) :
         /\ lo <= frames[i] /\ frames[i] < hi
         /\ \A j \in Held(frames) : j < i => frames[j] < frames[i]

(* What the first k positions hold is such a list.                         *)
LEMMA FramesAscend ==
    ASSUME NEW w \in Windows, Mirrors(w), NEW k \in Nat
    PROVE  Ascending(FramesIn(w, k), w.real, w.real + k)
  <1>. DEFINE m == Min({k, Bufs})
              frames == FramesIn(w, k)
  <1>1. m \in Nat /\ m <= k /\ m <= Bufs
    <2>1. {k, Bufs} \in SUBSET Nat /\ {k, Bufs} # {}
      BY Sizes
    <2>. QED  BY <2>1, MinIs
  <1>. HIDE DEF m
  <1>2. frames = [i \in 1 .. m |-> At(w, i - 1)]
    BY DEF FramesIn, m
  <1>3. \A i \in 1 .. m : i - 1 \in 0 .. Bufs - 1
    BY <1>1, Sizes
  <1>4. \A i \in 1 .. m : frames[i] = At(w, i - 1) /\ frames[i] \in Nat
    BY <1>2, <1>3, AtPosition
  <1>5. frames \in Seq(Nat) /\ DOMAIN frames = 1 .. m
    <2>1. frames \in [1 .. m -> Nat]
      BY <1>2, <1>4
    <2>. QED  BY <1>1, <2>1
  <1>. HIDE DEF frames
  <1>6. \A i \in Held(frames) : i \in 1 .. m /\ frames[i] = w.real + (i - 1)
    BY <1>3, <1>4, <1>5, AtPosition DEF Held
  <1>7. w.real \in Nat
    BY DEF Windows
  <1>8. Ascending(frames, w.real, w.real + k)
    BY <1>1, <1>5, <1>6, <1>7 DEF Ascending
  <1>. QED  BY <1>8 DEF frames

(* Two such lists one after the other.                                     *)
LEMMA AscendingJoin ==
    ASSUME NEW f, NEW g, NEW a \in Nat, NEW b \in Nat, NEW c \in Nat, a <= b, b <= c,
           Ascending(f, a, b), Ascending(g, b, c)
    PROVE  Ascending(f \o g, a, c)
  <1>1. f \in Seq(Nat) /\ g \in Seq(Nat)
    BY DEF Ascending
  <1>2. /\ f \o g \in Seq(Nat) /\ Len(f) \in Nat /\ Len(g) \in Nat
        /\ DOMAIN (f \o g) = 1 .. Len(f) + Len(g)
        /\ \A i \in 1 .. Len(f) + Len(g) :
              (f \o g)[i] = IF i <= Len(f) THEN f[i] ELSE g[i - Len(f)]
    BY <1>1
  <1>3. \A i \in Held(f \o g) :
          \/ i <= Len(f) /\ i \in Held(f) /\ (f \o g)[i] = f[i]
          \/ i > Len(f) /\ i - Len(f) \in Held(g) /\ (f \o g)[i] = g[i - Len(f)]
    BY <1>1, <1>2, SMTT(30) DEF Held
  <1>4. /\ \A i \in Held(f) : f[i] \in Nat /\ i \in Nat
        /\ \A i \in Held(g) : g[i] \in Nat /\ i \in Nat
        /\ \A i \in Held(f \o g) : i \in Nat
    BY <1>1, <1>2 DEF Held
  <1>5. /\ \A i \in Held(f) : a <= f[i] /\ f[i] < b
        /\ \A i, j \in Held(f) : j < i => f[j] < f[i]
        /\ \A i \in Held(g) : b <= g[i] /\ g[i] < c
        /\ \A i, j \in Held(g) : j < i => g[j] < g[i]
    BY DEF Ascending
  <1>. DEFINE h == f \o g
  <1>6. /\ h \in Seq(Nat) /\ Len(f) \in Nat
        /\ \A i \in Held(h) : i \in Nat
        /\ \A i \in Held(h) :
             \/ i <= Len(f) /\ i \in Held(f) /\ h[i] = f[i]
             \/ i > Len(f) /\ i - Len(f) \in Held(g) /\ h[i] = g[i - Len(f)]
    BY <1>2, <1>3, <1>4, Zenon
  <1>. HIDE DEF h
  <1>7. ASSUME NEW i \in Held(h)
        PROVE  a <= h[i] /\ h[i] < c
    BY ONLY <1>4, <1>5, <1>6, <1>7, a \in Nat, b \in Nat, c \in Nat, a <= b, b <= c
  <1>8. ASSUME NEW i \in Held(h), NEW j \in Held(h), j < i
        PROVE  h[j] < h[i]
    <2>1. i \in Nat /\ j \in Nat /\ Len(f) \in Nat
      BY <1>6
    <2>2. CASE i <= Len(f)
      <3>1. i \in Held(f) /\ j \in Held(f) /\ h[i] = f[i] /\ h[j] = f[j]
        BY ONLY <1>6, <1>8, <2>1, <2>2
      <3>. QED  BY ONLY <1>5, <1>8, <3>1
    <2>3. CASE j > Len(f)
      <3>1. PICK p \in Held(g), q \in Held(g) :
              p = i - Len(f) /\ q = j - Len(f) /\ h[i] = g[p] /\ h[j] = g[q]
        BY ONLY <1>6, <1>8, <2>1, <2>3, SMTT(30)
      <3>2. q < p
        BY ONLY <1>8, <2>1, <3>1
      <3>. QED  BY ONLY <1>5, <3>1, <3>2
    <2>4. CASE j <= Len(f) /\ i > Len(f)
      <3>1. h[j] < b /\ h[j] \in Nat
        BY ONLY SMTT(30), <1>4, <1>5, <1>6, <1>8, <2>1, <2>4
      <3>2. b <= h[i] /\ h[i] \in Nat
        BY ONLY SMTT(30), <1>4, <1>5, <1>6, <1>8, <2>1, <2>4
      <3>. QED  BY ONLY <3>1, <3>2, b \in Nat
    <2>. QED  BY ONLY <2>1, <2>2, <2>3, <2>4
  <1>. QED  BY <1>6, <1>7, <1>8 DEF Ascending, h

(* Frames that go up in ascending order, from after the last, are in order.*)
LEMMA SendsInOrder ==
    ASSUME NEW frames, NEW lo \in Nat, NEW hi \in Nat, lo <= hi,
           Ascending(frames, lo, hi), last \in Nat, last < lo,
           inOrder \in BOOLEAN, SendUp(frames)
    PROVE  inOrder' = inOrder /\ last' \in Nat /\ last' < hi
  <1>1. frames \in Seq(Nat) /\ Len(frames) \in Nat /\ DOMAIN frames = 1 .. Len(frames)
    BY DEF Ascending
  <1>2. Held(frames) \in SUBSET (0 .. Len(frames))
    BY <1>1 DEF Held
  <1>3. \A i \in Held(frames) : frames[i] \in Nat
    BY <1>1 DEF Held
  <1>4. FollowOn(frames)
    BY <1>3 DEF FollowOn, Ascending
  <1>5. CASE Held(frames) = {}
    BY <1>4, <1>5 DEF SendUp
  <1>6. CASE Held(frames) # {}
    <2>1. Max(Held(frames)) \in Held(frames)
      BY <1>1, <1>2, <1>6, MaxIs
    <2>2. last' = frames[Max(Held(frames))] /\ inOrder' = (inOrder /\ FollowOn(frames))
      BY <1>6 DEF SendUp
    <2>. QED  BY <1>3, <1>4, <2>1, <2>2 DEF Ascending
  <1>. QED  BY <1>5, <1>6

(* Where nothing is released nothing goes up.                              *)
LEMMA SendsNothing ==
    ASSUME NEW frames, NEW lo \in Nat, Ascending(frames, lo, lo), last \in Nat,
           inOrder = TRUE, SendUp(frames)
    PROVE  inOrder' = TRUE /\ last' = last
  <1>1. frames \in Seq(Nat) /\ \A i \in Held(frames) : frames[i] \in Nat
    BY DEF Ascending, Held
  <1>2. Held(frames) = {}
    BY <1>1 DEF Ascending
  <1>. QED  BY <1>2 DEF SendUp, FollowOn

-----------------------------------------------------------------------------
(* The inductive invariant.                                                *)

EmptyWindow(w) == w.head = w.tail /\ \A s \in Slots : w.buf[s] = Empty

(* What is held lies in the window, at its place, and below e.             *)
Fits(w, e) == w \in Windows /\ Mirrors(w) /\ \A s \in Slots : w.buf[s] < e

(* seq_next stands for a real number, which the lowest one the peer may    *)
(* send, t, is never a window behind nor half the sequence space ahead of. *)
InStep(w, t) == /\ w.seq = w.real % SeqMax
                /\ w.real <= t + Win
                /\ t + Win - w.real <= SeqMax - 4 * Win + 1

RxInv ==
    /\ TypeOK
    /\ txStart >= 1
    /\ exch => desc
    /\ ~ exch => EmptyWindow(win) /\ timer.active = FALSE
    /\ reset => EmptyWindow(win) /\ last = 0
    /\ Fits(win, txStart + Win)
    /\ exch => InStep(win, txStart) /\ last < win.real
    /\ ActiveFlagHonest
    /\ inOrder = TRUE /\ tooNew = FALSE

(* Sequence numbers add and subtract as the real ones do.                  *)
LEMMA SeqMod ==
    /\ \A a, b \in Int : ((a % SeqMax) + b) % SeqMax = (a + b) % SeqMax
    /\ \A a, b \in Int : ((a % SeqMax) - (b % SeqMax)) % SeqMax = (a - b) % SeqMax
  <1>1. SeqMax \in Nat /\ SeqMax > 0
    BY Sizes
  <1>2. ASSUME NEW a \in Int, NEW b \in Int
        PROVE  /\ ((a % SeqMax) + b) % SeqMax = (a + b) % SeqMax
               /\ ((a % SeqMax) - (b % SeqMax)) % SeqMax = (a - b) % SeqMax
    BY ONLY <1>1, <1>2, ModAdd, ModSub
  <1>. QED  BY ONLY <1>2, Zenon

(* Moving a window on by k.                                                *)
LEMMA Moved ==
    ASSUME NEW w, NEW e \in Nat, e > 0, Fits(w, e), NEW k \in Nat
    PROVE  /\ Fits(Advance(w, k), e)
           /\ w.real \in Nat /\ Advance(w, k).real = w.real + k
           /\ w.seq = w.real % SeqMax =>
                 Advance(w, k).seq = Advance(w, k).real % SeqMax
           /\ k = Gap(w) => EmptyWindow(Advance(w, k))
           /\ Ascending(FramesIn(w, k), w.real, w.real + k)
           /\ Gap(w) \in Nat
  <1>1. w \in Windows /\ Mirrors(w) /\ \A s \in Slots : w.buf[s] < e
    BY DEF Fits
  <1>2. w.real \in Nat /\ Gap(w) \in Nat
    BY <1>1, SlotFacts DEF Windows
  <1>3. PICK v : v = Advance(w, k)
    OBVIOUS
  <1>4. /\ v \in Windows /\ Mirrors(v)
        /\ v.real = w.real + k /\ v.seq = (w.seq + k) % SeqMax
        /\ \A s \in Slots : v.buf[s] = IF Dist(w, s) < k THEN Empty ELSE w.buf[s]
        /\ k <= Gap(w) => Gap(v) = Gap(w) - k
    BY <1>1, <1>3, Advanced, Zenon
  <1>5. Fits(v, e)
    BY <1>1, <1>4 DEF Fits, Empty
  <1>6. ASSUME w.seq = w.real % SeqMax PROVE v.seq = v.real % SeqMax
    <2>1. ((w.real % SeqMax) + k) % SeqMax = (w.real + k) % SeqMax
      <3>1. w.real \in Int /\ k \in Int
        BY <1>2
      <3>. QED  BY ONLY <3>1, SeqMod, Zenon
    <2>2. (w.seq + k) % SeqMax = (w.real + k) % SeqMax
      BY ONLY <1>6, <2>1, Zenon
    <2>3. v.seq = (w.seq + k) % SeqMax /\ v.real = w.real + k
      BY <1>4, Zenon
    <2>. QED  BY ONLY <2>2, <2>3, Zenon
  <1>7. ASSUME k = Gap(w) PROVE EmptyWindow(v)
    <2>1. Gap(v) = 0
      BY <1>2, <1>4, <1>7
    <2>2. v.head = v.tail
      BY <1>4, <2>1, SlotFacts
    <2>3. \A s \in Slots : Dist(v, s) \in 0 .. Bufs - 1
      BY <1>4, SlotFacts
    <2>4. \A s \in Slots : v.buf[s] = Empty
      BY <1>4, <2>1, <2>3, Sizes DEF Mirrors
    <2>. QED  BY <2>2, <2>4 DEF EmptyWindow
  <1>8. Ascending(FramesIn(w, k), w.real, w.real + k)
    BY <1>1, FramesAscend
  <1>. QED  BY <1>2, <1>3, <1>4, <1>5, <1>6, <1>7, <1>8, Zenon

(* An empty window mirrors anything.                                       *)
LEMMA NothingHeld ==
    ASSUME NEW w \in Windows, EmptyWindow(w)
    PROVE  Gap(w) = 0 /\ Mirrors(w)
  BY SlotFacts DEF EmptyWindow, Mirrors

(* A release that ends at a frame does not overtake the peer's window.     *)
LEMMA EndsAtFrame ==
    ASSUME NEW w, NEW e \in Nat, Fits(w, e), NEW k \in 0 .. Gap(w),
           k # 0 => At(w, k - 1) # Empty
    PROVE  k = 0 \/ w.real + k <= e
  <1>1. w \in Windows /\ Mirrors(w) /\ w.real \in Nat /\ \A s \in Slots : w.buf[s] < e
    BY DEF Fits, Windows
  <1>2. CASE k # 0
    <2>1. k - 1 \in 0 .. Bufs - 1 /\ k \in Nat
      BY <1>1, <1>2, SlotFacts, Sizes
    <2>2. SlotAt(w, k - 1) \in Slots
      BY <1>1, <2>1, SlotFacts, Sizes
    <2>3. At(w, k - 1) < e
      BY <1>1, <2>2 DEF At
    <2>4. At(w, k - 1) = w.real + (k - 1)
      BY <1>1, <1>2, <2>1, AtPosition
    <2>. QED  BY <1>1, <2>1, <2>3, <2>4
  <1>. QED  BY <1>2

(* DRV_BA_INDEX of a frame the peer may send is its distance from seq_next,*)
(* and it is taken for old if, and only if, the window has passed it.      *)
LEMMA IndexIs ==
    ASSUME NEW w \in Windows, NEW t \in Nat, InStep(w, t), NEW n \in Nat,
           t <= n, n < t + Win
    PROVE  /\ n >= w.real => /\ BAIndex(w, n % SeqMax) = n - w.real
                             /\ ~ TooOld(BAIndex(w, n % SeqMax))
           /\ n < w.real => /\ BAIndex(w, n % SeqMax) > Win
                            /\ TooOld(BAIndex(w, n % SeqMax))
  <1>1. w.real \in Nat
    BY DEF Windows
  <1>2. BAIndex(w, n % SeqMax) = (n - w.real) % SeqMax
    <2>1. ((n % SeqMax) - (w.real % SeqMax)) % SeqMax = (n - w.real) % SeqMax
      <3>1. w.real \in Int /\ n \in Int
        BY <1>1
      <3>. QED  BY ONLY <3>1, SeqMod, Zenon
    <2>2. w.seq = w.real % SeqMax
      BY Zenon DEF InStep
    <2>3. BAIndex(w, n % SeqMax) = ((n % SeqMax) - w.seq) % SeqMax
      BY Zenon DEF BAIndex
    <2>. QED  BY ONLY <2>1, <2>2, <2>3, Zenon
  <1>3. PICK d \in Int : /\ d = n - w.real
                         /\ d >= - Win /\ d <= SeqMax - 4 * Win
    BY <1>1, Sizes DEF InStep
  <1>4. /\ d >= 0 => d % SeqMax = d
        /\ d < 0 => d % SeqMax = d + SeqMax
    BY <1>3, ModSmall, Sizes
  <1>5. CASE n >= w.real
    <2>1. d >= 0
      BY <1>1, <1>3, <1>5
    <2>2. BAIndex(w, n % SeqMax) = d
      BY ONLY <1>2, <1>3, <1>4, <2>1, Zenon
    <2>. QED  BY <1>1, <1>3, <1>5, <2>2, Sizes DEF TooOld
  <1>6. CASE n < w.real
    <2>1. d < 0
      BY <1>1, <1>3, <1>6
    <2>2. BAIndex(w, n % SeqMax) = d + SeqMax
      BY ONLY <1>2, <1>3, <1>4, <2>1, Zenon
    <2>. QED  BY <1>1, <1>3, <1>6, <2>2, Sizes DEF TooOld
  <1>. QED  BY <1>1, <1>5, <1>6

(* The window as the first frame sets it.                                  *)
LEMMA FirstFits ==
    ASSUME RxInv, exch, NEW n \in Nat, txStart <= n, n < txStart + Win
    PROVE  /\ Fits(FirstSets(n), txStart + Win)
           /\ InStep(FirstSets(n), txStart)
           /\ last < FirstSets(n).real /\ FirstSets(n).real \in Nat
  <1>1. /\ txStart \in Nat /\ win \in Windows /\ txStart >= 1
        /\ last \in Nat /\ Fits(win, txStart + Win)
        /\ InStep(win, txStart) /\ last < win.real
    BY DEF RxInv, TypeOK, Windows
  <1>2. CASE reset
    <2>1. PICK q \in 0 .. SeqMax - 1 : q = n % SeqMax
      BY ModRange, Sizes
    <2>2. PICK v : v = [win EXCEPT !.seq = q, !.real = n]
      OBVIOUS
    <2>3. FirstSets(n) = v
      BY <1>2, <2>1, <2>2, Zenon DEF FirstSets
    <2>4. /\ v \in Windows /\ v.seq = q /\ v.real = n
          /\ v.head = win.head /\ v.tail = win.tail /\ v.buf = win.buf
      BY ONLY <1>1, <2>2, n \in Nat DEF Windows
    <2>5. EmptyWindow(win) /\ last = 0
      BY <1>2 DEF RxInv
    <2>6. Fits(v, txStart + Win)
      <3>1. EmptyWindow(v)
        BY <2>4, <2>5 DEF EmptyWindow
      <3>2. Mirrors(v)
        BY <2>4, <3>1, NothingHeld
      <3>. QED  BY <1>1, <2>4, <3>1, <3>2, Sizes DEF Fits, EmptyWindow, Empty
    <2>7. InStep(v, txStart)
      <3>1. v.seq = v.real % SeqMax
        BY <2>1, <2>4, Zenon
      <3>. QED  BY <1>1, <2>4, <3>1, Sizes DEF InStep
    <2>8. last < v.real /\ v.real \in Nat
      BY <1>1, <2>4, <2>5
    <2>. QED  BY <2>3, <2>6, <2>7, <2>8, Zenon
  <1>3. CASE ~ reset
    <2>1. FirstSets(n) = win
      BY <1>3 DEF FirstSets
    <2>2. win.real \in Nat
      BY <1>1 DEF Windows
    <2>. QED  BY <1>1, <2>1, <2>2
  <1>. QED  BY <1>2, <1>3

-----------------------------------------------------------------------------
(* The parts of the invariant that the steps use.                          *)
LEMMA InvFacts ==
    ASSUME RxInv
    PROVE  /\ txStart \in Nat /\ txStart >= 1 /\ txStart + Win \in Nat /\ txStart + Win > 0
           /\ Fits(win, txStart + Win) /\ win \in Windows /\ win.real \in Nat
           /\ last \in Nat /\ inOrder = TRUE /\ tooNew = FALSE
           /\ exch \in BOOLEAN /\ desc \in BOOLEAN /\ reset \in BOOLEAN
           /\ timer \in [armed : BOOLEAN, active : BOOLEAN, cancel : BOOLEAN]
           /\ handler \in BOOLEAN /\ work \in 0 .. MaxWork
           /\ exch => desc
           /\ ~ exch => EmptyWindow(win) /\ timer.active = FALSE
           /\ reset => EmptyWindow(win) /\ last = 0
           /\ exch => InStep(win, txStart) /\ last < win.real
  BY Sizes DEF RxInv, TypeOK, Windows

(* A step that leaves the window as v keeps the invariant if v fits.       *)
LEMMA Keeps ==
    ASSUME RxInv, NEW v, SetWindow(v), Fits(v, txStart + Win), txStart' = txStart,
           exch' \in BOOLEAN, desc' \in BOOLEAN, reset' \in BOOLEAN,
           timer' \in [armed : BOOLEAN, active : BOOLEAN, cancel : BOOLEAN],
           handler' \in BOOLEAN, work' \in 0 .. MaxWork, last' \in Nat,
           inOrder' = TRUE, tooNew' = FALSE,
           exch' => desc',
           ~ exch' => EmptyWindow(v) /\ timer'.active = FALSE,
           reset' => EmptyWindow(v) /\ last' = 0,
           exch' => InStep(v, txStart) /\ last' < v.real,
           exch' /\ timer'.active => (timer'.armed /\ ~ timer'.cancel) \/ handler'
    PROVE  RxInv'
  <1>1. win' = v /\ aged' \subseteq Slots
    BY DEF SetWindow, RxInv, TypeOK
  <1>2. /\ v \in Windows
        /\ Fits(win, txStart + Win)'
        /\ (~ exch => EmptyWindow(win) /\ timer.active = FALSE)'
        /\ (reset => EmptyWindow(win) /\ last = 0)'
        /\ (exch => InStep(win, txStart) /\ last < win.real)'
    BY <1>1 DEF Fits, Mirrors, Dist, Gap, EmptyWindow, InStep
  <1>3. TypeOK'
    BY <1>1, <1>2, InvFacts DEF TypeOK, Windows
  <1>4. ActiveFlagHonest'
    BY DEF ActiveFlagHonest
  <1>. QED  BY <1>2, <1>3, <1>4, InvFacts DEF RxInv

(* The agreement's timer is out of the way once it has been cancelled.     *)
LEMMA CancelIs ==
    ASSUME RxInv
    PROVE  /\ Cancelled \in [armed : BOOLEAN, active : BOOLEAN, cancel : BOOLEAN]
           /\ Cancelled.active = FALSE
           /\ Started \in [armed : BOOLEAN, active : BOOLEAN, cancel : BOOLEAN]
           /\ Started.armed /\ ~ Started.cancel
  BY InvFacts DEF Cancelled, Started

(* The invariant holds at first.                                           *)
LEMMA Initially == Init => RxInv
  <1>. SUFFICES ASSUME Init PROVE RxInv
    OBVIOUS
  <1>1. win \in Windows /\ EmptyWindow(win)
    BY Sizes DEF Init, Windows, Slots, Empty, EmptyWindow
  <1>2. Fits(win, txStart + Win)
    BY <1>1, NothingHeld, BoundAssumption, Sizes DEF Fits, EmptyWindow, Empty, Init
  <1>3. TypeOK
    <2>1. win \in [head : Slots, tail : Slots, seq : 0 .. SeqMax - 1, real : Nat,
                   buf : [Slots -> Nat]]
      BY <1>1 DEF Windows
    <2>2. /\ exch = FALSE /\ desc = FALSE /\ reset = TRUE /\ aged = {}
          /\ timer = [armed |-> FALSE, active |-> FALSE, cancel |-> FALSE]
          /\ handler = FALSE /\ work = 0 /\ txStart = FirstReal
          /\ last = 0 /\ inOrder = TRUE /\ tooNew = FALSE
      BY DEF Init
    <2>3. /\ timer \in [armed : BOOLEAN, active : BOOLEAN, cancel : BOOLEAN]
          /\ aged \subseteq Slots /\ work \in 0 .. MaxWork
          /\ txStart \in Nat /\ last \in Nat
      BY <2>2, BoundAssumption
    <2>. QED  BY <2>1, <2>2, <2>3, Zenon DEF TypeOK
  <1>. QED  BY <1>1, <1>2, <1>3, BoundAssumption DEF Init, RxInv, ActiveFlagHonest

(* A new agreement starts empty at the number the peer names.              *)
LEMMA AddbaReqStep ==
    ASSUME RxInv, AddbaReq
    PROVE  RxInv'
  <1>1. PICK w : w = IF exch /\ desc THEN Flushed ELSE win
    OBVIOUS
  <1>2. w \in Windows /\ EmptyWindow(w)
    <2>1. Fits(Flushed, txStart + Win) /\ EmptyWindow(Flushed)
      BY InvFacts, Moved DEF Flushed
    <2>. QED  BY <1>1, <2>1, InvFacts DEF Fits
  <1>3. PICK q \in 0 .. SeqMax - 1 : q = txStart % SeqMax
    BY InvFacts, ModRange, Sizes
  <1>4. PICK v : v = [w EXCEPT !.seq = q, !.real = txStart]
    OBVIOUS
  <1>5. SetWindow(v)
    BY <1>1, <1>3, <1>4, Zenon DEF AddbaReq
  <1>6. /\ v \in Windows /\ v.seq = q /\ v.real = txStart
        /\ v.head = w.head /\ v.tail = w.tail /\ v.buf = w.buf
    <2>1. txStart \in Nat
      BY InvFacts
    <2>. QED  BY ONLY <1>2, <1>4, <2>1 DEF Windows
  <1>7. EmptyWindow(v)
    BY <1>2, <1>6 DEF EmptyWindow
  <1>8. Fits(v, txStart + Win)
    BY <1>6, <1>7, NothingHeld, InvFacts DEF Fits, EmptyWindow, Empty
  <1>9. InStep(v, txStart)
    <2>1. v.seq = v.real % SeqMax
      BY <1>3, <1>6, Zenon
    <2>. QED  BY <1>6, <2>1, InvFacts, Sizes DEF InStep
  <1>10. inOrder' = TRUE
    <2>1. CASE exch
      <3>1. PICK k \in Nat : k = Gap(win)
        BY InvFacts, Moved
      <3>2. Ascending(FramesIn(win, k), win.real, win.real + k)
        BY InvFacts, Moved
      <3>3. FollowOn(FramesIn(win, Gap(win)))
        <4>1. \A i \in Held(FramesIn(win, k)) : FramesIn(win, k)[i] \in Nat
          BY <3>2 DEF Ascending, Held
        <4>. QED  BY <2>1, <3>1, <3>2, <4>1, InvFacts, SMTT(30) DEF FollowOn, Ascending
      <3>. QED  BY <3>3, InvFacts DEF AddbaReq
    <2>2. CASE ~ exch
      BY <2>2, InvFacts DEF AddbaReq
    <2>. QED  BY <2>1, <2>2
  <1>11. /\ exch' \in BOOLEAN /\ desc' = exch'
         /\ exch => exch'
         /\ last' = 0 /\ UNCHANGED <<reset, handler, work, txStart, tooNew>>
    <2>1. PICK allocated \in (IF desc THEN {TRUE} ELSE BOOLEAN) :
            desc' = allocated /\ exch' = allocated
      BY Zenon DEF AddbaReq
    <2>2. last' = 0 /\ UNCHANGED <<reset, handler, work, txStart, tooNew>>
      BY Zenon DEF AddbaReq
    <2>. QED  BY <2>1, <2>2, InvFacts
  <1>12. /\ timer' \in [armed : BOOLEAN, active : BOOLEAN, cancel : BOOLEAN]
         /\ timer'.active = FALSE
    <2>1. timer' = IF exch THEN Cancelled ELSE timer
      BY Zenon DEF AddbaReq
    <2>2. CASE exch
      BY <2>1, <2>2, CancelIs
    <2>3. CASE ~ exch
      BY <2>1, <2>3, InvFacts
    <2>. QED  BY <2>2, <2>3
  <1>13. /\ txStart' = txStart /\ last' \in Nat /\ last' = 0 /\ last' < v.real
         /\ desc' \in BOOLEAN /\ (exch' => desc')
         /\ reset' \in BOOLEAN /\ handler' \in BOOLEAN /\ work' \in 0 .. MaxWork
         /\ tooNew' = FALSE
    BY <1>6, <1>11, InvFacts
  <1>. QED
    BY <1>5, <1>7, <1>8, <1>9, <1>10, <1>11, <1>12, <1>13, Keeps

(* A frame behind the window is dropped, and only such a frame.            *)
LEMMA RxOldStep ==
    ASSUME RxInv, NEW n \in Nat, txStart <= n, n < txStart + Win, RxOld(n)
    PROVE  RxInv'
  <1>1. PICK w : w = FirstSets(n)
    OBVIOUS
  <1>2. /\ exch /\ TooOld(BAIndex(w, n % SeqMax)) /\ SetWindow(w)
        /\ tooNew' = (tooNew \/ n >= w.real)
        /\ reset' = FALSE
        /\ UNCHANGED <<exch, desc, timer, handler, work, txStart, last, inOrder>>
    BY <1>1, Zenon DEF RxOld, timerVars
  <1>3. /\ Fits(w, txStart + Win) /\ InStep(w, txStart)
        /\ last < w.real /\ w.real \in Nat
    BY <1>1, <1>2, FirstFits
  <1>4. ~ (n >= w.real)
    <2>1. w \in Windows
      BY <1>3 DEF Fits
    <2>. QED  BY <1>2, <1>3, <2>1, IndexIs, InvFacts
  <1>5. tooNew' = FALSE
    BY <1>2, <1>4, InvFacts
  <1>6. exch /\ timer.active => (timer.armed /\ ~ timer.cancel) \/ handler
    BY DEF RxInv, ActiveFlagHonest
  <1>. QED  BY <1>2, <1>3, <1>5, <1>6, InvFacts, Keeps

(* Pushing the window so that frame n lies in it never overtakes the peer. *)
LEMMA Pushed ==
    ASSUME RxInv, NEW w, Fits(w, txStart + Win), InStep(w, txStart), last < w.real,
           NEW n \in Nat, n < txStart + Win, w.real <= n,
           NEW k, k = Push(n - w.real)
    PROVE  /\ k \in Nat /\ n - w.real - k \in 0 .. Win - 1
           /\ Fits(Advance(w, k), txStart + Win)
           /\ InStep(Advance(w, k), txStart)
           /\ Advance(w, k).real = w.real + k
           /\ Ascending(FramesIn(w, k), w.real, w.real + k)
           /\ w.real \in Nat
  <1>1. w.real \in Nat /\ txStart \in Nat /\ txStart + Win \in Nat /\ txStart + Win > 0
    BY InvFacts DEF Fits, Windows
  <1>2. /\ k \in Nat /\ n - w.real - k \in 0 .. Win - 1
        /\ k = 0 \/ w.real + k <= txStart
    BY <1>1, Sizes DEF Push
  <1>3. /\ w.seq = w.real % SeqMax /\ w.real <= txStart + Win
        /\ txStart + Win - w.real <= SeqMax - 4 * Win + 1
    BY Zenon DEF InStep
  <1>4. /\ Fits(Advance(w, k), txStart + Win)
        /\ Advance(w, k).real = w.real + k
        /\ Advance(w, k).seq = Advance(w, k).real % SeqMax
        /\ Ascending(FramesIn(w, k), w.real, w.real + k)
    BY <1>1, <1>2, <1>3, Moved
  <1>5. PICK v : v = Advance(w, k)
    OBVIOUS
  <1>6. v.real <= txStart + Win /\ txStart + Win - v.real <= SeqMax - 4 * Win + 1
    BY <1>1, <1>2, <1>3, <1>4, <1>5, Sizes
  <1>7. InStep(v, txStart)
    BY <1>4, <1>5, <1>6, Zenon DEF InStep
  <1>. QED  BY <1>1, <1>2, <1>4, <1>5, <1>7, Zenon

(* A release that ends at a frame keeps the window in step.                *)
LEMMA Released ==
    ASSUME RxInv, NEW w, Fits(w, txStart + Win), NEW k \in 0 .. Gap(w),
           k # 0 => At(w, k - 1) # Empty
    PROVE  /\ k \in Nat /\ Fits(Advance(w, k), txStart + Win)
           /\ Advance(w, k).real = w.real + k
           /\ Ascending(FramesIn(w, k), w.real, w.real + k)
           /\ w.real \in Nat
           /\ InStep(w, txStart) => InStep(Advance(w, k), txStart)
           /\ EmptyWindow(w) => k = 0 /\ EmptyWindow(Advance(w, k))
  <1>1. /\ w \in Windows /\ w.real \in Nat
        /\ txStart \in Nat /\ txStart + Win \in Nat /\ txStart + Win > 0
    BY InvFacts DEF Fits, Windows
  <1>2. k \in Nat
    BY <1>1, SlotFacts
  <1>3. /\ Fits(Advance(w, k), txStart + Win)
        /\ Advance(w, k).real = w.real + k
        /\ w.seq = w.real % SeqMax =>
              Advance(w, k).seq = Advance(w, k).real % SeqMax
        /\ k = Gap(w) => EmptyWindow(Advance(w, k))
        /\ Ascending(FramesIn(w, k), w.real, w.real + k)
    BY <1>1, <1>2, Moved
  <1>4. ASSUME InStep(w, txStart) PROVE InStep(Advance(w, k), txStart)
    <2>1. /\ w.seq = w.real % SeqMax /\ w.real <= txStart + Win
          /\ txStart + Win - w.real <= SeqMax - 4 * Win + 1
      BY <1>4, Zenon DEF InStep
    <2>2. k = 0 \/ w.real + k <= txStart + Win
      BY <1>1, EndsAtFrame
    <2>3. PICK v : v = Advance(w, k)
      OBVIOUS
    <2>4. v.real <= txStart + Win /\ txStart + Win - v.real <= SeqMax - 4 * Win + 1
      BY <1>1, <1>2, <1>3, <2>1, <2>2, <2>3, Sizes
    <2>5. v.seq = v.real % SeqMax
      BY <1>3, <2>1, <2>3, Zenon
    <2>6. InStep(v, txStart)
      BY <2>4, <2>5, Zenon DEF InStep
    <2>. QED  BY <2>3, <2>6, Zenon
  <1>5. ASSUME EmptyWindow(w) PROVE k = 0 /\ EmptyWindow(Advance(w, k))
    BY <1>1, <1>2, <1>3, <1>5, NothingHeld
  <1>. QED  BY <1>1, <1>2, <1>3, <1>4, <1>5, Zenon

(* The run without a hole ends at a frame.                                 *)
LEMMA FilledEnds ==
    ASSUME NEW w \in Windows
    PROVE  Filled(w) \in 0 .. Gap(w) /\ (Filled(w) # 0 => At(w, Filled(w) - 1) # Empty)
  BY FilledIs, SlotFacts

(* A second copy of a frame only moves the window.                         *)
LEMMA RxDuplicateStep ==
    ASSUME RxInv, NEW n \in Nat, txStart <= n, n < txStart + Win, RxDuplicate(n)
    PROVE  RxInv'
  <1>1. PICK w : w = FirstSets(n)
    OBVIOUS
  <1>2. PICK index : index = BAIndex(w, n % SeqMax)
    OBVIOUS
  <1>3. PICK k : k = Push(index)
    OBVIOUS
  <1>4. /\ exch /\ ~ TooOld(index) /\ SetWindow(Advance(w, k))
        /\ SendUp(FramesIn(w, k))
        /\ reset' = FALSE
        /\ UNCHANGED <<exch, desc, timer, handler, work, txStart, tooNew>>
    BY <1>1, <1>2, <1>3, Zenon DEF RxDuplicate, timerVars
  <1>5. /\ Fits(w, txStart + Win) /\ InStep(w, txStart)
        /\ last < w.real /\ w.real \in Nat
    BY <1>1, <1>4, FirstFits
  <1>6. index = n - w.real /\ n >= w.real
    <2>1. w \in Windows
      BY <1>5 DEF Fits
    <2>. QED  BY <1>2, <1>4, <1>5, <2>1, IndexIs, InvFacts
  <1>7. /\ k \in Nat /\ Fits(Advance(w, k), txStart + Win)
        /\ InStep(Advance(w, k), txStart)
        /\ Advance(w, k).real = w.real + k
        /\ Ascending(FramesIn(w, k), w.real, w.real + k)
    BY <1>3, <1>5, <1>6, Pushed
  <1>8. inOrder' = TRUE /\ last' \in Nat /\ last' < w.real + k
    <2>1. w.real + k \in Nat /\ w.real <= w.real + k /\ last \in Nat /\ inOrder = TRUE
      BY <1>5, <1>7, InvFacts
    <2>. QED  BY <1>4, <1>5, <1>7, <2>1, SendsInOrder
  <1>9. exch /\ timer.active => (timer.armed /\ ~ timer.cancel) \/ handler
    BY DEF RxInv, ActiveFlagHonest
  <1>. QED  BY <1>4, <1>7, <1>8, <1>9, InvFacts, Keeps

(* A new frame is put in its place, and what is then complete goes up.     *)
LEMMA RxStoreStep ==
    ASSUME RxInv, NEW n \in Nat, txStart <= n, n < txStart + Win, RxStore(n)
    PROVE  RxInv'
  <1>1. PICK w : w = FirstSets(n)
    OBVIOUS
  <1>2. PICK index : index = BAIndex(w, n % SeqMax)
    OBVIOUS
  <1>3. PICK k, i : k = Push(index) /\ i = index - k
    BY Zenon
  <1>4. PICK moved : moved = Advance(w, k)
    OBVIOUS
  <1>5. PICK stored : stored = Store(moved, i, n)
    OBVIOUS
  <1>6. PICK m : m = Filled(stored)
    OBVIOUS
  <1>7. PICK after : after = Advance(stored, m)
    OBVIOUS
  <1>8. /\ exch /\ ~ TooOld(index) /\ SetWindow(after)
        /\ SendUp(FramesIn(w, k) \o FramesIn(stored, m))
        /\ \/ timer' = IF timer.active THEN timer ELSE Started
           \/ timer' = Cancelled
        /\ reset' = FALSE
        /\ UNCHANGED <<exch, desc, handler, work, txStart, tooNew>>
    BY <1>1, <1>2, <1>3, <1>4, <1>5, <1>6, <1>7, Zenon DEF RxStore
  <1>9. /\ Fits(w, txStart + Win) /\ InStep(w, txStart)
        /\ last < w.real /\ w.real \in Nat
    BY <1>1, <1>8, FirstFits
  <1>10. index = n - w.real /\ n >= w.real
    <2>1. w \in Windows
      BY <1>9 DEF Fits
    <2>. QED  BY <1>2, <1>8, <1>9, <2>1, IndexIs, InvFacts
  <1>11. /\ k \in Nat /\ i \in 0 .. Win - 1
         /\ Fits(moved, txStart + Win) /\ InStep(moved, txStart)
         /\ moved.real = w.real + k
         /\ Ascending(FramesIn(w, k), w.real, w.real + k)
    BY <1>3, <1>4, <1>9, <1>10, Pushed
  <1>12. n = moved.real + i
    BY <1>3, <1>9, <1>10, <1>11
  <1>13. /\ stored \in Windows /\ Mirrors(stored)
         /\ stored.seq = moved.seq /\ stored.real = moved.real
         /\ \A s \in Slots : stored.buf[s] \in {moved.buf[s], n}
    <2>1. moved \in Windows /\ Mirrors(moved)
      BY <1>11 DEF Fits
    <2>. QED  BY <1>5, <1>11, <1>12, <2>1, Stored
  <1>14. Fits(stored, txStart + Win) /\ InStep(stored, txStart)
    BY <1>11, <1>13 DEF Fits, InStep
  <1>15. /\ m \in Nat /\ Fits(after, txStart + Win) /\ InStep(after, txStart)
         /\ after.real = stored.real + m
         /\ Ascending(FramesIn(stored, m), stored.real, stored.real + m)
    <2>1. m \in 0 .. Gap(stored) /\ (m # 0 => At(stored, m - 1) # Empty)
      BY <1>6, <1>13, FilledEnds
    <2>. QED  BY <1>7, <1>14, <2>1, Released
  <1>16. inOrder' = TRUE /\ last' \in Nat /\ last' < after.real
    <2>1. PICK a \in Nat, b \in Nat, c \in Nat :
            /\ a <= b /\ b <= c /\ a <= c
            /\ a = w.real /\ b = w.real + k /\ c = after.real
            /\ b = stored.real
      BY <1>9, <1>11, <1>13, <1>15
    <2>2. Ascending(FramesIn(w, k), a, b) /\ Ascending(FramesIn(stored, m), b, c)
      BY <1>11, <1>15, <2>1
    <2>3. Ascending(FramesIn(w, k) \o FramesIn(stored, m), a, c)
      BY <2>1, <2>2, AscendingJoin
    <2>4. last \in Nat /\ last < a /\ inOrder = TRUE
      BY <1>9, <2>1, InvFacts
    <2>. QED  BY <1>8, <2>1, <2>3, <2>4, SendsInOrder
  <1>17. /\ timer' \in [armed : BOOLEAN, active : BOOLEAN, cancel : BOOLEAN]
         /\ exch' /\ timer'.active => (timer'.armed /\ ~ timer'.cancel) \/ handler'
    <2>1. exch /\ timer.active => (timer.armed /\ ~ timer.cancel) \/ handler
      BY DEF RxInv, ActiveFlagHonest
    <2>. QED  BY <1>8, <2>1, InvFacts, CancelIs
  <1>18. /\ desc' \in BOOLEAN /\ (exch' => desc') /\ exch' \in BOOLEAN /\ exch'
         /\ reset' \in BOOLEAN /\ handler' \in BOOLEAN /\ work' \in 0 .. MaxWork
         /\ tooNew' = FALSE /\ txStart' = txStart
    BY <1>8, InvFacts
  <1>. QED  BY <1>8, <1>15, <1>16, <1>17, <1>18, Keeps

(* A BlockAckReq releases what lies before its number and what is complete *)
(* after it.                                                               *)
LEMMA BarStep ==
    ASSUME RxInv, Bar
    PROVE  RxInv'
  <1>1. PICK index : index = BAIndex(win, txStart % SeqMax)
    OBVIOUS
  <1>2. PICK k : k = Min({Gap(win), index % Bufs})
    OBVIOUS
  <1>3. PICK moved : moved = Advance(win, k)
    OBVIOUS
  <1>4. PICK m : m = Filled(moved)
    OBVIOUS
  <1>5. PICK after : after = Advance(moved, m)
    OBVIOUS
  <1>6. /\ ~ (index > Win /\ TooOld(index)) /\ SetWindow(after)
        /\ SendUp(FramesIn(win, k) \o FramesIn(moved, m))
        /\ UNCHANGED <<exch, desc, reset, timer, handler, work, txStart, tooNew>>
    BY <1>1, <1>2, <1>3, <1>4, <1>5, Zenon DEF Bar, timerVars
  <1>7. /\ Gap(win) \in Nat /\ win \in Windows /\ win.real \in Nat
        /\ Fits(win, txStart + Win) /\ txStart \in Nat
        /\ txStart + Win \in Nat /\ txStart + Win > 0
    BY InvFacts, SlotFacts
  <1>8. index \in Nat
    <2>1. (txStart % SeqMax) \in Nat /\ win.seq \in Nat
      BY <1>7, ModRange, Sizes DEF Windows
    <2>2. PICK d \in Int : d = (txStart % SeqMax) - win.seq
      BY <2>1
    <2>3. d % SeqMax \in 0 .. SeqMax - 1
      BY ModRange, Sizes
    <2>. QED  BY <1>1, <2>2, <2>3, Sizes DEF BAIndex
  <1>9. k \in Nat /\ k <= Gap(win) /\ k <= index
    <2>1. index % Bufs \in Nat /\ index % Bufs <= index
      <3>1. \A a \in Nat, b \in Nat : b > 0 => a % b \in Nat /\ a % b <= a
        OBVIOUS
      <3>. QED  BY ONLY <1>8, <3>1, Sizes
    <2>2. {Gap(win), index % Bufs} \in SUBSET Nat /\ {Gap(win), index % Bufs} # {}
      BY <1>7, <2>1
    <2>3. k \in {Gap(win), index % Bufs} /\ k <= Gap(win) /\ k <= index % Bufs
      BY <1>2, <2>2, MinIs
    <2>. QED  BY <1>7, <1>8, <2>1, <2>3
  <1>10. /\ Fits(moved, txStart + Win) /\ moved.real = win.real + k
         /\ win.seq = win.real % SeqMax => moved.seq = moved.real % SeqMax
         /\ k = Gap(win) => EmptyWindow(moved)
         /\ Ascending(FramesIn(win, k), win.real, win.real + k)
    BY <1>3, <1>7, <1>9, Moved
  <1>11. exch => InStep(moved, txStart)
    <2>. SUFFICES ASSUME exch PROVE InStep(moved, txStart)
      OBVIOUS
    <2>1. InStep(win, txStart)
      BY InvFacts
    <2>2. txStart < txStart + Win
      BY <1>7, Sizes
    <2>3. index = txStart - win.real /\ txStart >= win.real
      BY <1>1, <1>6, <1>7, <2>1, <2>2, IndexIs
    <2>4. moved.real <= txStart
      BY <1>7, <1>9, <1>10, <2>3
    <2>5. win.seq = win.real % SeqMax /\ txStart + Win - win.real <= SeqMax - 4 * Win + 1
      BY <2>1, Zenon DEF InStep
    <2>6. moved.real <= txStart + Win /\ txStart + Win - moved.real <= SeqMax - 4 * Win + 1
      BY <1>7, <1>9, <1>10, <2>4, <2>5, Sizes
    <2>. QED  BY <1>10, <2>5, <2>6, Zenon DEF InStep
  <1>12. EmptyWindow(win) => k = 0 /\ EmptyWindow(moved)
    BY <1>7, <1>9, <1>10, NothingHeld
  <1>13. /\ m \in Nat /\ Fits(after, txStart + Win)
         /\ exch => InStep(after, txStart)
         /\ after.real = moved.real + m /\ moved.real \in Nat
         /\ Ascending(FramesIn(moved, m), moved.real, moved.real + m)
         /\ EmptyWindow(moved) => m = 0 /\ EmptyWindow(after)
    <2>1. m \in 0 .. Gap(moved) /\ (m # 0 => At(moved, m - 1) # Empty)
      BY <1>4, <1>10, FilledEnds DEF Fits
    <2>. QED  BY <1>5, <1>10, <1>11, <2>1, Released
  <1>14. PICK a \in Nat, c \in Nat :
           /\ a = win.real /\ c = after.real /\ a <= c
           /\ EmptyWindow(win) => a = c
           /\ Ascending(FramesIn(win, k) \o FramesIn(moved, m), a, c)
    <2>1. PICK a \in Nat, b \in Nat, c \in Nat :
            /\ a <= b /\ b <= c /\ a = win.real /\ b = moved.real /\ c = after.real
            /\ EmptyWindow(win) => a = c
      BY <1>7, <1>9, <1>10, <1>12, <1>13
    <2>2. Ascending(FramesIn(win, k), a, b) /\ Ascending(FramesIn(moved, m), b, c)
      BY <1>10, <1>13, <2>1
    <2>3. Ascending(FramesIn(win, k) \o FramesIn(moved, m), a, c)
      BY <2>1, <2>2, AscendingJoin
    <2>. QED  BY <2>1, <2>3
  <1>15. /\ inOrder' = TRUE /\ last' \in Nat
         /\ exch => last' < after.real
         /\ reset => last' = 0
    <2>1. CASE EmptyWindow(win)
      <3>1. last' = last /\ inOrder' = TRUE
        BY <1>6, <1>14, <2>1, InvFacts, SendsNothing
      <3>. QED  BY <1>14, <2>1, <3>1, InvFacts
    <2>2. CASE ~ EmptyWindow(win)
      <3>1. exch /\ ~ reset /\ last < a /\ last \in Nat /\ inOrder = TRUE
        BY <1>14, <2>2, InvFacts
      <3>. QED  BY <1>6, <1>14, <3>1, SendsInOrder
    <2>. QED  BY <2>1, <2>2
  <1>16. exch /\ timer.active => (timer.armed /\ ~ timer.cancel) \/ handler
    BY DEF RxInv, ActiveFlagHonest
  <1>17. /\ ~ exch => EmptyWindow(after) /\ timer.active = FALSE
         /\ reset => EmptyWindow(after)
    BY <1>12, <1>13, InvFacts
  <1>18. /\ desc' \in BOOLEAN /\ (exch' => desc') /\ exch' \in BOOLEAN
         /\ reset' \in BOOLEAN /\ handler' \in BOOLEAN /\ work' \in 0 .. MaxWork
         /\ timer' \in [armed : BOOLEAN, active : BOOLEAN, cancel : BOOLEAN]
         /\ tooNew' = FALSE /\ txStart' = txStart
    BY <1>6, InvFacts
  <1>. QED  BY <1>6, <1>13, <1>15, <1>16, <1>17, <1>18, Keeps

(* The work item releases what has waited, whether or not the agreement    *)
(* that armed the timer is still there.                                    *)
LEMMA SortTimerStep ==
    ASSUME RxInv, SortTimer
    PROVE  RxInv'
  <1>1. PICK k : k = Expired(win)
    OBVIOUS
  <1>2. PICK w : w = Advance(win, k)
    OBVIOUS
  <1>3. /\ work > 0 /\ work' = work - 1
        /\ SetWindow(w) /\ SendUp(FramesIn(win, k))
        /\ timer' = IF w.head # w.tail THEN Started ELSE timer
        /\ UNCHANGED <<exch, desc, reset, handler, txStart, tooNew>>
    BY <1>1, <1>2, Zenon DEF SortTimer
  <1>4. /\ k \in Nat /\ Fits(w, txStart + Win)
        /\ w.real = win.real + k /\ win.real \in Nat
        /\ Ascending(FramesIn(win, k), win.real, win.real + k)
        /\ exch => InStep(w, txStart)
        /\ EmptyWindow(win) => k = 0 /\ EmptyWindow(w)
    <2>1. k \in 0 .. Gap(win) /\ (k # 0 => At(win, k - 1) # Empty)
      BY <1>1, ExpiredIs, InvFacts
    <2>. QED  BY <1>2, <2>1, Released, InvFacts
  <1>5. PICK a \in Nat, c \in Nat :
          /\ a = win.real /\ c = w.real /\ a <= c /\ c = win.real + k
          /\ EmptyWindow(win) => a = c
    BY <1>4
  <1>6. /\ inOrder' = TRUE /\ last' \in Nat
        /\ exch => last' < w.real
        /\ reset => last' = 0
    <2>1. Ascending(FramesIn(win, k), a, c)
      BY <1>4, <1>5
    <2>2. CASE EmptyWindow(win)
      <3>1. last' = last /\ inOrder' = TRUE
        BY <1>3, <1>5, <2>1, <2>2, InvFacts, SendsNothing
      <3>. QED  BY <1>5, <2>2, <3>1, InvFacts
    <2>3. CASE ~ EmptyWindow(win)
      <3>1. exch /\ ~ reset /\ last < a /\ last \in Nat /\ inOrder = TRUE
        BY <1>5, <2>3, InvFacts
      <3>. QED  BY <1>3, <1>5, <2>1, <3>1, SendsInOrder
    <2>. QED  BY <2>2, <2>3
  <1>7. /\ timer' \in [armed : BOOLEAN, active : BOOLEAN, cancel : BOOLEAN]
        /\ exch => (timer'.active => (timer'.armed /\ ~ timer'.cancel) \/ handler)
        /\ ~ exch => EmptyWindow(w) /\ timer'.active = FALSE
    <2>1. exch /\ timer.active => (timer.armed /\ ~ timer.cancel) \/ handler
      BY DEF RxInv, ActiveFlagHonest
    <2>2. ~ exch => EmptyWindow(w) /\ w.head = w.tail /\ timer.active = FALSE
      BY <1>4, InvFacts DEF EmptyWindow
    <2>. QED  BY <1>3, <2>1, <2>2, InvFacts, CancelIs
  <1>8. /\ desc' \in BOOLEAN /\ (exch' => desc') /\ exch' \in BOOLEAN
        /\ reset' \in BOOLEAN /\ handler' \in BOOLEAN /\ work' \in 0 .. MaxWork
        /\ tooNew' = FALSE /\ txStart' = txStart
        /\ exch' = exch /\ reset' = reset /\ handler' = handler
        /\ reset => EmptyWindow(w)
    <2>1. work' \in 0 .. MaxWork
      BY <1>3, InvFacts, BoundAssumption
    <2>. QED  BY <1>3, <1>4, <2>1, InvFacts
  <1>9. /\ ~ exch' => EmptyWindow(w) /\ timer'.active = FALSE
        /\ reset' => EmptyWindow(w) /\ last' = 0
        /\ exch' => InStep(w, txStart) /\ last' < w.real
        /\ exch' /\ timer'.active => (timer'.armed /\ ~ timer'.cancel) \/ handler'
    BY <1>4, <1>6, <1>7, <1>8
  <1>. QED  BY <1>3, <1>4, <1>6, <1>7, <1>8, <1>9, Keeps

(* The end of the agreement leaves an empty window and no timer.           *)
LEMMA FlushedIs ==
    ASSUME RxInv
    PROVE  /\ Fits(Flushed, txStart + Win) /\ EmptyWindow(Flushed)
           /\ \E k \in Nat : /\ k = Gap(win) /\ win.real \in Nat
                             /\ Ascending(FramesIn(win, k), win.real, win.real + k)
  BY InvFacts, Moved DEF Flushed

(* DELBA.                                                                  *)
LEMMA DeleteStep ==
    ASSUME RxInv, Delete
    PROVE  RxInv'
  <1>1. PICK k \in Nat : /\ k = Gap(win)
                         /\ Ascending(FramesIn(win, k), win.real, win.real + k)
    BY FlushedIs
  <1>2. PICK w : w = Flushed
    OBVIOUS
  <1>3. /\ exch /\ timer' = Cancelled /\ SetWindow(w) /\ SendUp(FramesIn(win, k))
        /\ exch' = FALSE /\ desc' = FALSE
        /\ UNCHANGED <<reset, handler, work, txStart, tooNew>>
    BY <1>1, <1>2, Zenon DEF Delete
  <1>4. inOrder' = TRUE /\ last' \in Nat /\ (reset => last' = 0)
    <2>1. PICK a \in Nat, c \in Nat : a = win.real /\ c = win.real + k /\ a <= c
      BY <1>1, InvFacts
    <2>2. Ascending(FramesIn(win, k), a, c)
      BY <1>1, <2>1
    <2>3. CASE EmptyWindow(win)
      <3>1. a = c
        BY <1>1, <2>1, <2>3, NothingHeld, InvFacts
      <3>2. last' = last /\ inOrder' = TRUE
        BY <1>3, <2>2, <3>1, InvFacts, SendsNothing
      <3>. QED  BY <3>2, InvFacts
    <2>4. CASE ~ EmptyWindow(win)
      <3>1. ~ reset /\ last < a /\ last \in Nat /\ inOrder = TRUE
        BY <1>3, <2>1, <2>4, InvFacts
      <3>. QED  BY <1>3, <2>1, <2>2, <3>1, SendsInOrder
    <2>. QED  BY <2>3, <2>4
  <1>. QED  BY <1>2, <1>3, <1>4, FlushedIs, CancelIs, InvFacts, Keeps

(* The same when the station goes and its frames are dropped.              *)
LEMMA CleanStep ==
    ASSUME RxInv, Clean
    PROVE  RxInv'
  <1>1. PICK w : w = Flushed
    OBVIOUS
  <1>2. /\ SetWindow(w) /\ exch' = FALSE /\ desc' = FALSE
        /\ timer' = IF timer.active THEN Cancelled ELSE timer
        /\ UNCHANGED <<reset, handler, work, txStart, last, inOrder, tooNew>>
    BY <1>1, Zenon DEF Clean, history
  <1>3. /\ timer' \in [armed : BOOLEAN, active : BOOLEAN, cancel : BOOLEAN]
        /\ timer'.active = FALSE
    BY <1>2, CancelIs, InvFacts
  <1>. QED  BY <1>1, <1>2, <1>3, FlushedIs, InvFacts, Keeps

-----------------------------------------------------------------------------
(* The steps that leave the window alone.                                  *)
LEMMA Apart ==
    ASSUME RxInv, UNCHANGED <<exch, desc, reset, win, txStart, last, inOrder, tooNew>>,
           aged' \subseteq Slots,
           timer' \in [armed : BOOLEAN, active : BOOLEAN, cancel : BOOLEAN],
           handler' \in BOOLEAN, work' \in 0 .. MaxWork,
           ~ exch => timer'.active = FALSE,
           exch /\ timer'.active => (timer'.armed /\ ~ timer'.cancel) \/ handler'
    PROVE  RxInv'
  <1>1. TypeOK'
    BY DEF RxInv, TypeOK
  <1>2. ActiveFlagHonest'
    BY DEF ActiveFlagHonest
  <1>. QED
    BY <1>1, <1>2, InvFacts DEF RxInv, Fits, Mirrors, Dist, Gap, EmptyWindow, InStep

(* The timer's handler and the passing of time.                            *)
LEMMA OtherSteps ==
    ASSUME RxInv, TimerFire \/ HandlerReturn \/ Age \/ UNCHANGED vars
    PROVE  RxInv'
  <1>1. exch /\ timer.active => (timer.armed /\ ~ timer.cancel) \/ handler
    BY DEF RxInv, ActiveFlagHonest
  <1>2. aged \subseteq Slots
    BY DEF RxInv, TypeOK
  <1>3. CASE TimerFire
    <2>1. /\ timer.armed /\ ~ handler
          /\ timer' = [timer EXCEPT !.armed = FALSE]
          /\ IF timer.cancel THEN UNCHANGED <<handler, work>>
             ELSE handler' = TRUE /\ ((work < MaxWork /\ work' = work + 1) \/ UNCHANGED work)
          /\ UNCHANGED <<exch, desc, reset, win, aged, txStart, last, inOrder, tooNew>>
      BY <1>3 DEF TimerFire, winVars, history
    <2>2. work' \in 0 .. MaxWork /\ handler' \in BOOLEAN
      <3>1. work \in 0 .. MaxWork /\ MaxWork \in Nat /\ handler = FALSE
        BY <2>1, InvFacts, BoundAssumption
      <3>2. CASE timer.cancel
        BY <2>1, <3>1, <3>2
      <3>3. CASE ~ timer.cancel
        BY ONLY <2>1, <3>1, <3>3
      <3>. QED  BY <3>2, <3>3
    <2>3. /\ timer' \in [armed : BOOLEAN, active : BOOLEAN, cancel : BOOLEAN]
          /\ timer'.active = timer.active /\ timer'.cancel = timer.cancel
      BY <2>1, InvFacts
    <2>4. exch /\ timer'.active => (timer'.armed /\ ~ timer'.cancel) \/ handler'
      <3>1. CASE timer.cancel
        BY <1>1, <2>1, <2>3, <3>1
      <3>2. CASE ~ timer.cancel
        BY <2>1, <3>2
      <3>. QED  BY <3>1, <3>2
    <2>. QED  BY <1>2, <2>1, <2>2, <2>3, <2>4, InvFacts, Apart
  <1>4. CASE HandlerReturn
    BY <1>1, <1>2, <1>4, InvFacts, Apart DEF HandlerReturn, winVars, history
  <1>5. CASE Age
    BY <1>1, <1>2, <1>5, InvFacts, Apart DEF Age, timerVars, history
  <1>6. CASE UNCHANGED vars
    BY <1>1, <1>2, <1>6, InvFacts, Apart DEF vars, winVars, timerVars, history
  <1>. QED  BY <1>3, <1>4, <1>5, <1>6

(* The peer moves on, but not out of step.                                 *)
LEMMA PeerMovesStep ==
    ASSUME RxInv, PeerMoves
    PROVE  RxInv'
  <1>1. /\ txStart' = txStart + 1
        /\ exch => txStart + Win - win.real <= SeqMax - 4 * Win
        /\ UNCHANGED <<exch, desc, reset, win, aged, timer, handler, work>>
        /\ UNCHANGED <<last, inOrder, tooNew>>
    BY DEF PeerMoves, winVars, timerVars, history
  <1>2. Fits(win, txStart' + Win)
    <2>1. /\ win \in Windows /\ Mirrors(win)
          /\ \A s \in Slots : win.buf[s] \in Nat /\ win.buf[s] < txStart + Win
      BY InvFacts DEF Fits, Windows
    <2>2. \A s \in Slots : win.buf[s] < txStart' + Win
      BY <1>1, <2>1, InvFacts, Sizes
    <2>. QED  BY <2>1, <2>2 DEF Fits
  <1>3. exch => InStep(win, txStart')
    BY <1>1, InvFacts, Sizes DEF InStep
  <1>4. TypeOK'
    BY <1>1, InvFacts DEF RxInv, TypeOK
  <1>5. ActiveFlagHonest'
    BY <1>1 DEF RxInv, ActiveFlagHonest
  <1>6. Fits(win, txStart + Win)' /\ (exch => InStep(win, txStart))'
    BY <1>1, <1>2, <1>3 DEF Fits, Mirrors, Dist, Gap, InStep
  <1>7. /\ (~ exch => EmptyWindow(win) /\ timer.active = FALSE)'
        /\ (reset => EmptyWindow(win) /\ last = 0)'
        /\ (exch => last < win.real)' /\ (exch => desc)' /\ (txStart >= 1)'
        /\ inOrder' = TRUE /\ tooNew' = FALSE
    <2>1. txStart' >= 1
      BY <1>1, InvFacts
    <2>. QED  BY <1>1, <2>1, InvFacts DEF EmptyWindow
  <1>. QED  BY <1>4, <1>5, <1>6, <1>7, Zenon DEF RxInv

(* Every step keeps the invariant.                                         *)
LEMMA Inductive == RxInv /\ [Next]_vars => RxInv'
  <1>. SUFFICES ASSUME RxInv, [Next]_vars PROVE RxInv'
    OBVIOUS
  <1>1. CASE Receive
    <2>1. PICK n \in txStart .. Min({txStart + Win - 1, MaxReal}) :
            RxOld(n) \/ RxDuplicate(n) \/ RxStore(n)
      BY <1>1 DEF Receive
    <2>2. txStart + Win - 1 \in Nat /\ txStart \in Nat
      BY InvFacts, Sizes
    <2>3. Min({txStart + Win - 1, MaxReal}) \in Nat
          /\ Min({txStart + Win - 1, MaxReal}) <= txStart + Win - 1
      <3>1. {txStart + Win - 1, MaxReal} \in SUBSET Nat
            /\ {txStart + Win - 1, MaxReal} # {}
        BY <2>2, BoundAssumption
      <3>. QED  BY <3>1, MinIs
    <2>4. n \in Nat /\ txStart <= n /\ n < txStart + Win
      BY <2>1, <2>2, <2>3, Sizes
    <2>. QED  BY <2>1, <2>4, RxOldStep, RxDuplicateStep, RxStoreStep
  <1>2. CASE ~ Receive
    BY <1>2, AddbaReqStep, BarStep, SortTimerStep, DeleteStep, CleanStep,
       PeerMovesStep, OtherSteps DEF Next
  <1>. QED  BY <1>1, <1>2

(* Every reachable state satisfies it.                                     *)
THEOREM RxInvariant == Spec => []RxInv
  <1>1. Init => RxInv
    BY Initially
  <1>2. RxInv /\ [Next]_vars => RxInv'
    BY Inductive
  <1>. QED  BY <1>1, <1>2, PTL DEF Spec

(* The window mirrors the sequence space, the buffer is there whenever it  *)
(* is needed and the timer's flag can be believed, whatever the sizes of   *)
(* window, ring and sequence space.                                        *)
THEOREM RxReorderSound == Spec => []ReorderSound
  <1>1. RxInv => ReorderSound
    <2>. SUFFICES ASSUME RxInv PROVE ReorderSound
      OBVIOUS
    <2>1. TypeOK /\ ActiveFlagHonest
      BY DEF RxInv
    <2>2. WindowMirrorsSequence
      BY InvFacts DEF WindowMirrorsSequence, Fits, Mirrors, InStep
    <2>3. BufferBehindWindow
      BY InvFacts DEF BufferBehindWindow, EmptyWindow
    <2>. QED  BY <2>1, <2>2, <2>3 DEF ReorderSound
  <1>. QED  BY <1>1, RxInvariant, PTL

(* What goes up under an agreement goes up in the order it was sent and    *)
(* once, and no frame is dropped for old that the window has not passed.   *)
THEOREM RxOrderKept == Spec => []OrderKept
  <1>1. RxInv => OrderKept
    BY DEF RxInv, OrderKept, UploadsInOrder, OnlyPassedIsOld
  <1>. QED  BY <1>1, RxInvariant, PTL

-----------------------------------------------------------------------------
(***************************************************************************)
(* The timer that a window's sort timer, like every other of the driver,   *)
(* is: what it promises to callers that keep its rules (Orderly), for any  *)
(* set of callers.                                                         *)
(***************************************************************************)
StartPlaces  == {"clearCancel", "arm"}
Cancelling   == {"testActive", "acquire", "delete", "clearActive", "release"}
Holding      == {"delete", "clearActive", "release"}
BeforeClear  == {"testActive", "acquire", "delete", "clearActive"}
HandlerHolds == {"check", "run", "rearm", "clear", "unlock"}
Handling     == {"entry", "check", "run", "rearm", "clear"}

\* A start that overlaps nothing has the timer to itself.
StartsAlone ==
    \A t \in Threads : pc[t] \in StartPlaces =>
        /\ hpc = "idle" /\ active_flag
        /\ \A u \in Threads \ {t} : pc[u] = "idle"

\* The lock word is taken by one of its holders.
LockExcludes ==
    /\ \A t \in Threads : pc[t] \in Holding =>
          /\ timer_lock = 1 /\ hpc \in {"idle", "entry"}
          /\ \A u \in Threads \ {t} : pc[u] \notin Holding
    /\ hpc \in HandlerHolds => timer_lock = 1
    /\ timer_lock = 1 => hpc \in HandlerHolds \/ \E t \in Threads : pc[t] \in Holding

NotArmedInHandler == hpc \in Handling => ~ pending

CancelProgress ==
    /\ \A t \in Threads : pc[t] \in Cancelling => cancel_flag
    /\ \A t \in Threads : pc[t] \in {"clearActive", "release"} => ~ pending
    /\ \A t \in Threads : pc[t] = "release" => ~ active_flag

InactiveIsQuiet ==
    ~ active_flag =>
        /\ ~ pending /\ hpc \notin {"run", "rearm", "clear"}
        /\ hpc \in {"entry", "check"} => cancel_flag

QuietIsInactive == quiet => ~ active_flag

ActiveGoesOn ==
    active_flag =>
        \/ pending \/ hpc \in Handling
        \/ \E t \in Threads : pc[t] \in StartPlaces \cup BeforeClear

CancelGoesOn ==
    cancel_flag /\ active_flag =>
        \E t \in Threads : pc[t] \in BeforeClear \cup {"clearCancel"}

Contract ==
    /\ StartsAlone /\ LockExcludes /\ NotArmedInHandler /\ CancelProgress
    /\ InactiveIsQuiet /\ QuietIsInactive /\ ActiveGoesOn /\ CancelGoesOn

TimerInv == TimerTypeOK /\ (Orderly => Contract)

-----------------------------------------------------------------------------
\* What was orderly at the end of a step was orderly before it.
LEMMA OrderlyBefore ==
    ASSUME TimerTypeOK, [TimerNext]_ostVars, Orderly'
    PROVE  Orderly
BY DEF TimerTypeOK, Orderly, TimerNext, Handler, Proceeds, Call, Goto, Expire, HandlerEntry,
       HandlerCheck, FunctionReturns, HandlerRearm, HandlerClear, HandlerUnlock,
       Start, StartClears, StartArms, Del, Cancel, DelCancels, CancelTests,
       CancelAcquires, CancelGivesUp, CancelDeletes, CancelClears,
       CancelReleases, ostVars, words, ghosts

\* The types are kept by every step.
LEMMA TimerTypeStep ==
    ASSUME TimerTypeOK, [TimerNext]_ostVars
    PROVE  TimerTypeOK'
<1>1. CASE Expire
  BY <1>1 DEF TimerTypeOK, Expire, Starting
<1>2. CASE Handler
  BY <1>2 DEF TimerTypeOK, Handler, HandlerEntry, HandlerCheck, FunctionReturns,
              HandlerRearm, HandlerClear, HandlerUnlock, words, ghosts
<1>3. ASSUME NEW t \in Threads, Start(t) \/ Del(t) \/ Cancel(t)
      PROVE  TimerTypeOK'
  <2>1. pc' \in [Threads -> {"idle", "clearCancel", "arm", "setCancel",
                            "testActive", "acquire", "delete", "clearActive",
                            "release"}]
    BY <1>3 DEF TimerTypeOK, Start, Del, Cancel, Goto
  <2>2. calls' \in Nat
    BY <1>3 DEF TimerTypeOK, Start, Del, Cancel, Call
  <2>3. raced' \in BOOLEAN /\ quiet' \in BOOLEAN
    BY <1>3, Zenon DEF TimerTypeOK, Start, Del, Cancel
  <2>4. QED
    BY <1>3, <2>1, <2>2, <2>3 DEF TimerTypeOK, Start, Del, Cancel, words
<1>4. ASSUME NEW t \in Threads, Proceeds(t) \/ CancelGivesUp(t)
      PROVE  TimerTypeOK'
  BY <1>4 DEF TimerTypeOK, Proceeds, Goto, StartClears, StartArms, DelCancels,
              CancelTests, CancelAcquires, CancelGivesUp, CancelDeletes,
              CancelClears, CancelReleases, words, ghosts
<1>5. CASE UNCHANGED ostVars
  BY <1>5 DEF TimerTypeOK, ostVars, words, ghosts
<1>6. QED
  BY <1>1, <1>2, <1>3, <1>4, <1>5 DEF TimerNext

LEMMA ExpireKeeps ==
    ASSUME TimerTypeOK, Orderly, Contract, Expire, Orderly'
    PROVE  Contract'
BY DEF Expire, Starting, TimerTypeOK, Orderly, Contract, StartsAlone, LockExcludes,
       NotArmedInHandler, CancelProgress, InactiveIsQuiet, QuietIsInactive,
       ActiveGoesOn, CancelGoesOn, StartPlaces, Cancelling, Holding, BeforeClear,
       HandlerHolds, Handling, words, ghosts

LEMMA HandlerEntryKeeps ==
    ASSUME TimerTypeOK, Orderly, Contract, HandlerEntry, Orderly'
    PROVE  Contract'
BY DEF HandlerEntry, TimerTypeOK, Orderly, Contract, StartsAlone, LockExcludes,
       NotArmedInHandler, CancelProgress, InactiveIsQuiet, QuietIsInactive,
       ActiveGoesOn, CancelGoesOn, StartPlaces, Cancelling, Holding, BeforeClear,
       HandlerHolds, Handling, words, ghosts

LEMMA HandlerCheckKeeps ==
    ASSUME TimerTypeOK, Orderly, Contract, HandlerCheck, Orderly'
    PROVE  Contract'
BY DEF HandlerCheck, TimerTypeOK, Orderly, Contract, StartsAlone, LockExcludes,
       NotArmedInHandler, CancelProgress, InactiveIsQuiet, QuietIsInactive,
       ActiveGoesOn, CancelGoesOn, StartPlaces, Cancelling, Holding, BeforeClear,
       HandlerHolds, Handling, words, ghosts

LEMMA FunctionReturnsKeeps ==
    ASSUME TimerTypeOK, Orderly, Contract, FunctionReturns, Orderly'
    PROVE  Contract'
BY DEF FunctionReturns, TimerTypeOK, Orderly, Contract, StartsAlone, LockExcludes,
       NotArmedInHandler, CancelProgress, InactiveIsQuiet, QuietIsInactive,
       ActiveGoesOn, CancelGoesOn, StartPlaces, Cancelling, Holding, BeforeClear,
       HandlerHolds, Handling, words, ghosts

LEMMA HandlerRearmKeeps ==
    ASSUME TimerTypeOK, Orderly, Contract, HandlerRearm, Orderly'
    PROVE  Contract'
BY DEF HandlerRearm, TimerTypeOK, Orderly, Contract, StartsAlone, LockExcludes,
       NotArmedInHandler, CancelProgress, InactiveIsQuiet, QuietIsInactive,
       ActiveGoesOn, CancelGoesOn, StartPlaces, Cancelling, Holding, BeforeClear,
       HandlerHolds, Handling, words, ghosts

LEMMA HandlerClearKeeps ==
    ASSUME TimerTypeOK, Orderly, Contract, HandlerClear, Orderly'
    PROVE  Contract'
BY DEF HandlerClear, TimerTypeOK, Orderly, Contract, StartsAlone, LockExcludes,
       NotArmedInHandler, CancelProgress, InactiveIsQuiet, QuietIsInactive,
       ActiveGoesOn, CancelGoesOn, StartPlaces, Cancelling, Holding, BeforeClear,
       HandlerHolds, Handling, words, ghosts

LEMMA HandlerUnlockKeeps ==
    ASSUME TimerTypeOK, Orderly, Contract, HandlerUnlock, Orderly'
    PROVE  Contract'
BY DEF HandlerUnlock, TimerTypeOK, Orderly, Contract, StartsAlone, LockExcludes,
       NotArmedInHandler, CancelProgress, InactiveIsQuiet, QuietIsInactive,
       ActiveGoesOn, CancelGoesOn, StartPlaces, Cancelling, Holding, BeforeClear,
       HandlerHolds, Handling, words, ghosts

LEMMA StartKeeps ==
    ASSUME NEW t \in Threads, TimerTypeOK, Orderly, Contract, Start(t), Orderly'
    PROVE  Contract'
BY DEF Start, Call, Goto, TimerTypeOK, Orderly, Contract, StartsAlone, LockExcludes,
       NotArmedInHandler, CancelProgress, InactiveIsQuiet, QuietIsInactive,
       ActiveGoesOn, CancelGoesOn, StartPlaces, Cancelling, Holding, BeforeClear,
       HandlerHolds, Handling, words, ghosts

LEMMA StartClearsKeeps ==
    ASSUME NEW t \in Threads, TimerTypeOK, Orderly, Contract, StartClears(t), Orderly'
    PROVE  Contract'
BY DEF StartClears, Goto, TimerTypeOK, Orderly, Contract, StartsAlone, LockExcludes,
       NotArmedInHandler, CancelProgress, InactiveIsQuiet, QuietIsInactive,
       ActiveGoesOn, CancelGoesOn, StartPlaces, Cancelling, Holding, BeforeClear,
       HandlerHolds, Handling, words, ghosts

LEMMA StartArmsKeeps ==
    ASSUME NEW t \in Threads, TimerTypeOK, Orderly, Contract, StartArms(t), Orderly'
    PROVE  Contract'
BY DEF StartArms, Goto, TimerTypeOK, Orderly, Contract, StartsAlone, LockExcludes,
       NotArmedInHandler, CancelProgress, InactiveIsQuiet, QuietIsInactive,
       ActiveGoesOn, CancelGoesOn, StartPlaces, Cancelling, Holding, BeforeClear,
       HandlerHolds, Handling, words, ghosts

LEMMA DelKeeps ==
    ASSUME NEW t \in Threads, TimerTypeOK, Orderly, Contract, Del(t), Orderly'
    PROVE  Contract'
BY DEF Del, Call, Starting, Goto, TimerTypeOK, Orderly, Contract, StartsAlone, LockExcludes,
       NotArmedInHandler, CancelProgress, InactiveIsQuiet, QuietIsInactive,
       ActiveGoesOn, CancelGoesOn, StartPlaces, Cancelling, Holding, BeforeClear,
       HandlerHolds, Handling, words, ghosts

LEMMA CancelKeeps ==
    ASSUME NEW t \in Threads, TimerTypeOK, Orderly, Contract, Cancel(t), Orderly'
    PROVE  Contract'
BY DEF Cancel, Call, Starting, Goto, TimerTypeOK, Orderly, Contract, StartsAlone, LockExcludes,
       NotArmedInHandler, CancelProgress, InactiveIsQuiet, QuietIsInactive,
       ActiveGoesOn, CancelGoesOn, StartPlaces, Cancelling, Holding, BeforeClear,
       HandlerHolds, Handling, words, ghosts

LEMMA DelCancelsKeeps ==
    ASSUME NEW t \in Threads, TimerTypeOK, Orderly, Contract, DelCancels(t), Orderly'
    PROVE  Contract'
BY DEF DelCancels, Goto, TimerTypeOK, Orderly, Contract, StartsAlone, LockExcludes,
       NotArmedInHandler, CancelProgress, InactiveIsQuiet, QuietIsInactive,
       ActiveGoesOn, CancelGoesOn, StartPlaces, Cancelling, Holding, BeforeClear,
       HandlerHolds, Handling, words, ghosts

LEMMA CancelTestsKeeps ==
    ASSUME NEW t \in Threads, TimerTypeOK, Orderly, Contract, CancelTests(t), Orderly'
    PROVE  Contract'
BY DEF CancelTests, Goto, TimerTypeOK, Orderly, Contract, StartsAlone, LockExcludes,
       NotArmedInHandler, CancelProgress, InactiveIsQuiet, QuietIsInactive,
       ActiveGoesOn, CancelGoesOn, StartPlaces, Cancelling, Holding, BeforeClear,
       HandlerHolds, Handling, words, ghosts

LEMMA CancelAcquiresKeeps ==
    ASSUME NEW t \in Threads, TimerTypeOK, Orderly, Contract, CancelAcquires(t), Orderly'
    PROVE  Contract'
BY DEF CancelAcquires, Goto, TimerTypeOK, Orderly, Contract, StartsAlone, LockExcludes,
       NotArmedInHandler, CancelProgress, InactiveIsQuiet, QuietIsInactive,
       ActiveGoesOn, CancelGoesOn, StartPlaces, Cancelling, Holding, BeforeClear,
       HandlerHolds, Handling, words, ghosts

LEMMA CancelDeletesKeeps ==
    ASSUME NEW t \in Threads, TimerTypeOK, Orderly, Contract, CancelDeletes(t), Orderly'
    PROVE  Contract'
BY DEF CancelDeletes, Goto, TimerTypeOK, Orderly, Contract, StartsAlone, LockExcludes,
       NotArmedInHandler, CancelProgress, InactiveIsQuiet, QuietIsInactive,
       ActiveGoesOn, CancelGoesOn, StartPlaces, Cancelling, Holding, BeforeClear,
       HandlerHolds, Handling, words, ghosts

LEMMA CancelClearsKeeps ==
    ASSUME NEW t \in Threads, TimerTypeOK, Orderly, Contract, CancelClears(t), Orderly'
    PROVE  Contract'
BY DEF CancelClears, Goto, TimerTypeOK, Orderly, Contract, StartsAlone, LockExcludes,
       NotArmedInHandler, CancelProgress, InactiveIsQuiet, QuietIsInactive,
       ActiveGoesOn, CancelGoesOn, StartPlaces, Cancelling, Holding, BeforeClear,
       HandlerHolds, Handling, words, ghosts

LEMMA CancelReleasesKeeps ==
    ASSUME NEW t \in Threads, TimerTypeOK, Orderly, Contract, CancelReleases(t), Orderly'
    PROVE  Contract'
BY DEF CancelReleases, Goto, TimerTypeOK, Orderly, Contract, StartsAlone, LockExcludes,
       NotArmedInHandler, CancelProgress, InactiveIsQuiet, QuietIsInactive,
       ActiveGoesOn, CancelGoesOn, StartPlaces, Cancelling, Holding, BeforeClear,
       HandlerHolds, Handling, words, ghosts

-----------------------------------------------------------------------------
\* Every orderly step keeps the contract; a cancel that gives up is not one.
LEMMA ContractStep ==
    ASSUME TimerTypeOK, Orderly, Contract, [TimerNext]_ostVars, Orderly'
    PROVE  Contract'
<1>1. CASE Expire
  BY <1>1, ExpireKeeps
<1>2. CASE Handler
  BY <1>2, HandlerEntryKeeps, HandlerCheckKeeps, FunctionReturnsKeeps,
     HandlerRearmKeeps, HandlerClearKeeps, HandlerUnlockKeeps DEF Handler
<1>3. ASSUME NEW t \in Threads, Start(t) \/ Del(t) \/ Cancel(t)
      PROVE  Contract'
  BY <1>3, StartKeeps, DelKeeps, CancelKeeps
<1>4. ASSUME NEW t \in Threads, Proceeds(t)
      PROVE  Contract'
  BY <1>4, StartClearsKeeps, StartArmsKeeps, DelCancelsKeeps, CancelTestsKeeps,
     CancelAcquiresKeeps, CancelDeletesKeeps, CancelClearsKeeps,
     CancelReleasesKeeps DEF Proceeds
<1>5. ASSUME NEW t \in Threads, CancelGivesUp(t)
      PROVE  FALSE
  BY <1>5 DEF CancelGivesUp, Orderly
<1>6. CASE UNCHANGED ostVars
  BY <1>6 DEF ostVars, words, ghosts, Contract, StartsAlone, LockExcludes,
     NotArmedInHandler, CancelProgress, InactiveIsQuiet, QuietIsInactive,
     ActiveGoesOn, CancelGoesOn
<1>7. QED
  BY <1>1, <1>2, <1>3, <1>4, <1>5, <1>6 DEF TimerNext

LEMMA TimerInitially == TimerInit => TimerInv
<1> SUFFICES ASSUME TimerInit
             PROVE  TimerInv
  OBVIOUS
<1>1. \A t \in Threads : pc[t] = "idle"
  BY DEF TimerInit
<1>2. TimerTypeOK
  BY DEF TimerInit, TimerTypeOK
<1>3. Contract
  BY <1>1 DEF TimerInit, Contract, StartsAlone, LockExcludes, NotArmedInHandler,
     CancelProgress, InactiveIsQuiet, QuietIsInactive, ActiveGoesOn,
     CancelGoesOn, StartPlaces, Cancelling, Holding, HandlerHolds, Handling
<1>4. QED
  BY <1>2, <1>3 DEF TimerInv

LEMMA TimerInductive == TimerInv /\ [TimerNext]_ostVars => TimerInv'
BY TimerTypeStep, OrderlyBefore, ContractStep DEF TimerInv

LEMMA TimerInvariant == TimerSpec => []TimerInv
BY TimerInitially, TimerInductive, PTL DEF TimerSpec

\* The timer keeps its types for any callers.
THEOREM OsTimerTypes == TimerSpec => []TimerTypeOK
<1>1. TimerInv => TimerTypeOK
  BY DEF TimerInv
<1>2. QED
  BY <1>1, TimerInvariant, PTL

\* os_timer_ex_cancel and os_timer_ex_del: after either has returned, the
\* function neither runs nor begins, whoever else cancels at the same time.
THEOREM OsTimerCancelledIsQuiet == TimerSpec => []CancelledIsQuiet
<1>1. TimerInv => CancelledIsQuiet
  BY DEF TimerInv, CancelledIsQuiet, Contract, QuietIsInactive, InactiveIsQuiet
<1>2. QED
  BY <1>1, TimerInvariant, PTL

\* os_timer_ex_active: between calls the flag tells whether the timer will
\* still run.
THEOREM OsTimerActiveIsArmed == TimerSpec => []ActiveIsArmed
<1>1. ASSUME TimerInv, Orderly, \A t \in Threads : pc[t] = "idle"
      PROVE  /\ active_flag => pending \/ hpc # "idle"
             /\ pending => active_flag
  BY <1>1 DEF TimerInv, Contract, ActiveGoesOn, InactiveIsQuiet, StartPlaces,
              BeforeClear, Handling
<1>2. TimerInv => ActiveIsArmed
  BY <1>1 DEF ActiveIsArmed
<1>3. QED
  BY <1>2, TimerInvariant, PTL
=============================================================================
