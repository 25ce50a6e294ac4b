-------------------------- MODULE ApPowerSaveProofs --------------------------
(***************************************************************************)
(* What the AP's power save promises, for any senders, any scenario and    *)
(* any limits: PeerSound.  Its parts are independent of each other but for *)
(* the types; each has an inductive invariant of its own.                  *)
(***************************************************************************)
EXTENDS ApPowerSave, FiniteSetTheorems, SequenceTheorems, TLAPS

RxPcs == {"idle", "store", "trigger", "send", "input", "flush", "clear"}
RxThens == {"idle", "trigger", "input", "flush", "clear"}
RxState == [pc : RxPcs, k : PeerFrames, n : Nat, then : RxThens,
            old : Flags, new : Flags]
TxokState == [pc : {"idle", "store"}, old : Flags]
SndPcs == {"idle", "tim", "uapsd", "data", "hold", "first", "mcast", "mcastps"}
AgerState == [pc : {"idle", "pass", "check", "clear"}, len : Nat]
Ghosts == [torn : BOOLEAN, stale : BOOLEAN]

FlagTypes == /\ flags \in Flags /\ rx \in RxState /\ txok \in TxokState
             /\ rx.pc = "clear" => rx.then \in {"idle", "input"}

QueueTypes == /\ psq \in Seq(0 .. AgeInit)
              /\ uapsdq \in Nat /\ mcq \in Nat /\ mcHal \in Nat
              /\ uapsdHal \in Seq({"more", "eosp"}) /\ Len(uapsdHal) < left.room

OtherTypes == /\ psSta \in Nat /\ psSta < 65536
              /\ tim \in BOOLEAN /\ mcFlag \in BOOLEAN
              /\ snd \in [Senders -> SndPcs] /\ ager \in AgerState
              /\ doze \in BOOLEAN /\ air \in Seq(PeerFrames)
              /\ left \in Scenario /\ ghost \in Ghosts

Types == FlagTypes /\ QueueTypes /\ OtherTypes

(* Senders that have found room in the queue and not yet used it.          *)
Holders == {s \in Senders : snd[s] = "hold"}

QueueBounded ==
    Len(psq) + Cardinality(Holders) <= MaxQueue - 1 + Cardinality(Senders)

(* What will end an open service period.                                   *)
EospOnWay == \/ \E i \in DOMAIN uapsdHal : uapsdHal[i] = "eosp"
             \/ txok.pc = "store"

SendsNext == rx.n # 0 /\ uapsdq # 0 /\ ~ HalFull(1)

PeriodEnds ==
    /\ rx.pc = "send" => rx.n <= uapsdq
    /\ rx.pc \in {"trigger", "send"} /\ rx.k = "off" => ~ flags.sp
    /\ rx.pc = "store" /\ rx.then = "trigger" /\ rx.k = "off" => ~ rx.new.sp
    /\ rx.pc = "store" /\ rx.then # "trigger" /\ rx.new.sp =>
         /\ rx.old.sp
         /\ flags.sp => ghost.torn \/ EospOnWay
    /\ flags.sp => \/ ghost.torn \/ EospOnWay
                   \/ rx.pc \in {"trigger", "store"}
                   \/ rx.pc = "send" /\ SendsNext

(* Who has found the queue empty and has not said so yet finds it empty.   *)
TimKnows ==
    /\ AllAcs => psq = <<>> \/ ghost.stale
    /\ Clearing => psq = <<>> \/ ghost.stale
    /\ psq # <<>> /\ (\A s \in Senders : snd[s] # "first") => tim \/ ghost.stale

(* The power bit that sta_flags has, or will have when rx has written it.  *)
PmNow == IF rx.pc = "store" THEN rx.new.pm ELSE flags.pm

Counts == ~ ghost.torn => psSta = IF PmNow THEN 1 ELSE 0

PeerInv == Types /\ QueueBounded /\ PeriodEnds /\ TimKnows /\ Counts /\ AgesGrow

-----------------------------------------------------------------------------
(* The flags and those who change them.                                    *)
LEMMA FlagsUpdated ==
    ASSUME NEW f \in Flags, NEW b \in BOOLEAN, NEW c \in BOOLEAN
    PROVE  /\ [f EXCEPT !.pm = b] \in Flags /\ [f EXCEPT !.sp = b] \in Flags
           /\ [f EXCEPT !.sp = b, !.trig = c] \in Flags
           /\ [pm |-> FALSE, trig |-> FALSE, sp |-> FALSE] \in Flags
  BY DEF Flags

LEMMA NoFlags == [pm |-> FALSE, trig |-> FALSE, sp |-> FALSE] \in Flags
  BY DEF Flags

LEMMA RxIdleType == rxIdle \in RxState /\ rxIdle.pc = "idle"
  BY DEF RxState, RxPcs, RxThens, PeerFrames, rxIdle, Flags

LEMMA FlagTypesStep ==
    ASSUME FlagTypes, OtherTypes, uapsdq \in Nat, BoundsAssumption, [Next]_vars
    PROVE  FlagTypes'
  <1>. SUFFICES ASSUME flags \in Flags, rx \in RxState, txok \in TxokState,
                       rx.pc = "clear" => rx.then \in {"idle", "input"}
                PROVE  FlagTypes'
    BY DEF FlagTypes
  <1>1. CASE Receive
    <2>. DEFINE k == Head(air)
                dozes == k # "off"
                off == [flags EXCEPT !.sp = FALSE, !.trig = dozes]
                open == [flags EXCEPT !.sp = TRUE]
                at == [rxIdle EXCEPT !.pc = "store", !.k = k]
    <2>1. k \in PeerFrames /\ UNCHANGED <<flags, txok>>
      BY <1>1 DEF Receive, OtherTypes
    <2>2. off \in Flags /\ open \in Flags
      BY FlagsUpdated
    <2>3. \/ \E t \in {"input", "trigger"} :
               rx' = [at EXCEPT !.old = flags, !.new = off, !.then = t]
          \/ rx' = [at EXCEPT !.old = flags, !.new = open, !.then = "trigger"]
          \/ rx' = [rxIdle EXCEPT !.pc = "input", !.k = k]
      BY <1>1 DEF Receive
    <2>. HIDE DEF k, off, open
    <2>4. rx' \in RxState /\ rx'.pc # "clear"
      <3>. USE <2>1, <2>2, FlagsUpdated DEF RxState, RxPcs, RxThens, rxIdle
      <3>1. CASE rx' = [rxIdle EXCEPT !.pc = "input", !.k = k]
        BY <3>1 DEF PeerFrames
      <3>2. CASE rx' = [at EXCEPT !.old = flags, !.new = open, !.then = "trigger"]
        BY <3>2 DEF PeerFrames
      <3>3. ASSUME NEW t \in {"input", "trigger"},
                   rx' = [at EXCEPT !.old = flags, !.new = off, !.then = t]
            PROVE  rx' \in RxState /\ rx'.pc # "clear"
        BY <3>3 DEF PeerFrames
      <3>. QED  BY <2>3, <3>1, <3>2, <3>3
    <2>. QED  BY <2>1, <2>4 DEF FlagTypes
  <1>2. CASE RxStore
    <2>1. rx' = rxIdle \/ rx' = [rxIdle EXCEPT !.pc = rx.then, !.k = rx.k, !.then = "input"]
      BY <1>2 DEF RxStore
    <2>2. flags' \in Flags /\ UNCHANGED txok
      BY <1>2 DEF RxStore, RxState
    <2>3. rx' \in RxState /\ (rx'.pc = "clear" => rx'.then \in {"idle", "input"})
      <3>1. CASE rx' = rxIdle
        BY <3>1, RxIdleType
      <3>2. CASE rx' = [rxIdle EXCEPT !.pc = rx.then, !.k = rx.k, !.then = "input"]
        BY <3>2, FlagsUpdated DEF RxState, RxPcs, RxThens, rxIdle
      <3>. QED  BY <2>1, <3>1, <3>2
    <2>. QED  BY <2>2, <2>3 DEF FlagTypes
  <1>3. CASE Trigger
    <2>1. [flags EXCEPT !.sp = FALSE] \in Flags /\ UNCHANGED <<flags, txok>>
      BY <1>3, FlagsUpdated DEF Trigger
    <2>0. MaxSp \in Nat
      BY BoundsAssumption
    <2>. DEFINE shut == [flags EXCEPT !.sp = FALSE]
    <2>2. \/ \E n \in {uapsdq, MaxSp} : rx' = [rx EXCEPT !.pc = "send", !.n = n]
          \/ rx' = [rx EXCEPT !.pc = "input"]
          \/ \E t \in {"clear", "input"} :
               rx' = [rx EXCEPT !.pc = "store", !.old = flags, !.new = shut, !.then = t]
      BY <1>3 DEF Trigger, RxChanges, RxGoes
    <2>4. shut \in Flags
      BY <2>1
    <2>. HIDE DEF shut
    <2>3. rx' \in RxState /\ rx'.pc # "clear"
      <3>1. ASSUME NEW n \in {uapsdq, MaxSp}, rx' = [rx EXCEPT !.pc = "send", !.n = n]
            PROVE  rx' \in RxState /\ rx'.pc # "clear"
        BY <2>0, <3>1 DEF RxState, RxPcs
      <3>2. CASE rx' = [rx EXCEPT !.pc = "input"]
        BY <3>2 DEF RxState, RxPcs
      <3>3. ASSUME NEW t \in {"clear", "input"},
                   rx' = [rx EXCEPT !.pc = "store", !.old = flags, !.new = shut, !.then = t]
            PROVE  rx' \in RxState /\ rx'.pc # "clear"
        BY <2>4, <3>3 DEF RxState, RxPcs, RxThens
      <3>. QED  BY <2>2, <3>1, <3>2, <3>3
    <2>. QED  BY <2>1, <2>3 DEF FlagTypes
  <1>4. CASE TriggerSend
    <2>1. rx' = [rx EXCEPT !.n = 0] \/ rx' = [rx EXCEPT !.n = @ - 1]
      BY <1>4 DEF TriggerSend
    <2>2. rx.pc = "send" /\ rx.n # 0 /\ UNCHANGED <<flags, txok>>
      BY <1>4 DEF TriggerSend
    <2>3. rx' \in RxState /\ rx'.pc = "send"
      BY <2>1, <2>2 DEF RxState, RxPcs, RxThens
    <2>. QED  BY <2>2, <2>3 DEF FlagTypes
  <1>5. CASE TriggerEnd
    <2>1. \/ rx' = [rx EXCEPT !.pc = "clear", !.then = "input", !.n = 0]
          \/ rx' = [rx EXCEPT !.pc = "input", !.n = 0]
      BY <1>5 DEF TriggerEnd, RxClears
    <2>2. rx' \in RxState /\ (rx'.pc = "clear" => rx'.then \in {"idle", "input"})
      <3>1. CASE rx' = [rx EXCEPT !.pc = "input", !.n = 0]
        BY <3>1 DEF RxState, RxPcs, RxThens
      <3>2. CASE rx' = [rx EXCEPT !.pc = "clear", !.then = "input", !.n = 0]
        BY <3>2 DEF RxState, RxPcs, RxThens
      <3>. QED  BY <2>1, <3>1, <3>2
    <2>3. UNCHANGED <<flags, txok>>
      BY <1>5 DEF TriggerEnd
    <2>. QED  BY <2>2, <2>3 DEF FlagTypes
  <1>6. CASE Input
    <2>. DEFINE dozes == rx.k # "off"
    <2>1. \/ rx' = rxIdle
          \/ rx' = [rx EXCEPT !.pc = "store", !.old = flags,
                              !.new = [flags EXCEPT !.pm = dozes],
                              !.then = IF dozes THEN "idle" ELSE "flush"]
      BY <1>6 DEF Input, RxChanges, RxDone
    <2>2. UNCHANGED <<flags, txok>>
      BY <1>6 DEF Input
    <2>3. [flags EXCEPT !.pm = dozes] \in Flags
      BY DEF Flags
    <2>. HIDE DEF dozes
    <2>4. rx' \in RxState /\ rx'.pc # "clear"
      <3>1. CASE rx' = rxIdle
        BY <3>1, RxIdleType
      <3>. QED  BY <2>1, <2>3, <3>1 DEF RxState, RxPcs, RxThens
    <2>. QED  BY <2>2, <2>4 DEF FlagTypes
  <1>7. CASE FlushOne \/ RecvPsPoll
    <2>1. \/ rx' = rx \/ rx' = rxIdle
          \/ rx' = [rx EXCEPT !.pc = "clear", !.then = "idle", !.n = 0]
      BY <1>7 DEF FlushOne, RecvPsPoll, RxClears, RxDone
    <2>2. rx' \in RxState /\ (rx'.pc = "clear" => rx'.then \in {"idle", "input"})
      <3>1. CASE rx' = [rx EXCEPT !.pc = "clear", !.then = "idle", !.n = 0]
        BY <3>1 DEF RxState, RxPcs, RxThens
      <3>. QED  BY <2>1, <3>1, RxIdleType
    <2>. QED  BY <1>7, <2>2 DEF FlushOne, RecvPsPoll, FlagTypes
  <1>8. CASE RxClearTim \/ InputForwards
    <2>1. rx' = rxIdle \/ (rx' = [rx EXCEPT !.pc = rx.then] /\ rx.then \in {"idle", "input"})
      BY <1>8 DEF RxClearTim, InputForwards, RxDone
    <2>2. rx' \in RxState /\ rx'.pc # "clear"
      BY <2>1, RxIdleType DEF RxState, RxPcs, RxThens
    <2>. QED  BY <1>8, <2>2 DEF RxClearTim, InputForwards, FlagTypes
  <1>9. CASE CompleteUapsd \/ TxokStore
    <2>1. rx' = rx /\ (txok' = txok \/ txok' = [pc |-> "store", old |-> flags]
                        \/ txok' = txokIdle)
      BY <1>9 DEF CompleteUapsd, TxokStore
    <2>2. txok.old \in Flags /\ txokIdle \in TxokState
      BY FlagsUpdated DEF TxokState, txokIdle, rxIdle
    <2>3. txok' \in TxokState
      BY <2>1, <2>2 DEF TxokState
    <2>4. flags' = flags \/ flags' = [txok.old EXCEPT !.sp = FALSE]
      BY <1>9 DEF CompleteUapsd, TxokStore
    <2>. QED  BY <2>1, <2>2, <2>3, <2>4, FlagsUpdated DEF FlagTypes
  <1>10. CASE UNCHANGED <<flags, rx, txok>>
    BY <1>10 DEF FlagTypes
  <1>. QED
    BY <1>1, <1>2, <1>3, <1>4, <1>5, <1>6, <1>7, <1>8, <1>9, <1>10
    DEF Next, vars, Sender, Rx, Txok, Ager, NewFrame, TimForUapsd, QueueUapsd,
        StartData, HoldFrame, TimForFirst, SendMcast, CompleteMcast, AgeLook,
        AgePass, AgeCheck, AgeClearTim, Beacon, Turn, TriggerUnasked

-----------------------------------------------------------------------------
(* The ages.  The frames that have reached 0 are the first Discards ones,  *)
(* and the age of no other is 0.                                           *)
LEMMA ExpiredPrefix ==
    ASSUME psq \in Seq(0 .. AgeInit), AgeInit \in Nat
    PROVE  /\ Discards \in 0 .. Len(psq)
           /\ Expired = 1 .. Discards
  <1>1. /\ Len(psq) \in Nat /\ DOMAIN psq = 1 .. Len(psq)
        /\ Expired \subseteq 1 .. Len(psq)
        /\ \A i \in Expired : 1 .. i \subseteq Expired
    BY DEF Expired
  <1>2. \A i \in Nat : IsFiniteSet(1 .. i) /\ Cardinality(1 .. i) = i
    <2>1. ASSUME NEW i \in Nat
          PROVE  /\ IsFiniteSet(1 .. i)
                 /\ Cardinality(1 .. i) = IF 1 > i THEN 0 ELSE i - 1 + 1
      <3>1. 1 \in Int /\ i \in Int
        OBVIOUS
      <3>. QED  BY ONLY <3>1, FS_Interval
    <2>. QED  BY <2>1
  <1>3. IsFiniteSet(Expired) /\ Discards <= Len(psq) /\ Discards \in Nat
    <2>1. IsFiniteSet(1 .. Len(psq)) /\ Cardinality(1 .. Len(psq)) = Len(psq)
      BY <1>1, <1>2
    <2>2. IsFiniteSet(Expired) /\ Cardinality(Expired) <= Len(psq)
      BY <1>1, <2>1, FS_Subset
    <2>. QED  BY <2>2, FS_CardinalityType DEF Discards
  <1>4. ASSUME NEW i \in Expired  PROVE  i <= Discards
    <2>1. 1 .. i \subseteq Expired /\ i \in Nat
      BY <1>1
    <2>2. Cardinality(1 .. i) <= Cardinality(Expired)
      BY <2>1, <1>3, FS_Subset
    <2>. QED  BY <2>1, <2>2, <1>2 DEF Discards
  <1>5. Expired \subseteq 1 .. Discards
    BY <1>1, <1>3, <1>4
  <1>6. Expired = 1 .. Discards
    <2>1. IsFiniteSet(1 .. Discards) /\ Cardinality(1 .. Discards) = Discards
      BY <1>2, <1>3
    <2>2. Cardinality(1 .. Discards) = Cardinality(Expired)
      BY <2>1 DEF Discards
    <2>. QED  BY <1>5, <2>1, <2>2, FS_Subset
  <1>. QED  BY <1>3, <1>6, <1>1

LEMMA Passed ==
    ASSUME psq \in Seq(0 .. AgeInit), AgeInit \in Nat, ager.len \in Nat,
           AgesGrow, AgePass
    PROVE  psq' \in Seq(0 .. AgeInit) /\ Len(psq') <= Len(psq) /\ AgesGrow'
  <1>. DEFINE d == Discards
              new(i) == IF i + d <= ager.len THEN psq[i + d] - 1 ELSE psq[i + d]
  <1>1. /\ Len(psq) \in Nat /\ DOMAIN psq = 1 .. Len(psq)
        /\ \A i \in 1 .. Len(psq) : psq[i] \in 0 .. AgeInit
        /\ d \in 0 .. Len(psq) /\ Expired = 1 .. d
    BY ExpiredPrefix
  <1>2. psq' = [i \in 1 .. (Len(psq) - d) |-> new(i)]
    BY DEF AgePass
  <1>3. ASSUME NEW i \in 1 .. (Len(psq) - d)  PROVE  psq[i + d] >= 1
    <2>1. i + d \in 1 .. Len(psq) /\ i + d \notin Expired
      BY <1>1
    <2>2. PICK j \in 1 .. i + d : psq[j] # 0
      BY <2>1, <1>1 DEF Expired
    <2>3. psq[j] <= psq[i + d] /\ j \in 1 .. Len(psq)
      <3>. HIDE DEF d
      <3>. QED  BY <2>1, <2>2, <1>1 DEF AgesGrow
    <2>4. psq[j] \in Nat /\ psq[i + d] \in Nat
      BY <2>1, <2>3, <1>1
    <2>. QED  BY <2>2, <2>3, <2>4
  <1>. HIDE DEF d
  <1>4. \A i \in 1 .. (Len(psq) - d) : i + d \in 1 .. Len(psq) /\ new(i) \in 0 .. AgeInit
    BY <1>1, <1>3
  <1>5. /\ psq' \in Seq(0 .. AgeInit) /\ Len(psq') = Len(psq) - d
        /\ DOMAIN psq' = 1 .. (Len(psq) - d)
        /\ \A i \in 1 .. (Len(psq) - d) : psq'[i] = new(i)
    <2>. HIDE DEF new
    <2>1. Len(psq) - d \in Nat
      BY <1>1
    <2>2. psq' \in [1 .. (Len(psq) - d) -> 0 .. AgeInit]
      BY <1>2, <1>4
    <2>3. psq' \in Seq(0 .. AgeInit) /\ Len(psq') = Len(psq) - d
      BY <2>1, <2>2
    <2>. QED  BY <2>3, <1>2
  <1>6. ASSUME NEW i \in 1 .. (Len(psq) - d), NEW j \in 1 .. i
        PROVE  new(j) <= new(i)
    <2>1. /\ i + d \in 1 .. Len(psq) /\ j + d \in 1 .. i + d
          /\ j \in 1 .. (Len(psq) - d)
      BY <1>1
    <2>2. psq[j + d] <= psq[i + d]
      BY <2>1, <1>1 DEF AgesGrow
    <2>. QED  BY <2>1, <2>2, <1>1
  <1>7. AgesGrow'
    <2>1. ASSUME NEW i \in DOMAIN psq', NEW j \in 1 .. i  PROVE  psq'[j] <= psq'[i]
      <3>1. i \in 1 .. (Len(psq) - d) /\ j \in 1 .. (Len(psq) - d)
        BY <1>1, <1>5, <2>1
      <3>2. new(j) <= new(i)
        BY <3>1, <1>6
      <3>. HIDE DEF new
      <3>. QED  BY <3>1, <3>2, <1>5
    <2>. QED  BY <2>1 DEF AgesGrow
  <1>. QED  BY <1>1, <1>5, <1>7

(* A frame is held with the greatest age, and leaves from the front.       *)
LEMMA Taken ==
    ASSUME psq \in Seq(0 .. AgeInit), AgesGrow, psq # <<>>
    PROVE  /\ Tail(psq) \in Seq(0 .. AgeInit) /\ Len(Tail(psq)) = Len(psq) - 1
           /\ psq' = Tail(psq) => AgesGrow'
  <1>1. /\ Tail(psq) \in Seq(0 .. AgeInit) /\ Len(Tail(psq)) = Len(psq) - 1
        /\ Len(psq) \in Nat
        /\ \A i \in 1 .. Len(psq) - 1 : Tail(psq)[i] = psq[i + 1]
    BY HeadTailProperties
  <1>2. ASSUME psq' = Tail(psq), NEW i \in DOMAIN psq', NEW j \in 1 .. i
        PROVE  psq'[j] <= psq'[i]
    <2>1. i \in 1 .. Len(psq) - 1 /\ j \in 1 .. Len(psq) - 1
      BY <1>1, <1>2
    <2>2. psq[j + 1] <= psq[i + 1]
      BY <2>1, <1>1 DEF AgesGrow
    <2>. QED  BY <2>1, <2>2, <1>1, <1>2
  <1>. QED  BY <1>1, <1>2 DEF AgesGrow

LEMMA Held ==
    ASSUME psq \in Seq(0 .. AgeInit), AgesGrow, AgeInit \in Nat
    PROVE  /\ Append(psq, AgeInit) \in Seq(0 .. AgeInit)
           /\ Len(Append(psq, AgeInit)) = Len(psq) + 1
           /\ psq' = Append(psq, AgeInit) => AgesGrow'
  <1>1. /\ Append(psq, AgeInit) \in Seq(0 .. AgeInit)
        /\ Len(Append(psq, AgeInit)) = Len(psq) + 1 /\ Len(psq) \in Nat
        /\ \A i \in 1 .. Len(psq) : /\ Append(psq, AgeInit)[i] = psq[i]
                                    /\ psq[i] \in 0 .. AgeInit
        /\ Append(psq, AgeInit)[Len(psq) + 1] = AgeInit
    BY AppendProperties
  <1>2. ASSUME psq' = Append(psq, AgeInit), NEW i \in DOMAIN psq', NEW j \in 1 .. i
        PROVE  psq'[j] <= psq'[i]
    <2>1. i \in 1 .. Len(psq) + 1 /\ j \in 1 .. Len(psq) + 1
      BY <1>1, <1>2
    <2>2. CASE i = Len(psq) + 1
      <3>1. psq'[j] \in 0 .. AgeInit /\ psq'[i] = AgeInit
        BY <2>1, <2>2, <1>1, <1>2
      <3>. QED  BY <3>1
    <2>3. CASE i # Len(psq) + 1
      <3>1. i \in 1 .. Len(psq) /\ j \in 1 .. Len(psq)
        BY <2>1, <2>3, <1>1
      <3>2. psq[j] <= psq[i]
        BY <3>1 DEF AgesGrow
      <3>. QED  BY <3>1, <3>2, <1>1, <1>2
    <2>. QED  BY <2>2, <2>3
  <1>. QED  BY <1>1, <1>2 DEF AgesGrow

LEMMA AgesStep ==
    ASSUME Types, BoundsAssumption, AgesGrow, [Next]_vars
    PROVE  /\ psq' \in Seq(0 .. AgeInit) /\ AgesGrow'
           /\ \/ psq' = psq
              \/ psq # <<>> /\ Len(psq') <= Len(psq)
              \/ /\ \E s \in Senders : HoldFrame(s)
                 /\ Len(psq') = Len(psq) + 1
  <1>1. /\ psq \in Seq(0 .. AgeInit) /\ AgeInit \in Nat /\ ager.len \in Nat
        /\ Len(psq) \in Nat /\ (psq = <<>> <=> Len(psq) = 0)
    BY BoundsAssumption DEF Types, QueueTypes, OtherTypes, AgerState
  <1>2. CASE AgePass
    <2>1. psq' # psq => psq # <<>>
      BY <1>1, <1>2, ExpiredPrefix DEF AgePass
    <2>. QED  BY <1>1, <1>2, <2>1, Passed
  <1>3. CASE FlushOne \/ RecvPsPoll
    <2>1. psq' = IF psq = <<>> THEN psq ELSE Tail(psq)
      BY <1>3 DEF FlushOne, RecvPsPoll
    <2>2. CASE psq = <<>>
      BY <2>1, <2>2, <1>1 DEF AgesGrow
    <2>3. CASE psq # <<>>
      <3>1. /\ Tail(psq) \in Seq(0 .. AgeInit) /\ Len(Tail(psq)) = Len(psq) - 1
            /\ psq' = Tail(psq) => AgesGrow'
        BY ONLY <2>3, <1>1, AgesGrow, Taken
      <3>2. psq' = Tail(psq) /\ AgesGrow'
        BY <2>1, <2>3, <3>1
      <3>3. Len(psq') <= Len(psq)
        BY <3>1, <3>2, <1>1
      <3>. QED  BY <2>3, <3>1, <3>2, <3>3
    <2>. QED  BY <2>2, <2>3
  <1>4. CASE \E s \in Senders : HoldFrame(s)
    <2>1. psq' = Append(psq, AgeInit)
      BY <1>4 DEF HoldFrame
    <2>. QED  BY <1>1, <1>4, <2>1, Held
  <1>5. CASE UNCHANGED psq
    BY <1>1, <1>5 DEF AgesGrow
  <1>. QED
    BY <1>2, <1>3, <1>4, <1>5
    DEF Next, vars, queues, Sender, Rx, Txok, Ager, NewFrame, TimForUapsd, QueueUapsd,
        StartData, TimForFirst, SendMcast, Receive, RxStore, Trigger, TriggerSend,
        TriggerEnd, Input, RxClearTim, InputForwards, CompleteUapsd, TxokStore,
        CompleteMcast, AgeLook, AgeCheck, AgeClearTim, Beacon, BeaconMulticast,
        Turn, TriggerUnasked


-----------------------------------------------------------------------------
(* The other queues, the threads and the budget.                           *)
LEMMA SpendType ==
    ASSUME left \in Scenario, NEW e \in {"frame", "mcast", "turn", "trigger", "forward"},
           Spend(e)
    PROVE  left' \in Scenario /\ left'.room = left.room /\ left'.uapsd = left.uapsd
  <1>1. left[e] \in Nat /\ left[e] > 0 /\ left' = [left EXCEPT ![e] = left[e] - 1]
    BY DEF Scenario, Spend
  <1>2. left[e] - 1 \in Nat
    BY <1>1
  <1>. QED  BY <1>1, <1>2 DEF Scenario

LEMMA LeftStep ==
    ASSUME left \in Scenario, [Next]_vars
    PROVE  left' \in Scenario /\ left'.room = left.room /\ left'.uapsd = left.uapsd
  <1>1. CASE \E e \in {"frame", "mcast", "turn", "trigger", "forward"} : Spend(e)
    BY <1>1, SpendType
  <1>2. CASE UNCHANGED left
    BY <1>2
  <1>. QED
    BY <1>1, <1>2
    DEF Next, vars, queues, hal, peer, Sender, Rx, Txok, Ager, NewFrame, TimForUapsd,
        QueueUapsd, StartData, HoldFrame, TimForFirst, SendMcast, Receive, RxStore,
        Trigger, TriggerSend, TriggerEnd, Input, FlushOne, RecvPsPoll, RxClearTim,
        InputForwards, CompleteUapsd, TxokStore, CompleteMcast, AgeLook, AgePass,
        AgeCheck, AgeClearTim, Beacon, Turn, TriggerUnasked

LEMMA HalQueued ==
    ASSUME NEW e \in {"more", "eosp"}, uapsdHal \in Seq({"more", "eosp"})
    PROVE  /\ Append(uapsdHal, e) \in Seq({"more", "eosp"})
           /\ Len(Append(uapsdHal, e)) = Len(uapsdHal) + 1 /\ Len(uapsdHal) \in Nat
           /\ \A i \in 1 .. Len(uapsdHal) : Append(uapsdHal, e)[i] = uapsdHal[i]
           /\ Append(uapsdHal, e)[Len(uapsdHal) + 1] = e
  BY AppendProperties

LEMMA HalTaken ==
    ASSUME uapsdHal \in Seq({"more", "eosp"}), uapsdHal # <<>>
    PROVE  /\ Tail(uapsdHal) \in Seq({"more", "eosp"})
           /\ Len(Tail(uapsdHal)) = Len(uapsdHal) - 1 /\ Len(uapsdHal) \in Nat \ {0}
           /\ \A i \in 1 .. Len(uapsdHal) - 1 : Tail(uapsdHal)[i] = uapsdHal[i + 1]
           /\ uapsdHal[1] = Head(uapsdHal) /\ Head(uapsdHal) \in {"more", "eosp"}
  BY HeadTailProperties

(* What the ring of the HAL gets and loses.                                *)
LEMMA HalStep ==
    ASSUME Types, [Next]_vars
    PROVE  /\ uapsdHal' \in Seq({"more", "eosp"}) /\ Len(uapsdHal') < left.room
           /\ \/ uapsdHal' = uapsdHal
              \/ TriggerSend
              \/ CompleteUapsd
  <1>1. /\ uapsdHal \in Seq({"more", "eosp"}) /\ Len(uapsdHal) < left.room
        /\ Len(uapsdHal) \in Nat /\ left.room \in Nat
    BY DEF Types, QueueTypes, OtherTypes, Scenario
  <1>2. CASE TriggerSend
    <2>1. ~ HalFull(1) /\ \E e \in {"more", "eosp"} : uapsdHal' = Append(uapsdHal, e)
      BY <1>2 DEF TriggerSend
    <2>2. left.room - Len(uapsdHal) >= 2
      BY <2>1, <1>1 DEF HalFull
    <2>. QED  BY <1>1, <1>2, <2>1, <2>2, HalQueued
  <1>3. CASE CompleteUapsd
    <2>1. uapsdHal # <<>> /\ uapsdHal' = Tail(uapsdHal)
      BY <1>3 DEF CompleteUapsd
    <2>. QED  BY <1>1, <1>3, <2>1, HalTaken
  <1>4. CASE UNCHANGED uapsdHal
    BY <1>1, <1>4
  <1>. QED
    BY <1>2, <1>3, <1>4
    DEF Next, vars, queues, hal, peer, Sender, Rx, Txok, Ager, NewFrame, TimForUapsd,
        QueueUapsd, StartData, HoldFrame, TimForFirst, SendMcast, Receive, RxStore,
        Trigger, TriggerEnd, Input, FlushOne, RecvPsPoll, RxClearTim,
        InputForwards, TxokStore, CompleteMcast, AgeLook, AgePass,
        AgeCheck, AgeClearTim, Beacon, Turn, TriggerUnasked

LEMMA CountersStep ==
    ASSUME Types, [Next]_vars
    PROVE  uapsdq' \in Nat /\ mcq' \in Nat /\ mcHal' \in Nat /\ mcFlag' \in BOOLEAN
  <1>1. uapsdq \in Nat /\ mcq \in Nat /\ mcHal \in Nat /\ mcFlag \in BOOLEAN
    BY DEF Types, QueueTypes, OtherTypes
  <1>2. CASE TriggerSend
    BY <1>1, <1>2 DEF TriggerSend
  <1>3. CASE \E s \in Senders : QueueUapsd(s) \/ SendMcast(s)
    BY <1>1, <1>3 DEF QueueUapsd, SendMcast, queues, hal
  <1>4. CASE CompleteMcast
    BY <1>1, <1>4 DEF CompleteMcast
  <1>5. CASE Beacon
    <2>1. uapsdq' = uapsdq /\ \E n \in {mcHal, mcHal + mcq} : mcHal' = n
      BY <1>5 DEF Beacon, BeaconMulticast
    <2>2. mcq' = 0 \/ mcq' = mcq
      BY <1>5 DEF Beacon, BeaconMulticast
    <2>3. mcFlag' \in BOOLEAN
      <3>1. CASE mcFlag
        BY <3>1, <1>5 DEF Beacon, BeaconMulticast
      <3>2. CASE ~ mcFlag
        <4>1. mcFlag' = (mcq # 0 /\ psSta # 0)
          BY <3>2, <1>5 DEF Beacon, BeaconMulticast
        <4>. QED  BY <4>1
      <3>. QED  BY <3>1, <3>2
    <2>. QED  BY <1>1, <2>1, <2>2, <2>3
  <1>6. CASE UNCHANGED <<uapsdq, mcq, mcHal, mcFlag>>
    BY <1>1, <1>6
  <1>. QED
    BY <1>2, <1>3, <1>4, <1>5, <1>6
    DEF Next, vars, queues, hal, peer, Sender, Rx, Txok, Ager, NewFrame, TimForUapsd,
        StartData, HoldFrame, TimForFirst, Receive, RxStore,
        Trigger, TriggerEnd, Input, FlushOne, RecvPsPoll, RxClearTim,
        InputForwards, CompleteUapsd, TxokStore, AgeLook, AgePass,
        AgeCheck, AgeClearTim, Turn, TriggerUnasked

LEMMA SndStep ==
    ASSUME snd \in [Senders -> SndPcs], [Next]_vars
    PROVE  snd' \in [Senders -> SndPcs]
  <1>1. ASSUME NEW s \in Senders, NewFrame(s)  PROVE  snd' \in [Senders -> SndPcs]
    BY <1>1 DEF NewFrame, SndPcs
  <1>2. ASSUME NEW s \in Senders, Sender(s)  PROVE  snd' \in [Senders -> SndPcs]
    BY <1>2 DEF Sender, TimForUapsd, QueueUapsd, StartData, HoldFrame, TimForFirst,
                SendMcast, SndPcs
  <1>3. CASE UNCHANGED snd
    BY <1>3
  <1>. QED
    BY <1>1, <1>2, <1>3
    DEF Next, vars, Rx, Txok, Ager, Receive, RxStore, Trigger, TriggerSend, TriggerEnd,
        Input, FlushOne, RecvPsPoll, RxClearTim, InputForwards, CompleteUapsd,
        TxokStore, CompleteMcast, AgeLook, AgePass, AgeCheck, AgeClearTim, Beacon,
        Turn, TriggerUnasked

LEMMA AgerStep ==
    ASSUME ager \in AgerState, psq \in Seq(0 .. AgeInit), [Next]_vars
    PROVE  ager' \in AgerState
  <1>1. CASE AgeLook \/ AgePass
    <2>1. Len(psq) \in Nat
      OBVIOUS
    <2>2. \/ ager' = [pc |-> "pass", len |-> Len(psq)]
          \/ \E p \in {"idle", "check"} : ager' = [pc |-> p, len |-> 0]
      BY <1>1 DEF AgeLook, AgePass
    <2>. QED  BY <2>1, <2>2 DEF AgerState
  <1>2. CASE AgeCheck \/ AgeClearTim
    <2>1. \E p \in {"idle", "clear"} : ager' = [ager EXCEPT !.pc = p]
      BY <1>2 DEF AgeCheck, AgeClearTim
    <2>. QED  BY <2>1 DEF AgerState
  <1>3. CASE UNCHANGED ager
    BY <1>3
  <1>. QED
    BY <1>1, <1>2, <1>3
    DEF Next, vars, Sender, Rx, Txok, Ager, NewFrame, TimForUapsd,
        QueueUapsd, StartData, HoldFrame, TimForFirst, SendMcast, Receive, RxStore,
        Trigger, TriggerSend, TriggerEnd, Input, FlushOne, RecvPsPoll, RxClearTim,
        InputForwards, CompleteUapsd, TxokStore, CompleteMcast,
        Beacon, Turn, TriggerUnasked

LEMMA AirStep ==
    ASSUME air \in Seq(PeerFrames), doze \in BOOLEAN, [Next]_vars
    PROVE  air' \in Seq(PeerFrames) /\ doze' \in BOOLEAN
  <1>1. CASE Receive
    <2>1. air # <<>> /\ air' = Tail(air) /\ doze' = doze
      BY <1>1 DEF Receive
    <2>. QED  BY <2>1, HeadTailProperties
  <1>2. CASE Beacon
    <2>1. doze' = doze /\ (air' = air \/ air' = <<"trigger">> \/ air' = <<"poll">>)
      BY <1>2 DEF Beacon
    <2>2. <<"trigger">> \in Seq(PeerFrames) /\ <<"poll">> \in Seq(PeerFrames)
      BY DEF PeerFrames
    <2>. QED  BY <2>1, <2>2
  <1>3. CASE Turn \/ TriggerUnasked
    <2>1. \E k \in {"on", "off", "trigger"} : air' = Append(air, k)
      BY <1>3 DEF Turn, TriggerUnasked
    <2>2. doze' = doze \/ doze' = ~ doze
      BY <1>3 DEF Turn, TriggerUnasked
    <2>3. air' \in Seq(PeerFrames)
      BY <2>1, AppendProperties DEF PeerFrames
    <2>. QED  BY <2>2, <2>3
  <1>4. CASE UNCHANGED peer
    BY <1>4 DEF peer
  <1>. QED
    BY <1>1, <1>2, <1>3, <1>4
    DEF Next, vars, Sender, Rx, Txok, Ager, NewFrame, TimForUapsd,
        QueueUapsd, StartData, HoldFrame, TimForFirst, SendMcast, RxStore,
        Trigger, TriggerSend, TriggerEnd, Input, FlushOne, RecvPsPoll, RxClearTim,
        InputForwards, CompleteUapsd, TxokStore, CompleteMcast, AgeLook, AgePass,
        AgeCheck, AgeClearTim, peer

LEMMA PsStaStep ==
    ASSUME psSta \in Nat, psSta < 65536, [Next]_vars
    PROVE  psSta' \in Nat /\ psSta' < 65536
  <1>1. CASE Input
    <2>1. psSta' = psSta \/ \E n \in {psSta + 1, psSta + 65535} : psSta' = n % 65536
      BY <1>1 DEF Input
    <2>. QED  BY <2>1
  <1>2. CASE UNCHANGED psSta
    BY <1>2
  <1>. QED
    BY <1>1, <1>2
    DEF Next, vars, Sender, Rx, Txok, Ager, NewFrame, TimForUapsd,
        QueueUapsd, StartData, HoldFrame, TimForFirst, SendMcast, Receive, RxStore,
        Trigger, TriggerSend, TriggerEnd, FlushOne, RecvPsPoll, RxClearTim,
        InputForwards, CompleteUapsd, TxokStore, CompleteMcast, AgeLook, AgePass,
        AgeCheck, AgeClearTim, Beacon, Turn, TriggerUnasked

LEMMA TimStep ==
    ASSUME [Next]_vars
    PROVE  \/ tim' = tim
           \/ tim' = TRUE
           \/ tim' = FALSE /\ (RxClearTim \/ AgeClearTim)
  <1>1. \/ UNCHANGED tim
        \/ \E s \in Senders : TimForUapsd(s) \/ TimForFirst(s)
        \/ RxClearTim \/ AgeClearTim
    BY DEF Next, vars, Sender, Rx, Txok, Ager, NewFrame,
        QueueUapsd, StartData, HoldFrame, SendMcast, Receive, RxStore,
        Trigger, TriggerSend, TriggerEnd, Input, FlushOne, RecvPsPoll,
        InputForwards, CompleteUapsd, TxokStore, CompleteMcast, AgeLook, AgePass,
        AgeCheck, Beacon, Turn, TriggerUnasked
  <1>2. ASSUME NEW s \in Senders, TimForUapsd(s) \/ TimForFirst(s)
        PROVE  tim' = TRUE
    BY <1>2 DEF TimForUapsd, TimForFirst
  <1>3. ASSUME RxClearTim \/ AgeClearTim  PROVE  tim' = FALSE
    BY <1>3 DEF RxClearTim, AgeClearTim
  <1>4. CASE tim' = TRUE \/ tim' = tim
    BY <1>4
  <1>5. CASE RxClearTim \/ AgeClearTim
    BY <1>5, <1>3
  <1>. QED  BY <1>1, <1>2, <1>4, <1>5

(* The races only add up; each part says which step makes one.             *)
GhostGrows == (ghost.torn => ghost'.torn) /\ (ghost.stale => ghost'.stale)

LEMMA GhostSet ==
    ASSUME ghost \in Ghosts, NEW b \in BOOLEAN
    PROVE  /\ ghost' = [ghost EXCEPT !.torn = ghost.torn \/ b] =>
                /\ ghost' \in Ghosts /\ GhostGrows /\ (b => ghost'.torn)
                /\ ghost'.stale = ghost.stale
           /\ ghost' = [ghost EXCEPT !.stale = ghost.stale \/ b] =>
                /\ ghost' \in Ghosts /\ GhostGrows /\ (b => ghost'.stale)
                /\ ghost'.torn = ghost.torn
  <1>1. ghost.torn \in BOOLEAN /\ ghost.stale \in BOOLEAN
    BY DEF Ghosts
  <1>2. (ghost.torn \/ b) \in BOOLEAN /\ (ghost.stale \/ b) \in BOOLEAN
    OBVIOUS
  <1>3. ASSUME NEW c \in BOOLEAN, c <=> (ghost.torn \/ b),
               ghost' = [ghost EXCEPT !.torn = c]
        PROVE  /\ ghost' \in Ghosts /\ GhostGrows /\ (b => ghost'.torn)
               /\ ghost'.stale = ghost.stale
    <2>1. ghost' \in Ghosts /\ ghost'.torn = c /\ ghost'.stale = ghost.stale
      BY <1>3 DEF Ghosts
    <2>. QED  BY <2>1, <1>3 DEF GhostGrows
  <1>4. ASSUME NEW c \in BOOLEAN, c <=> (ghost.stale \/ b),
               ghost' = [ghost EXCEPT !.stale = c]
        PROVE  /\ ghost' \in Ghosts /\ GhostGrows /\ (b => ghost'.stale)
               /\ ghost'.torn = ghost.torn
    <2>1. ghost' \in Ghosts /\ ghost'.stale = c /\ ghost'.torn = ghost.torn
      BY <1>4 DEF Ghosts
    <2>. QED  BY <2>1, <1>4 DEF GhostGrows
  <1>. QED  BY <1>2, <1>3, <1>4

LEMMA GhostStep ==
    ASSUME ghost \in Ghosts, [Next]_vars
    PROVE  /\ ghost' \in Ghosts /\ GhostGrows
           /\ RxStore /\ flags # rx.old => ghost'.torn
           /\ TxokStore /\ flags # txok.old => ghost'.torn
           /\ \A s \in Senders : HoldFrame(s) /\ ((psq = <<>> /\ Clearing) \/ AllAcs)
                => ghost'.stale
  <1>. DEFINE Sound == ghost' \in Ghosts /\ GhostGrows
  <1>1. ASSUME RxStore
        PROVE  Sound /\ (flags # rx.old => ghost'.torn)
    <2>. DEFINE b == flags # rx.old
    <2>1. b \in BOOLEAN /\ ghost' = [ghost EXCEPT !.torn = ghost.torn \/ b]
      BY <1>1 DEF RxStore
    <2>. HIDE DEF b
    <2>2. Sound /\ (b => ghost'.torn)
      BY <2>1, GhostSet
    <2>. QED  BY <2>2 DEF b
  <1>2. ASSUME TxokStore
        PROVE  Sound /\ (flags # txok.old => ghost'.torn)
    <2>. DEFINE b == flags # txok.old
    <2>1. b \in BOOLEAN /\ ghost' = [ghost EXCEPT !.torn = ghost.torn \/ b]
      BY <1>2 DEF TxokStore
    <2>. HIDE DEF b
    <2>2. Sound /\ (b => ghost'.torn)
      BY <2>1, GhostSet
    <2>. QED  BY <2>2 DEF b
  <1>3. ASSUME NEW s \in Senders, HoldFrame(s)
        PROVE  Sound /\ ((psq = <<>> /\ Clearing) \/ AllAcs => ghost'.stale)
    <2>. DEFINE b == (psq = <<>> /\ Clearing) \/ AllAcs
    <2>1. b \in BOOLEAN /\ ghost' = [ghost EXCEPT !.stale = ghost.stale \/ b]
      BY <1>3 DEF HoldFrame
    <2>. HIDE DEF b
    <2>2. Sound /\ (b => ghost'.stale)
      BY <2>1, GhostSet
    <2>. QED  BY <2>2 DEF b
  <1>4. ASSUME NEW s \in Senders, QueueUapsd(s)  PROVE  Sound
    <2>. DEFINE b == Clearing \/ ~ flags.trig \/ (AllAcs /\ ~ tim)
    <2>1. b \in BOOLEAN /\ ghost' = [ghost EXCEPT !.stale = ghost.stale \/ b]
      BY <1>4 DEF QueueUapsd
    <2>. HIDE DEF b
    <2>. QED  BY <2>1, GhostSet
  <1>5. ASSUME Trigger  PROVE  Sound
    <2>. DEFINE b == uapsdq # 0 /\ HalFull(1)
    <2>1. b \in BOOLEAN /\ ghost' = [ghost EXCEPT !.stale = ghost.stale \/ b]
      BY <1>5 DEF Trigger
    <2>. HIDE DEF b
    <2>. QED  BY <2>1, GhostSet
  <1>6. ASSUME TriggerEnd  PROVE  Sound
    <2>. DEFINE b == rx.k = "off" /\ uapsdq # 0
    <2>1. b \in BOOLEAN /\ ghost' = [ghost EXCEPT !.stale = ghost.stale \/ b]
      BY <1>6 DEF TriggerEnd
    <2>. HIDE DEF b
    <2>. QED  BY <2>1, GhostSet
  <1>7. ASSUME UNCHANGED ghost  PROVE  Sound
    BY <1>7 DEF GhostGrows
  <1>. HIDE DEF Sound
  <1>8. Sound
    <2>1. \/ RxStore \/ TxokStore \/ Trigger \/ TriggerEnd \/ UNCHANGED ghost
          \/ \E s \in Senders : QueueUapsd(s) \/ HoldFrame(s)
      BY DEF Next, vars, Sender, Rx, Txok, Ager, NewFrame, TimForUapsd,
        StartData, TimForFirst, SendMcast, Receive,
        TriggerSend, Input, FlushOne, RecvPsPoll, RxClearTim,
        InputForwards, CompleteUapsd, CompleteMcast, AgeLook, AgePass,
        AgeCheck, AgeClearTim, Beacon, Turn, TriggerUnasked
    <2>. QED  BY <2>1, <1>1, <1>2, <1>3, <1>4, <1>5, <1>6, <1>7
  <1>. QED  BY <1>8, <1>1, <1>2, <1>3 DEF Sound

LEMMA TypesStep ==
    ASSUME Types, BoundsAssumption, AgesGrow, [Next]_vars
    PROVE  Types'
  <1>1. FlagTypes /\ QueueTypes /\ OtherTypes
    BY DEF Types
  <1>2. FlagTypes'
    BY <1>1, FlagTypesStep DEF QueueTypes
  <1>3. left' \in Scenario /\ left'.room = left.room
    BY <1>1, LeftStep DEF OtherTypes
  <1>4. QueueTypes'
    BY <1>3, AgesStep, HalStep, CountersStep DEF QueueTypes
  <1>5. OtherTypes'
    <2>0. psSta \in Nat /\ psSta < 65536
      BY <1>1 DEF OtherTypes
    <2>5. tim \in BOOLEAN
      BY <1>1 DEF OtherTypes
    <2>1. psSta' \in Nat /\ psSta' < 65536
      BY <2>0, PsStaStep
    <2>4. tim' \in BOOLEAN
      <3>1. \/ tim' = tim
            \/ tim' = TRUE
            \/ tim' = FALSE
        BY TimStep
      <3>. QED  BY <2>5, <3>1
    <2>2. snd' \in [Senders -> SndPcs] /\ ager' \in AgerState
      BY <1>1, SndStep, AgerStep DEF OtherTypes, QueueTypes
    <2>3. air' \in Seq(PeerFrames) /\ doze' \in BOOLEAN /\ ghost' \in Ghosts
      BY <1>1, AirStep, GhostStep DEF OtherTypes
    <2>. QED  BY <1>3, <2>1, <2>2, <2>3, <2>4, CountersStep DEF OtherTypes
  <1>. QED  BY <1>2, <1>4, <1>5 DEF Types

-----------------------------------------------------------------------------
(* The queue of held frames: between the check of the limit and the append *)
(* each sender may add one.                                                *)
LEMMA HoldersFinite ==
    /\ IsFiniteSet(Holders) /\ IsFiniteSet(Holders') /\ Cardinality(Senders) \in Nat
    /\ Cardinality(Holders) \in Nat /\ Cardinality(Holders) <= Cardinality(Senders)
    /\ Cardinality(Holders') \in Nat /\ Cardinality(Holders') <= Cardinality(Senders)
  <1>1. Holders \subseteq Senders /\ Holders' \subseteq Senders /\ IsFiniteSet(Senders)
    BY SendersAssumption DEF Holders
  <1>2. \A T \in SUBSET Senders :
           IsFiniteSet(T) /\ Cardinality(T) \in Nat /\ Cardinality(T) <= Cardinality(Senders)
    BY <1>1, FS_Subset, FS_CardinalityType
  <1>. QED  BY <1>1, <1>2, FS_CardinalityType

LEMMA HoldersStep ==
    ASSUME snd \in [Senders -> SndPcs], [Next]_vars
    PROVE  \/ Holders' = Holders /\ ~ \E s \in Senders : HoldFrame(s)
           \/ \E s \in Senders : StartData(s) /\ Len(psq) < MaxQueue /\ psq' = psq
           \/ \E s \in Senders : HoldFrame(s) /\ s \in Holders /\ Holders' = Holders \ {s}
  <1>1. ASSUME NEW s \in Senders, HoldFrame(s)
        PROVE  s \in Holders /\ Holders' = Holders \ {s}
    <2>1. /\ snd[s] = "hold" /\ \E p \in {"first", "idle"} : snd' = [snd EXCEPT ![s] = p]
      BY <1>1 DEF HoldFrame
    <2>. QED  BY <2>1 DEF Holders
  <1>2. ASSUME NEW s \in Senders, StartData(s), ~ (Len(psq) < MaxQueue)
        PROVE  Holders' = Holders
    <2>1. snd[s] = "data" /\ snd' = [snd EXCEPT ![s] = "idle"]
      BY <1>2 DEF StartData
    <2>. QED  BY <2>1 DEF Holders
  <1>3. ASSUME NEW s \in Senders, NewFrame(s) \/ TimForUapsd(s) \/ QueueUapsd(s)
                                  \/ TimForFirst(s) \/ SendMcast(s)
        PROVE  Holders' = Holders
    <2>1. /\ snd[s] \in {"idle", "tim", "uapsd", "first", "mcast", "mcastps"}
          /\ \E p \in SndPcs \ {"hold"} : snd' = [snd EXCEPT ![s] = p]
      BY <1>3 DEF NewFrame, TimForUapsd, QueueUapsd, TimForFirst, SendMcast, SndPcs
    <2>. QED  BY <2>1 DEF Holders
  <1>4. CASE UNCHANGED snd
    BY <1>4, <1>1 DEF Holders
  <1>5. \A s \in Senders : StartData(s) => psq' = psq
    BY DEF StartData, queues
  <1>6. \/ UNCHANGED snd
        \/ \E s \in Senders : HoldFrame(s) \/ StartData(s) \/ NewFrame(s)
             \/ TimForUapsd(s) \/ QueueUapsd(s) \/ TimForFirst(s) \/ SendMcast(s)
    BY DEF Next, vars, Sender, Rx, Txok, Ager, Receive, RxStore, Trigger, TriggerSend,
        TriggerEnd, Input, FlushOne, RecvPsPoll, RxClearTim, InputForwards,
        CompleteUapsd, TxokStore, CompleteMcast, AgeLook, AgePass, AgeCheck,
        AgeClearTim, Beacon, Turn, TriggerUnasked
  <1>. QED  BY <1>1, <1>2, <1>3, <1>4, <1>5, <1>6

LEMMA QueueBoundedStep ==
    ASSUME Types, BoundsAssumption, AgesGrow, QueueBounded, [Next]_vars
    PROVE  QueueBounded'
  <1>1. snd \in [Senders -> SndPcs] /\ Len(psq) \in Nat /\ MaxQueue \in Nat
    BY BoundsAssumption DEF Types, OtherTypes, QueueTypes
  <1>2. /\ Cardinality(Senders) \in Nat /\ Cardinality(Holders) \in Nat
        /\ Cardinality(Holders') \in Nat /\ Cardinality(Holders') <= Cardinality(Senders)
    BY HoldersFinite
  <1>3. /\ psq' \in Seq(0 .. AgeInit)
        /\ \/ psq' = psq
           \/ psq # <<>> /\ Len(psq') <= Len(psq)
           \/ (\E s \in Senders : HoldFrame(s)) /\ Len(psq') = Len(psq) + 1
    BY AgesStep
  <1>4. Len(psq') \in Nat
    BY <1>3
  <1>5. CASE Holders' = Holders /\ ~ \E s \in Senders : HoldFrame(s)
    <2>1. Len(psq') <= Len(psq)
      BY <1>1, <1>3, <1>5
    <2>. QED  BY <1>1, <1>2, <1>4, <1>5, <2>1 DEF QueueBounded
  <1>6. CASE Len(psq) < MaxQueue /\ psq' = psq
    BY <1>1, <1>2, <1>6 DEF QueueBounded
  <1>7. ASSUME NEW s \in Senders, s \in Holders, Holders' = Holders \ {s}
        PROVE  QueueBounded'
    <2>1. Cardinality(Holders \ {s}) = Cardinality(Holders) - 1
      BY <1>7, HoldersFinite, FS_RemoveElement
    <2>2. Cardinality(Holders') = Cardinality(Holders) - 1
      BY <1>7, <2>1
    <2>3. Len(psq') <= Len(psq) + 1
      BY <1>1, <1>3
    <2>. QED  BY <1>1, <1>2, <1>4, <2>2, <2>3 DEF QueueBounded
  <1>. QED  BY <1>1, <1>5, <1>6, <1>7, HoldersStep

-----------------------------------------------------------------------------
(* The service period.                                                     *)
LEMMA EospStep ==
    ASSUME Types, [Next]_vars, EospOnWay
    PROVE  EospOnWay' \/ TxokStore
  <1>1. uapsdHal \in Seq({"more", "eosp"}) /\ Len(uapsdHal) \in Nat
        /\ DOMAIN uapsdHal = 1 .. Len(uapsdHal)
    BY DEF Types, QueueTypes
  <1>2. CASE TriggerSend
    <2>1. /\ txok' = txok
          /\ \E e \in {"more", "eosp"} : uapsdHal' = Append(uapsdHal, e)
      BY <1>2 DEF TriggerSend
    <2>2. \A i \in 1 .. Len(uapsdHal) : i \in DOMAIN uapsdHal' /\ uapsdHal'[i] = uapsdHal[i]
      BY <1>1, <2>1, HalQueued
    <2>. QED  BY <1>1, <2>1, <2>2 DEF EospOnWay
  <1>3. CASE CompleteUapsd
    <2>1. /\ txok.pc = "idle" /\ uapsdHal # <<>> /\ uapsdHal' = Tail(uapsdHal)
          /\ Head(uapsdHal) = "eosp" => txok'.pc = "store"
      BY <1>3 DEF CompleteUapsd
    <2>2. PICK i \in 1 .. Len(uapsdHal) : uapsdHal[i] = "eosp"
      BY <1>1, <2>1 DEF EospOnWay
    <2>3. CASE i = 1
      BY <2>1, <2>2, <2>3, <1>1, HalTaken DEF EospOnWay
    <2>4. CASE i # 1
      <3>1. i - 1 \in 1 .. Len(uapsdHal) - 1 /\ (i - 1) + 1 = i
        BY <2>4, <1>1
      <3>2. i - 1 \in DOMAIN uapsdHal' /\ uapsdHal'[i - 1] = uapsdHal[i]
        BY <3>1, <2>1, <1>1, HalTaken
      <3>. QED  BY <3>2, <2>2 DEF EospOnWay
    <2>. QED  BY <2>3, <2>4
  <1>4. CASE uapsdHal' = uapsdHal /\ (txok' = txok \/ TxokStore)
    BY <1>4 DEF EospOnWay
  <1>5. txok' = txok \/ TxokStore \/ CompleteUapsd
    BY DEF Next, vars, Sender, Rx, Txok, Ager, NewFrame, TimForUapsd,
        QueueUapsd, StartData, HoldFrame, TimForFirst, SendMcast, Receive, RxStore,
        Trigger, TriggerSend, TriggerEnd, Input, FlushOne, RecvPsPoll, RxClearTim,
        InputForwards, CompleteMcast, AgeLook, AgePass, AgeCheck, AgeClearTim,
        Beacon, Turn, TriggerUnasked
  <1>. QED  BY <1>2, <1>3, <1>4, <1>5, HalStep

(* The room for U-APSD frames shrinks only where rx sends one.             *)
LEMMA RoomKept ==
    ASSUME Types, [Next]_vars, ~ HalFull(1), ~ TriggerSend
    PROVE  ~ HalFull(1)'
  <1>1. /\ Len(uapsdHal) \in Nat /\ left.room \in Nat /\ left'.room = left.room
        /\ Len(uapsdHal) < left.room
    BY LeftStep DEF Types, QueueTypes, OtherTypes, Scenario
  <1>2. Len(uapsdHal') \in Nat /\ Len(uapsdHal') <= Len(uapsdHal)
    <2>1. CASE uapsdHal' = uapsdHal
      BY <2>1, <1>1
    <2>2. CASE CompleteUapsd
      <3>1. uapsdHal # <<>> /\ uapsdHal' = Tail(uapsdHal)
        BY <2>2 DEF CompleteUapsd
      <3>2. uapsdHal \in Seq({"more", "eosp"})
        BY DEF Types, QueueTypes
      <3>. QED  BY <3>1, <3>2, HalTaken
    <2>. QED  BY <2>1, <2>2, HalStep
  <1>. QED  BY <1>1, <1>2 DEF HalFull

(* What a step of another context does to rx and its inputs.               *)
LEMMA OthersKeep ==
    ASSUME Types, [Next]_vars, ~ Rx, ~ InputForwards
    PROVE  /\ rx' = rx /\ uapsdq' >= uapsdq
           /\ flags' = flags \/ (TxokStore /\ flags'.sp = FALSE)
  <1>1. uapsdq \in Nat
    BY DEF Types, QueueTypes
  <1>2. CASE TxokStore
    <2>1. txok.old \in Flags
      BY DEF Types, FlagTypes, TxokState
    <2>2. flags' = [txok.old EXCEPT !.sp = FALSE] /\ rx' = rx /\ uapsdq' = uapsdq
      BY <1>2 DEF TxokStore, queues
    <2>3. flags'.sp = FALSE
      BY <2>1, <2>2 DEF Flags
    <2>. QED  BY <1>1, <1>2, <2>2, <2>3
  <1>3. CASE flags' = flags /\ rx' = rx /\ (uapsdq' = uapsdq \/ uapsdq' = uapsdq + 1)
    BY <1>1, <1>3
  <1>4. \/ TxokStore
        \/ flags' = flags /\ rx' = rx /\ (uapsdq' = uapsdq \/ uapsdq' = uapsdq + 1)
    BY DEF Next, vars, queues, Sender, Txok, Ager, NewFrame, TimForUapsd,
        QueueUapsd, StartData, HoldFrame, TimForFirst, SendMcast,
        CompleteUapsd, CompleteMcast, AgeLook, AgePass, AgeCheck, AgeClearTim,
        Beacon, Turn, TriggerUnasked
  <1>. QED  BY <1>2, <1>3, <1>4

LEMMA PeriodEndsStep ==
    ASSUME Types, BoundsAssumption, PeriodEnds, [Next]_vars
    PROVE  PeriodEnds'
  <1>. DEFINE Covered == ghost.torn \/ EospOnWay
  <1>0. /\ flags \in Flags /\ rx \in RxState /\ uapsdq \in Nat /\ MaxSp \in Nat \ {0}
        /\ rx.n \in Nat /\ (rx.pc = "clear" => rx.then \in {"idle", "input"})
        /\ rx.then \in RxThens
    BY BoundsAssumption DEF Types, FlagTypes, QueueTypes, RxState
  <1>1. (Covered => Covered' \/ TxokStore) /\ (ghost.torn => ghost'.torn)
    BY EospStep, GhostStep DEF GhostGrows, Types, OtherTypes
  <1>2. ASSUME ~ Rx, ~ InputForwards  PROVE  PeriodEnds'
    <2>1. /\ rx' = rx /\ uapsdq' >= uapsdq /\ uapsdq' \in Nat
          /\ flags' = flags \/ (TxokStore /\ flags'.sp = FALSE)
      BY <1>2, OthersKeep, CountersStep
    <2>2. ~ TriggerSend
      BY <1>2 DEF Rx
    <2>3. SendsNext => SendsNext'
      BY <2>1, <2>2, <1>0, RoomKept DEF SendsNext
    <2>4. CASE flags' = flags /\ ~ TxokStore
      <3>1. Covered => Covered'
        BY <1>1, <2>4
      <3>2. rx'.pc = "send" => rx'.n <= uapsdq'
        BY <2>1, <1>0 DEF PeriodEnds
      <3>. QED  BY <2>1, <2>3, <2>4, <3>1, <3>2 DEF PeriodEnds
    <2>5. CASE TxokStore /\ flags'.sp = FALSE
      <3>2. rx'.pc = "send" => rx'.n <= uapsdq'
        BY <2>1, <1>0 DEF PeriodEnds
      <3>. QED  BY <2>1, <2>5, <3>2 DEF PeriodEnds
    <2>6. TxokStore => flags'.sp = FALSE
      <3>1. txok.old \in Flags
        BY DEF Types, FlagTypes, TxokState
      <3>. QED  BY <3>1 DEF TxokStore, Flags
    <2>. QED  BY <2>1, <2>4, <2>5, <2>6
  <1>4. CASE Receive
    <2>. DEFINE k == Head(air)
                dozes == k # "off"
                off == [flags EXCEPT !.sp = FALSE, !.trig = dozes]
                open == [flags EXCEPT !.sp = TRUE]
                at == [rxIdle EXCEPT !.pc = "store", !.k = k]
    <2>1. off.sp = FALSE /\ flags' = flags /\ rx.pc = "idle"
      BY <1>0, <1>4 DEF Flags, Receive
    <2>2. \/ \E t \in {"input", "trigger"} :
               rx' = [at EXCEPT !.old = flags, !.new = off, !.then = t]
          \/ /\ rx' = [at EXCEPT !.old = flags, !.new = open, !.then = "trigger"]
             /\ k = "trigger"
          \/ rx' = [rxIdle EXCEPT !.pc = "input", !.k = k]
      BY <1>4 DEF Receive
    <2>3. ~ TxokStore
      BY <1>4 DEF Receive, TxokStore, rxIdle
    <2>. HIDE DEF k, off, open
    <2>4. CASE rx' = [rxIdle EXCEPT !.pc = "input", !.k = k]
      <3>1. rx'.pc = "input"
        BY <2>4 DEF rxIdle
      <3>2. flags.sp => Covered
        BY <2>1 DEF PeriodEnds
      <3>. QED  BY <1>1, <2>1, <2>3, <3>1, <3>2 DEF PeriodEnds
    <2>5. CASE \E t \in {"input", "trigger"} :
                 rx' = [at EXCEPT !.old = flags, !.new = off, !.then = t]
      <3>1. rx'.pc = "store" /\ rx'.new.sp = FALSE
        BY <2>5, <2>1 DEF rxIdle
      <3>. QED  BY <3>1 DEF PeriodEnds
    <2>6. CASE /\ rx' = [at EXCEPT !.old = flags, !.new = open, !.then = "trigger"]
               /\ k = "trigger"
      <3>1. rx'.pc = "store" /\ rx'.then = "trigger" /\ rx'.k = "trigger"
        BY <2>6 DEF rxIdle
      <3>. QED  BY <3>1 DEF PeriodEnds
    <2>. QED  BY <2>2, <2>4, <2>5, <2>6
  <1>5. CASE RxStore
    <2>1. /\ rx.pc = "store" /\ flags' = rx.new
          /\ ~ (ghost'.torn) => flags = rx.old
          /\ txok' = txok /\ uapsdHal' = uapsdHal
      BY <1>5, GhostStep DEF RxStore, Types, OtherTypes, hal
    <2>2. /\ rx'.pc = rx.then \/ rx'.pc = "idle"
          /\ rx'.pc # "idle" => rx'.k = rx.k
          /\ rx.then # "idle" => rx'.pc = rx.then
      BY <1>5 DEF RxStore, rxIdle
    <2>3. rx'.pc \notin {"send", "store"}
      BY <2>2, <1>0 DEF RxThens
    <2>4. EospOnWay => EospOnWay'
      BY <2>1 DEF EospOnWay
    <2>5. CASE rx.then = "trigger"
      BY <2>1, <2>2, <2>3, <2>5 DEF PeriodEnds
    <2>6. CASE rx.then # "trigger"
      <3>1. rx'.pc # "trigger"
        BY <2>2, <2>6
      <3>2. flags'.sp => Covered'
        BY <2>1, <2>4, <2>6, <1>1 DEF PeriodEnds
      <3>. QED  BY <2>3, <3>1, <3>2 DEF PeriodEnds
    <2>. QED  BY <2>5, <2>6
  <1>6. CASE Trigger
    <2>1. rx.pc = "trigger" /\ flags' = flags /\ uapsdq' = uapsdq /\ uapsdHal' = uapsdHal
          /\ left' = left
      BY <1>6 DEF Trigger, queues, hal
    <2>2. CASE uapsdq # 0 /\ ~ HalFull(1)
      <3>1. \E n \in {uapsdq, MaxSp} : n <= uapsdq /\ rx' = [rx EXCEPT !.pc = "send", !.n = n]
        <4>. DEFINE all == rx.k = "off" \/ uapsdq < MaxSp
        <4>1. rx' = [rx EXCEPT !.pc = "send", !.n = IF all THEN uapsdq ELSE MaxSp]
          BY <2>2, <1>6 DEF Trigger
        <4>2. ~ all => MaxSp <= uapsdq
          BY <1>0
        <4>3. uapsdq <= uapsdq
          BY <1>0
        <4>. HIDE DEF all
        <4>. QED  BY <4>1, <4>2, <4>3
      <3>2. /\ rx'.pc = "send" /\ rx'.n \in Nat \ {0} /\ rx'.n <= uapsdq /\ rx'.k = rx.k
        BY <3>1, <2>2, <1>0 DEF RxState
      <3>3. SendsNext'
        BY <2>1, <2>2, <3>2 DEF SendsNext, HalFull
      <3>. QED  BY <2>1, <3>2, <3>3 DEF PeriodEnds
    <2>3. CASE ~ (uapsdq # 0 /\ ~ HalFull(1)) /\ rx.k = "off"
      <3>1. rx' = [rx EXCEPT !.pc = "input"]
        BY <2>3, <1>6 DEF Trigger, RxGoes
      <3>2. rx'.pc = "input" /\ ~ flags.sp
        BY <2>1, <2>3, <3>1, <1>0 DEF RxState, PeriodEnds
      <3>. QED  BY <2>1, <3>2 DEF PeriodEnds
    <2>4. CASE ~ (uapsdq # 0 /\ ~ HalFull(1)) /\ rx.k # "off"
      <3>. DEFINE shut == [flags EXCEPT !.sp = FALSE]
      <3>1. \E t \in {"clear", "input"} :
               rx' = [rx EXCEPT !.pc = "store", !.old = flags, !.new = shut, !.then = t]
        BY <2>4, <1>6 DEF Trigger, RxChanges
      <3>2. shut.sp = FALSE
        BY <1>0 DEF Flags
      <3>. HIDE DEF shut
      <3>3. rx'.pc = "store" /\ rx'.new.sp = FALSE
        BY <3>1, <3>2, <1>0 DEF RxState
      <3>. QED  BY <3>3 DEF PeriodEnds
    <2>. QED  BY <2>2, <2>3, <2>4
  <1>7. CASE TriggerSend
    <2>. DEFINE eosp == rx.k # "off" /\ (rx.n = 1 \/ HalFull(3))
    <2>1. /\ rx.pc = "send" /\ rx.n # 0 /\ uapsdq # 0 /\ ~ HalFull(1)
          /\ flags' = flags /\ uapsdq' = uapsdq - 1 /\ left' = left
      BY <1>7 DEF TriggerSend
    <2>2. /\ uapsdHal \in Seq({"more", "eosp"}) /\ Len(uapsdHal) \in Nat
          /\ left.room \in Nat /\ Len(uapsdHal) < left.room
      BY DEF Types, QueueTypes, OtherTypes, Scenario
    <2>3. CASE eosp
      <3>1. rx' = [rx EXCEPT !.n = 0] /\ uapsdHal' = Append(uapsdHal, "eosp")
        BY <1>7, <2>3 DEF TriggerSend
      <3>2. rx'.pc = "send" /\ rx'.n = 0 /\ rx'.k = rx.k
        BY <3>1, <2>1, <1>0 DEF RxState
      <3>3. EospOnWay'
        <4>1. /\ Len(uapsdHal) + 1 \in DOMAIN uapsdHal'
              /\ uapsdHal'[Len(uapsdHal) + 1] = "eosp"
          BY <3>1, <2>2, HalQueued
        <4>. QED  BY <4>1 DEF EospOnWay
      <3>. QED  BY <2>1, <3>2, <3>3, <1>0 DEF PeriodEnds
    <2>4. CASE ~ eosp
      <3>1. rx' = [rx EXCEPT !.n = @ - 1] /\ uapsdHal' = Append(uapsdHal, "more")
        BY <1>7, <2>4 DEF TriggerSend
      <3>2. rx'.pc = "send" /\ rx'.n = rx.n - 1 /\ rx'.k = rx.k
        BY <3>1, <2>1, <1>0 DEF RxState
      <3>3. rx.n <= uapsdq
        BY <2>1 DEF PeriodEnds
      <3>4. CASE rx.k = "off"
        <4>1. ~ flags.sp
          BY <2>1, <3>4 DEF PeriodEnds
        <4>. QED  BY <2>1, <3>2, <3>3, <4>1, <1>0 DEF PeriodEnds
      <3>5. CASE rx.k # "off"
        <4>1. rx.n >= 2 /\ left.room - Len(uapsdHal) >= 4
          BY <2>1, <2>2, <2>4, <3>5, <1>0 DEF HalFull
        <4>2. Len(uapsdHal') = Len(uapsdHal) + 1
          BY <3>1, <2>2, HalQueued
        <4>3. ~ HalFull(1)'
          BY <2>1, <2>2, <4>1, <4>2 DEF HalFull
        <4>4. SendsNext'
          BY <2>1, <3>2, <3>3, <4>1, <4>3, <1>0 DEF SendsNext
        <4>. QED  BY <2>1, <3>2, <3>3, <3>5, <4>4, <1>0 DEF PeriodEnds
      <3>. QED  BY <3>4, <3>5
    <2>. QED  BY <2>3, <2>4
  <1>8. CASE TriggerEnd
    <2>1. /\ rx.pc = "send" /\ flags' = flags /\ ~ SendsNext /\ ~ TxokStore
      BY <1>8, <1>0 DEF TriggerEnd, TxokStore, SendsNext, RxClears, RxState
    <2>2. \/ rx' = [rx EXCEPT !.pc = "clear", !.then = "input", !.n = 0]
          \/ rx' = [rx EXCEPT !.pc = "input", !.n = 0]
      BY <1>8 DEF TriggerEnd, RxClears
    <2>3. rx'.pc \in {"clear", "input"}
      BY <2>2, <1>0 DEF RxState
    <2>. QED  BY <1>1, <2>1, <2>3 DEF PeriodEnds
  <1>9. CASE Input
    <2>1. rx.pc = "input" /\ flags' = flags /\ uapsdHal' = uapsdHal /\ txok' = txok
      BY <1>9 DEF Input, hal
    <2>2. flags.sp => Covered
      BY <2>1 DEF PeriodEnds
    <2>3. Covered => Covered'
      BY <2>1, <1>1 DEF EospOnWay
    <2>. DEFINE dozes == rx.k # "off"
                new == [flags EXCEPT !.pm = dozes]
    <2>4. \/ rx' = rxIdle
          \/ rx' = [rx EXCEPT !.pc = "store", !.old = flags, !.new = new,
                              !.then = IF dozes THEN "idle" ELSE "flush"]
      BY <1>9 DEF Input, RxChanges, RxDone
    <2>5. new.sp = flags.sp
      BY <1>0 DEF Flags
    <2>. HIDE DEF new, dozes
    <2>6. CASE rx' = rxIdle
      BY <2>1, <2>2, <2>3, <2>6 DEF PeriodEnds, rxIdle
    <2>7. CASE rx' = [rx EXCEPT !.pc = "store", !.old = flags, !.new = new,
                                !.then = IF dozes THEN "idle" ELSE "flush"]
      <3>1. /\ rx'.pc = "store" /\ rx'.then # "trigger"
            /\ rx'.new.sp = flags.sp /\ rx'.old = flags
        BY <2>7, <2>5, <1>0 DEF RxState
      <3>. QED  BY <2>1, <2>2, <2>3, <3>1 DEF PeriodEnds
    <2>. QED  BY <2>4, <2>6, <2>7
  <1>10. CASE FlushOne \/ RecvPsPoll \/ RxClearTim \/ InputForwards
    <2>1. /\ rx.pc \in {"flush", "input", "clear"} /\ flags' = flags
          /\ uapsdHal' = uapsdHal /\ txok' = txok
      BY <1>10 DEF FlushOne, RecvPsPoll, RxClearTim, InputForwards, hal
    <2>2. \/ rx' = rx /\ rx.pc = "flush"
          \/ rx' = rxIdle
          \/ rx' = [rx EXCEPT !.pc = "clear", !.then = "idle", !.n = 0]
          \/ rx' = [rx EXCEPT !.pc = rx.then] /\ rx.pc = "clear"
      BY <1>10 DEF FlushOne, RecvPsPoll, RxClearTim, InputForwards, RxClears, RxDone
    <2>3. rx'.pc \in {"flush", "idle", "clear", "input"}
      <3>1. rxIdle.pc = "idle"
        BY RxIdleType
      <3>. QED  BY <2>2, <3>1, <1>0 DEF RxState
    <2>4. flags.sp => Covered
      BY <2>1 DEF PeriodEnds
    <2>5. Covered => Covered'
      BY <2>1, <1>1 DEF EospOnWay
    <2>. QED  BY <2>1, <2>3, <2>4, <2>5 DEF PeriodEnds
  <1>. QED
    BY <1>2, <1>4, <1>5, <1>6, <1>7, <1>8, <1>9, <1>10 DEF Rx

-----------------------------------------------------------------------------
(* The TIM.                                                                *)
LEMMA QueueStep ==
    ASSUME Types, BoundsAssumption, AgesGrow, [Next]_vars
    PROVE  \/ psq = <<>> => psq' = <<>>
           \/ \E s \in Senders : HoldFrame(s)
  BY AgesStep

LEMMA FirstStep ==
    ASSUME snd \in [Senders -> SndPcs], [Next]_vars,
           NEW s \in Senders, snd[s] = "first", snd'[s] # "first"
    PROVE  tim' = TRUE
  <1>1. ASSUME NEW t \in Senders, TimForFirst(t)  PROVE  tim' = TRUE
    BY <1>1 DEF TimForFirst
  <1>2. ASSUME NEW t \in Senders, NewFrame(t) \/ TimForUapsd(t) \/ QueueUapsd(t)
                       \/ StartData(t) \/ HoldFrame(t) \/ SendMcast(t)
        PROVE  snd'[s] = snd[s]
    <2>1. snd[t] # "first" /\ \E p \in SndPcs : snd' = [snd EXCEPT ![t] = p]
      BY <1>2 DEF NewFrame, TimForUapsd, QueueUapsd, StartData, HoldFrame, SendMcast, SndPcs
    <2>. QED  BY <2>1
  <1>3. \/ UNCHANGED snd
        \/ \E t \in Senders : TimForFirst(t) \/ HoldFrame(t) \/ StartData(t)
             \/ NewFrame(t) \/ TimForUapsd(t) \/ QueueUapsd(t) \/ SendMcast(t)
    BY DEF Next, vars, Sender, Rx, Txok, Ager, Receive, RxStore, Trigger, TriggerSend,
        TriggerEnd, Input, FlushOne, RecvPsPoll, RxClearTim, InputForwards,
        CompleteUapsd, TxokStore, CompleteMcast, AgeLook, AgePass, AgeCheck,
        AgeClearTim, Beacon, Turn, TriggerUnasked
  <1>. QED  BY <1>1, <1>2, <1>3

(* Who starts to clear the bit has found the queue empty.                  *)
LEMMA ClearingStep ==
    ASSUME Types, [Next]_vars, ~ Clearing, Clearing'
    PROVE  AllAcs \/ psq' = <<>>
  <1>0. psq \in Seq(0 .. AgeInit) /\ rx \in RxState /\ ager \in AgerState
    BY DEF Types, QueueTypes, FlagTypes, OtherTypes
  <1>1. CASE Trigger
    <2>1. ager' = ager
      BY <1>1 DEF Trigger
    <2>2. ASSUME ~ AllAcs  PROVE  rx'.pc # "clear" /\ rx'.then # "clear"
      <3>. DEFINE shut == [flags EXCEPT !.sp = FALSE]
      <3>1. \/ \E n \in {uapsdq, MaxSp} : rx' = [rx EXCEPT !.pc = "send", !.n = n]
            \/ rx' = [rx EXCEPT !.pc = "input"]
            \/ rx' = [rx EXCEPT !.pc = "store", !.old = flags,
                                !.new = shut, !.then = "input"]
        BY <1>1, <2>2 DEF Trigger, RxChanges, RxGoes
      <3>. HIDE DEF shut
      <3>. QED  BY <3>1, <1>0 DEF Clearing, RxState
    <2>. QED  BY <2>1, <2>2 DEF Clearing
  <1>2. CASE TriggerEnd
    <2>1. ager' = ager
      BY <1>2 DEF TriggerEnd
    <2>2. ASSUME ~ AllAcs  PROVE  rx'.pc # "clear" /\ rx'.then # "clear"
      <3>1. rx' = [rx EXCEPT !.pc = "input", !.n = 0]
        BY <1>2, <2>2 DEF TriggerEnd
      <3>. QED  BY <3>1, <1>0 DEF Clearing, RxState
    <2>. QED  BY <2>1, <2>2 DEF Clearing
  <1>3. CASE FlushOne \/ RecvPsPoll
    <2>1. CASE Len(psq) > 1
      <3>1. (rx' = rx \/ rx' = rxIdle) /\ ager' = ager
        BY <1>3, <2>1 DEF FlushOne, RecvPsPoll, RxDone
      <3>. QED  BY <3>1 DEF Clearing, rxIdle
    <2>2. CASE ~ (Len(psq) > 1)
      <3>1. psq' = IF psq = <<>> THEN psq ELSE Tail(psq)
        BY <1>3 DEF FlushOne, RecvPsPoll
      <3>2. CASE psq # <<>>
        <4>1. Tail(psq) \in Seq(0 .. AgeInit) /\ Len(Tail(psq)) = Len(psq) - 1
              /\ Len(psq) \in Nat
          BY <3>2, <1>0, HeadTailProperties
        <4>2. Len(Tail(psq)) = 0
          BY <4>1, <2>2
        <4>3. Tail(psq) = <<>>
          BY <4>1, <4>2, EmptySeq
        <4>. QED  BY <3>1, <3>2, <4>3
      <3>. QED  BY <3>1, <3>2
    <2>. QED  BY <2>1, <2>2
  <1>4. CASE AgeCheck
    <2>1. psq' = psq /\ rx' = rx
      BY <1>4 DEF AgeCheck, queues
    <2>2. ASSUME psq # <<>>  PROVE  ager'.pc = "idle"
      <3>1. ager' = [ager EXCEPT !.pc = "idle"]
        BY <1>4, <2>2 DEF AgeCheck
      <3>. QED  BY <3>1, <1>0 DEF AgerState
    <2>. QED  BY <2>1, <2>2 DEF Clearing
  <1>5. CASE Receive
    <2>. DEFINE k == Head(air)
                dozes == k # "off"
                off == [flags EXCEPT !.sp = FALSE, !.trig = dozes]
                open == [flags EXCEPT !.sp = TRUE]
                at == [rxIdle EXCEPT !.pc = "store", !.k = k]
    <2>1. \/ \E t \in {"input", "trigger"} :
               rx' = [at EXCEPT !.old = flags, !.new = off, !.then = t]
          \/ rx' = [at EXCEPT !.old = flags, !.new = open, !.then = "trigger"]
          \/ rx' = [rxIdle EXCEPT !.pc = "input", !.k = k]
      BY <1>5 DEF Receive
    <2>2. ager' = ager
      BY <1>5 DEF Receive
    <2>. HIDE DEF k, off, open
    <2>3. rx'.pc # "clear" /\ rx'.then # "clear"
      BY <2>1 DEF rxIdle
    <2>. QED  BY <2>2, <2>3 DEF Clearing
  <1>6. CASE RxStore
    <2>1. /\ \/ rx' = rxIdle
             \/ rx' = [rxIdle EXCEPT !.pc = rx.then, !.k = rx.k, !.then = "input"]
          /\ ager' = ager
      BY <1>6 DEF RxStore
    <2>2. rx.then # "clear" /\ rx'.pc # "clear" /\ rx'.then # "clear"
      <3>1. rx.then # "clear"
        BY DEF Clearing
      <3>2. CASE rx' = rxIdle
        BY <3>1, <3>2 DEF rxIdle
      <3>3. CASE rx' = [rxIdle EXCEPT !.pc = rx.then, !.k = rx.k, !.then = "input"]
        BY <3>1, <3>3 DEF rxIdle
      <3>. QED  BY <2>1, <3>2, <3>3
    <2>. QED  BY <2>1, <2>2 DEF Clearing
  <1>7. CASE Input
    <2>. DEFINE dozes == rx.k # "off"
                new == [flags EXCEPT !.pm = dozes]
    <2>1. /\ \/ rx' = rxIdle
             \/ rx' = [rx EXCEPT !.pc = "store", !.old = flags, !.new = new,
                                 !.then = IF dozes THEN "idle" ELSE "flush"]
          /\ ager' = ager
      BY <1>7 DEF Input, RxChanges, RxDone
    <2>. HIDE DEF new, dozes
    <2>2. rx'.pc # "clear" /\ rx'.then # "clear"
      <3>1. CASE rx' = rxIdle
        BY <3>1 DEF rxIdle
      <3>2. CASE rx' = [rx EXCEPT !.pc = "store", !.old = flags, !.new = new,
                                  !.then = IF dozes THEN "idle" ELSE "flush"]
        BY <3>2, <1>0 DEF RxState
      <3>. QED  BY <2>1, <3>1, <3>2
    <2>. QED  BY <2>1, <2>2 DEF Clearing
  <1>8. CASE TriggerSend
    <2>1. ager' = ager /\ \E n \in {0, rx.n - 1} : rx' = [rx EXCEPT !.n = n]
      BY <1>8 DEF TriggerSend
    <2>. QED  BY <2>1, <1>0 DEF Clearing, RxState
  <1>9. CASE AgeLook \/ AgePass
    <2>1. rx' = rx /\ ager'.pc \in {"pass", "check", "idle"}
      BY <1>9 DEF AgeLook, AgePass
    <2>. QED  BY <2>1 DEF Clearing
  <1>10. CASE RxClearTim \/ AgeClearTim \/ InputForwards
    <2>1. Clearing \/ (ager' = ager /\ rx' = rxIdle)
      BY <1>10 DEF RxClearTim, AgeClearTim, InputForwards, Clearing, RxDone
    <2>. QED  BY <2>1 DEF Clearing, rxIdle
  <1>11. CASE UNCHANGED <<rx, ager>>
    BY <1>11 DEF Clearing
  <1>. QED
    BY <1>1, <1>2, <1>3, <1>4, <1>5, <1>6, <1>7, <1>8, <1>9, <1>10, <1>11
    DEF Next, vars, Sender, Rx, Txok, Ager, NewFrame, TimForUapsd, QueueUapsd,
        StartData, HoldFrame, TimForFirst, SendMcast, CompleteUapsd, TxokStore,
        CompleteMcast, Beacon, Turn, TriggerUnasked

LEMMA TimKnowsStep ==
    ASSUME Types, BoundsAssumption, AgesGrow, TimKnows, [Next]_vars
    PROVE  TimKnows'
  <1>1. /\ ghost.stale => ghost'.stale
        /\ \A s \in Senders : HoldFrame(s) /\ ((psq = <<>> /\ Clearing) \/ AllAcs)
             => ghost'.stale
    BY GhostStep DEF GhostGrows, Types, OtherTypes
  <1>2. AllAcs' = AllAcs
    BY LeftStep DEF AllAcs, Types, OtherTypes
  <1>3. AllAcs' => psq' = <<>> \/ ghost'.stale
    BY <1>1, <1>2, QueueStep DEF TimKnows
  <1>4. Clearing' => psq' = <<>> \/ ghost'.stale
    <2>1. CASE Clearing
      BY <2>1, <1>1, QueueStep DEF TimKnows
    <2>2. CASE ~ Clearing
      BY <2>2, <1>2, <1>3, ClearingStep
    <2>. QED  BY <2>1, <2>2
  <1>5. ASSUME psq' # <<>>, \A s \in Senders : snd'[s] # "first", ~ ghost'.stale
        PROVE  tim' = TRUE
    <2>1. psq # <<>>
      <3>1. ASSUME NEW s \in Senders, HoldFrame(s), psq = <<>>  PROVE  snd'[s] = "first"
        BY <3>1 DEF HoldFrame, Types, OtherTypes
      <3>. QED  BY <1>5, <3>1, QueueStep
    <2>2. ~ Clearing
      BY <2>1, <1>1, <1>5 DEF TimKnows
    <2>3. ~ RxClearTim /\ ~ AgeClearTim
      BY <2>2 DEF RxClearTim, AgeClearTim, Clearing
    <2>4. CASE \E s \in Senders : snd[s] = "first"
      <3>1. PICK s \in Senders : snd[s] = "first"
        BY <2>4
      <3>2. snd'[s] # "first" /\ snd \in [Senders -> SndPcs]
        BY <1>5 DEF Types, OtherTypes
      <3>. QED  BY <3>1, <3>2, FirstStep
    <2>5. CASE \A s \in Senders : snd[s] # "first"
      <3>1. tim
        BY <2>1, <2>5, <1>1, <1>5 DEF TimKnows
      <3>2. tim = TRUE
        BY <3>1 DEF Types, OtherTypes
      <3>3. tim' = tim \/ tim' = TRUE
        BY <2>3, TimStep
      <3>. QED  BY <3>2, <3>3
    <2>. QED  BY <2>4, <2>5
  <1>. QED  BY <1>3, <1>4, <1>5 DEF TimKnows

-----------------------------------------------------------------------------
(* vm_ps_sta.                                                              *)
LEMMA CountsStep ==
    ASSUME Types, Counts, [Next]_vars
    PROVE  Counts'
  <1>0. /\ flags \in Flags /\ rx \in RxState /\ txok.old \in Flags
        /\ flags.pm \in BOOLEAN /\ rx.then \in RxThens
        /\ (ghost.torn => ghost'.torn)
    BY GhostStep DEF Types, FlagTypes, RxState, TxokState, Flags, OtherTypes, GhostGrows
  <1>1. CASE psSta' = psSta /\ (ghost'.torn \/ PmNow' = PmNow)
    BY <1>0, <1>1 DEF Counts
  <1>2. CASE Receive
    <2>. DEFINE k == Head(air)
                dozes == k # "off"
                off == [flags EXCEPT !.sp = FALSE, !.trig = dozes]
                open == [flags EXCEPT !.sp = TRUE]
                at == [rxIdle EXCEPT !.pc = "store", !.k = k]
    <2>1. \/ \E t \in {"input", "trigger"}, n \in {off, open} :
               rx' = [at EXCEPT !.old = flags, !.new = n, !.then = t]
          \/ rx' = [rxIdle EXCEPT !.pc = "input", !.k = k]
      BY <1>2 DEF Receive
    <2>2. off.pm = flags.pm /\ open.pm = flags.pm
      BY <1>0 DEF Flags
    <2>3. flags' = flags /\ psSta' = psSta /\ rx.pc = "idle"
      BY <1>2 DEF Receive
    <2>. HIDE DEF k, off, open
    <2>4. rx'.pc = "store" => rx'.new.pm = flags.pm
      BY <2>1, <2>2 DEF rxIdle
    <2>. QED  BY <2>3, <2>4, <1>1 DEF PmNow
  <1>3. CASE RxStore
    <2>1. /\ rx.pc = "store" /\ flags' = rx.new /\ psSta' = psSta
          /\ rx'.pc # "store"
      BY <1>3, <1>0 DEF RxStore, rxIdle, RxThens
    <2>. QED  BY <2>1, <1>1 DEF PmNow
  <1>4. CASE Trigger
    <2>. DEFINE shut == [flags EXCEPT !.sp = FALSE]
    <2>1. \/ \E n \in {uapsdq, MaxSp} : rx' = [rx EXCEPT !.pc = "send", !.n = n]
          \/ rx' = [rx EXCEPT !.pc = "input"]
          \/ \E t \in {"clear", "input"} :
               rx' = [rx EXCEPT !.pc = "store", !.old = flags, !.new = shut, !.then = t]
      BY <1>4 DEF Trigger, RxChanges, RxGoes
    <2>2. shut.pm = flags.pm
      BY <1>0 DEF Flags
    <2>3. flags' = flags /\ psSta' = psSta /\ rx.pc = "trigger"
      BY <1>4 DEF Trigger
    <2>. HIDE DEF shut
    <2>4. rx'.pc = "store" => rx'.new.pm = flags.pm
      BY <2>1, <2>2, <1>0 DEF RxState
    <2>. QED  BY <2>3, <2>4, <1>1 DEF PmNow
  <1>5. CASE Input
    <2>. DEFINE dozes == rx.k # "off"
                new == [flags EXCEPT !.pm = dozes]
    <2>1. rx.pc = "input" /\ flags' = flags /\ ghost' = ghost /\ PmNow = flags.pm
      BY <1>5 DEF Input, PmNow
    <2>2. CASE dozes = flags.pm
      <3>1. rx' = rxIdle /\ psSta' = psSta
        BY <1>5, <2>2 DEF Input, RxDone
      <3>. QED  BY <2>1, <3>1, <1>1 DEF PmNow, rxIdle
    <2>3. CASE dozes # flags.pm
      <3>1. /\ psSta' = (IF dozes THEN psSta + 1 ELSE psSta + 65535) % 65536
            /\ rx' = [rx EXCEPT !.pc = "store", !.old = flags, !.new = new,
                                !.then = IF dozes THEN "idle" ELSE "flush"]
        BY <1>5, <2>3 DEF Input, RxChanges
      <3>2. new.pm = dozes
        BY <1>0 DEF Flags
      <3>3. rx'.pc = "store" /\ rx'.new = new
        <4>. HIDE DEF new, dozes
        <4>. QED  BY <3>1, <1>0 DEF RxState
      <3>4. PmNow' = dozes
        BY <3>2, <3>3 DEF PmNow
      <3>5. ASSUME ~ ghost.torn  PROVE  psSta' = IF dozes THEN 1 ELSE 0
        <4>1. CASE dozes
          <5>1. ~ flags.pm
            BY <4>1, <2>3, <1>0
          <5>2. psSta = 0
            BY <5>1, <2>1, <3>5 DEF Counts
          <5>. QED  BY <5>2, <3>1, <4>1, SMT
        <4>2. CASE ~ dozes
          <5>1. flags.pm
            BY <4>2, <2>3, <1>0
          <5>2. psSta = 1
            BY <5>1, <2>1, <3>5 DEF Counts
          <5>. QED  BY <5>2, <3>1, <4>2, SMT
        <4>. QED  BY <4>1, <4>2
      <3>. QED  BY <2>1, <3>4, <3>5 DEF Counts
    <2>. QED  BY <2>2, <2>3
  <1>6. CASE TxokStore
    <2>1. /\ flags' = [txok.old EXCEPT !.sp = FALSE] /\ psSta' = psSta /\ rx' = rx
          /\ flags # txok.old => ghost'.torn
      BY <1>6, GhostStep DEF TxokStore, Types, OtherTypes
    <2>2. flags'.pm = txok.old.pm
      BY <2>1, <1>0 DEF Flags
    <2>. QED  BY <2>1, <2>2, <1>1 DEF PmNow
  <1>7. CASE TriggerSend \/ TriggerEnd \/ FlushOne \/ RecvPsPoll \/ RxClearTim \/ InputForwards
    <2>1. /\ flags' = flags /\ psSta' = psSta /\ rx.pc # "store"
      BY <1>7 DEF TriggerSend, TriggerEnd, FlushOne, RecvPsPoll, RxClearTim, InputForwards
    <2>2. rx'.pc # "store"
      <3>1. \/ rx' = rx \/ rx' = rxIdle
            \/ \E n \in {0, rx.n - 1} : rx' = [rx EXCEPT !.n = n]
            \/ \E t \in {"idle", "input"} : rx' = [rx EXCEPT !.pc = "clear", !.then = t, !.n = 0]
            \/ rx' = [rx EXCEPT !.pc = "input", !.n = 0]
            \/ rx' = [rx EXCEPT !.pc = rx.then]
        BY <1>7 DEF TriggerSend, TriggerEnd, FlushOne, RecvPsPoll, RxClearTim,
                    InputForwards, RxClears, RxDone
      <3>2. rxIdle.pc # "store" /\ rx.then # "store"
        BY <1>0 DEF RxThens, rxIdle
      <3>. QED  BY <3>1, <3>2, <2>1, <1>0 DEF RxState
    <2>. QED  BY <2>1, <2>2, <1>1 DEF PmNow
  <1>8. CASE UNCHANGED <<flags, psSta, rx>>
    BY <1>8, <1>1 DEF PmNow
  <1>. QED
    BY <1>2, <1>3, <1>4, <1>5, <1>6, <1>7, <1>8
    DEF Next, vars, Sender, Rx, Txok, Ager, NewFrame, TimForUapsd, QueueUapsd,
        StartData, HoldFrame, TimForFirst, SendMcast, CompleteUapsd,
        CompleteMcast, AgeLook, AgePass, AgeCheck, AgeClearTim, Beacon, Turn,
        TriggerUnasked

-----------------------------------------------------------------------------
LEMMA PeerInvInit ==
    ASSUME Init, BoundsAssumption, ScenariosAssumption
    PROVE  PeerInv
  <1>0. Init /\ left \in Scenario
    BY DEF Init
  <1>1. FlagTypes
    <2>1. flags \in Flags /\ rx = rxIdle /\ txok = txokIdle
      BY <1>0, NoFlags DEF Init
    <2>2. txokIdle \in TxokState
      BY NoFlags DEF TxokState, txokIdle, rxIdle
    <2>. QED  BY <2>1, <2>2, RxIdleType DEF FlagTypes
  <1>2. QueueTypes
    <2>1. /\ psq = <<>> /\ uapsdHal = <<>> /\ uapsdq = 0 /\ mcq = 0 /\ mcHal = 0
          /\ left.room \in Nat \ {0}
      BY <1>0 DEF Init, Scenario
    <2>. QED  BY <2>1 DEF QueueTypes
  <1>3. OtherTypes
    <2>1. snd \in [Senders -> SndPcs] /\ ager \in AgerState
      BY <1>0 DEF Init, SndPcs, AgerState
    <2>2. tim \in BOOLEAN /\ mcFlag \in BOOLEAN /\ doze \in BOOLEAN
      <3>1. tim = FALSE /\ mcFlag = FALSE /\ doze = FALSE
        BY <1>0 DEF Init
      <3>. QED  BY <3>1
    <2>5. ghost \in Ghosts
      BY <1>0 DEF Init, Ghosts
    <2>3. air \in Seq(PeerFrames)
      BY <1>0 DEF Init
    <2>4. psSta \in Nat /\ psSta < 65536
      BY <1>0, SMT DEF Init
    <2>. QED  BY <1>0, <2>1, <2>2, <2>3, <2>4, <2>5 DEF OtherTypes
  <1>4. QueueBounded
    <2>1. Len(psq) = 0 /\ MaxQueue \in Nat \ {0}
      BY <1>0, BoundsAssumption DEF Init
    <2>. QED  BY <2>1, HoldersFinite DEF QueueBounded
  <1>5. PeriodEnds /\ Counts
    BY <1>0 DEF Init, PeriodEnds, Counts, PmNow, rxIdle
  <1>6. TimKnows /\ AgesGrow
    BY <1>0 DEF Init, TimKnows, AgesGrow, Clearing, rxIdle
  <1>. QED  BY <1>1, <1>2, <1>3, <1>4, <1>5, <1>6 DEF PeerInv, Types

LEMMA PeerInvSound ==
    ASSUME PeerInv, BoundsAssumption
    PROVE  PeerSound
  <1>1. FlagTypes /\ QueueTypes /\ OtherTypes
    BY DEF PeerInv, Types
  <1>2. TypeOK
    <2>1. Len(psq) < MaxQueue + Cardinality(Senders)
      <3>1. Len(psq) \in Nat /\ MaxQueue \in Nat
        BY <1>1, BoundsAssumption DEF QueueTypes
      <3>. QED  BY <3>1, HoldersFinite DEF PeerInv, QueueBounded
    <2>2. rx.pc \in RxPcs /\ rx.k \in PeerFrames /\ rx.n \in Nat
          /\ txok.pc \in {"idle", "store"}
      BY <1>1 DEF FlagTypes, RxState, TxokState
    <2>3. ager.pc \in {"idle", "pass", "check", "clear"}
      BY <1>1 DEF OtherTypes, AgerState
    <2>. QED  BY <1>1, <2>1, <2>2, <2>3
         DEF TypeOK, FlagTypes, QueueTypes, OtherTypes, RxPcs, SndPcs
  <1>3. ServicePeriodEnds
    BY DEF PeerInv, PeriodEnds, ServicePeriodEnds, EospOnWay, SendsNext
  <1>4. TimTells
    BY DEF PeerInv, TimKnows, TimTells
  <1>5. PsStaCounts
    BY DEF PeerInv, Counts, PmNow, PsStaCounts
  <1>. QED  BY <1>2, <1>3, <1>4, <1>5 DEF PeerInv, PeerSound

LEMMA PeerInvStep ==
    ASSUME PeerInv, BoundsAssumption, [Next]_vars
    PROVE  PeerInv'
  <1>1. Types /\ QueueBounded /\ PeriodEnds /\ TimKnows /\ Counts /\ AgesGrow
    BY DEF PeerInv
  <1>2. Types' /\ AgesGrow'
    BY <1>1, TypesStep, AgesStep
  <1>3. QueueBounded' /\ PeriodEnds' /\ TimKnows' /\ Counts'
    BY <1>1, QueueBoundedStep, PeriodEndsStep, TimKnowsStep, CountsStep
  <1>. QED  BY <1>2, <1>3 DEF PeerInv

(* Whatever senders, receive thread, completions and the timer interleave: *)
(* an open service period has an end on its way, held frames show in the   *)
(* TIM, vm_ps_sta counts the dozing station and no age goes below zero,    *)
(* but for the named races (wifi_mac_power.c, wifi_drv_uapsd.c).           *)
THEOREM PeerIsSound == Spec => []PeerSound
  <1>1. Init => PeerInv
    BY PeerInvInit, BoundsAssumption, ScenariosAssumption
  <1>2. PeerInv /\ [Next]_vars => PeerInv'
    BY PeerInvStep, BoundsAssumption
  <1>3. PeerInv => PeerSound
    BY PeerInvSound, BoundsAssumption
  <1>. QED  BY <1>1, <1>2, <1>3, PTL DEF Spec
=============
