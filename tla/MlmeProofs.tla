----------------------------- MODULE MlmeProofs -----------------------------
(***************************************************************************)
(* cfg80211 never believes in a connection that is not there, for any      *)
(* number of commands, frames and retries.  The one fact that carries the  *)
(* proof is about the receive thread between wifi_mac_top_sm, after which  *)
(* it holds no lock, and the call that tells cfg80211: while it still has  *)
(* to look at the channel, a channel that is there means the machine has   *)
(* not left the network, because whoever leaves takes the channel away.    *)
(***************************************************************************)
EXTENDS Mlme, TLAPS

(* wifi_mac_recv_assoc_rsp keeps its order: what it does after             *)
(* wifi_mac_top_sm is done only after it, and the call is its last step.   *)
InOrder(r) ==
    \A i \in 1 .. Len(r) :
        /\ r[i] = "load" /\ i > 1 => r[i - 1] = "toConnected"
        /\ r[i] = "settle" /\ i > 1 => r[i - 1] = "load"
        /\ r[i] = "report" /\ i > 1 => r[i - 1] = "settle"
        /\ r[i] = "tell" /\ i > 1 => r[i - 1] = "report"
        /\ r[i] = "tell" => i = Len(r)

Ghosts == [seen : BOOLEAN, late : BOOLEAN, silent : BOOLEAN, stuck : BOOLEAN]

ProgTypes == /\ prog \in [Threads -> Seq(Steps)]
             /\ InOrder(prog["rx"])
             /\ tasks \in Seq(Tasks)

(* Past wifi_mac_top_sm and before the look at the channel.                *)
Informing == At("rx", "load") \/ At("rx", "settle") \/ At("rx", "report")

NetworkIsThere == Informing /\ curchan /\ ~ghost.seen => vm_state = "CONNECTED"

SeenBeforeTold == At("rx", "tell") => ghost.seen

IInv == TypeOK /\ ProgTypes /\ NetworkIsThere /\ SeenBeforeTold /\ HonestReport

-----------------------------------------------------------------------------
LEMMA Tails ==
    ASSUME NEW S, NEW s \in Seq(S), s # <<>>
    PROVE  /\ Tail(s) \in Seq(S) /\ Head(s) \in S
           /\ Len(s) >= 1 /\ Head(s) = s[1]
           /\ Len(Tail(s)) = Len(s) - 1
           /\ \A i \in 1 .. Len(s) - 1 : Tail(s)[i] = s[i + 1]
  OBVIOUS

LEMMA OrderKept ==
    ASSUME NEW r \in Seq(Steps), InOrder(r), r # <<>>
    PROVE  /\ InOrder(Tail(r))
           /\ Tail(r) # <<>> =>
                /\ Head(Tail(r)) = "load" => Head(r) = "toConnected"
                /\ Head(Tail(r)) = "settle" => Head(r) = "load"
                /\ Head(Tail(r)) = "report" => Head(r) = "settle"
                /\ Head(Tail(r)) = "tell" => Head(r) = "report"
           /\ Head(r) = "tell" => Tail(r) = <<>>
  <1>. DEFINE s == Tail(r)
  <1>1. /\ s \in Seq(Steps) /\ Len(s) = Len(r) - 1 /\ Len(r) \in Nat /\ Len(r) >= 1
        /\ Head(r) = r[1]
        /\ \A i \in 1 .. Len(r) - 1 : s[i] = r[i + 1]
    BY Tails
  <1>. HIDE DEF s
  <1>2. ASSUME NEW i \in 1 .. Len(s)
        PROVE  /\ s[i] = "load" => r[i] = "toConnected"
               /\ s[i] = "settle" => r[i] = "load"
               /\ s[i] = "report" => r[i] = "settle"
               /\ s[i] = "tell" => r[i] = "report" /\ i = Len(s)
    <2>1. i + 1 \in 1 .. Len(r) /\ i + 1 > 1 /\ (i + 1) - 1 = i /\ s[i] = r[i + 1]
      BY <1>1
    <2>. QED  BY <1>1, <2>1 DEF InOrder
  <1>3. InOrder(s)
    <2>1. \A i \in 1 .. Len(s) : i > 1 => i - 1 \in 1 .. Len(s) /\ s[i - 1] = r[i]
      BY <1>1
    <2>. QED  BY <1>2, <2>1 DEF InOrder
  <1>4. s # <<>> => /\ Head(s) = "load" => Head(r) = "toConnected"
                    /\ Head(s) = "settle" => Head(r) = "load"
                    /\ Head(s) = "report" => Head(r) = "settle"
                    /\ Head(s) = "tell" => Head(r) = "report"
    <2>1. s # <<>> => 1 \in 1 .. Len(s) /\ Head(s) = s[1]
      BY <1>1
    <2>. QED  BY <1>1, <1>2, <2>1
  <1>5. Head(r) = "tell" => s = <<>>
    BY <1>1 DEF InOrder
  <1>. QED  BY <1>3, <1>4, <1>5 DEF s

(* What the receive thread starts with, by handler.                        *)
LEMMA Handlers ==
    \A r \in {<<>>, <<"toAssoc">>, <<"toScan">>, <<"sendAuth">>, <<"answer", "toScan">>,
              <<"toConnected", "load", "settle", "report", "tell">>} :
        /\ r \in Seq(Steps) /\ InOrder(r)
        /\ r # <<>> => Head(r) \notin {"load", "settle", "report", "tell"}
  <1>1. ASSUME NEW r, r = <<>> PROVE r \in Seq(Steps) /\ InOrder(r)
    BY <1>1 DEF InOrder
  <1>2. ASSUME NEW s \in {"toAssoc", "toScan", "sendAuth"}
        PROVE  <<s>> \in Seq(Steps) /\ InOrder(<<s>>) /\ Head(<<s>>) = s
    BY DEF InOrder, Steps
  <1>3. /\ <<"answer", "toScan">> \in Seq(Steps) /\ InOrder(<<"answer", "toScan">>)
        /\ Head(<<"answer", "toScan">>) = "answer"
    BY DEF InOrder, Steps
  <1>4. ASSUME NEW r, r = <<"toConnected", "load", "settle", "report", "tell">>
        PROVE  /\ r \in Seq(Steps) /\ InOrder(r) /\ Head(r) = "toConnected"
    <2>1. /\ r \in Seq(Steps) /\ Len(r) = 5 /\ r[1] = "toConnected" /\ r[2] = "load"
          /\ r[3] = "settle" /\ r[4] = "report" /\ r[5] = "tell" /\ Head(r) = r[1]
      BY <1>4 DEF Steps
    <2>2. \A i \in 1 .. 5 : i = 1 \/ i = 2 \/ i = 3 \/ i = 4 \/ i = 5
      OBVIOUS
    <2>. QED  BY <2>1, <2>2 DEF InOrder
  <1>. QED  BY <1>1, <1>2, <1>3, <1>4

(* ... and with the disconnect that came during the attempt.               *)
LEMMA CarriesOut ==
    LET r == <<"load", "carryOut">> IN
        /\ r \in Seq(Steps) /\ InOrder(r) /\ Head(r) = "load"
  <1>. DEFINE r == <<"load", "carryOut">>
  <1>1. /\ r \in Seq(Steps) /\ Len(r) = 2 /\ r[1] = "load" /\ r[2] = "carryOut"
        /\ Head(r) = "load"
    BY DEF Steps
  <1>. HIDE DEF r
  <1>2. \A i \in 1 .. 2 : i = 1 \/ i = 2
    OBVIOUS
  <1>3. InOrder(r)
    BY <1>1, <1>2 DEF InOrder
  <1>. QED  BY <1>1, <1>3 DEF r

LEMMA Initially == BoundsAssumption /\ Init => IInv
  <1>. SUFFICES ASSUME BoundsAssumption, Init PROVE IInv
    OBVIOUS
  <1>1. \A t \in Threads : prog[t] = <<>>
    BY DEF Init
  <1>2. ProgTypes
    <2>1. prog["rx"] = <<>> /\ InOrder(<<>>)
      BY <1>1, Handlers DEF Threads
    <2>. QED  BY <2>1 DEF Init, ProgTypes
  <1>3. TypeOK
    <2>1. {curchan, request} \subseteq BOOLEAN /\ scanning \in BOOLEAN
      BY Zenon DEF Init
    <2>2. budget \in Bounds
      BY DEF Init, BoundsAssumption
    <2>3. ghost \in Ghosts
      BY DEF Init, Ghosts
    <2>4. retry \in 0 .. Retries /\ deauth \in Nat /\ failed \in 0 .. 1
      BY DEF Init, BoundsAssumption
    <2>5. \A t \in Threads : \A i \in DOMAIN prog[t] : prog[t][i] \in Steps
      BY <1>1
    <2>6. /\ vm_state \in States /\ phase \subseteq Phases /\ armed \subseteq Timers
          /\ \A i \in DOMAIN tasks : tasks[i] \in Tasks
          /\ kernel \in {"idle", "asked", "up"}
      BY DEF Init, States
    <2>7. loaded \in [{"user", "rx"} -> SUBSET Phases]
      BY DEF Init
    <2>. QED  BY <2>1, <2>2, <2>3, <2>4, <2>5, <2>6, <2>7 DEF TypeOK, Ghosts
  <1>4. ~At("rx", "load") /\ ~At("rx", "settle") /\ ~At("rx", "report") /\ ~At("rx", "tell")
    BY <1>1 DEF At, Threads
  <1>5. kernel = "idle"
    BY DEF Init
  <1>. QED
    BY <1>2, <1>3, <1>4, <1>5 DEF IInv, NetworkIsThere, SeenBeforeTold, Informing,
                                  HonestReport

-----------------------------------------------------------------------------
(* What a thread that starts a handler, or goes on with one, does to prog. *)
LEMMA Starts ==
    ASSUME ProgTypes, NEW t \in Threads, NEW p \in Seq(Steps), Runs(t, p),
           t = "rx" => InOrder(p)
    PROVE  /\ prog' \in [Threads -> Seq(Steps)] /\ InOrder(prog'["rx"])
           /\ t # "rx" => prog'["rx"] = prog["rx"]
           /\ t = "rx" => prog'["rx"] = p
  BY DEF ProgTypes, Runs, Threads

LEMMA GoesOn ==
    ASSUME ProgTypes, NEW t \in Threads, prog[t] # <<>>, Advance(t)
    PROVE  /\ prog' \in [Threads -> Seq(Steps)] /\ InOrder(prog'["rx"])
           /\ t # "rx" => prog'["rx"] = prog["rx"]
           /\ t = "rx" => prog'["rx"] = Tail(prog["rx"])
  <1>1. prog[t] \in Seq(Steps) /\ Tail(prog[t]) \in Seq(Steps)
    BY Tails DEF ProgTypes
  <1>2. t = "rx" => InOrder(Tail(prog[t]))
    BY <1>1, OrderKept DEF ProgTypes
  <1>. QED  BY <1>1, <1>2, Starts DEF Advance

(* The handlers of the other threads.                                      *)
LEMMA OtherHandlers ==
    {<<>>, <<"toAssoc">>, <<"toScan">>, <<"toAuth">>,
     <<"disconnecting", "sendDeauth">>, <<"requested">>, <<"delay">>,
     <<"toAssoc", "request">>, <<"toScan", "request">>, <<"answer", "toScan">>,
     <<"toAuth", "rearm">>, <<"toAssoc", "rearm">>} \subseteq Seq(Steps)
  BY DEF Steps

LEMMA TaskQueued ==
    ASSUME ProgTypes, NEW task \in Tasks, Queue(task)
    PROVE  tasks' \in Seq(Tasks)
  BY DEF ProgTypes, Queue

(* What a step of the state machine does.                                  *)
LEMMA Switches ==
    ASSUME ProgTypes, NEW t \in Threads, TopSm(t)
    PROVE  /\ prog[t] # <<>> /\ Advance(t)
           /\ tasks' \in Seq(Tasks)
           /\ UNCHANGED <<failed, budget, loaded>>
           /\ Head(prog[t]) \in {"toScan", "toAuth", "toAssoc", "toConnected"}
           /\ ToScan \/ ToAuth \/ ToAssoc \/ ToConnected
           /\ Head(prog[t]) = "toConnected" => vm_state' = "CONNECTED"
  <1>1. /\ prog[t] # <<>> /\ Advance(t) /\ UNCHANGED <<failed, budget, loaded>>
        /\ ToScan \/ ToAuth \/ ToAssoc \/ ToConnected
        /\ Head(prog[t]) \in {"toScan", "toAuth", "toAssoc", "toConnected"}
    BY DEF TopSm, At
  <1>2. tasks' = tasks \/ Queue("toScan")
    BY <1>1 DEF ToScan, ToAuth, ToAssoc, ToConnected
  <1>3. tasks' \in Seq(Tasks)
    BY <1>2, TaskQueued DEF ProgTypes, Tasks
  <1>4. Head(prog[t]) = "toConnected" => vm_state' = "CONNECTED"
    BY DEF TopSm, At, ToConnected
  <1>. QED  BY <1>1, <1>3, <1>4

(* What the work thread starts with.                                       *)
LEMMA TaskRuns ==
    ASSUME ProgTypes, RunTask
    PROVE  \/ UNCHANGED prog
           \/ \E r \in {<<>>, <<"toScan">>, <<"toAuth">>, <<"toAuth", "rearm">>,
                        <<"toAssoc", "rearm">>, <<"answer", "toScan">>} : Runs("work", r)
  <1>1. Head(tasks) \in Tasks
    BY Tails DEF RunTask, ProgTypes
  <1>2. CASE Head(tasks) = "toScan"
    BY <1>2 DEF RunTask
  <1>3. CASE Head(tasks) = "startBss"
    BY <1>3 DEF RunTask, StartBss
  <1>4. CASE Head(tasks) = "txTimeout"
    BY <1>4 DEF RunTask, TxTimeout
  <1>. QED  BY <1>1, <1>2, <1>3, <1>4 DEF Tasks

-----------------------------------------------------------------------------
(* Every step keeps the threads' programs and the queue of tasks.          *)
LEMMA ProgStep == ProgTypes /\ [Next]_vars => ProgTypes'
  <1>. SUFFICES ASSUME ProgTypes, [Next]_vars PROVE ProgTypes'
    OBVIOUS
  <1>t. "user" \in Threads /\ "rx" \in Threads /\ "work" \in Threads /\ "soft" \in Threads
    BY DEF Threads
  <1>0. ASSUME UNCHANGED <<prog, tasks>> PROVE ProgTypes'
    BY <1>0 DEF ProgTypes
  <1>1. ASSUME NEW t \in Threads, NEW r \in Seq(Steps), Runs(t, r), t = "rx" => InOrder(r),
               tasks' \in Seq(Tasks)
        PROVE  ProgTypes'
    BY <1>1, Starts DEF ProgTypes
  <1>2. ASSUME NEW t \in Threads, prog[t] # <<>>, Advance(t), tasks' \in Seq(Tasks)
        PROVE  ProgTypes'
    BY <1>2, GoesOn DEF ProgTypes
  <1>3. ASSUME NEW task \in Tasks, Queue(task), UNCHANGED prog PROVE ProgTypes'
    BY <1>3, TaskQueued DEF ProgTypes
  <1>ts. tasks \in Seq(Tasks)
    BY DEF ProgTypes
  <1>4. ASSUME NEW t \in Threads, TopSm(t) \/ Answer(t) PROVE ProgTypes'
    <2>1. CASE TopSm(t)
      BY <1>2, <2>1, Switches
    <2>2. CASE Answer(t)
      BY <1>2, <1>ts, <2>2 DEF Answer, At
    <2>. QED  BY <1>4, <2>1, <2>2
  <1>5. CASE Command
    <2>1. CASE UserConnect
      <3>1. \/ UNCHANGED prog
            \/ \E r \in {<<"toAssoc", "request">>, <<"toScan", "request">>} :
                  Runs("user", r)
        BY <2>1 DEF UserConnect
      <3>2. tasks' = tasks
        BY <2>1 DEF UserConnect
      <3>. QED  BY <1>0, <1>1, <1>t, <1>ts, <3>1, <3>2, OtherHandlers
    <2>2. CASE UserDisconnect
      <3>1. PICK r \in {<<"disconnecting", "sendDeauth">>, <<"requested">>} :
                Runs("user", r)
        BY <2>2 DEF UserDisconnect
      <3>2. r \in Seq(Steps) /\ tasks' = tasks
        BY <2>2, <3>1, OtherHandlers DEF UserDisconnect
      <3>. QED  BY <1>1, <1>t, <1>ts, <3>1, <3>2
    <2>. QED  BY <1>5, <2>1, <2>2 DEF Command
  <1>6. CASE AccessPoint
    <2>1. CASE BeaconMiss
      <3>1. Runs("soft", <<"toScan">>) /\ tasks' = tasks
        BY <2>1 DEF BeaconMiss
      <3>. QED  BY <1>1, <1>t, <1>ts, <3>1, OtherHandlers
    <2>2. CASE AccessPoint /\ ~BeaconMiss
      <3>1. tasks' = tasks
        BY <2>2 DEF AccessPoint, RecvAuth, RecvAuthReject, RecvAssoc, RecvAssocRefused,
                    RecvDeauth, RecvDisassoc, Receives, Expelled
      <3>2. \/ UNCHANGED prog
            \/ \E r \in {<<"toAssoc">>, <<"toScan">>, <<"sendAuth">>,
                         <<"answer", "toScan">>,
                         <<"toConnected", "load", "settle", "report", "tell">>} :
                  Runs("rx", r)
        BY <2>2 DEF AccessPoint, RecvAuth, RecvAuthReject, RecvAssoc, RecvAssocRefused,
                    RecvDeauth, RecvDisassoc
      <3>. QED  BY <1>0, <1>1, <1>t, <1>ts, <3>1, <3>2, Handlers
    <2>. QED  BY <1>6, <2>1, <2>2
  <1>7. CASE NoteRequest \/ SetDisconnecting \/ IsRequested \/ SetDelay \/ SendDeauth
    <2>1. prog["user"] # <<>> /\ tasks' = tasks
      BY <1>7 DEF NoteRequest, SetDisconnecting, IsRequested, SetDelay, SendDeauth, At
    <2>2. \/ Advance("user")
          \/ \E r \in {<<"delay">>, <<"toScan">>} : Runs("user", r)
      BY <1>7 DEF NoteRequest, SetDisconnecting, IsRequested, SetDelay, SendDeauth
    <2>. QED  BY <1>1, <1>2, <1>t, <1>ts, <2>1, <2>2, OtherHandlers
  <1>8. CASE RunTask
    <2>1. tasks' \in Seq(Tasks)
      BY <1>8, <1>ts, Tails DEF RunTask
    <2>2. \/ UNCHANGED prog
          \/ \E r \in {<<>>, <<"toScan">>, <<"toAuth">>, <<"toAuth", "rearm">>,
                       <<"toAssoc", "rearm">>, <<"answer", "toScan">>} : Runs("work", r)
      BY <1>8, TaskRuns
    <2>3. CASE UNCHANGED prog
      BY <2>1, <2>3 DEF ProgTypes
    <2>. QED  BY <1>1, <1>t, <2>1, <2>2, <2>3, OtherHandlers
  <1>9. CASE Rearm
    BY <1>2, <1>9, <1>t, <1>ts DEF Rearm, At
  <1>10. CASE SendAuth \/ LoadPhase \/ Settle \/ CarryOut \/ Report \/ Tell
    <2>1. prog["rx"] # <<>> /\ tasks' = tasks
      BY <1>10 DEF SendAuth, LoadPhase, Settle, CarryOut, Report, Tell, At
    <2>2. Advance("rx") \/ Runs("rx", <<>>) \/ Runs("rx", <<"load", "carryOut">>)
      BY <1>10 DEF SendAuth, LoadPhase, Settle, CarryOut, Report, Tell
    <2>. QED  BY <1>1, <1>2, <1>t, <1>ts, <2>1, <2>2, Handlers, CarriesOut
  <1>11. CASE EndScan
    BY <1>0, <1>3, <1>11 DEF EndScan, Tasks
  <1>12. CASE RetryTimer \/ SwitchTimer \/ DeauthDone
    BY <1>0, <1>3, <1>12 DEF RetryTimer, SwitchTimer, DeauthDone, Tasks
  <1>13. CASE ConnectTimer
    <2>1. PICK r \in {<<"answer", "toScan">>, <<>>} : Runs("soft", r)
      BY <1>13 DEF ConnectTimer
    <2>2. tasks' = tasks
      BY <1>13 DEF ConnectTimer
    <2>. QED  BY <1>1, <1>t, <1>ts, <2>1, <2>2, OtherHandlers
  <1>14. CASE UNCHANGED vars
    BY <1>0, <1>14 DEF vars
  <1>. QED
    BY <1>4, <1>5, <1>6, <1>7, <1>8, <1>9, <1>10, <1>11, <1>12, <1>13, <1>14, <1>t
       DEF Next, User, Work, Soft, Rx

-----------------------------------------------------------------------------
(* The types of the rest, variable by variable.                            *)
LEMMA StateTypes ==
    ASSUME BoundsAssumption, TypeOK, ProgTypes, [Next]_vars
    PROVE  /\ vm_state' \in States /\ kernel' \in {"idle", "asked", "up"}
           /\ phase' \subseteq Phases /\ armed' \subseteq Timers
           /\ loaded' \in [{"user", "rx"} -> SUBSET Phases]
  <1>1. vm_state' \in States
    <2>1. vm_state' \in States \/ vm_state' = vm_state
      BY DEF Next, Command, UserConnect, UserDisconnect, AccessPoint, Receives, RecvAuth,
             RecvAuthReject, RecvAssoc, RecvAssocRefused, Expelled, RecvDeauth,
             RecvDisassoc, BeaconMiss, User, NoteRequest, SetDisconnecting,
             IsRequested, SetDelay, SendDeauth, Work, RunTask, Rearm, Soft, Rx, Answer,
             SendAuth, LoadPhase, Settle, CarryOut, Report, Tell, TopSm, ToScan, ToAuth, ToAssoc, ToConnected,
             EndScan, RetryTimer, SwitchTimer, ConnectTimer, DeauthDone, vars, States
    <2>. QED  BY <2>1 DEF TypeOK
  <1>2. kernel' \in {"idle", "asked", "up"}
    <2>1. kernel' \in {"idle", "asked", "up"} \/ kernel' = kernel
      BY DEF Next, Command, UserConnect, UserDisconnect, AccessPoint, Receives, RecvAuth,
             RecvAuthReject, RecvAssoc, RecvAssocRefused, Expelled, RecvDeauth,
             RecvDisassoc, BeaconMiss, User, NoteRequest, SetDisconnecting,
             IsRequested, SetDelay, SendDeauth, Work, RunTask, Rearm, Soft, Rx, Answer,
             SendAuth, LoadPhase, Settle, CarryOut, Report, Tell, TopSm, ToScan, ToAuth, ToAssoc, ToConnected,
             StaysConnected, StaLeave, IndicateDisconnect,
             EndScan, RetryTimer, SwitchTimer, ConnectTimer, DeauthDone, vars
    <2>. QED  BY <2>1 DEF TypeOK
  <1>3. phase' \subseteq Phases
    <2>1. CASE SetDisconnecting \/ SetDelay \/ Settle \/ CarryOut
      <3>1. \A t \in {"user", "rx"} : \A flags \in Kept(t) : flags \subseteq Phases
        BY DEF TypeOK, Kept
      <3>2. \E t \in {"user", "rx"} : \E flags \in Kept(t) : phase' \subseteq flags \cup Phases
        BY <2>1 DEF SetDisconnecting, SetDelay, Settle, CarryOut, Store, Phases
      <3>. QED  BY <3>1, <3>2
    <2>2. CASE ~(SetDisconnecting \/ SetDelay \/ Settle \/ CarryOut)
      <3>1. phase' = phase \/ phase' = {}
        BY <2>2 DEF Next, Command, UserConnect, UserDisconnect, AccessPoint, Receives, RecvAuth,
             RecvAuthReject, RecvAssoc, RecvAssocRefused, Expelled, RecvDeauth,
             RecvDisassoc, BeaconMiss, User, NoteRequest, 
             IsRequested, SendDeauth, Work, RunTask, Rearm, Soft, Rx, Answer,
             SendAuth, LoadPhase, Report, Tell, TopSm, ToScan, ToAuth, ToAssoc, ToConnected,
             StaysConnected, StaLeave, IndicateDisconnect,
             EndScan, RetryTimer, SwitchTimer, ConnectTimer, DeauthDone, vars
      <3>. QED  BY <3>1 DEF TypeOK
    <2>. QED  BY <2>1, <2>2
  <1>4. armed' \subseteq Timers
    <2>1. armed' \subseteq armed \cup Timers
      BY DEF Next, Command, UserConnect, UserDisconnect, AccessPoint, Receives, RecvAuth,
             RecvAuthReject, RecvAssoc, RecvAssocRefused, Expelled, RecvDeauth,
             RecvDisassoc, BeaconMiss, User, NoteRequest, SetDisconnecting,
             IsRequested, SetDelay, SendDeauth, Work, RunTask, Rearm, Soft, Rx, Answer,
             SendAuth, LoadPhase, Settle, CarryOut, Report, Tell, TopSm, ToScan, ToAuth, ToAssoc, ToConnected,
             StaysConnected, StaLeave, IndicateDisconnect, SendRequest, Fire, Timers,
             EndScan, RetryTimer, SwitchTimer, ConnectTimer, DeauthDone, vars
    <2>. QED  BY <2>1 DEF TypeOK
  <1>5. loaded' \in [{"user", "rx"} -> SUBSET Phases]
    <2>1. \/ loaded' = loaded
          \/ \E t \in {"user", "rx"} : Load(t) \/ Unload(t)
      BY DEF Next, Command, UserConnect, UserDisconnect, AccessPoint, Receives, RecvAuth,
             RecvAuthReject, RecvAssoc, RecvAssocRefused, Expelled, RecvDeauth,
             RecvDisassoc, BeaconMiss, User, NoteRequest, SetDisconnecting,
             IsRequested, SetDelay, SendDeauth, Work, RunTask, Rearm, Soft, Rx, Answer,
             SendAuth, LoadPhase, Settle, CarryOut, Report, Tell, TopSm, ToScan, ToAuth, ToAssoc, ToConnected,
             EndScan, RetryTimer, SwitchTimer, ConnectTimer, DeauthDone, vars, Store
    <2>. QED  BY <2>1 DEF TypeOK, Load, Unload
  <1>. QED  BY <1>1, <1>2, <1>3, <1>4, <1>5

LEMMA FlagTypes ==
    ASSUME TypeOK, [Next]_vars
    PROVE  {curchan, request}' \subseteq BOOLEAN /\ scanning' \in BOOLEAN
  <1>0. curchan \in BOOLEAN /\ request \in BOOLEAN /\ scanning \in BOOLEAN
    BY Zenon DEF TypeOK
  <1>1. curchan' = curchan \/ curchan' = TRUE \/ curchan' = FALSE
    BY Zenon DEF Next, Command, UserConnect, UserDisconnect, AccessPoint, Receives, RecvAuth,
             RecvAuthReject, RecvAssoc, RecvAssocRefused, Expelled, RecvDeauth,
             RecvDisassoc, BeaconMiss, User, NoteRequest, SetDisconnecting,
             IsRequested, SetDelay, SendDeauth, Work, RunTask, Rearm, Soft, Rx, Answer,
             SendAuth, LoadPhase, Settle, CarryOut, Report, Tell, TopSm, ToScan, ToAuth, ToAssoc, ToConnected,
             StaysConnected, StaLeave, IndicateDisconnect, EndScan, RetryTimer,
             SwitchTimer, ConnectTimer, DeauthDone, vars
  <1>2. request' = request \/ request' = TRUE \/ request' = FALSE
    BY Zenon DEF Next, Command, UserConnect, UserDisconnect, AccessPoint, Receives, RecvAuth,
             RecvAuthReject, RecvAssoc, RecvAssocRefused, Expelled, RecvDeauth,
             RecvDisassoc, BeaconMiss, User, NoteRequest, SetDisconnecting,
             IsRequested, SetDelay, SendDeauth, Work, RunTask, Rearm, Soft, Rx, Answer,
             SendAuth, LoadPhase, Settle, CarryOut, Report, Tell, TopSm, ToScan, ToAuth, ToAssoc, ToConnected,
             StaysConnected, StaLeave, IndicateDisconnect, EndScan, RetryTimer,
             SwitchTimer, ConnectTimer, DeauthDone, vars
  <1>3. scanning' = scanning \/ scanning' = TRUE \/ scanning' = FALSE
    BY Zenon DEF Next, Command, UserConnect, UserDisconnect, AccessPoint, Receives, RecvAuth,
             RecvAuthReject, RecvAssoc, RecvAssocRefused, Expelled, RecvDeauth,
             RecvDisassoc, BeaconMiss, User, NoteRequest, SetDisconnecting,
             IsRequested, SetDelay, SendDeauth, Work, RunTask, Rearm, Soft, Rx, Answer,
             SendAuth, LoadPhase, Settle, CarryOut, Report, Tell, TopSm, ToScan, ToAuth, ToAssoc, ToConnected,
             StaysConnected, StaLeave, IndicateDisconnect, EndScan, RetryTimer,
             SwitchTimer, ConnectTimer, DeauthDone, vars,
             CheckScan
  <1>4. curchan' \in BOOLEAN
    BY <1>0, <1>1, Zenon
  <1>5. request' \in BOOLEAN
    BY <1>0, <1>2, Zenon
  <1>6. scanning' \in BOOLEAN
    BY <1>0, <1>3, Zenon
  <1>. QED  BY <1>4, <1>5, <1>6, Zenon

LEMMA CountTypes ==
    ASSUME BoundsAssumption, TypeOK, ProgTypes, [Next]_vars
    PROVE  /\ retry' \in 0 .. Retries /\ deauth' \in Nat /\ failed' \in 0 .. 1
           /\ budget' \in Bounds
  <1>1. retry' \in 0 .. Retries
    <2>1. CASE RunTask
      <3>1. Head(tasks) \in Tasks
        BY <2>1, Tails DEF RunTask, ProgTypes
      <3>2. retry' = retry \/ retry' = 0 \/ (retry < Retries /\ retry' = retry + 1)
        <4>1. CASE Head(tasks) = "toScan" \/ Head(tasks) = "startBss"
          BY <2>1, <4>1 DEF RunTask, StartBss
        <4>2. CASE Head(tasks) = "txTimeout"
          BY <2>1, <4>2 DEF RunTask, TxTimeout
        <4>. QED  BY <3>1, <4>1, <4>2 DEF Tasks
      <3>. QED  BY <3>2 DEF TypeOK, BoundsAssumption
    <2>2. CASE ~RunTask
      <3>1. retry' = retry \/ retry' = 0
        BY <2>2 DEF Next, Command, UserConnect, UserDisconnect, AccessPoint, Receives, RecvAuth,
             RecvAuthReject, RecvAssoc, RecvAssocRefused, Expelled, RecvDeauth,
             RecvDisassoc, BeaconMiss, User, NoteRequest, SetDisconnecting,
             IsRequested, SetDelay, SendDeauth, Work, Rearm, Soft, Rx, Answer,
             SendAuth, LoadPhase, Settle, CarryOut, Report, Tell, TopSm, ToScan, ToAuth, ToAssoc,
             ToConnected, EndScan, RetryTimer, SwitchTimer, ConnectTimer, DeauthDone, vars
      <3>. QED  BY <3>1 DEF TypeOK, BoundsAssumption
    <2>. QED  BY <2>1, <2>2
  <1>2. deauth' \in Nat /\ failed' \in 0 .. 1
    <2>1. /\ deauth' = deauth \/ deauth' = deauth + 1 \/ (deauth > 0 /\ deauth' = deauth - 1)
          /\ failed' = failed \/ failed' = 0 \/ failed' = 1
      BY DEF Next, Command, UserConnect, UserDisconnect, AccessPoint, Receives, RecvAuth,
             RecvAuthReject, RecvAssoc, RecvAssocRefused, Expelled, RecvDeauth,
             RecvDisassoc, BeaconMiss, User, NoteRequest, SetDisconnecting,
             IsRequested, SetDelay, SendDeauth, Work, RunTask, Rearm, Soft, Rx, Answer,
             SendAuth, LoadPhase, Settle, CarryOut, Report, Tell, TopSm, ToScan, ToAuth, ToAssoc, ToConnected,
             StaysConnected, StaLeave, IndicateDisconnect, EndScan, RetryTimer,
             SwitchTimer, ConnectTimer, DeauthDone, vars
    <2>. QED  BY <2>1 DEF TypeOK
  <1>3. budget' \in Bounds
    <2>1. \/ budget' = budget
          \/ \E kind \in {"connects", "disconnects", "frames", "losses"} : Spend(kind)
      BY DEF Next, Command, UserConnect, UserDisconnect, AccessPoint, Receives, RecvAuth,
             RecvAuthReject, RecvAssoc, RecvAssocRefused, Expelled, RecvDeauth,
             RecvDisassoc, BeaconMiss, User, NoteRequest, SetDisconnecting,
             IsRequested, SetDelay, SendDeauth, Work, RunTask, Rearm, Soft, Rx, Answer,
             SendAuth, LoadPhase, Settle, CarryOut, Report, Tell, TopSm, ToScan, ToAuth, ToAssoc, ToConnected,
             StaysConnected, StaLeave, IndicateDisconnect, EndScan, RetryTimer,
             SwitchTimer, ConnectTimer, DeauthDone, vars
    <2>2. budget \in Bounds
      BY DEF TypeOK
    <2>. QED  BY <2>1, <2>2 DEF Bounds, Spend
  <1>. QED  BY <1>1, <1>2, <1>3

LEMMA GhostTypes ==
    ASSUME TypeOK, [Next]_vars
    PROVE  ghost' \in Ghosts
  <1>1. \/ ghost' = ghost
        \/ ghost' = [ghost EXCEPT !.late = FALSE, !.silent = FALSE, !.stuck = FALSE]
        \/ ghost' = [ghost EXCEPT !.silent = TRUE]
        \/ ghost' = [ghost EXCEPT !.stuck = TRUE]
        \/ \E b \in BOOLEAN : ghost' = [ghost EXCEPT !.stuck = @ \/ b]
        \/ ghost' = [ghost EXCEPT !.seen = ~Idle("rx")]
        \/ ghost' = [ghost EXCEPT !.seen = @ \/ vm_state = "CONNECTED"]
        \/ ghost' = [ghost EXCEPT !.seen = FALSE,
                                  !.late = ghost.seen /\ vm_state # "CONNECTED"]
        \/ ghost' = [ghost EXCEPT !.seen = FALSE, !.silent = (kernel = "asked")]
    <2>1. CASE SetDisconnecting \/ SetDelay \/ Settle \/ CarryOut
      <3>1. \E flags : ghost' = [ghost EXCEPT !.stuck =
                @ \/ ("DISCONNECTING" \in flags /\ vm_state # "CONNECTED")]
        BY <2>1 DEF SetDisconnecting, SetDelay, Settle, CarryOut, Store
      <3>2. \A flags : ("DISCONNECTING" \in flags /\ vm_state # "CONNECTED") \in BOOLEAN
        OBVIOUS
      <3>. QED  BY <3>1, <3>2
    <2>2. CASE ~(SetDisconnecting \/ SetDelay \/ Settle \/ CarryOut)
      BY <2>2 DEF Next, Command, UserConnect, UserDisconnect, AccessPoint, Receives, RecvAuth,
             RecvAuthReject, RecvAssoc, RecvAssocRefused, Expelled, RecvDeauth,
             RecvDisassoc, BeaconMiss, User, NoteRequest, 
             IsRequested, SendDeauth, Work, RunTask, Rearm, Soft, Rx, Answer,
             SendAuth, LoadPhase, Report, Tell, TopSm, ToScan, ToAuth, ToAssoc, ToConnected,
             StaysConnected, StaLeave, IndicateDisconnect, EndScan, RetryTimer,
             SwitchTimer, ConnectTimer, DeauthDone, vars
    <2>. QED  BY <2>1, <2>2
  <1>2. ghost \in Ghosts
    BY DEF TypeOK, Ghosts
  <1>. QED  BY <1>1, <1>2 DEF Ghosts

LEMMA TypeStep ==
    ASSUME BoundsAssumption, TypeOK, ProgTypes, [Next]_vars
    PROVE  TypeOK' /\ ProgTypes'
  <1>1. ProgTypes'
    BY ProgStep
  <1>2. /\ \A i \in DOMAIN tasks' : tasks'[i] \in Tasks
        /\ \A t \in Threads : \A i \in DOMAIN prog'[t] : prog'[t][i] \in Steps
    BY <1>1 DEF ProgTypes
  <1>. QED  BY <1>1, <1>2, StateTypes, FlagTypes, CountTypes, GhostTypes
       DEF TypeOK, Ghosts

-----------------------------------------------------------------------------
(* Whoever takes the machine out of the connected state takes the channel  *)
(* and tells cfg80211; nobody else but the receive thread tells it of a    *)
(* connection, and nobody but the end of a scan finds a channel.           *)
LEMMA WhoLeaves ==
    ASSUME TypeOK, NEW t \in Threads, TopSm(t)
    PROVE  /\ curchan' => curchan
           /\ ghost'.seen = ghost.seen
           /\ vm_state = "CONNECTED" /\ vm_state' # "CONNECTED"
                => ~curchan' /\ kernel' = "idle"
           /\ kernel' = "up" => kernel = "up" /\ ghost' = ghost
  <1>1. ghost \in Ghosts
    BY DEF TypeOK, Ghosts
  <1>2. ASSUME StaLeave
        PROVE  ~curchan' /\ kernel' = "idle" /\ ghost'.seen = ghost.seen
    BY <1>1, <1>2 DEF StaLeave, IndicateDisconnect, Ghosts
  <1>3. CASE ToScan
    BY <1>2, <1>3 DEF ToScan, StaysConnected
  <1>4. CASE ToAuth
    BY <1>2, <1>4 DEF ToAuth, StaysConnected
  <1>5. CASE ToAssoc
    BY <1>2, <1>5 DEF ToAssoc, StaysConnected
  <1>6. CASE ToConnected
    BY <1>6 DEF ToConnected, StaysConnected
  <1>. QED  BY <1>3, <1>4, <1>5, <1>6 DEF TopSm

(* Where the receive thread comes from when it is past the state machine.  *)
LEMMA RxMoves ==
    ASSUME ProgTypes, NEW t \in Threads, prog[t] # <<>>, Advance(t)
    PROVE  /\ Informing' => Informing \/ (t = "rx" /\ Head(prog["rx"]) = "toConnected")
           /\ At("rx", "tell")' => At("rx", "tell") \/ (t = "rx" /\ At("rx", "report"))
           /\ t = "rx" /\ At("rx", "tell") => ~At("rx", "tell")'
           /\ t = "rx" /\ At("rx", "report") => ~Informing'
  <1>1. CASE t # "rx"
    <2>1. prog'["rx"] = prog["rx"]
      BY <1>1, GoesOn
    <2>. QED  BY <1>1, <2>1 DEF Informing, At
  <1>2. CASE t = "rx"
    <2>1. prog'["rx"] = Tail(prog["rx"]) /\ prog["rx"] # <<>> /\ InOrder(prog["rx"])
          /\ prog["rx"] \in Seq(Steps)
      BY <1>2, GoesOn DEF ProgTypes, Threads
    <2>2. Tail(prog["rx"]) # <<>> =>
            /\ Head(Tail(prog["rx"])) = "load" => Head(prog["rx"]) = "toConnected"
            /\ Head(Tail(prog["rx"])) = "settle" => Head(prog["rx"]) = "load"
            /\ Head(Tail(prog["rx"])) = "report" => Head(prog["rx"]) = "settle"
            /\ Head(Tail(prog["rx"])) = "tell" => Head(prog["rx"]) = "report"
      BY <2>1, OrderKept
    <2>3. Head(prog["rx"]) = "tell" => Tail(prog["rx"]) = <<>>
      BY <2>1, OrderKept
    <2>. QED  BY <1>2, <2>1, <2>2, <2>3 DEF Informing, At
  <1>. QED  BY <1>1, <1>2

(* A handler that starts is not past it.                                   *)
LEMMA RxBegins ==
    ASSUME ProgTypes, NEW t \in Threads,
           NEW r \in Seq(Steps), Runs(t, r),
           t = "rx" => r \in {<<>>, <<"toAssoc">>, <<"toScan">>, <<"sendAuth">>,
                              <<"answer", "toScan">>,
                              <<"toConnected", "load", "settle", "report", "tell">>}
    PROVE  (Informing' => Informing) /\ (At("rx", "tell")' => At("rx", "tell"))
  <1>1. t # "rx" => prog'["rx"] = prog["rx"]
    BY DEF ProgTypes, Runs, Threads
  <1>2. t = "rx" => prog'["rx"] = r
    BY DEF ProgTypes, Runs, Threads
  <1>3. t = "rx" => ~Informing' /\ ~At("rx", "tell")'
    BY <1>2, Handlers DEF Informing, At
  <1>. QED  BY <1>1, <1>3 DEF Informing, At

Believed == kernel = "up" /\ ~ghost.late => vm_state = "CONNECTED"

(* A step that leaves all of this alone.                                   *)
LEMMA Undisturbed ==
    ASSUME NetworkIsThere, SeenBeforeTold, Believed,
           Informing' => Informing, At("rx", "tell")' => At("rx", "tell"),
           curchan' => curchan, vm_state' = vm_state, ghost'.seen = ghost.seen,
           kernel' = "up" => kernel = "up" /\ ghost'.late = ghost.late
    PROVE  NetworkIsThere' /\ SeenBeforeTold' /\ Believed'
  BY DEF NetworkIsThere, SeenBeforeTold, Believed

(* The receive thread after the association response.                      *)
LEMMA RxTells ==
    ASSUME TypeOK, ProgTypes, NetworkIsThere, SeenBeforeTold, Believed,
           LoadPhase \/ Settle \/ CarryOut \/ Report \/ Tell
    PROVE  NetworkIsThere' /\ SeenBeforeTold' /\ Believed'
  <1>0. /\ prog["rx"] # <<>> /\ "rx" \in Threads
        /\ ghost \in Ghosts
    BY DEF LoadPhase, Settle, CarryOut, Report, Tell, At, Threads, TypeOK, Ghosts
  <1>1. ASSUME Runs("rx", <<>>)
        PROVE  ~Informing' /\ ~At("rx", "tell")'
    BY <1>0, <1>1 DEF Runs, Informing, At, ProgTypes
  <1>2. ASSUME Advance("rx")
        PROVE  /\ Informing' => Informing \/ Head(prog["rx"]) = "toConnected"
               /\ At("rx", "tell")' => At("rx", "tell") \/ At("rx", "report")
               /\ At("rx", "tell") => ~At("rx", "tell")'
               /\ At("rx", "report") => ~Informing'
    BY <1>0, <1>2, RxMoves
  <1>3. CASE LoadPhase \/ Settle \/ CarryOut
    <2>1. /\ Head(prog["rx"]) \in {"load", "settle", "carryOut"}
          /\ UNCHANGED <<vm_state, curchan, kernel>>
      BY <1>3 DEF LoadPhase, Settle, CarryOut, At
    <2>2. ghost'.seen = ghost.seen /\ ghost'.late = ghost.late
      <3>1. ghost' = ghost \/ \E b \in BOOLEAN : ghost' = [ghost EXCEPT !.stuck = b]
        BY <1>0, <1>3 DEF LoadPhase, Settle, CarryOut, Store, Ghosts
      <3>. QED  BY <1>0, <3>1 DEF Ghosts
    <2>3. (Informing' => Informing) /\ ~At("rx", "tell")'
      <3>1. CASE Advance("rx")
        BY <1>2, <2>1, <3>1 DEF At, Informing
      <3>2. CASE Settle /\ Runs("rx", <<"load", "carryOut">>)
        <4>1. prog'["rx"] = <<"load", "carryOut">>
          BY <1>0, <3>2 DEF Runs, ProgTypes
        <4>2. Informing /\ ~At("rx", "tell")'
          BY <3>2, <4>1, CarriesOut DEF Settle, At, Informing
        <4>. QED  BY <4>2
      <3>. QED  BY <1>3, <3>1, <3>2 DEF LoadPhase, Settle, CarryOut
    <2>. QED  BY <2>1, <2>2, <2>3, Undisturbed
  <1>4. CASE Report
    <2>1. /\ At("rx", "report") /\ Informing
          /\ UNCHANGED <<vm_state, curchan, kernel>>
          /\ ghost' = [ghost EXCEPT !.seen = @ \/ vm_state = "CONNECTED"]
      BY <1>4 DEF Report, Informing
    <2>2. ~Informing'
      BY <1>1, <1>2, <1>4, <2>1 DEF Report
    <2>3. ghost'.late = ghost.late
      BY <1>0, <2>1 DEF Ghosts
    <2>4. Believed'
      BY <2>1, <2>3 DEF Believed
    <2>5. SeenBeforeTold'
      <3>1. CASE ~curchan
        BY <1>1, <1>4, <3>1 DEF Report, SeenBeforeTold
      <3>2. CASE curchan
        <4>1. ghost.seen \/ vm_state = "CONNECTED"
          BY <2>1, <3>2 DEF NetworkIsThere
        <4>2. ghost'.seen
          BY <1>0, <2>1, <4>1 DEF Ghosts
        <4>. QED  BY <4>2 DEF SeenBeforeTold
      <3>. QED  BY <3>1, <3>2
    <2>. QED  BY <2>2, <2>4, <2>5 DEF NetworkIsThere
  <1>5. CASE Tell
    <2>1. /\ At("rx", "tell") /\ ~At("rx", "report") /\ ~Informing /\ Advance("rx")
          /\ Head(prog["rx"]) # "toConnected"
      BY <1>5 DEF Tell, At, Informing
    <2>2. ~Informing' /\ ~At("rx", "tell")'
      BY <1>2, <2>1
    <2>3. ghost.seen
      BY <2>1 DEF SeenBeforeTold
    <2>4. \/ ghost'.late = (vm_state # "CONNECTED") /\ vm_state' = vm_state
          \/ ghost'.late = ghost.late /\ UNCHANGED <<vm_state, kernel>>
      BY <1>0, <1>5, <2>3 DEF Tell, Ghosts
    <2>5. Believed'
      BY <2>4 DEF Believed
    <2>. QED  BY <2>2, <2>5 DEF NetworkIsThere, SeenBeforeTold
  <1>. QED  BY <1>3, <1>4, <1>5

LEMMA BeliefStep ==
    ASSUME TypeOK, ProgTypes, NetworkIsThere, SeenBeforeTold, Believed, [Next]_vars
    PROVE  NetworkIsThere' /\ SeenBeforeTold' /\ Believed'
  <1>t. /\ "user" \in Threads /\ "rx" \in Threads /\ "work" \in Threads /\ "soft" \in Threads
        /\ ghost \in Ghosts
        /\ tasks \in Seq(Tasks)
    BY DEF Threads, TypeOK, ProgTypes, Ghosts
  <1>0. ASSUME UNCHANGED prog
        PROVE  (Informing' => Informing) /\ (At("rx", "tell")' => At("rx", "tell"))
    BY <1>0 DEF Informing, At
  <1>1. ASSUME NEW t \in Threads, TopSm(t)
        PROVE  NetworkIsThere' /\ SeenBeforeTold' /\ Believed'
    <2>1. /\ prog[t] # <<>> /\ Advance(t)
          /\ Head(prog[t]) \in {"toScan", "toAuth", "toAssoc", "toConnected"}
          /\ Head(prog[t]) = "toConnected" => vm_state' = "CONNECTED"
      BY <1>1, Switches
    <2>2. t = "rx" => ~At("rx", "report")
      BY <2>1 DEF At
    <2>3. /\ Informing' => Informing \/ vm_state' = "CONNECTED"
          /\ At("rx", "tell")' => At("rx", "tell")
      BY <2>1, <2>2, RxMoves
    <2>4. /\ curchan' => curchan
          /\ ghost'.seen = ghost.seen
          /\ vm_state = "CONNECTED" /\ vm_state' # "CONNECTED"
               => ~curchan' /\ kernel' = "idle"
          /\ kernel' = "up" => kernel = "up" /\ ghost' = ghost
      BY <1>1, WhoLeaves
    <2>5. NetworkIsThere'
      BY <2>3, <2>4 DEF NetworkIsThere
    <2>6. SeenBeforeTold' /\ Believed'
      BY <2>3, <2>4 DEF SeenBeforeTold, Believed
    <2>. QED  BY <2>5, <2>6
  <1>2. ASSUME NEW t \in Threads, Answer(t)
        PROVE  NetworkIsThere' /\ SeenBeforeTold' /\ Believed'
    <2>1. /\ prog[t] # <<>> /\ Head(prog[t]) = "answer" /\ Advance(t)
          /\ UNCHANGED <<vm_state, curchan>> /\ kernel' = "idle"
          /\ ghost' = [ghost EXCEPT !.late = FALSE, !.silent = FALSE, !.stuck = FALSE]
      BY <1>2 DEF Answer, At, IndicateDisconnect
    <2>2. t = "rx" => ~At("rx", "report")
      BY <2>1 DEF At
    <2>3. (Informing' => Informing) /\ (At("rx", "tell")' => At("rx", "tell"))
      BY <2>1, <2>2, RxMoves
    <2>4. ghost'.seen = ghost.seen
      BY <1>t, <2>1 DEF Ghosts
    <2>. QED  BY <2>1, <2>3, <2>4, Undisturbed
  <1>3. CASE Command
    <2>1. UNCHANGED <<vm_state, curchan>> /\ (kernel' = "up" => kernel = "up")
          /\ (ghost' = ghost \/ ghost' = [ghost EXCEPT !.silent = TRUE])
      BY <1>3 DEF Command, UserConnect, UserDisconnect
    <2>2. \/ UNCHANGED prog
          \/ \E r \in {<<"toAssoc", "request">>, <<"toScan", "request">>,
                       <<"disconnecting", "sendDeauth">>, <<"requested">>} :
                Runs("user", r)
      BY <1>3 DEF Command, UserConnect, UserDisconnect
    <2>3. (Informing' => Informing) /\ (At("rx", "tell")' => At("rx", "tell"))
      BY <1>0, <1>t, <2>2, OtherHandlers, RxBegins
    <2>4. ghost'.seen = ghost.seen /\ ghost'.late = ghost.late
      BY <1>t, <2>1 DEF Ghosts
    <2>. QED  BY <2>1, <2>3, <2>4, Undisturbed
  <1>4. CASE AccessPoint
    <2>1. UNCHANGED <<vm_state, curchan, kernel, ghost>>
      BY <1>4 DEF AccessPoint, RecvAuth, RecvAuthReject, RecvAssoc, RecvAssocRefused,
                  RecvDeauth, RecvDisassoc, BeaconMiss, Receives,
                  Expelled
    <2>2. \/ UNCHANGED prog
          \/ \E r \in {<<"toAssoc">>, <<"toScan">>, <<"sendAuth">>,
                       <<"answer", "toScan">>,
                       <<"toConnected", "load", "settle", "report", "tell">>} :
                Runs("rx", r)
          \/ Runs("soft", <<"toScan">>)
      BY <1>4 DEF AccessPoint, RecvAuth, RecvAuthReject, RecvAssoc, RecvAssocRefused,
                  RecvDeauth, RecvDisassoc, BeaconMiss
    <2>3. (Informing' => Informing) /\ (At("rx", "tell")' => At("rx", "tell"))
      BY <1>0, <1>t, <2>2, Handlers, RxBegins
    <2>. QED  BY <2>1, <2>3, Undisturbed
  <1>5. CASE \/ NoteRequest \/ SetDisconnecting \/ IsRequested \/ SetDelay \/ SendDeauth
             \/ Rearm \/ SendAuth
    <2>1. UNCHANGED <<vm_state, curchan, kernel>>
      BY <1>5 DEF NoteRequest, SetDisconnecting, IsRequested, SetDelay, SendDeauth,
                  Rearm, SendAuth
    <2>2. ghost' = ghost \/ \E b \in BOOLEAN : ghost' = [ghost EXCEPT !.stuck = b]
      BY <1>5, <1>t DEF NoteRequest, SetDisconnecting, IsRequested, SetDelay,
                  SendDeauth, Rearm, SendAuth, Store, Ghosts
    <2>3. ghost'.seen = ghost.seen /\ ghost'.late = ghost.late
      BY <1>t, <2>2 DEF Ghosts
    <2>4. \/ \E t \in {"user", "work"} : prog[t] # <<>> /\ Advance(t)
          \/ \E r \in {<<"delay">>, <<"toScan">>} : Runs("user", r)
          \/ At("rx", "sendAuth") /\ Advance("rx")
      BY <1>5 DEF NoteRequest, SetDisconnecting, IsRequested, SetDelay, SendDeauth,
                  Rearm, SendAuth, At
    <2>5. (Informing' => Informing) /\ (At("rx", "tell")' => At("rx", "tell"))
      <3>1. CASE \E t \in {"user", "work"} : prog[t] # <<>> /\ Advance(t)
        BY <1>t, <3>1, RxMoves
      <3>2. CASE \E r \in {<<"delay">>, <<"toScan">>} : Runs("user", r)
        BY <1>t, <3>2, OtherHandlers, RxBegins
      <3>3. CASE At("rx", "sendAuth") /\ Advance("rx")
        <4>1. prog["rx"] # <<>> /\ Head(prog["rx"]) = "sendAuth" /\ ~At("rx", "report")
          BY <3>3 DEF At
        <4>. QED  BY <1>t, <3>3, <4>1, RxMoves
      <3>. QED  BY <2>4, <3>1, <3>2, <3>3
    <2>. QED  BY <2>1, <2>3, <2>5, Undisturbed
  <1>6. CASE RunTask
    <2>1. UNCHANGED <<vm_state, curchan, kernel, ghost>>
      BY <1>6 DEF RunTask
    <2>2. \/ UNCHANGED prog
          \/ \E r \in {<<>>, <<"toScan">>, <<"toAuth">>, <<"toAuth", "rearm">>,
                       <<"toAssoc", "rearm">>, <<"answer", "toScan">>} : Runs("work", r)
      BY <1>6, <1>t, TaskRuns
    <2>3. (Informing' => Informing) /\ (At("rx", "tell")' => At("rx", "tell"))
      BY <1>0, <1>t, <2>2, OtherHandlers, RxBegins
    <2>. QED  BY <2>1, <2>3, Undisturbed
  <1>7. CASE LoadPhase \/ Settle \/ CarryOut \/ Report \/ Tell
    BY <1>7, RxTells
  <1>8. CASE EndScan
    <2>1. UNCHANGED <<vm_state, kernel, prog>>
      BY <1>8 DEF EndScan
    <2>2. \/ ghost' = [ghost EXCEPT !.seen = ~Idle("rx")]
          \/ UNCHANGED <<ghost, curchan>>
      BY <1>8 DEF EndScan
    <2>3. CASE UNCHANGED <<ghost, curchan>>
      BY <1>0, <2>1, <2>3, Undisturbed
    <2>4. CASE ghost' = [ghost EXCEPT !.seen = ~Idle("rx")]
      <3>1. ghost'.late = ghost.late /\ (ghost'.seen <=> ~Idle("rx"))
        BY <1>t, <2>4 DEF Ghosts
      <3>2. Informing' \/ At("rx", "tell")' => ~Idle("rx")
        BY <2>1 DEF Informing, At, Idle
      <3>. QED  BY <2>1, <3>1, <3>2 DEF NetworkIsThere, SeenBeforeTold, Believed
    <2>. QED  BY <2>2, <2>3, <2>4
  <1>9. CASE RetryTimer \/ SwitchTimer \/ DeauthDone \/ UNCHANGED vars
    <2>1. UNCHANGED <<vm_state, curchan, kernel, ghost, prog>>
      BY <1>9 DEF RetryTimer, SwitchTimer, DeauthDone, vars
    <2>. QED  BY <1>0, <2>1, Undisturbed
  <1>10. CASE ConnectTimer
    <2>1. UNCHANGED <<vm_state, curchan, kernel, ghost>>
      BY <1>10 DEF ConnectTimer
    <2>2. \E r \in {<<"answer", "toScan">>, <<>>} : Runs("soft", r)
      BY <1>10 DEF ConnectTimer
    <2>3. (Informing' => Informing) /\ (At("rx", "tell")' => At("rx", "tell"))
      BY <1>t, <2>2, OtherHandlers, RxBegins
    <2>. QED  BY <2>1, <2>3, Undisturbed
  <1>. QED
    BY <1>1, <1>2, <1>3, <1>4, <1>5, <1>6, <1>7, <1>8, <1>9, <1>10, <1>t
       DEF Next, User, Work, Soft, Rx

LEMMA Inductive == BoundsAssumption /\ IInv /\ [Next]_vars => IInv'
  <1>. SUFFICES ASSUME BoundsAssumption, IInv, [Next]_vars PROVE IInv'
    OBVIOUS
  <1>1. TypeOK /\ ProgTypes /\ NetworkIsThere /\ SeenBeforeTold /\ Believed
    BY DEF IInv, HonestReport, Believed
  <1>2. TypeOK' /\ ProgTypes'
    BY <1>1, TypeStep
  <1>3. NetworkIsThere' /\ SeenBeforeTold' /\ Believed'
    BY <1>1, BeliefStep
  <1>. QED  BY <1>2, <1>3 DEF IInv, HonestReport, Believed

(* cfg80211 is told of a connection (vm_cfg80211_indicate_connect) long    *)
(* after the lock of the machine was given up, and believes in it only     *)
(* while there is one, or when the network was left between the look at    *)
(* the channel and the call (HonestReport's ghost.late).                   *)
THEOREM MlmeHonestReport == Spec => []HonestReport
  <1>1. IInv => HonestReport
    BY DEF IInv
  <1>2. Init => IInv
    BY BoundsAssumption, Initially
  <1>3. IInv /\ [Next]_vars => IInv'
    BY BoundsAssumption, Inductive
  <1>. QED  BY <1>1, <1>2, <1>3, PTL DEF Spec
=============================================================================
