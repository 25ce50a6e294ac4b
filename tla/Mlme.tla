-------------------------------- MODULE Mlme --------------------------------
(***************************************************************************)
(* The connection state machine of one station interface: the commands of  *)
(* cfg80211 (wifi_cfg80211.c), the state machine wifi_mac_top_sm and its   *)
(* retry timer (wifi_mac_if.c), the frames of the access point             *)
(* (wifi_mac_recv.c), the end of the connecting scan (wifi_mac_scan.c) and *)
(* the fate of the deauthentication frame (wifi_drv_xmit.c).               *)
(*                                                                         *)
(* Four threads run it at once: the caller of cfg80211 (rtnl holds it to   *)
(* one command at a time), the receive thread, the work thread with its    *)
(* FIFO of tasks and the tasklet of timers; scans end by themselves.  The  *)
(* code between two places where another thread may come in is one element *)
(* of prog[t]; wifi_mac_top_sm holds the VMACS lock over its whole switch, *)
(* so it is one element, but the vm_state its caller looked at is older.   *)
(* vm_phase_flags has no lock: a test of it is an element, and so is every *)
(* |= and &=, which may write back what the element before it loaded.      *)
(*                                                                         *)
(* Abstracted: the channel, the keys and the rates; which network is       *)
(* wanted (a scan finds it or not); SAE; roaming; the interface going down *)
(* (WIFINET_S_INIT); wm_nrunning, which is vm_state seen from the device;  *)
(* connect_start and connect_end, which only keep the chip awake;          *)
(* PHASE_CONNECTING, which only makes cfg80211's own scans be refused.  No *)
(* caller asks top_sm for WIFINET_S_CONNECTING, so no such state is here,  *)
(* and only an IBSS asks for WIFINET_S_AUTH with SUBTYPE_AUTH.             *)
(* wifi_mac_cancel_scan at the start of the switch only hastens the end of *)
(* a scan, which may come at any time here.                                *)
(***************************************************************************)
EXTENDS Naturals, Sequences

CONSTANTS Retries,        \* DEFAULT_MGMT_RETRY_TIMES
          Loads           \* bound: what may happen in a behaviour, each a number
                          \* of connect and disconnect commands, of frames of
                          \* the access point and of losses of a connection

Bounds == [connects : Nat, disconnects : Nat, frames : Nat, losses : Nat]

ASSUME BoundsAssumption == Retries \in Nat /\ Loads \subseteq Bounds

Threads == {"user", "rx", "work", "soft"}
States == {"SCAN", "AUTH", "ASSOC", "CONNECTED"}
Tasks == {"toScan", "txTimeout", "startBss"}
Steps == {"toScan", "toAuth", "toAssoc", "toConnected", "answer", "request",
          "disconnecting", "requested", "delay", "sendDeauth", "sendAuth",
          "load", "settle", "carryOut", "report", "tell", "rearm"}

VARIABLES
    vm_state,
    phase,      \* vm_phase_flags: a subset of Phases
    loaded,     \* loaded[t]: what thread t last loaded of it
    retry,      \* mgmt_pkt_retry_count
    curchan,    \* vm_curchan # WIFINET_CHAN_ERR
    request,    \* connect_request # NULL
    scanning,   \* WIFINET_F_SCAN
    armed,      \* the timers that are armed
    tasks,      \* the work queue, the tasks of this module
    deauth,     \* deauthentication frames handed to the hardware
    failed,     \* deauth_fail_time
    kernel,     \* what cfg80211 believes: "idle", "asked" or "up"
    prog,       \* prog[t]: what thread t still does of its handler
    budget,     \* what is left of the load
    ghost       \* history: see HonestReport, Answered and DisconnectEnds

vars == <<vm_state, phase, loaded, retry, curchan, request, scanning, armed,
          tasks, deauth, failed, kernel, prog, budget, ghost>>

Timers == {"mgtsend", "sm_switch", "connect_timeout"}
Phases == {"DISCONNECTING", "DISCONNECT_DELAY"}

TypeOK ==
    /\ vm_state \in States
    /\ phase \subseteq Phases
    /\ loaded \in [{"user", "rx"} -> SUBSET Phases]
    /\ retry \in 0 .. Retries
    /\ {curchan, request} \subseteq BOOLEAN
    /\ scanning \in BOOLEAN
    /\ armed \subseteq Timers
    /\ \A i \in DOMAIN tasks : tasks[i] \in Tasks
    /\ deauth \in Nat /\ failed \in 0 .. 1
    /\ kernel \in {"idle", "asked", "up"}
    /\ \A t \in Threads : \A i \in DOMAIN prog[t] : prog[t][i] \in Steps
    /\ budget \in Bounds
    /\ ghost \in [seen : BOOLEAN, late : BOOLEAN,
                  silent : BOOLEAN, stuck : BOOLEAN]

(* The interface is up and has done its first scan (wifi_mac_open). *)
Init ==
    /\ vm_state = "SCAN" /\ phase = {} /\ retry = 0
    /\ loaded = [t \in {"user", "rx"} |-> {}]
    /\ curchan = FALSE /\ request = FALSE
    /\ scanning = FALSE /\ armed = {} /\ tasks = <<>>
    /\ deauth = 0 /\ failed = 0 /\ kernel = "idle"
    /\ prog = [t \in Threads |-> <<>>]
    /\ budget \in Loads
    /\ ghost = [seen |-> FALSE, late |-> FALSE,
                silent |-> FALSE, stuck |-> FALSE]

-----------------------------------------------------------------------------
(* Thread t starts a handler that still has to do p, or goes on with it. *)
Runs(t, p) == prog' = [prog EXCEPT ![t] = p]
Idle(t) == prog[t] = <<>>
At(t, s) == prog[t] # <<>> /\ Head(prog[t]) = s
Advance(t) == Runs(t, Tail(prog[t]))

(* Thread t loads vm_phase_flags and some element later stores it: what it *)
(* keeps is what it loaded, then or just now.  Whoever stores              *)
(* PHASE_DISCONNECTING after the network was left comes too late for       *)
(* anybody to clear it.                                                    *)
Load(t) == loaded' = [loaded EXCEPT ![t] = phase]
Unload(t) == loaded' = [loaded EXCEPT ![t] = {}]
Kept(t) == {loaded[t], phase}
Store(t, flags) ==
    /\ phase' = flags
    /\ Unload(t)
    /\ ghost' = [ghost EXCEPT !.stuck =
             @ \/ ("DISCONNECTING" \in flags /\ vm_state # "CONNECTED")]

(* vm_cfg80211_indicate_disconnect: the request is withdrawn, its timer    *)
(* stopped, cfg80211 told, every phase forgotten and the retry stopped.    *)
IndicateDisconnect ==
    /\ request' = FALSE
    /\ armed' = armed \ ({"mgtsend"} \cup
                         IF request THEN {"connect_timeout"} ELSE {})
    /\ kernel' = "idle"
    /\ phase' = {}
    /\ ghost' = [ghost EXCEPT !.late = FALSE, !.silent = FALSE,
                              !.stuck = FALSE]

(* wifi_mac_sta_leave: the channel and the wanted ssid go, cfg80211 is told. *)
StaLeave ==
    /\ curchan' = FALSE
    /\ IndicateDisconnect

StaysConnected == UNCHANGED <<phase, curchan, request, kernel, ghost>>

Queue(task) == tasks' = Append(tasks, task)

Spend(kind) ==
    budget[kind] > 0 /\ budget' = [budget EXCEPT ![kind] = @ - 1]

(* wifi_mac_chk_scan: a scan that runs already is left as it is. *)
CheckScan == scanning' = TRUE

(* wifi_mac_sub_sm to WIFINET_S_SCAN. *)
ToScan ==
    /\ vm_state' = "SCAN"
    /\ IF vm_state = "CONNECTED"
       THEN StaLeave /\ UNCHANGED scanning
       ELSE CheckScan /\ StaysConnected /\ armed' = armed \ {"mgtsend"}
    /\ UNCHANGED <<retry, tasks, deauth>>

(* Sending an authentication or association request arms the retry timer. *)
SendRequest == armed' = armed \cup {"mgtsend"}

(* wifi_mac_sub_sm to WIFINET_S_AUTH, argument SUBTYPE_DEAUTH. *)
ToAuth ==
    /\ vm_state' = "AUTH"
    /\ retry' = IF vm_state = "AUTH" THEN retry ELSE 0
    /\ IF vm_state = "CONNECTED"
       THEN StaLeave /\ deauth' = deauth + 1 /\ Queue("toScan")
       ELSE SendRequest /\ StaysConnected /\ UNCHANGED <<deauth, tasks>>
    /\ UNCHANGED scanning

(* Mutant: nothing takes a stray move to WIFINET_S_ASSOC back. *)
ToAssocStrayStays ==
    /\ vm_state' = "ASSOC"
    /\ retry' = IF vm_state = "ASSOC" THEN retry ELSE 0
    /\ CASE vm_state \in {"AUTH", "ASSOC"} ->
              SendRequest /\ StaysConnected /\ UNCHANGED tasks
         [] vm_state = "CONNECTED" -> StaLeave /\ Queue("toScan")
         [] OTHER -> /\ UNCHANGED tasks /\ StaysConnected
                     /\ armed' = armed \ {"mgtsend"}
    /\ UNCHANGED <<deauth, scanning>>

(* wifi_mac_sub_sm to WIFINET_S_ASSOC: from any state but the two before   *)
(* it, a task takes the machine back to the scan.                          *)
ToAssoc ==
    /\ vm_state' = "ASSOC"
    /\ retry' = IF vm_state = "ASSOC" THEN retry ELSE 0
    /\ CASE vm_state \in {"AUTH", "ASSOC"} ->
              SendRequest /\ StaysConnected /\ UNCHANGED tasks
         [] vm_state = "CONNECTED" -> StaLeave /\ Queue("toScan")
         [] OTHER -> /\ Queue("toScan") /\ StaysConnected
                     /\ armed' = armed \ {"mgtsend"}
    /\ UNCHANGED <<deauth, scanning>>

(* wifi_mac_sub_sm to WIFINET_S_CONNECTED. *)
ToConnected ==
    /\ vm_state' = "CONNECTED"
    /\ armed' = armed \ {"mgtsend"}
    /\ StaysConnected
    /\ UNCHANGED <<retry, tasks, deauth, scanning>>

TopSm(t) ==
    /\ \/ At(t, "toScan") /\ ToScan
       \/ At(t, "toAuth") /\ ToAuth
       \/ At(t, "toAssoc") /\ ToAssoc
       \/ At(t, "toConnected") /\ ToConnected
    /\ Advance(t)
    /\ UNCHANGED <<failed, budget, loaded>>

(* vm_cfg80211_indicate_disconnect called for a request that failed. *)
Answer(t) ==
    /\ At(t, "answer")
    /\ IndicateDisconnect
    /\ Advance(t)
    /\ UNCHANGED <<vm_state, retry, curchan, scanning, tasks, deauth, failed,
                   budget, loaded>>

-----------------------------------------------------------------------------
(* The commands of cfg80211.                                               *)

(* vm_cfg80211_connect up to its choice of state: cfg80211 asks only while *)
(* it holds the interface to be unconnected.  It returns 0 without doing   *)
(* anything while Miracast holds the device, and when it cannot parse its  *)
(* own RSN element.                                                        *)
UserConnect ==
    /\ Idle("user") /\ kernel = "idle" /\ Spend("connects")
    /\ kernel' = "asked"
    /\ \/ /\ Runs("user", <<IF vm_state = "CONNECTED" THEN "toAssoc"
                                                   ELSE "toScan", "request">>)
          /\ UNCHANGED ghost
       \/ UNCHANGED prog /\ ghost' = [ghost EXCEPT !.silent = TRUE]
    /\ UNCHANGED <<vm_state, phase, loaded, retry, curchan, request, scanning,
                   armed, tasks, deauth, failed>>

(* Mutant: the request is noted, its timer is not started. *)
NoteRequestOnly ==
    /\ At("user", "request")
    /\ request' = TRUE
    /\ Advance("user")
    /\ UNCHANGED <<vm_state, phase, loaded, retry, curchan, scanning, armed,
                   tasks, deauth, failed, kernel, budget, ghost>>

(* ... and its end: the request is noted after the machine was started. *)
NoteRequest ==
    /\ At("user", "request")
    /\ request' = TRUE
    /\ armed' = armed \cup {"connect_timeout"}
    /\ Advance("user")
    /\ UNCHANGED <<vm_state, phase, loaded, retry, curchan, scanning, tasks,
                   deauth, failed, kernel, budget, ghost>>

(* vm_cfg80211_disconnect: it tests the phase and then the state (no other *)
(* thread sets this phase, so both hold when the state is read), ...       *)
UserDisconnect ==
    /\ Idle("user") /\ kernel # "idle" /\ Spend("disconnects")
    /\ Runs("user", IF vm_state = "CONNECTED" /\ "DISCONNECTING" \notin phase
                    THEN <<"disconnecting", "sendDeauth">> ELSE <<"requested">>)
    /\ Load("user")
    /\ UNCHANGED <<vm_state, phase, retry, curchan, request, scanning, armed,
                   tasks, deauth, failed, kernel, ghost>>

(* ... sets the phase, ...                                                 *)
SetDisconnecting ==
    /\ At("user", "disconnecting")
    /\ \E flags \in Kept("user") : Store("user", flags \cup {"DISCONNECTING"})
    /\ Advance("user")
    /\ UNCHANGED <<vm_state, retry, curchan, request, scanning, armed, tasks,
                   deauth, failed, kernel, budget>>

(* ... or looks for an attempt under way, ...                              *)
IsRequested ==
    /\ At("user", "requested")
    /\ IF request THEN Runs("user", <<"delay">>) /\ Load("user")
                  ELSE Advance("user") /\ Unload("user")
    /\ UNCHANGED <<vm_state, phase, retry, curchan, request, scanning, armed,
                   tasks, deauth, failed, kernel, budget, ghost>>

(* ... which will carry the disconnect out when it has succeeded.          *)
SetDelay ==
    /\ At("user", "delay")
    /\ \E flags \in Kept("user") :
          Store("user", flags \cup {"DISCONNECT_DELAY"})
    /\ Advance("user")
    /\ UNCHANGED <<vm_state, retry, curchan, request, scanning, armed, tasks,
                   deauth, failed, kernel, budget>>

(* The phase is set; the command fails if a scan may not be preempted (a   *)
(* peer-to-peer negotiation) or there is no memory for the frame.  On a    *)
(* peer-to-peer interface (vm_p2p_support) it leaves at once.              *)
SendDeauth ==
    /\ At("user", "sendDeauth")
    /\ \/ deauth' = deauth + 1 /\ UNCHANGED ghost
       \/ UNCHANGED deauth /\ ghost' = [ghost EXCEPT !.stuck = TRUE]
    /\ Advance("user") \/ Runs("user", <<"toScan">>)
    /\ UNCHANGED <<vm_state, phase, loaded, retry, curchan, request, scanning,
                   armed, tasks, failed, kernel, budget>>

-----------------------------------------------------------------------------
(* The end of a scan: wifi_mac_scan_connect finds the wanted network or    *)
(* not, wifi_mac_connect prepares the attempt and queues its first step.   *)
EndScan ==
    /\ scanning
    /\ scanning' = FALSE
    /\ \/ /\ request /\ vm_state = "SCAN"
          /\ curchan' = TRUE
          /\ Queue("startBss")
          /\ ghost' = [ghost EXCEPT !.seen = ~Idle("rx")]
       \/ UNCHANGED <<curchan, tasks, ghost>>
    /\ UNCHANGED <<vm_state, phase, loaded, retry, request, armed, deauth,
                   failed, kernel, prog, budget>>

-----------------------------------------------------------------------------
(* The work thread takes the oldest task and reads vm_state.               *)

(* wifi_mac_start_bss_ex: only from the scan, and only with a channel. *)
StartBss ==
    /\ Runs("work", IF curchan /\ vm_state = "SCAN" THEN <<"toAuth">> ELSE <<>>)
    /\ UNCHANGED retry

(* wifi_mac_tx_timeout_ex: try again, or give the attempt up. *)
TxTimeout ==
    IF retry < Retries
    THEN \/ /\ vm_state = "AUTH" /\ retry' = retry + 1
            /\ Runs("work", <<"toAuth", "rearm">>)
         \/ /\ vm_state = "ASSOC" /\ retry' = retry + 1
            /\ Runs("work", <<"toAssoc", "rearm">>)
         \/ /\ vm_state \notin {"AUTH", "ASSOC"} /\ retry' = 0
            /\ UNCHANGED prog
    ELSE /\ retry' = 0
         /\ Runs("work", IF vm_state \in {"AUTH", "ASSOC"}
                         THEN <<"answer", "toScan">> ELSE <<>>)

RunTask ==
    /\ Idle("work") /\ tasks # <<>>
    /\ tasks' = Tail(tasks)
    /\ CASE Head(tasks) = "toScan" ->
              Runs("work", <<"toScan">>) /\ UNCHANGED retry  \* wifi_mac_sm_switch
         [] Head(tasks) = "startBss" -> StartBss
         [] Head(tasks) = "txTimeout" -> TxTimeout
    /\ UNCHANGED <<vm_state, phase, loaded, curchan, request, scanning, armed,
                   deauth, failed, kernel, budget, ghost>>

Rearm ==
    /\ At("work", "rearm")
    /\ armed' = armed \cup {"mgtsend"}
    /\ Advance("work")
    /\ UNCHANGED <<vm_state, phase, loaded, retry, curchan, request, scanning,
                   tasks, deauth, failed, kernel, budget, ghost>>

-----------------------------------------------------------------------------
(* The timers.                                                             *)

Fire(timer) == timer \in armed /\ armed' = armed \ {timer}

(* wifi_mac_mgmt_tx_timeout and wifi_mac_sm_switch_timeout.  The retry     *)
(* timer, 100 ms and more, does not run out between the request            *)
(* and the second start of it that follows in wifi_mac_tx_timeout_ex.      *)
RetryTimer ==
    /\ ~At("work", "rearm")
    /\ Fire("mgtsend")
    /\ IF vm_state \in {"AUTH", "ASSOC", "CONNECTED"} THEN Queue("txTimeout")
                                                     ELSE UNCHANGED tasks
    /\ UNCHANGED <<vm_state, phase, loaded, retry, curchan, request, scanning,
                   deauth, failed, kernel, prog, budget, ghost>>

SwitchTimer ==
    /\ Fire("sm_switch")
    /\ Queue("toScan")
    /\ UNCHANGED <<vm_state, phase, loaded, retry, curchan, request, scanning,
                   deauth, failed, kernel, prog, budget, ghost>>

(* vm_cfg80211_connect_timeout_timer and its tasklet. *)
ConnectTimer ==
    /\ Idle("soft") /\ Fire("connect_timeout")
    /\ Runs("soft", IF request THEN <<"answer", "toScan">> ELSE <<>>)
    /\ UNCHANGED <<vm_state, phase, loaded, retry, curchan, request, scanning,
                   tasks, deauth, failed, kernel, budget, ghost>>

-----------------------------------------------------------------------------
(* The access point, as the receive thread sees it.                        *)

Receives ==
    /\ Idle("rx")
    /\ Spend("frames")
    /\ UNCHANGED <<vm_state, phase, loaded, retry, curchan, request, scanning,
                   tasks, deauth, failed, kernel, ghost>>

(* wifi_mac_auth_open and wifi_mac_auth_shared: accepted, to be answered   *)
(* with the challenge, or not understood.                                  *)
RecvAuth ==
    /\ Receives /\ vm_state = "AUTH"
    /\ \E step \in {"toAssoc", "sendAuth", "toScan"} : Runs("rx", <<step>>)
    /\ UNCHANGED armed

(* wifi_mac_recv_auth of a WEP network that rejects, whatever the state:   *)
(* open authentication is tried, or the attempt given up.  Without WEP a   *)
(* rejection only notes the algorithm (wifi_mac_status_code_handle).       *)
RecvAuthReject ==
    /\ Receives
    /\ \/ SendRequest /\ UNCHANGED prog
       \/ armed' = armed \ {"mgtsend"} /\ Runs("rx", <<"answer", "toScan">>)

SendAuth ==
    /\ At("rx", "sendAuth")
    /\ SendRequest
    /\ Advance("rx")
    /\ UNCHANGED <<vm_state, phase, loaded, retry, curchan, request, scanning,
                   tasks, deauth, failed, kernel, budget, ghost>>

(* wifi_mac_recv_assoc_rsp, accepted, up to wifi_mac_top_sm. *)
RecvAssoc ==
    /\ Receives /\ vm_state = "ASSOC"
    /\ Runs("rx", <<"toConnected", "load", "settle", "report", "tell">>)
    /\ UNCHANGED armed

(* wifi_mac_recv_assoc_rsp, refused (wifi_mac_status_code_handle), for now *)
(* or for good, or with rates the station does not share.                  *)
RecvAssocRefused ==
    /\ Receives /\ vm_state = "ASSOC"
    /\ \/ armed' = (armed \cup {"sm_switch"}) \ {"mgtsend"} /\ UNCHANGED prog
       \/ armed' = armed \ {"mgtsend"} /\ Runs("rx", <<"toScan">>)

(* wifi_mac_recv_deauth and wifi_mac_recv_disassoc: a frame that ends an   *)
(* attempt, or a connection.                                               *)
Expelled ==
    /\ Idle("rx")
    /\ Spend(IF vm_state = "CONNECTED" THEN "losses" ELSE "frames")
    /\ UNCHANGED <<vm_state, phase, loaded, retry, curchan, request, scanning,
                   armed, tasks, deauth, failed, kernel, ghost>>

RecvDeauth ==
    /\ Expelled /\ "DISCONNECTING" \notin phase /\ vm_state # "SCAN"
    /\ Runs("rx", <<"toScan">>)

RecvDisassoc ==
    /\ Expelled /\ vm_state # "SCAN"
    /\ Runs("rx", <<IF vm_state = "CONNECTED" THEN "toScan" ELSE "toAssoc">>)

(* wifi_mac_recv_assoc_rsp after wifi_mac_top_sm: PHASE_CONNECTING is      *)
(* cleared, so the other phases are loaded and stored, ...                 *)
LoadPhase ==
    /\ At("rx", "load")
    /\ Load("rx")
    /\ Advance("rx")
    /\ UNCHANGED <<vm_state, phase, retry, curchan, request, scanning, armed,
                   tasks, deauth, failed, kernel, budget, ghost>>

Settle ==
    /\ At("rx", "settle")
    /\ \E flags \in Kept("rx") :
          /\ Store("rx", flags)
          /\ IF "DISCONNECT_DELAY" \in flags
             THEN Runs("rx", <<"load", "carryOut">>) ELSE Advance("rx")
    /\ UNCHANGED <<vm_state, retry, curchan, request, scanning, armed, tasks,
                   deauth, failed, kernel, budget>>

(* ... and a disconnect that came during the attempt is carried out now;   *)
(* cfg80211 is told nothing.                                               *)
CarryOut ==
    /\ At("rx", "carryOut")
    /\ \E flags \in Kept("rx") : Store("rx", flags \ {"DISCONNECT_DELAY"})
    /\ deauth' = deauth + 1
    /\ Advance("rx")
    /\ UNCHANGED <<vm_state, retry, curchan, request, scanning, armed, tasks,
                   failed, kernel, budget>>

(* Mutant: cfg80211 is told without a look at the channel. *)
ReportUnasked ==
    /\ At("rx", "report")
    /\ request' = FALSE /\ Advance("rx")
    /\ ghost' = [ghost EXCEPT !.seen = @ \/ vm_state = "CONNECTED"]
    /\ UNCHANGED <<vm_state, phase, loaded, retry, curchan, scanning, armed,
                   tasks, deauth, failed, kernel, budget>>

(* vm_cfg80211_indicate_connect: it looks at the channel, ... *)
Report ==
    /\ At("rx", "report")
    /\ IF curchan THEN request' = FALSE /\ Advance("rx")
                  ELSE UNCHANGED request /\ Runs("rx", <<>>)
    /\ ghost' = [ghost EXCEPT !.seen = @ \/ vm_state = "CONNECTED"]
    /\ UNCHANGED <<vm_state, phase, loaded, retry, curchan, scanning, armed,
                   tasks, deauth, failed, kernel, budget>>

(* ... and tells cfg80211 once it has found the network there, unless it   *)
(* knows no such channel or network.                                       *)
Tell ==
    /\ At("rx", "tell")
    /\ \/ /\ kernel' = "up"
          /\ ghost' = [ghost EXCEPT !.seen = FALSE,
                          !.late = ghost.seen /\ vm_state # "CONNECTED"]
       \/ /\ UNCHANGED kernel
          /\ ghost' = [ghost EXCEPT !.seen = FALSE,
                                    !.silent = (kernel = "asked")]
    /\ Advance("rx")
    /\ UNCHANGED <<vm_state, phase, loaded, retry, curchan, request, scanning,
                   armed, tasks, deauth, failed, budget>>

(* wifi_mac_process_beacon_miss_ex: the access point has fallen silent. *)
BeaconMiss ==
    /\ Idle("soft") /\ vm_state = "CONNECTED" /\ Spend("losses")
    /\ Runs("soft", <<"toScan">>)
    /\ UNCHANGED <<vm_state, phase, loaded, retry, curchan, request, scanning,
                   armed, tasks, deauth, failed, kernel, ghost>>

(* Mutant: after the second failure nobody leaves. *)
DeauthDoneGivesUp ==
    /\ deauth > 0
    /\ \/ deauth' = deauth - 1 /\ failed' = 0 /\ Queue("toScan")
       \/ failed = 0 /\ failed' = 1 /\ UNCHANGED <<deauth, tasks>>
       \/ failed = 1 /\ failed' = 0 /\ deauth' = deauth - 1 /\ UNCHANGED tasks
    /\ UNCHANGED <<vm_state, phase, loaded, retry, curchan, request, scanning,
                   armed, kernel, prog, budget, ghost>>

(* drv_tx_complete_mgmt_handle for a deauthentication frame: acknowledged, *)
(* sent once more, or given up.                                            *)
DeauthDone ==
    /\ deauth > 0
    /\ \/ deauth' = deauth - 1 /\ failed' = 0 /\ Queue("toScan")
       \/ failed = 0 /\ failed' = 1 /\ UNCHANGED <<deauth, tasks>>
       \/ failed = 1 /\ failed' = 0 /\ deauth' = deauth - 1 /\ Queue("toScan")
    /\ UNCHANGED <<vm_state, phase, loaded, retry, curchan, request, scanning,
                   armed, kernel, prog, budget, ghost>>

-----------------------------------------------------------------------------
User ==
    NoteRequest \/ SetDisconnecting \/ IsRequested \/ SetDelay \/ SendDeauth
    \/ TopSm("user")
Work == RunTask \/ Rearm \/ Answer("work") \/ TopSm("work")
Soft == Answer("soft") \/ TopSm("soft")
Rx ==
    Answer("rx") \/ SendAuth \/ LoadPhase \/ Settle \/ CarryOut \/ Report \/ Tell
    \/ TopSm("rx")
Command == UserConnect \/ UserDisconnect
AccessPoint ==
    RecvAuth \/ RecvAuthReject \/ RecvAssoc \/ RecvAssocRefused
    \/ RecvDeauth \/ RecvDisassoc \/ BeaconMiss

Next ==
    Command \/ AccessPoint \/ User \/ Work \/ Soft \/ Rx \/ EndScan
    \/ RetryTimer \/ SwitchTimer \/ ConnectTimer \/ DeauthDone

(* Threads that have something to do get to do it, armed timers fire and   *)
(* the hardware hands every frame back; nobody has to issue a command, and *)
(* the access point may fall silent at any time.                           *)
Fairness ==
    /\ WF_vars(User) /\ WF_vars(Work) /\ WF_vars(Soft) /\ WF_vars(Rx)
    /\ WF_vars(EndScan) /\ WF_vars(DeauthDone)
    /\ WF_vars(RetryTimer) /\ WF_vars(SwitchTimer) /\ WF_vars(ConnectTimer)

Spec == Init /\ [][Next]_vars /\ Fairness

-----------------------------------------------------------------------------
(* cfg80211 believes in a connection only while there is one, although it  *)
(* is told long after the lock of the machine was given up: the receive    *)
(* thread asks for the channel first.  Left are the moment between that    *)
(* question and the call, in which another thread may leave, and a scan    *)
(* that gives the interface the next attempt's channel before the question *)
(* (ghost.late).                                                           *)
HonestReport == /\ TypeOK
                /\ kernel = "up" /\ ~ghost.late => vm_state = "CONNECTED"

(* Every connect command that starts the machine is answered, with a       *)
(* connection or without, however the attempt fails: a refusal, silence, a *)
(* disconnect in between, an end before the request is noted.  Left        *)
(* without an answer (ghost.silent) are the command that returns 0 and     *)
(* starts nothing, and the connection on a channel or to a network that    *)
(* cfg80211 does not know: by then nobody has the request any more.        *)
Answered == kernel = "asked" ~> kernel # "asked" \/ ghost.silent

(* A disconnect command that got its deauthentication frame out ends: data *)
(* is dropped, scans and the frames of the access point are refused until. *)
(* The phase stays (ghost.stuck) after a command that found a scan it may  *)
(* not stop or no memory, and when it is set, or written back by the       *)
(* receive thread, after the network was left: a beacon lost or a          *)
(* deauthentication received between the unlocked test and the set is      *)
(* enough, since only whoever leaves a network clears the phase.           *)
DisconnectEnds ==
    "DISCONNECTING" \in phase ~> "DISCONNECTING" \notin phase \/ ghost.stuck

(* No attempt hangs: an exchange the access point lets die goes back to    *)
(* the scan, whoever stopped the retry timer in between.                   *)
AttemptEnds == vm_state \in {"AUTH", "ASSOC"} ~> vm_state \in {"SCAN", "CONNECTED"}
=============================================================================
