---------------------------- MODULE AddbaProofs ----------------------------
(***************************************************************************)
(* The transmit block-ack session, for any frames, senders and loads, and  *)
(* the window of frames that the session gives the TID.                    *)
(*                                                                         *)
(* SessionSound is proved whether handlers overlap or not: what it needs   *)
(* besides is that a frame is in one hand, that each thread is where its   *)
(* job can lead it, and that a DELBA that is handled has a session that    *)
(* nobody else had begun to clean up.  That pauses and resumes pair up     *)
(* holds of handlers that run one after the other; then the pause count    *)
(* follows from where the one busy thread is.                              *)
(*                                                                         *)
(* WindowSound is proved of a window that holds what the invariant Holds   *)
(* says: place i is for the frame i places after the first.  The sequence  *)
(* numbers are remainders, and so are the places: the lemmas about both    *)
(* come first, then what emptying a place, moving the head and adding at   *)
(* the tail make of the window, then one lemma for each step that does so. *)
(***************************************************************************)
EXTENDS AddbaExchange, TxBaWindow, FiniteSetTheorems, SequenceTheorems,
        WellFoundedInduction, TLAPS

Drainers == {"rx", "work"}

(* Where a thread has a frame in hand.                                     *)
AtFrame == {"look", "store", "put"}
Draining == AtFrame \cup {"drainstart", "drain", "drained"}

SenderPlaces == AtFrame \cup {"idle", "claim", "arm", "pause"}
WorkPlaces   == Draining \cup {"unpause", "flush", "cancel"}
AnswerPlaces == Draining \cup {"answer", "cancel", "settle", "resume",
                               "unpause", "flush"}
DelbaPlaces  == {"delba", "cancel", "pause", "end", "unpause", "flush"}

(* A frame is in one hand, a thread that is busy sending has one, and each *)
(* thread is where its job can lead it.                                    *)
OneHand ==
    \A a, b \in Actors : a # b /\ cur[a] # NoFrame => cur[a] # cur[b]

SendersFit ==
    \A s \in Senders : /\ pc[s] \in SenderPlaces
                       /\ cur[s] = NoFrame <=> pc[s] = "idle"

DrainersFit ==
    \A a \in Drainers : /\ cur[a] = NoFrame <=> pc[a] \notin AtFrame
                        /\ job[a] = "none" <=> pc[a] = "idle"

JobsFit ==
    /\ job["work"] # "none" => job["work"] = "expiry" /\ pc["work"] \in WorkPlaces
    /\ \/ job["rx"] = "none"
       \/ job["rx"] \in {"accepted", "refused"} /\ pc["rx"] \in AnswerPlaces
       \/ job["rx"] = "delba" /\ pc["rx"] \in DelbaPlaces

Hands == OneHand /\ SendersFit /\ DrainersFit /\ JobsFit

(* A DELBA that is handled found a session that no other had begun to      *)
(* clean up, and only the receive thread begins that.                      *)
EndingDelba == pc["rx"] \in {"delba", "pause", "end"}
                 \/ (pc["rx"] = "cancel" /\ job["rx"] = "delba")
DelbaHasSession == EndingDelba => tid.complete /\ ~tid.cleanup

SessionInv == TypeOK /\ Hands /\ DelbaHasSession /\ PendingIsQueued
                /\ CleanupHasWindow

(* Without overlap: a thread that claimed the exchange and has not paused  *)
(* the TID yet, and one that has ended it and has not undone the pause.    *)
Lacks == \E s \in Senders : pc[s] \in {"arm", "pause"}
Owes  == \/ pc["rx"] \in {"settle", "resume", "unpause", "end"}
         \/ pc["rx"] = "cancel" /\ job["rx"] # "delba"
         \/ pc["work"] = "unpause"

OneAtATime == \A a, b \in Actors : pc[a] # "idle" /\ pc[b] # "idle" => a = b

Paired ==
    /\ tid.complete => ~tid.inprogress
    /\ \A s \in Senders : pc[s] \in {"claim", "arm", "pause"} => ~tid.complete
    /\ \A s \in Senders : pc[s] = "claim" => ~tid.inprogress
    /\ Lacks \/ pc["rx"] = "answer" => tid.inprogress
    /\ Owes => ~tid.inprogress
    /\ \/ pc["rx"] \in {"settle", "resume"}
       \/ pc["rx"] = "cancel" /\ job["rx"] # "delba"
       => won
    /\ tid.paused = IF (tid.inprogress /\ ~Lacks) \/ Owes THEN 1 ELSE 0

PairInv == ~load.overlap => OneAtATime /\ Paired

-----------------------------------------------------------------------------
(* The steps one by one, with the threads that can take them.              *)
LEMMA StepCases ==
    ASSUME Next
    PROVE  /\ load' = load
           /\ \/ \E s \in Senders, f \in Frames : TxCheck(s, f)
              \/ \E s \in Senders : Claim(s) \/ Arm(s) \/ PauseAndSend(s)
              \/ \E a \in Actors : Look(a) \/ Store(a) \/ Put(a)
              \/ \E a \in Drainers : CancelTimer(a) \/ Unpause(a) \/ Flush(a)
                                       \/ DrainStart(a) \/ Drain(a) \/ DrainEnd(a)
              \/ \E answer \in {"accepted", "refused"} : RxAnswer(answer)
              \/ Answer \/ Settle \/ Resume
              \/ RxDelba \/ DelbaClaim \/ DelbaPause \/ DelbaEnd
              \/ Expire \/ Fire \/ FireEnd \/ LoseRequest \/ Tasklet
              \/ \E f \in Frames : Complete(f)
  BY DEF Next, Step, SenderStep, EndStep, RxStep, WorkStep, TimerStep, Actors,
         Drainers

(* What a visit of the tasklet's list does to the flags and the frames.    *)
LEMMA RunListDoes ==
    ASSUME NEW t \in Scoreboards,
           NEW place \in [Frames -> Places], RunList(t, place)
    PROVE  /\ \E b \in BOOLEAN : tid' = [t EXCEPT !.bwork = b]
           /\ at' \in [Frames -> Places]
           /\ \A f \in Frames : \/ at'[f] = place[f]
                                \/ place[f] = "pending" /\ at'[f] = "window"
           /\ t.bwork /\ t.paused = 0 /\ (\E f \in Frames : at'[f] = "pending")
                => tid'.bwork
  <1>1. CASE ~t.bwork /\ tid' = t /\ at' = place
    <2>1. tid' = [t EXCEPT !.bwork = FALSE]
      BY <1>1 DEF Scoreboards
    <2>. QED  BY <1>1, <2>1
  <1>2. CASE t.bwork /\ t.paused > 0 /\ tid' = [t EXCEPT !.bwork = FALSE] /\ at' = place
    <2>1. tid' = [t EXCEPT !.bwork = FALSE] /\ FALSE \in BOOLEAN /\ at' = place /\ t.paused # 0
      BY <1>2 DEF Scoreboards
    <2>. QED  BY <2>1
  <1>3. ASSUME t.bwork, t.paused = 0,
               NEW taken \in SUBSET {f \in Frames : place[f] = "pending"},
               at' = [f \in Frames |-> IF f \in taken THEN "window" ELSE place[f]],
               tid' = [t EXCEPT !.bwork =
                         {f \in Frames : place[f] = "pending"} \ taken # {}]
        PROVE  /\ \E b \in BOOLEAN : tid' = [t EXCEPT !.bwork = b]
               /\ at' \in [Frames -> Places]
               /\ \A f \in Frames : \/ at'[f] = place[f]
                                    \/ place[f] = "pending" /\ at'[f] = "window"
               /\ (\E f \in Frames : at'[f] = "pending") => tid'.bwork
    <2>1. at' \in [Frames -> Places]
      BY <1>3 DEF Places
    <2>2. \A f \in Frames : \/ at'[f] = place[f]
                            \/ place[f] = "pending" /\ at'[f] = "window"
      BY <1>3
    <2>3. tid'.bwork = ({f \in Frames : place[f] = "pending"} \ taken # {})
      BY <1>3
    <2>4. (\E f \in Frames : at'[f] = "pending") => tid'.bwork
      BY <1>3, <2>3
    <2>. QED  BY <1>3, <2>1, <2>2, <2>4
  <1>. QED  BY <1>1, <1>2, <1>3 DEF RunList

(* A frame given to the driver joins the pending ones, and maybe the list  *)
(* is visited; or it goes straight to the HAL.                             *)
LEMMA PutDoes ==
    ASSUME TypeOK, NEW a \in Actors, Put(a)
    PROVE  /\ \E b \in BOOLEAN : tid' = [tid EXCEPT !.bwork = b]
           /\ at' \in [Frames -> Places]
           /\ \A f \in Frames \ {cur[a]} :
                 \/ at'[f] = at[f]
                 \/ at[f] = "pending" /\ at'[f] = "window"
           /\ cur[a] \in Frames => at'[cur[a]] \in {"pending", "window", "gone"}
           /\ \/ tid.paused = 0 /\ (\E f \in Frames : at'[f] = "pending") => tid'.bwork
              \/ /\ tid' = tid
                 /\ \A f \in Frames : at'[f] = "pending" => at[f] = "pending"
  <1>. DEFINE pended == [at EXCEPT ![cur[a]] = "pending"]
              t      == QueueTid(tid)
  <1>1. t \in Scoreboards /\ (tid.paused = 0 => t.bwork) /\ t.paused = tid.paused
        /\ \E b \in BOOLEAN : t = [tid EXCEPT !.bwork = b]
    <2>1. PICK b \in BOOLEAN : b = (tid.bwork \/ tid.paused = 0)
      OBVIOUS
    <2>2. t = [tid EXCEPT !.bwork = b]
      BY <2>1 DEF QueueTid
    <2>. QED  BY <2>1, <2>2 DEF TypeOK, Scoreboards
  <1>2. /\ pended \in [Frames -> Places]
        /\ \A f \in Frames \ {cur[a]} : pended[f] = at[f]
        /\ cur[a] \in Frames => pended[cur[a]] = "pending"
    BY DEF TypeOK, Places
  <1>3. CASE tid' = t /\ at' = pended
    BY <1>1, <1>2, <1>3
  <1>4. CASE RunList(t, pended)
    <2>. HIDE DEF t, pended
    <2>1. /\ \E b \in BOOLEAN : tid' = [t EXCEPT !.bwork = b]
          /\ at' \in [Frames -> Places]
          /\ \A f \in Frames : \/ at'[f] = pended[f]
                               \/ pended[f] = "pending" /\ at'[f] = "window"
          /\ t.bwork /\ t.paused = 0 /\ (\E f \in Frames : at'[f] = "pending")
                => tid'.bwork
      BY <1>1, <1>2, <1>4, RunListDoes
    <2>2. PICK b \in BOOLEAN : t = [tid EXCEPT !.bwork = b]
      BY <1>1
    <2>3. PICK c \in BOOLEAN : tid' = [t EXCEPT !.bwork = c]
      BY <2>1
    <2>4. tid' = [tid EXCEPT !.bwork = c]
      BY <2>2, <2>3 DEF TypeOK, Scoreboards
    <2>. QED  BY <1>1, <1>2, <2>1, <2>4
  <1>5. CASE tid' = tid /\ at' = [at EXCEPT ![cur[a]] = "gone"]
    <2>1. tid' = [tid EXCEPT !.bwork = tid.bwork] /\ tid.bwork \in BOOLEAN
      BY <1>5 DEF TypeOK, Scoreboards
    <2>2. /\ at' \in [Frames -> Places]
          /\ \A f \in Frames \ {cur[a]} : at'[f] = at[f]
          /\ cur[a] \in Frames => at'[cur[a]] = "gone"
      BY <1>5 DEF TypeOK, Places
    <2>. QED  BY <1>5, <2>1, <2>2
  <1>. QED  BY <1>3, <1>4, <1>5 DEF Put

(* So does the tasklet with what is pending.                               *)
LEMMA TaskletDoes ==
    ASSUME TypeOK, Tasklet
    PROVE  /\ \E b \in BOOLEAN : tid' = [tid EXCEPT !.bwork = b]
           /\ at' \in [Frames -> Places]
           /\ \A f \in Frames : \/ at'[f] = at[f]
                                \/ at[f] = "pending" /\ at'[f] = "window"
           /\ tid.paused = 0 /\ (\E f \in Frames : at'[f] = "pending") => tid'.bwork
  BY RunListDoes DEF Tasklet, TypeOK

(* A resume that leaves the TID unpaused puts it back on the list.         *)
LEMMA ResumeDoes ==
    ASSUME TypeOK, Resume
    PROVE  /\ PausedDown \in 0 .. 255
           /\ \E b \in BOOLEAN : tid' = [tid EXCEPT !.paused = PausedDown, !.bwork = b]
           /\ at' \in [Frames -> Places]
           /\ \A f \in Frames : \/ at'[f] = at[f]
                                \/ at[f] = "pending" /\ at'[f] = "window"
           /\ PausedDown = 0 /\ (\E f \in Frames : at'[f] = "pending") => tid'.bwork
  <1>1. PICK n \in 0 .. 255 : n = PausedDown
    BY DEF PausedDown, TypeOK, Scoreboards
  <1>. DEFINE t == [tid EXCEPT !.paused = PausedDown]
  <1>2. t \in Scoreboards /\ t.paused = n /\ t.bwork = tid.bwork
    BY <1>1 DEF TypeOK, Scoreboards
  <1>3. QueueTid(t) \in Scoreboards /\ QueueTid(t).paused = n
        /\ (n = 0 => QueueTid(t).bwork)
        /\ \E b \in BOOLEAN : QueueTid(t) = [tid EXCEPT !.paused = PausedDown, !.bwork = b]
    <2>1. PICK b \in BOOLEAN : b = (t.bwork \/ t.paused = 0)
      OBVIOUS
    <2>2. QueueTid(t) = [t EXCEPT !.bwork = b]
      BY <2>1 DEF QueueTid
    <2>3. QueueTid(t) = [tid EXCEPT !.paused = PausedDown, !.bwork = b]
      BY <2>2
    <2>4. QueueTid(t).bwork = b /\ QueueTid(t).paused = n
      BY <1>2, <2>2 DEF Scoreboards
    <2>5. QueueTid(t) \in Scoreboards
      BY <1>2, <2>1, <2>2 DEF Scoreboards
    <2>. QED  BY <1>2, <2>1, <2>3, <2>4, <2>5
  <1>4. CASE t.paused > 0 /\ tid' = t /\ at' = at
    <2>1. tid' = [tid EXCEPT !.paused = PausedDown, !.bwork = tid.bwork] /\ tid.bwork \in BOOLEAN
      BY <1>4 DEF TypeOK, Scoreboards
    <2>2. PausedDown \in 0 .. 255 /\ PausedDown # 0 /\ at \in [Frames -> Places]
      BY <1>1, <1>2, <1>4 DEF TypeOK
    <2>. QED  BY ONLY <1>4, <2>1, <2>2
  <1>5. CASE In("pending") = {} /\ tid' = t /\ at' = at
    <2>1. tid' = [tid EXCEPT !.paused = PausedDown, !.bwork = tid.bwork] /\ tid.bwork \in BOOLEAN
      BY <1>5 DEF TypeOK, Scoreboards
    <2>. QED  BY <1>1, <1>2, <1>5, <2>1 DEF TypeOK, In
  <1>6. CASE RunList(QueueTid(t), at)
    <2>. DEFINE u == QueueTid(t)
    <2>1. at \in [Frames -> Places] /\ u \in Scoreboards
      BY <1>3 DEF TypeOK
    <2>. HIDE DEF u
    <2>2. /\ \E b \in BOOLEAN : tid' = [u EXCEPT !.bwork = b]
          /\ at' \in [Frames -> Places]
          /\ \A f \in Frames : \/ at'[f] = at[f]
                               \/ at[f] = "pending" /\ at'[f] = "window"
          /\ u.bwork /\ u.paused = 0 /\ (\E f \in Frames : at'[f] = "pending")
                => tid'.bwork
      <3>1. RunList(u, at)
        BY <1>6 DEF u
      <3>. QED  BY <2>1, <3>1, RunListDoes
    <2>3. PICK b \in BOOLEAN : u = [tid EXCEPT !.paused = PausedDown, !.bwork = b]
      BY <1>3 DEF u
    <2>4. PICK c \in BOOLEAN : tid' = [u EXCEPT !.bwork = c]
      BY <2>2
    <2>5. tid' = [tid EXCEPT !.paused = PausedDown, !.bwork = c]
      BY <2>3, <2>4 DEF TypeOK, Scoreboards
    <2>6. u.paused = PausedDown /\ (PausedDown = 0 => u.bwork)
      BY <1>1, <1>3 DEF u
    <2>. QED  BY <1>1, <2>2, <2>5, <2>6
  <1>. QED  BY <1>4, <1>5, <1>6 DEF Resume

(* A frame that was buffered comes into the hand of the thread.            *)
TakesOne(a) ==
    \E f \in Frames :
      /\ at[f] = "buffer"
      /\ at' = [at EXCEPT ![f] = "hand"]
      /\ cur' = [cur EXCEPT ![a] = f]
      /\ \E b \in BOOLEAN : last' = [last EXCEPT ![a] = b]
      /\ pc' = [pc EXCEPT ![a] = "look"]
      /\ tid' = tid /\ job' = job

(* A turn of the drain takes a frame or ends the drain.                    *)
LEMMA DrainDoes ==
    ASSUME NEW a \in Drainers, Drain(a)
    PROVE  TakesOne(a) \/ (at' = at /\ cur' = cur /\ Drained(a))
  <1>1. CASE In("buffer") = {} /\ Drained(a) /\ UNCHANGED <<at, cur>>
    BY <1>1
  <1>2. ASSUME NEW f \in In("buffer"), at' = [at EXCEPT ![f] = "hand"],
               cur' = [cur EXCEPT ![a] = f],
               last' = [last EXCEPT ![a] = In("buffer") = {f}],
               Goto(a, "look"), UNCHANGED <<tid, job>>
        PROVE  TakesOne(a)
    <2>1. PICK b \in BOOLEAN : b = (In("buffer") = {f})
      OBVIOUS
    <2>2. f \in Frames /\ at[f] = "buffer"
      BY DEF In
    <2>3. last' = [last EXCEPT ![a] = b]
      BY <1>2, <2>1, Zenon
    <2>. QED  BY <1>2, <2>2, <2>3 DEF Goto, TakesOne
  <1>. QED  BY <1>1, <1>2 DEF Drain

(* One frame that waited goes to the HAL as a single frame, or none does   *)
(* and the thread goes on.                                                 *)
LEMMA FlushOneDoes ==
    ASSUME TypeOK, NEW a \in Drainers, FlushOne(a)
    PROVE  /\ at' \in [Frames -> Places]
           /\ \A f \in Frames : \/ at'[f] = at[f]
                                \/ at[f] = "pending" /\ at'[f] = "gone"
           /\ \/ pc' = [pc EXCEPT ![a] = "flush"] /\ job' = job
              \/ /\ \A f \in Frames : at'[f] # "pending"
                 /\ LeaveFlush(a)
  BY DEF TypeOK, FlushOne, In, Goto, Places

(* A settled answer goes on to one of three places.                        *)
LEMMA SettleGoes ==
    ASSUME SessionInv, Settle
    PROVE  /\ pc["rx"] = "settle" /\ job["rx"] \in {"accepted", "refused"}
           /\ \/ ~won /\ pc' = [pc EXCEPT !["rx"] = "drainstart"]
              \/ /\ won
                 /\ \E l \in {"resume", "unpause"} : pc' = [pc EXCEPT !["rx"] = l]
  <1>. TypeOK /\ DrainersFit /\ JobsFit
    BY DEF SessionInv, Hands
  <1>1. pc["rx"] = "settle"
    BY DEF Settle
  <1>2. job["rx"] # "none"
    BY <1>1 DEF DrainersFit, Drainers
  <1>3. ~(job["rx"] = "delba" /\ pc["rx"] \in DelbaPlaces)
    BY <1>1 DEF DelbaPlaces
  <1>4. job["rx"] \in {"accepted", "refused"}
    BY <1>2, <1>3 DEF JobsFit
  <1>5. won \in BOOLEAN
    BY DEF TypeOK
  <1>. QED  BY <1>1, <1>4, <1>5 DEF Settle, Goto

-----------------------------------------------------------------------------
(* Types, one variable or two at a time: first the scoreboard, its attempts*)
(* and its byte in range.  A flag may be set or cleared.                   *)
LEMMA FlagSet ==
    ASSUME NEW t \in Scoreboards, NEW b \in BOOLEAN
    PROVE  /\ [t EXCEPT !.inprogress = b] \in Scoreboards
           /\ [t EXCEPT !.complete = b] \in Scoreboards
           /\ [t EXCEPT !.cleanup = b] \in Scoreboards
           /\ [t EXCEPT !.sending = b] \in Scoreboards
  BY DEF Scoreboards

(* The scoreboard stays one: its attempts are taken only while there are   *)
(* any left, and the pause count is a byte.                                *)
LEMMA TidKept ==
    ASSUME SessionInv, Next
    PROVE  tid' \in Scoreboards
  <1>. TypeOK
    BY DEF SessionInv
  <1>1. ASSUME NEW s \in Senders, NEW f \in Frames, TxCheck(s, f)
        PROVE  tid' \in Scoreboards
    BY <1>1, CountsAssumption DEF TxCheck, NeedsAddba, TypeOK, Scoreboards
  <1>2. ASSUME NEW s \in Senders, Claim(s) PROVE tid' \in Scoreboards
    BY <1>2, FlagSet DEF Claim, TypeOK
  <1>3. ASSUME NEW s \in Senders, PauseAndSend(s) PROVE tid' \in Scoreboards
    BY <1>3, CountsAssumption DEF PauseAndSend, PausedUp, TypeOK, Scoreboards
  <1>4. ASSUME NEW a \in Actors, Put(a) PROVE tid' \in Scoreboards
    BY <1>4, PutDoes DEF TypeOK, Scoreboards
  <1>5. ASSUME NEW a \in Drainers, Unpause(a) PROVE tid' \in Scoreboards
    BY <1>5, CountsAssumption DEF Unpause, PausedDown, FlushOne, LeaveFlush,
       LeaveJob, AfterFlush, TypeOK, Scoreboards
  <1>6. ASSUME NEW a \in Drainers, DrainStart(a) PROVE tid' \in Scoreboards
    BY <1>6, FlagSet DEF DrainStart, TypeOK
  <1>7. ASSUME NEW a \in Drainers, Drain(a) PROVE tid' \in Scoreboards
    <2>1. CASE Drained(a)
      BY <2>1, FlagSet DEF Drained, TypeOK
    <2>2. CASE TakesOne(a)
      BY <2>2 DEF TakesOne, TypeOK
    <2>. QED  BY <1>7, <2>1, <2>2, DrainDoes
  <1>8. ASSUME NEW a \in Drainers, DrainEnd(a) PROVE tid' \in Scoreboards
    BY <1>8, FlagSet DEF DrainEnd, TypeOK, Drained
  <1>9. ASSUME Answer PROVE tid' \in Scoreboards
    BY <1>9, FlagSet DEF Answer, TypeOK
  <1>10. ASSUME Settle PROVE tid' \in Scoreboards
    BY <1>10, CountsAssumption DEF Settle, TypeOK, Scoreboards
  <1>11. ASSUME Resume PROVE tid' \in Scoreboards
    <2>1. PICK n \in 0 .. 255, b \in BOOLEAN : tid' = [tid EXCEPT !.paused = n, !.bwork = b]
      BY <1>11, ResumeDoes
    <2>. QED  BY <2>1 DEF TypeOK, Scoreboards
  <1>12. ASSUME RxDelba PROVE tid' \in Scoreboards
    BY <1>12, CountsAssumption DEF RxDelba, TypeOK, Scoreboards
  <1>13. ASSUME DelbaClaim PROVE tid' \in Scoreboards
    BY <1>13, FlagSet DEF DelbaClaim, TypeOK
  <1>14. ASSUME DelbaPause PROVE tid' \in Scoreboards
    BY <1>14, CountsAssumption DEF DelbaPause, PausedUp, TypeOK, Scoreboards
  <1>15. ASSUME DelbaEnd PROVE tid' \in Scoreboards
    <2>1. CASE tid' = [tid EXCEPT !.cleanup = TRUE]
      BY <2>1, FlagSet DEF TypeOK
    <2>2. CASE tid' = [tid EXCEPT !.complete = FALSE, !.attempts = 0]
      <3>1. PICK t \in Scoreboards : t = [tid EXCEPT !.complete = FALSE]
        BY FlagSet DEF TypeOK
      <3>2. tid' = [t EXCEPT !.attempts = 0]
        BY <2>2, <3>1 DEF TypeOK, Scoreboards
      <3>. QED  BY <3>2, CountsAssumption DEF Scoreboards
    <2>. QED  BY <1>15, <2>1, <2>2 DEF DelbaEnd
  <1>16. ASSUME Expire PROVE tid' \in Scoreboards
    BY <1>16, FlagSet DEF Expire, TypeOK
  <1>17. ASSUME Tasklet PROVE tid' \in Scoreboards
    BY <1>17, TaskletDoes DEF TypeOK, Scoreboards
  <1>18. ASSUME NEW f \in Frames, Complete(f) PROVE tid' \in Scoreboards
    <2>1. CASE tid' = [tid EXCEPT !.complete = FALSE, !.attempts = 0,
    !.cleanup = FALSE]
      <3>1. PICK t \in Scoreboards : t = [tid EXCEPT !.complete = FALSE]
        BY FlagSet DEF TypeOK
      <3>2. PICK u \in Scoreboards : u = [t EXCEPT !.attempts = 0]
        <4>1. 0 \in 0 .. MaxAttempts
          BY CountsAssumption
        <4>. QED  BY <4>1 DEF Scoreboards
      <3>3. tid' = [u EXCEPT !.cleanup = FALSE]
        BY <2>1, <3>1, <3>2 DEF TypeOK, Scoreboards
      <3>. QED  BY <3>3, FlagSet
    <2>2. CASE tid' = tid
      BY <2>2 DEF TypeOK
    <2>. QED  BY <1>18, <2>1, <2>2 DEF Complete
  <1>. QED  BY <1>1, <1>2, <1>3, <1>4, <1>5, <1>6, <1>7, <1>8, <1>9, <1>10,
               <1>11, <1>12, <1>13, <1>14, <1>15, <1>16, <1>17, <1>18,
               StepCases DEF Arm, Look, Store, CancelTimer, Flush, RxAnswer,
               Fire, FireEnd, LoseRequest, TypeOK, Drainers

(* Each thread stays at a step there is.                                   *)
LEMMA PcKept ==
    ASSUME SessionInv, Next
    PROVE  pc' \in [Actors -> Labels]
  <1>. TypeOK /\ Hands
    BY DEF SessionInv
  <1>. USE DEF Goto, TypeOK, Labels
  <1>1. ASSUME NEW s \in Senders, NEW f \in Frames, TxCheck(s, f)
        PROVE  pc' \in [Actors -> Labels]
    BY <1>1 DEF TxCheck, NeedsAddba
  <1>2. ASSUME NEW s \in Senders, Claim(s) PROVE pc' \in [Actors -> Labels]
    BY <1>2 DEF Claim
  <1>3. ASSUME NEW s \in Senders, Arm(s) PROVE pc' \in [Actors -> Labels]
    BY <1>3 DEF Arm
  <1>4. ASSUME NEW s \in Senders, PauseAndSend(s)
        PROVE  pc' \in [Actors -> Labels]
    BY <1>4 DEF PauseAndSend, PausedUp
  <1>5. ASSUME NEW a \in Actors, Look(a) PROVE pc' \in [Actors -> Labels]
    BY <1>5 DEF Look
  <1>6. ASSUME NEW a \in Actors, Store(a) PROVE pc' \in [Actors -> Labels]
    BY <1>6 DEF Store, AfterTx
  <1>7. ASSUME NEW a \in Actors, Put(a) PROVE pc' \in [Actors -> Labels]
    BY <1>7 DEF Put, QueueTid, AfterTx
  <1>8. ASSUME NEW a \in Drainers, CancelTimer(a)
        PROVE  pc' \in [Actors -> Labels]
    BY <1>8 DEF CancelTimer
  <1>9. ASSUME NEW a \in Drainers, Unpause(a) PROVE pc' \in [Actors -> Labels]
    BY <1>9 DEF Unpause, PausedDown, FlushOne, LeaveFlush, LeaveJob, AfterFlush
  <1>10. ASSUME NEW a \in Drainers, Flush(a) PROVE pc' \in [Actors -> Labels]
    BY <1>10 DEF Flush, FlushOne, LeaveFlush, LeaveJob, AfterFlush
  <1>11. ASSUME NEW a \in Drainers, DrainStart(a)
        PROVE  pc' \in [Actors -> Labels]
    BY <1>11 DEF DrainStart
  <1>12. ASSUME NEW a \in Drainers, Drain(a) PROVE pc' \in [Actors -> Labels]
    BY <1>12 DEF Drain, Drained, LeaveJob
  <1>13. ASSUME NEW a \in Drainers, DrainEnd(a)
        PROVE  pc' \in [Actors -> Labels]
    BY <1>13 DEF DrainEnd, Drained, LeaveJob
  <1>14. ASSUME NEW answer \in {"accepted", "refused"}, RxAnswer(answer)
        PROVE  pc' \in [Actors -> Labels]
    BY <1>14 DEF RxAnswer
  <1>15. ASSUME Answer PROVE pc' \in [Actors -> Labels]
    BY <1>15 DEF Answer
  <1>16. ASSUME Settle PROVE pc' \in [Actors -> Labels]
    BY <1>16, SettleGoes
  <1>17. ASSUME Resume PROVE pc' \in [Actors -> Labels]
    BY <1>17 DEF Resume, PausedDown, QueueTid
  <1>18. ASSUME RxDelba PROVE pc' \in [Actors -> Labels]
    BY <1>18 DEF RxDelba
  <1>19. ASSUME DelbaClaim PROVE pc' \in [Actors -> Labels]
    BY <1>19 DEF DelbaClaim
  <1>20. ASSUME DelbaPause PROVE pc' \in [Actors -> Labels]
    BY <1>20 DEF DelbaPause, PausedUp
  <1>21. ASSUME DelbaEnd PROVE pc' \in [Actors -> Labels]
    BY <1>21 DEF DelbaEnd
  <1>22. ASSUME Expire PROVE pc' \in [Actors -> Labels]
    BY <1>22 DEF Expire
  <1>. QED  BY <1>1, <1>2, <1>3, <1>4, <1>5, <1>6, <1>7, <1>8, <1>9, <1>10,
               <1>11, <1>12, <1>13, <1>14, <1>15, <1>16, <1>17, <1>18, <1>19,
               <1>20, <1>21, <1>22, StepCases DEF Fire, FireEnd, LoseRequest,
               Tasklet, Complete

(* Jobs stay among those a thread can have.                                *)
LEMMA JobKept ==
    ASSUME SessionInv, Next
    PROVE  job' \in [Drainers -> Jobs]
  <1>. TypeOK
    BY DEF SessionInv
  <1>. USE DEF Goto, TypeOK, Jobs, Drainers
  <1>1. ASSUME NEW a \in Drainers, CancelTimer(a)
        PROVE  job' \in [Drainers -> Jobs]
    BY <1>1 DEF CancelTimer
  <1>2. ASSUME NEW a \in Drainers, Unpause(a)
        PROVE  job' \in [Drainers -> Jobs]
    BY <1>2 DEF Unpause, PausedDown, FlushOne, LeaveFlush, LeaveJob, AfterFlush
  <1>3. ASSUME NEW a \in Drainers, Flush(a) PROVE job' \in [Drainers -> Jobs]
    BY <1>3 DEF Flush, FlushOne, LeaveFlush, LeaveJob, AfterFlush
  <1>4. ASSUME NEW a \in Drainers, Drain(a) PROVE job' \in [Drainers -> Jobs]
    BY <1>4 DEF Drain, Drained, LeaveJob
  <1>5. ASSUME NEW a \in Drainers, DrainEnd(a)
        PROVE  job' \in [Drainers -> Jobs]
    BY <1>5 DEF DrainEnd, Drained, LeaveJob
  <1>6. ASSUME NEW answer \in {"accepted", "refused"}, RxAnswer(answer)
        PROVE  job' \in [Drainers -> Jobs]
    BY <1>6 DEF RxAnswer
  <1>7. ASSUME RxDelba PROVE job' \in [Drainers -> Jobs]
    BY <1>7 DEF RxDelba
  <1>8. ASSUME Expire PROVE job' \in [Drainers -> Jobs]
    BY <1>8 DEF Expire
  <1>. QED  BY <1>1, <1>2, <1>3, <1>4, <1>5, <1>6, <1>7, <1>8, StepCases
               DEF TxCheck, Claim, Arm, PauseAndSend, Look, Store, Put,
               DrainStart, Answer, Settle, Resume, DelbaClaim, DelbaPause,
               DelbaEnd, Fire, FireEnd, LoseRequest, Tasklet, Complete

(* Frames stay somewhere, and what a thread has in hand is one of them.    *)
LEMMA AtCurKept ==
    ASSUME SessionInv, Next
    PROVE  at' \in [Frames -> Places] /\ cur' \in [Actors -> Frames \cup {NoFrame}]
  <1>. TypeOK
    BY DEF SessionInv
  <1>1. ASSUME NEW s \in Senders, NEW f \in Frames, TxCheck(s, f)
        PROVE  at' \in [Frames -> Places] /\ cur' \in [Actors -> Frames \cup {NoFrame}]
    BY <1>1 DEF TxCheck, NeedsAddba, Goto, TypeOK, Places, Drainers
  <1>2. ASSUME NEW a \in Actors, Store(a)
        PROVE  at' \in [Frames -> Places] /\ cur' \in [Actors -> Frames \cup {NoFrame}]
    BY <1>2 DEF Store, AfterTx, Goto, TypeOK, Places, Drainers
  <1>3. ASSUME NEW a \in Actors, Put(a)
        PROVE  at' \in [Frames -> Places] /\ cur' \in [Actors -> Frames \cup {NoFrame}]
    BY <1>3, PutDoes DEF Put, TypeOK
  <1>4. ASSUME NEW a \in Drainers, Unpause(a)
        PROVE  at' \in [Frames -> Places] /\ cur' \in [Actors -> Frames \cup {NoFrame}]
    BY <1>4, FlushOneDoes DEF Unpause, TypeOK
  <1>5. ASSUME NEW a \in Drainers, Flush(a)
        PROVE  at' \in [Frames -> Places] /\ cur' \in [Actors -> Frames \cup {NoFrame}]
    BY <1>5, FlushOneDoes DEF Flush, TypeOK
  <1>6. ASSUME NEW a \in Drainers, Drain(a)
        PROVE  at' \in [Frames -> Places] /\ cur' \in [Actors -> Frames \cup {NoFrame}]
    BY <1>6, DrainDoes DEF TakesOne, TypeOK, Places
  <1>7. ASSUME Tasklet
        PROVE  at' \in [Frames -> Places] /\ cur' \in [Actors -> Frames \cup {NoFrame}]
    BY <1>7, TaskletDoes DEF Tasklet, TypeOK
  <1>8. ASSUME NEW f \in Frames, Complete(f)
        PROVE  at' \in [Frames -> Places] /\ cur' \in [Actors -> Frames \cup {NoFrame}]
    BY <1>8 DEF Complete, In, Goto, TypeOK, Places, Drainers
  <1>9. ASSUME Resume
        PROVE  at' \in [Frames -> Places] /\ cur' \in [Actors -> Frames \cup {NoFrame}]
    BY <1>9, ResumeDoes DEF Resume, TypeOK
  <1>. QED  BY <1>1, <1>2, <1>3, <1>4, <1>5, <1>6, <1>7, <1>8, <1>9,
               StepCases DEF Claim, Arm, PauseAndSend, Look, CancelTimer,
               DrainStart, DrainEnd, RxAnswer, Answer, Settle, RxDelba,
               DelbaClaim, DelbaPause, DelbaEnd, Expire, Fire, FireEnd,
               LoseRequest, TypeOK, Drainers

(* The timer keeps its three flags.                                        *)
LEMMA TimerKept ==
    ASSUME SessionInv, Next
    PROVE  timer' \in [active : BOOLEAN, armed : BOOLEAN, firing : BOOLEAN]
  <1>. TypeOK
    BY DEF SessionInv
  <1>1. ASSUME NEW s \in Senders, Arm(s)
        PROVE  timer' \in [active : BOOLEAN, armed : BOOLEAN, firing : BOOLEAN]
    BY <1>1 DEF Arm, TypeOK
  <1>2. ASSUME NEW a \in Drainers, CancelTimer(a)
        PROVE  timer' \in [active : BOOLEAN, armed : BOOLEAN, firing : BOOLEAN]
    BY <1>2 DEF CancelTimer, TypeOK
  <1>3. ASSUME Fire
        PROVE  timer' \in [active : BOOLEAN, armed : BOOLEAN, firing : BOOLEAN]
    BY <1>3 DEF Fire, TypeOK
  <1>4. ASSUME FireEnd
        PROVE  timer' \in [active : BOOLEAN, armed : BOOLEAN, firing : BOOLEAN]
    BY <1>4 DEF FireEnd, TypeOK
  <1>. QED  BY <1>1, <1>2, <1>3, <1>4, StepCases DEF TxCheck, Claim,
               PauseAndSend, Look, Store, Put, Unpause, Flush, DrainStart,
               Drain, DrainEnd, RxAnswer, Answer, Settle, Resume, RxDelba,
               DelbaClaim, DelbaPause, DelbaEnd, Expire, LoseRequest,
               Tasklet, Complete, TypeOK, Drainers

(* Counts never go below zero: each is tested before it is taken from.     *)
LEMMA CountsKept ==
    ASSUME SessionInv, Next
    PROVE  work' \in Nat /\ air' \in Nat /\ delbas' \in Nat
  <1>. TypeOK
    BY DEF SessionInv
  <1>. USE DEF TypeOK
  <1>1. ASSUME NEW s \in Senders, PauseAndSend(s)
        PROVE  work' \in Nat /\ air' \in Nat /\ delbas' \in Nat
    BY <1>1 DEF PauseAndSend, PausedUp
  <1>2. ASSUME NEW answer \in {"accepted", "refused"}, RxAnswer(answer)
        PROVE  work' \in Nat /\ air' \in Nat /\ delbas' \in Nat
    BY <1>2 DEF RxAnswer
  <1>3. ASSUME RxDelba PROVE work' \in Nat /\ air' \in Nat /\ delbas' \in Nat
    BY <1>3 DEF RxDelba
  <1>4. ASSUME Expire PROVE work' \in Nat /\ air' \in Nat /\ delbas' \in Nat
    BY <1>4 DEF Expire
  <1>5. ASSUME Fire PROVE work' \in Nat /\ air' \in Nat /\ delbas' \in Nat
    BY <1>5 DEF Fire
  <1>6. ASSUME LoseRequest
        PROVE  work' \in Nat /\ air' \in Nat /\ delbas' \in Nat
    BY <1>6 DEF LoseRequest
  <1>. QED  BY <1>1, <1>2, <1>3, <1>4, <1>5, <1>6, StepCases DEF TxCheck,
               Claim, Arm, Look, Store, Put, CancelTimer, Unpause, Flush,
               DrainStart, Drain, DrainEnd, Answer, Settle, Resume,
               DelbaClaim, DelbaPause, DelbaEnd, FireEnd, Tasklet, Complete

(* The marks stay Boolean.                                                 *)
LEMMA MarksKept ==
    ASSUME SessionInv, Next
    PROVE  last' \in [Drainers -> BOOLEAN] /\ won' \in BOOLEAN /\ failed' \in BOOLEAN
  <1>. TypeOK
    BY DEF SessionInv
  <1>. USE DEF TypeOK, Scoreboards, Drainers
  <1>1. ASSUME NEW s \in Senders, PauseAndSend(s)
        PROVE  last' \in [Drainers -> BOOLEAN] /\ won' \in BOOLEAN /\ failed' \in BOOLEAN
    BY <1>1 DEF PauseAndSend, PausedUp
  <1>2. ASSUME NEW a \in Drainers, Unpause(a)
        PROVE  last' \in [Drainers -> BOOLEAN] /\ won' \in BOOLEAN /\ failed' \in BOOLEAN
    BY <1>2 DEF Unpause, PausedDown, FlushOne, LeaveFlush, LeaveJob, AfterFlush
  <1>3. ASSUME NEW a \in Drainers, Drain(a)
        PROVE  last' \in [Drainers -> BOOLEAN] /\ won' \in BOOLEAN /\ failed' \in BOOLEAN
    <2>1. won' = won /\ failed' = failed
      BY <1>3 DEF Drain
    <2>2. \E b \in BOOLEAN : last' = [last EXCEPT ![a] = b]
      BY <1>3, DrainDoes DEF Drained, TakesOne
    <2>. QED  BY <2>1, <2>2
  <1>4. ASSUME NEW a \in Drainers, DrainEnd(a)
        PROVE  last' \in [Drainers -> BOOLEAN] /\ won' \in BOOLEAN /\ failed' \in BOOLEAN
    BY <1>4 DEF DrainEnd, Drained, LeaveJob
  <1>5. ASSUME Answer
        PROVE  last' \in [Drainers -> BOOLEAN] /\ won' \in BOOLEAN /\ failed' \in BOOLEAN
    BY <1>5 DEF Answer
  <1>6. ASSUME Resume
        PROVE  last' \in [Drainers -> BOOLEAN] /\ won' \in BOOLEAN /\ failed' \in BOOLEAN
    BY <1>6 DEF Resume, PausedDown, QueueTid
  <1>7. ASSUME DelbaPause
        PROVE  last' \in [Drainers -> BOOLEAN] /\ won' \in BOOLEAN /\ failed' \in BOOLEAN
    BY <1>7 DEF DelbaPause, PausedUp
  <1>. QED  BY <1>1, <1>2, <1>3, <1>4, <1>5, <1>6, <1>7, StepCases
               DEF TxCheck, Claim, Arm, Look, Store, Put, CancelTimer, Flush,
               DrainStart, RxAnswer, Settle, RxDelba, DelbaClaim, DelbaEnd,
               Expire, Fire, FireEnd, LoseRequest, Tasklet, Complete

(* A frame that comes into a hand was in no other.                         *)
LEMMA CurApart ==
    ASSUME SessionInv, Next
    PROVE  OneHand'
  <1>. TypeOK /\ OneHand
    BY DEF SessionInv, Hands
  <1>1. ASSUME NEW s \in Senders, NEW f \in Frames, TxCheck(s, f)
        PROVE  OneHand'
    BY <1>1, FramesAssumption DEF TxCheck, NeedsAddba, OneHand, TypeOK,
       Actors, NoFrame
  <1>2. ASSUME NEW a \in Actors, Store(a) PROVE OneHand'
    BY <1>2, FramesAssumption DEF Store, AfterTx, OneHand, TypeOK, Actors,
       NoFrame
  <1>3. ASSUME NEW a \in Actors, Put(a) PROVE OneHand'
    BY <1>3, FramesAssumption DEF Put, QueueTid, AfterTx, OneHand, TypeOK,
       Actors, NoFrame
  <1>4. ASSUME NEW a \in Drainers, Drain(a) PROVE OneHand'
    <2>1. CASE at' = at /\ cur' = cur
      BY <2>1 DEF OneHand
    <2>2. ASSUME NEW f \in Frames, at[f] = "buffer",
                 cur' = [cur EXCEPT ![a] = f]
          PROVE  OneHand'
      BY <2>2, FramesAssumption DEF TypeOK, OneHand, NoFrame
    <2>. QED  BY <1>4, <2>1, <2>2, DrainDoes DEF TakesOne
  <1>. QED  BY <1>1, <1>2, <1>3, <1>4, StepCases DEF Claim, Arm,
               PauseAndSend, Look, CancelTimer, Unpause, Flush, DrainStart,
               DrainEnd, RxAnswer, Answer, Settle, Resume, RxDelba,
               DelbaClaim, DelbaPause, DelbaEnd, Expire, Fire, FireEnd,
               LoseRequest, Tasklet, Complete, TypeOK, Drainers, OneHand

(* A frame in a hand leaves it only by the step of the thread that has it. *)
LEMMA CurInHand ==
    ASSUME SessionInv, Next
    PROVE  \A b \in Actors : cur'[b] # NoFrame => at'[cur'[b]] = "hand"
  <1>. TypeOK /\ OneHand
    BY DEF SessionInv, Hands
  <1>1. ASSUME NEW s \in Senders, NEW f \in Frames, TxCheck(s, f)
        PROVE  \A b \in Actors : cur'[b] # NoFrame => at'[cur'[b]] = "hand"
    BY <1>1, FramesAssumption DEF TxCheck, NeedsAddba, OneHand, TypeOK,
       Actors, NoFrame
  <1>2. ASSUME NEW a \in Actors, Store(a)
        PROVE  \A b \in Actors : cur'[b] # NoFrame => at'[cur'[b]] = "hand"
    BY <1>2, FramesAssumption DEF Store, AfterTx, OneHand, TypeOK, Actors,
       NoFrame
  <1>3. ASSUME NEW a \in Actors, Put(a)
        PROVE  \A b \in Actors : cur'[b] # NoFrame => at'[cur'[b]] = "hand"
    <2>1. cur' = [cur EXCEPT ![a] = NoFrame]
      BY <1>3 DEF Put
    <2>2. \A f \in Frames \ {cur[a]} : at[f] = "hand" => at'[f] = "hand"
      BY <1>3, PutDoes
    <2>. QED  BY <2>1, <2>2, FramesAssumption DEF TypeOK, OneHand, NoFrame
  <1>4. ASSUME NEW a \in Drainers, Unpause(a)
        PROVE  \A b \in Actors : cur'[b] # NoFrame => at'[cur'[b]] = "hand"
    <2>1. cur' = cur /\ (at' = at \/ FlushOne(a))
      BY <1>4 DEF Unpause
    <2>. QED  BY <2>1, FlushOneDoes DEF TypeOK
  <1>5. ASSUME NEW a \in Drainers, Flush(a)
        PROVE  \A b \in Actors : cur'[b] # NoFrame => at'[cur'[b]] = "hand"
    <2>1. cur' = cur /\ FlushOne(a)
      BY <1>5 DEF Flush
    <2>. QED  BY <2>1, FlushOneDoes DEF TypeOK
  <1>6. ASSUME NEW a \in Drainers, Drain(a)
        PROVE  \A b \in Actors : cur'[b] # NoFrame => at'[cur'[b]] = "hand"
    <2>1. CASE at' = at /\ cur' = cur
      BY <2>1 DEF TypeOK
    <2>2. ASSUME NEW f \in Frames, at[f] = "buffer", at' = [at EXCEPT ![f] = "hand"],
                 cur' = [cur EXCEPT ![a] = f]
          PROVE  \A b \in Actors : cur'[b] # NoFrame => at'[cur'[b]] = "hand"
      BY <2>2, FramesAssumption DEF TypeOK, OneHand, NoFrame
    <2>. QED  BY <1>6, <2>1, <2>2, DrainDoes DEF TakesOne
  <1>7. ASSUME Tasklet
        PROVE  \A b \in Actors : cur'[b] # NoFrame => at'[cur'[b]] = "hand"
    BY <1>7, TaskletDoes DEF Tasklet, TypeOK
  <1>8. ASSUME NEW f \in Frames, Complete(f)
        PROVE  \A b \in Actors : cur'[b] # NoFrame => at'[cur'[b]] = "hand"
    BY <1>8, FramesAssumption DEF Complete, In, OneHand, TypeOK, Actors,
       NoFrame
  <1>9. ASSUME Resume
        PROVE  \A b \in Actors : cur'[b] # NoFrame => at'[cur'[b]] = "hand"
    <2>1. cur' = cur
      BY <1>9 DEF Resume
    <2>2. \A f \in Frames : at[f] = "hand" => at'[f] = "hand"
      BY <1>9, ResumeDoes
    <2>. QED  BY <2>1, <2>2 DEF TypeOK
  <1>. QED  BY <1>1, <1>2, <1>3, <1>4, <1>5, <1>6, <1>7, <1>8, <1>9,
               StepCases DEF Claim, Arm, PauseAndSend, Look, CancelTimer,
               DrainStart, DrainEnd, RxAnswer, Answer, Settle, RxDelba,
               DelbaClaim, DelbaPause, DelbaEnd, Expire, Fire, FireEnd,
               LoseRequest, TypeOK, Drainers, OneHand

(* A sender has its frame from the check to the store or the put.          *)
LEMMA SendersStayFit ==
    ASSUME SessionInv, Next
    PROVE  SendersFit'
  <1>. TypeOK /\ SendersFit
    BY DEF SessionInv, Hands
  <1>. USE FramesAssumption, SendersAssumption DEF SendersFit, SenderPlaces,
           AtFrame, Goto, TypeOK, Actors, NoFrame
  <1>1. ASSUME NEW s \in Senders, NEW f \in Frames, TxCheck(s, f)
        PROVE  SendersFit'
    BY <1>1 DEF TxCheck, NeedsAddba
  <1>2. ASSUME NEW s \in Senders, Claim(s) PROVE SendersFit'
    BY <1>2 DEF Claim
  <1>3. ASSUME NEW s \in Senders, Arm(s) PROVE SendersFit'
    BY <1>3 DEF Arm
  <1>4. ASSUME NEW s \in Senders, PauseAndSend(s) PROVE SendersFit'
    BY <1>4 DEF PauseAndSend, PausedUp
  <1>5. ASSUME NEW a \in Actors, Look(a) PROVE SendersFit'
    BY <1>5 DEF Look
  <1>6. ASSUME NEW a \in Actors, Store(a) PROVE SendersFit'
    BY <1>6 DEF Store, AfterTx
  <1>7. ASSUME NEW a \in Actors, Put(a) PROVE SendersFit'
    BY <1>7 DEF Put, QueueTid, AfterTx
  <1>8. ASSUME NEW a \in Drainers, CancelTimer(a) PROVE SendersFit'
    BY <1>8 DEF CancelTimer
  <1>9. ASSUME NEW a \in Drainers, Unpause(a) PROVE SendersFit'
    BY <1>9 DEF Unpause, PausedDown, FlushOne, LeaveFlush, LeaveJob, AfterFlush
  <1>10. ASSUME NEW a \in Drainers, Flush(a) PROVE SendersFit'
    BY <1>10 DEF Flush, FlushOne, LeaveFlush, LeaveJob, AfterFlush
  <1>11. ASSUME NEW a \in Drainers, DrainStart(a) PROVE SendersFit'
    BY <1>11 DEF DrainStart
  <1>12. ASSUME NEW a \in Drainers, Drain(a) PROVE SendersFit'
    BY <1>12 DEF Drain, Drained, LeaveJob
  <1>13. ASSUME NEW a \in Drainers, DrainEnd(a) PROVE SendersFit'
    BY <1>13 DEF DrainEnd, Drained, LeaveJob
  <1>14. ASSUME NEW answer \in {"accepted", "refused"}, RxAnswer(answer)
        PROVE  SendersFit'
    BY <1>14 DEF RxAnswer
  <1>15. ASSUME Answer PROVE SendersFit'
    BY <1>15 DEF Answer
  <1>16. ASSUME Settle PROVE SendersFit'
    BY <1>16 DEF Settle
  <1>17. ASSUME Resume PROVE SendersFit'
    BY <1>17 DEF Resume, PausedDown, QueueTid
  <1>18. ASSUME RxDelba PROVE SendersFit'
    BY <1>18 DEF RxDelba
  <1>19. ASSUME DelbaClaim PROVE SendersFit'
    BY <1>19 DEF DelbaClaim
  <1>20. ASSUME DelbaPause PROVE SendersFit'
    BY <1>20 DEF DelbaPause, PausedUp
  <1>21. ASSUME DelbaEnd PROVE SendersFit'
    BY <1>21 DEF DelbaEnd
  <1>22. ASSUME Expire PROVE SendersFit'
    BY <1>22 DEF Expire
  <1>. QED  BY <1>1, <1>2, <1>3, <1>4, <1>5, <1>6, <1>7, <1>8, <1>9, <1>10,
               <1>11, <1>12, <1>13, <1>14, <1>15, <1>16, <1>17, <1>18, <1>19,
               <1>20, <1>21, <1>22, StepCases DEF Fire, FireEnd, LoseRequest,
               Tasklet, Complete

(* A drainer has a frame while it sends one, and a job until it is idle.   *)
LEMMA DrainersStayFit ==
    ASSUME SessionInv, Next
    PROVE  DrainersFit'
  <1>. TypeOK /\ DrainersFit
    BY DEF SessionInv, Hands
  <1>. USE FramesAssumption, SendersAssumption DEF DrainersFit, AtFrame,
           Goto, TypeOK, Actors, Drainers, NoFrame
  <1>1. ASSUME NEW s \in Senders, NEW f \in Frames, TxCheck(s, f)
        PROVE  DrainersFit'
    BY <1>1 DEF TxCheck, NeedsAddba
  <1>2. ASSUME NEW s \in Senders, Claim(s) PROVE DrainersFit'
    BY <1>2 DEF Claim
  <1>3. ASSUME NEW s \in Senders, Arm(s) PROVE DrainersFit'
    BY <1>3 DEF Arm
  <1>4. ASSUME NEW s \in Senders, PauseAndSend(s) PROVE DrainersFit'
    BY <1>4 DEF PauseAndSend, PausedUp
  <1>5. ASSUME NEW a \in Actors, Look(a) PROVE DrainersFit'
    BY <1>5 DEF Look
  <1>6. ASSUME NEW a \in Actors, Store(a) PROVE DrainersFit'
    BY <1>6 DEF Store, AfterTx
  <1>7. ASSUME NEW a \in Actors, Put(a) PROVE DrainersFit'
    BY <1>7 DEF Put, QueueTid, AfterTx
  <1>8. ASSUME NEW a \in Drainers, CancelTimer(a) PROVE DrainersFit'
    BY <1>8 DEF CancelTimer
  <1>9. ASSUME NEW a \in Drainers, Unpause(a) PROVE DrainersFit'
    BY <1>9 DEF Unpause, PausedDown, FlushOne, LeaveFlush, LeaveJob, AfterFlush
  <1>10. ASSUME NEW a \in Drainers, Flush(a) PROVE DrainersFit'
    BY <1>10 DEF Flush, FlushOne, LeaveFlush, LeaveJob, AfterFlush
  <1>11. ASSUME NEW a \in Drainers, DrainStart(a) PROVE DrainersFit'
    BY <1>11 DEF DrainStart
  <1>12. ASSUME NEW a \in Drainers, Drain(a) PROVE DrainersFit'
    <2>1. CASE cur' = cur /\ Drained(a)
      BY <2>1, <1>12 DEF Drain, Drained, LeaveJob
    <2>2. CASE TakesOne(a)
      <3>1. pc[a] = "drain" /\ job[a] # "none"
        BY <1>12 DEF Drain
      <3>2. PICK f \in Frames : /\ cur' = [cur EXCEPT ![a] = f]
                              /\ pc' = [pc EXCEPT ![a] = "look"] /\ job' = job
        BY <2>2 DEF TakesOne
      <3>3. cur'[a] # NoFrame /\ pc'[a] = "look" /\ job'[a] # "none"
        BY <3>1, <3>2
      <3>4. \A b \in Drainers \ {a} : /\ cur'[b] = cur[b] /\ pc'[b] = pc[b]
                                      /\ job'[b] = job[b]
        BY <3>2
      <3>. QED  BY <3>3, <3>4
    <2>. QED  BY <1>12, <2>1, <2>2, DrainDoes DEF Drain
  <1>13. ASSUME NEW a \in Drainers, DrainEnd(a) PROVE DrainersFit'
    BY <1>13 DEF DrainEnd, Drained, LeaveJob
  <1>14. ASSUME NEW answer \in {"accepted", "refused"}, RxAnswer(answer)
        PROVE  DrainersFit'
    BY <1>14 DEF RxAnswer
  <1>15. ASSUME Answer PROVE DrainersFit'
    BY <1>15 DEF Answer
  <1>16. ASSUME Settle PROVE DrainersFit'
    <2>1. job' = job /\ cur' = cur /\ pc["rx"] = "settle"
          /\ \E l \in {"drainstart", "resume", "unpause"} : pc' = [pc EXCEPT !["rx"] = l]
      BY <1>16, SettleGoes DEF Settle
    <2>. QED  BY <2>1
  <1>17. ASSUME Resume PROVE DrainersFit'
    BY <1>17 DEF Resume, PausedDown, QueueTid
  <1>18. ASSUME RxDelba PROVE DrainersFit'
    BY <1>18 DEF RxDelba
  <1>19. ASSUME DelbaClaim PROVE DrainersFit'
    BY <1>19 DEF DelbaClaim
  <1>20. ASSUME DelbaPause PROVE DrainersFit'
    BY <1>20 DEF DelbaPause, PausedUp
  <1>21. ASSUME DelbaEnd PROVE DrainersFit'
    BY <1>21 DEF DelbaEnd
  <1>22. ASSUME Expire PROVE DrainersFit'
    BY <1>22 DEF Expire
  <1>. QED  BY <1>1, <1>2, <1>3, <1>4, <1>5, <1>6, <1>7, <1>8, <1>9, <1>10,
               <1>11, <1>12, <1>13, <1>14, <1>15, <1>16, <1>17, <1>18, <1>19,
               <1>20, <1>21, <1>22, StepCases DEF Fire, FireEnd, LoseRequest,
               Tasklet, Complete

(* No step leads a thread where its job does not belong.                   *)
LEMMA JobsStayFit ==
    ASSUME SessionInv, Next
    PROVE  JobsFit'
  <1>. TypeOK /\ JobsFit
    BY DEF SessionInv, Hands
  <1>. USE SendersAssumption DEF JobsFit, AtFrame, Draining, WorkPlaces,
           AnswerPlaces, DelbaPlaces, Goto, TypeOK, Actors, Drainers
  <1>1. ASSUME NEW s \in Senders, NEW f \in Frames, TxCheck(s, f)
        PROVE  JobsFit'
    BY <1>1 DEF TxCheck, NeedsAddba
  <1>2. ASSUME NEW s \in Senders, Claim(s) PROVE JobsFit'
    BY <1>2 DEF Claim
  <1>3. ASSUME NEW s \in Senders, Arm(s) PROVE JobsFit'
    BY <1>3 DEF Arm
  <1>4. ASSUME NEW s \in Senders, PauseAndSend(s) PROVE JobsFit'
    BY <1>4 DEF PauseAndSend, PausedUp
  <1>5. ASSUME NEW a \in Actors, Look(a) PROVE JobsFit'
    BY <1>5 DEF Look
  <1>6. ASSUME NEW a \in Actors, Store(a) PROVE JobsFit'
    BY <1>6 DEF Store, AfterTx
  <1>7. ASSUME NEW a \in Actors, Put(a) PROVE JobsFit'
    BY <1>7 DEF Put, QueueTid, AfterTx
  <1>8. ASSUME NEW a \in Drainers, CancelTimer(a) PROVE JobsFit'
    BY <1>8 DEF CancelTimer
  <1>9. ASSUME NEW a \in Drainers, Unpause(a) PROVE JobsFit'
    BY <1>9 DEF Unpause, PausedDown, FlushOne, LeaveFlush, LeaveJob, AfterFlush
  <1>10. ASSUME NEW a \in Drainers, Flush(a) PROVE JobsFit'
    BY <1>10 DEF Flush, FlushOne, LeaveFlush, LeaveJob, AfterFlush
  <1>11. ASSUME NEW a \in Drainers, DrainStart(a) PROVE JobsFit'
    BY <1>11 DEF DrainStart
  <1>12. ASSUME NEW a \in Drainers, Drain(a) PROVE JobsFit'
    BY <1>12 DEF Drain, Drained, LeaveJob
  <1>13. ASSUME NEW a \in Drainers, DrainEnd(a) PROVE JobsFit'
    BY <1>13 DEF DrainEnd, Drained, LeaveJob
  <1>14. ASSUME NEW answer \in {"accepted", "refused"}, RxAnswer(answer)
        PROVE  JobsFit'
    BY <1>14 DEF RxAnswer
  <1>15. ASSUME Answer PROVE JobsFit'
    BY <1>15 DEF Answer
  <1>16. ASSUME Settle PROVE JobsFit'
    BY <1>16 DEF Settle
  <1>17. ASSUME Resume PROVE JobsFit'
    BY <1>17 DEF Resume, PausedDown, QueueTid
  <1>18. ASSUME RxDelba PROVE JobsFit'
    BY <1>18 DEF RxDelba
  <1>19. ASSUME DelbaClaim PROVE JobsFit'
    BY <1>19 DEF DelbaClaim
  <1>20. ASSUME DelbaPause PROVE JobsFit'
    BY <1>20 DEF DelbaPause, PausedUp
  <1>21. ASSUME DelbaEnd PROVE JobsFit'
    BY <1>21 DEF DelbaEnd
  <1>22. ASSUME Expire PROVE JobsFit'
    BY <1>22 DEF Expire
  <1>. QED  BY <1>1, <1>2, <1>3, <1>4, <1>5, <1>6, <1>7, <1>8, <1>9, <1>10,
               <1>11, <1>12, <1>13, <1>14, <1>15, <1>16, <1>17, <1>18, <1>19,
               <1>20, <1>21, <1>22, StepCases DEF Fire, FireEnd, LoseRequest,
               Tasklet, Complete

(* The pause count comes to zero upwards only where the byte wraps.        *)
LEMMA WrapsAt255 == \A n \in 0 .. 255 : (n + 1) % 256 = 0 => n = 255
  OBVIOUS

(* A DELBA keeps the session it found until it ends it: a completion that  *)
(* ends a clean-up comes only after the DELBA that began it, and that was  *)
(* the same thread's.                                                      *)
LEMMA DelbaKept ==
    ASSUME SessionInv, Next
    PROVE  DelbaHasSession'
  <1>. TypeOK /\ SendersFit /\ DrainersFit /\ JobsFit /\ DelbaHasSession
    BY DEF SessionInv, Hands
  <1>. USE SendersAssumption DEF DelbaHasSession, EndingDelba, SendersFit,
           JobsFit, SenderPlaces, WorkPlaces, AnswerPlaces, AtFrame,
           Draining, Goto, TypeOK, Scoreboards, Actors, Drainers
  <1>1. ASSUME NEW s \in Senders, NEW f \in Frames, TxCheck(s, f)
        PROVE  DelbaHasSession'
    BY <1>1 DEF TxCheck, NeedsAddba
  <1>2. ASSUME NEW s \in Senders, Claim(s) PROVE DelbaHasSession'
    BY <1>2 DEF Claim
  <1>3. ASSUME NEW s \in Senders, Arm(s) PROVE DelbaHasSession'
    BY <1>3 DEF Arm
  <1>4. ASSUME NEW s \in Senders, PauseAndSend(s) PROVE DelbaHasSession'
    BY <1>4 DEF PauseAndSend, PausedUp
  <1>5. ASSUME NEW a \in Actors, Look(a) PROVE DelbaHasSession'
    BY <1>5 DEF Look
  <1>6. ASSUME NEW a \in Actors, Store(a) PROVE DelbaHasSession'
    BY <1>6 DEF Store, AfterTx
  <1>7. ASSUME NEW a \in Actors, Put(a) PROVE DelbaHasSession'
    <2>1. tid'.complete = tid.complete /\ tid'.cleanup = tid.cleanup
      BY <1>7, PutDoes
    <2>2. EndingDelba' => EndingDelba
      BY <1>7 DEF Put, AfterTx
    <2>. QED  BY <2>1, <2>2
  <1>8. ASSUME NEW a \in Drainers, CancelTimer(a) PROVE DelbaHasSession'
    BY <1>8 DEF CancelTimer
  <1>9. ASSUME NEW a \in Drainers, Unpause(a) PROVE DelbaHasSession'
    BY <1>9 DEF Unpause, PausedDown, FlushOne, LeaveFlush, LeaveJob, AfterFlush
  <1>10. ASSUME NEW a \in Drainers, Flush(a) PROVE DelbaHasSession'
    BY <1>10 DEF Flush, FlushOne, LeaveFlush, LeaveJob, AfterFlush
  <1>11. ASSUME NEW a \in Drainers, DrainStart(a) PROVE DelbaHasSession'
    BY <1>11 DEF DrainStart
  <1>12. ASSUME NEW a \in Drainers, Drain(a) PROVE DelbaHasSession'
    BY <1>12 DEF Drain, Drained, LeaveJob
  <1>13. ASSUME NEW a \in Drainers, DrainEnd(a) PROVE DelbaHasSession'
    BY <1>13 DEF DrainEnd, Drained, LeaveJob
  <1>14. ASSUME NEW answer \in {"accepted", "refused"}, RxAnswer(answer)
        PROVE  DelbaHasSession'
    BY <1>14 DEF RxAnswer
  <1>15. ASSUME Answer PROVE DelbaHasSession'
    <2>1. job["rx"] # "delba" /\ job' = job /\ pc["rx"] = "answer"
      BY <1>15 DEF Answer, DelbaPlaces
    <2>2. ~EndingDelba'
      BY <2>1, <1>15 DEF Answer
    <2>. QED  BY <2>2
  <1>16. ASSUME Settle PROVE DelbaHasSession'
    <2>1. ~EndingDelba'
      BY <1>16, SettleGoes DEF Settle
    <2>. QED  BY <2>1
  <1>17. ASSUME Resume PROVE DelbaHasSession'
    BY <1>17 DEF Resume, PausedDown, QueueTid
  <1>18. ASSUME RxDelba PROVE DelbaHasSession'
    BY <1>18 DEF RxDelba
  <1>19. ASSUME DelbaClaim PROVE DelbaHasSession'
    BY <1>19 DEF DelbaClaim
  <1>20. ASSUME DelbaPause PROVE DelbaHasSession'
    BY <1>20 DEF DelbaPause, PausedUp
  <1>21. ASSUME DelbaEnd PROVE DelbaHasSession'
    BY <1>21 DEF DelbaEnd
  <1>22. ASSUME Expire PROVE DelbaHasSession'
    BY <1>22 DEF Expire
  <1>23. ASSUME Tasklet PROVE DelbaHasSession'
    BY <1>23 DEF Tasklet, RunList
  <1>24. ASSUME NEW f \in Frames, Complete(f) PROVE DelbaHasSession'
    BY <1>24 DEF Complete, In
  <1>. QED  BY <1>1, <1>2, <1>3, <1>4, <1>5, <1>6, <1>7, <1>8, <1>9, <1>10,
               <1>11, <1>12, <1>13, <1>14, <1>15, <1>16, <1>17, <1>18, <1>19,
               <1>20, <1>21, <1>22, <1>23, <1>24, StepCases DEF Fire,
               FireEnd, LoseRequest

(* Frames that may be sent stay on the list: who unpauses the TID lists it *)
(* or flushes it, and who puts a frame lists it.                           *)
LEMMA PendingKept ==
    ASSUME SessionInv, Next
    PROVE  PendingIsQueued'
  <1>. TypeOK /\ PendingIsQueued
    BY DEF SessionInv
  <1>. USE DEF PendingIsQueued, Flushing, In, Goto, TypeOK, Scoreboards,
           Actors, Drainers
  <1>1. ASSUME NEW s \in Senders, NEW f \in Frames, TxCheck(s, f)
        PROVE  PendingIsQueued'
    BY <1>1 DEF TxCheck, NeedsAddba
  <1>2. ASSUME NEW s \in Senders, Claim(s) PROVE PendingIsQueued'
    BY <1>2 DEF Claim
  <1>3. ASSUME NEW s \in Senders, Arm(s) PROVE PendingIsQueued'
    BY <1>3 DEF Arm
  <1>4. ASSUME NEW s \in Senders, PauseAndSend(s) PROVE PendingIsQueued'
    <2>1. tid'.paused = PausedUp /\ failed' = (failed \/ tid.paused = 255)
      BY <1>4 DEF PauseAndSend
    <2>2. tid'.paused = 0 => failed'
      <3>1. tid.paused \in 0 .. 255
        OBVIOUS
      <3>. QED  BY ONLY <2>1, <3>1, WrapsAt255 DEF PausedUp
    <2>. QED  BY <2>2
  <1>5. ASSUME NEW a \in Actors, Look(a) PROVE PendingIsQueued'
    BY <1>5 DEF Look
  <1>6. ASSUME NEW a \in Actors, Store(a) PROVE PendingIsQueued'
    BY <1>6 DEF Store, AfterTx
  <1>7. ASSUME NEW a \in Actors, Put(a) PROVE PendingIsQueued'
    <2>1. pc' = [pc EXCEPT ![a] = AfterTx(a)] /\ failed' = failed /\ pc[a] = "put"
      BY <1>7 DEF Put
    <2>2. tid'.paused = tid.paused /\ AfterTx(a) # "flush"
      BY <1>7, PutDoes DEF AfterTx
    <2>3. Flushing' <=> Flushing
      BY <2>1, <2>2
    <2>4. CASE tid' = tid /\ \A f \in Frames : at'[f] = "pending" => at[f] = "pending"
      BY <2>1, <2>3, <2>4
    <2>. QED  BY <1>7, <2>1, <2>2, <2>3, <2>4, PutDoes
  <1>8. ASSUME NEW a \in Drainers, CancelTimer(a) PROVE PendingIsQueued'
    BY <1>8 DEF CancelTimer
  <1>9. ASSUME NEW a \in Drainers, Unpause(a) PROVE PendingIsQueued'
    BY <1>9 DEF Unpause, PausedDown, FlushOne, LeaveFlush, LeaveJob, AfterFlush
  <1>10. ASSUME NEW a \in Drainers, Flush(a) PROVE PendingIsQueued'
    BY <1>10 DEF Flush, FlushOne, LeaveFlush, LeaveJob, AfterFlush
  <1>11. ASSUME NEW a \in Drainers, DrainStart(a) PROVE PendingIsQueued'
    BY <1>11 DEF DrainStart
  <1>12. ASSUME NEW a \in Drainers, Drain(a) PROVE PendingIsQueued'
    BY <1>12 DEF Drain, Drained, LeaveJob
  <1>13. ASSUME NEW a \in Drainers, DrainEnd(a) PROVE PendingIsQueued'
    BY <1>13 DEF DrainEnd, Drained, LeaveJob
  <1>14. ASSUME NEW answer \in {"accepted", "refused"}, RxAnswer(answer)
        PROVE  PendingIsQueued'
    BY <1>14 DEF RxAnswer
  <1>15. ASSUME Answer PROVE PendingIsQueued'
    BY <1>15 DEF Answer
  <1>16. ASSUME Settle PROVE PendingIsQueued'
    BY <1>16 DEF Settle
  <1>17. ASSUME Resume PROVE PendingIsQueued'
    BY <1>17, ResumeDoes
  <1>18. ASSUME RxDelba PROVE PendingIsQueued'
    BY <1>18 DEF RxDelba
  <1>19. ASSUME DelbaClaim PROVE PendingIsQueued'
    BY <1>19 DEF DelbaClaim
  <1>20. ASSUME DelbaPause PROVE PendingIsQueued'
    <2>1. tid'.paused = PausedUp /\ failed' = (failed \/ tid.paused = 255)
      BY <1>20 DEF DelbaPause
    <2>2. tid'.paused = 0 => failed'
      <3>1. tid.paused \in 0 .. 255
        OBVIOUS
      <3>. QED  BY ONLY <2>1, <3>1, WrapsAt255 DEF PausedUp
    <2>. QED  BY <2>2
  <1>21. ASSUME DelbaEnd PROVE PendingIsQueued'
    BY <1>21 DEF DelbaEnd
  <1>22. ASSUME Expire PROVE PendingIsQueued'
    BY <1>22 DEF Expire
  <1>23. ASSUME Tasklet PROVE PendingIsQueued'
    BY <1>23, TaskletDoes DEF Tasklet
  <1>24. ASSUME NEW f \in Frames, Complete(f) PROVE PendingIsQueued'
    BY <1>24 DEF Complete
  <1>. QED  BY <1>1, <1>2, <1>3, <1>4, <1>5, <1>6, <1>7, <1>8, <1>9, <1>10,
               <1>11, <1>12, <1>13, <1>14, <1>15, <1>16, <1>17, <1>18, <1>19,
               <1>20, <1>21, <1>22, <1>23, <1>24, StepCases DEF Fire,
               FireEnd, LoseRequest

(* A clean-up keeps frames in the window: only a completion takes one out, *)
(* and the last one ends the clean-up.                                     *)
LEMMA CleanupKept ==
    ASSUME SessionInv, Next
    PROVE  CleanupHasWindow'
  <1>. TypeOK /\ OneHand /\ DelbaHasSession /\ CleanupHasWindow
    BY DEF SessionInv, Hands
  <1>. USE DEF CleanupHasWindow, In, Goto, TypeOK, Scoreboards, Drainers
  <1>1. ASSUME NEW s \in Senders, NEW f \in Frames, TxCheck(s, f)
        PROVE  CleanupHasWindow'
    BY <1>1 DEF TxCheck, NeedsAddba
  <1>2. ASSUME NEW s \in Senders, Claim(s) PROVE CleanupHasWindow'
    BY <1>2 DEF Claim
  <1>3. ASSUME NEW s \in Senders, PauseAndSend(s) PROVE CleanupHasWindow'
    BY <1>3 DEF PauseAndSend, PausedUp
  <1>4. ASSUME NEW a \in Actors, Store(a) PROVE CleanupHasWindow'
    <2>1. \A f \in Frames : at[f] = "window" => at'[f] = "window"
      BY <1>4, FramesAssumption DEF Store, NoFrame
    <2>. QED  BY <1>4, <2>1 DEF Store
  <1>5. ASSUME NEW a \in Actors, Put(a) PROVE CleanupHasWindow'
    <2>1. \A f \in Frames : at[f] = "window" => f # cur[a]
      BY FramesAssumption DEF NoFrame
    <2>2. tid'.complete = tid.complete /\ tid'.cleanup = tid.cleanup
      BY <1>5, PutDoes
    <2>3. \A f \in Frames : at[f] = "window" => at'[f] = "window"
      BY <1>5, <2>1, PutDoes
    <2>. QED  BY <2>2, <2>3
  <1>6. ASSUME NEW a \in Drainers, Unpause(a) PROVE CleanupHasWindow'
    BY <1>6 DEF Unpause, PausedDown, FlushOne, LeaveFlush, LeaveJob, AfterFlush
  <1>7. ASSUME NEW a \in Drainers, Flush(a) PROVE CleanupHasWindow'
    BY <1>7 DEF Flush, FlushOne, LeaveFlush, LeaveJob, AfterFlush
  <1>8. ASSUME NEW a \in Drainers, DrainStart(a) PROVE CleanupHasWindow'
    BY <1>8 DEF DrainStart
  <1>9. ASSUME NEW a \in Drainers, Drain(a) PROVE CleanupHasWindow'
    BY <1>9 DEF Drain, Drained, LeaveJob
  <1>10. ASSUME NEW a \in Drainers, DrainEnd(a) PROVE CleanupHasWindow'
    BY <1>10 DEF DrainEnd, Drained, LeaveJob
  <1>11. ASSUME Answer PROVE CleanupHasWindow'
    BY <1>11 DEF Answer
  <1>12. ASSUME Settle PROVE CleanupHasWindow'
    BY <1>12 DEF Settle
  <1>13. ASSUME Resume PROVE CleanupHasWindow'
    <2>1. PICK n \in 0 .. 255, b \in BOOLEAN : tid' = [tid EXCEPT !.paused = n, !.bwork = b]
      BY <1>13, ResumeDoes
    <2>2. tid'.complete = tid.complete /\ tid'.cleanup = tid.cleanup
      BY <2>1
    <2>3. \A f \in Frames : at[f] = "window" => at'[f] = "window"
      BY <1>13, ResumeDoes
    <2>. QED  BY <2>2, <2>3
  <1>14. ASSUME RxDelba PROVE CleanupHasWindow'
    BY <1>14 DEF RxDelba
  <1>15. ASSUME DelbaClaim PROVE CleanupHasWindow'
    BY <1>15 DEF DelbaClaim
  <1>16. ASSUME DelbaPause PROVE CleanupHasWindow'
    BY <1>16 DEF DelbaPause, PausedUp
  <1>17. ASSUME DelbaEnd PROVE CleanupHasWindow'
    <2>1. tid.complete /\ ~tid.cleanup /\ at' = at
      BY <1>17 DEF DelbaEnd, DelbaHasSession, EndingDelba
    <2>2. CASE In("window") # {} /\ tid' = [tid EXCEPT !.cleanup = TRUE]
      BY <2>1, <2>2
    <2>3. CASE tid' = [tid EXCEPT !.complete = FALSE, !.attempts = 0]
      <3>1. ~tid'.cleanup
        BY <2>1, <2>3
      <3>. QED  BY <3>1
    <2>. QED  BY <1>17, <2>2, <2>3 DEF DelbaEnd
  <1>18. ASSUME Expire PROVE CleanupHasWindow'
    BY <1>18 DEF Expire
  <1>19. ASSUME Tasklet PROVE CleanupHasWindow'
    BY <1>19, TaskletDoes
  <1>20. ASSUME NEW f \in Frames, Complete(f) PROVE CleanupHasWindow'
    BY <1>20 DEF Complete
  <1>. QED  BY <1>1, <1>2, <1>3, <1>4, <1>5, <1>6, <1>7, <1>8, <1>9, <1>10,
               <1>11, <1>12, <1>13, <1>14, <1>15, <1>16, <1>17, <1>18, <1>19,
               <1>20, StepCases DEF Arm, Look, CancelTimer, RxAnswer, Fire,
               FireEnd, LoseRequest

-----------------------------------------------------------------------------
(* Pauses and resumes.  Without overlap the thread that moves is the only  *)
(* one that is busy, before and after.                                     *)
LEMMA MovesAlone ==
    ASSUME OneAtATime, NEW a \in Actors,
           pc[a] # "idle" \/ \A b \in Actors : pc[b] = "idle",
           \A b \in Actors \ {a} : pc'[b] = pc[b]
    PROVE  /\ OneAtATime'
           /\ \A b \in Actors \ {a} : pc[b] = "idle" /\ pc'[b] = "idle"
  BY DEF OneAtATime

(* Each handler that starts alone leaves the pause count as it should be   *)
(* at every step of its own.                                               *)
LEMMA PairKept ==
    ASSUME SessionInv, OneAtATime, Paired, ~load.overlap, Next
    PROVE  OneAtATime' /\ Paired'
  <1>. TypeOK /\ DrainersFit /\ JobsFit /\ DelbaHasSession
    BY DEF SessionInv, Hands
  <1>. USE SendersAssumption DEF OneAtATime, Paired, Lacks, Owes, Goto,
           TypeOK, Scoreboards, Actors, Drainers
  <1>1. ASSUME NEW s \in Senders, NEW f \in Frames, TxCheck(s, f)
        PROVE  OneAtATime' /\ Paired'
    <2>1. /\ s \in Actors
          /\ pc[s] # "idle" \/ \A b \in Actors : pc[b] = "idle"
          /\ \A b \in Actors \ {s} : pc'[b] = pc[b]
      BY <1>1 DEF TxCheck, NeedsAddba, Quiet
    <2>2. OneAtATime' /\ \A b \in Actors \ {s} : pc[b] = "idle" /\ pc'[b] = "idle"
      BY <2>1, MovesAlone
    <2>3. Paired'
      BY <1>1, <2>2 DEF TxCheck, NeedsAddba
    <2>. QED  BY <2>2, <2>3
  <1>2. ASSUME NEW s \in Senders, Claim(s) PROVE OneAtATime' /\ Paired'
    <2>1. /\ s \in Actors
          /\ pc[s] # "idle" \/ \A b \in Actors : pc[b] = "idle"
          /\ \A b \in Actors \ {s} : pc'[b] = pc[b]
      BY <1>2 DEF Claim
    <2>2. OneAtATime' /\ \A b \in Actors \ {s} : pc[b] = "idle" /\ pc'[b] = "idle"
      BY <2>1, MovesAlone
    <2>3. Paired'
      BY <1>2, <2>2 DEF Claim
    <2>. QED  BY <2>2, <2>3
  <1>3. ASSUME NEW s \in Senders, Arm(s) PROVE OneAtATime' /\ Paired'
    <2>1. /\ s \in Actors
          /\ pc[s] # "idle" \/ \A b \in Actors : pc[b] = "idle"
          /\ \A b \in Actors \ {s} : pc'[b] = pc[b]
      BY <1>3 DEF Arm
    <2>2. OneAtATime' /\ \A b \in Actors \ {s} : pc[b] = "idle" /\ pc'[b] = "idle"
      BY <2>1, MovesAlone
    <2>3. Paired'
      BY <1>3, <2>2 DEF Arm
    <2>. QED  BY <2>2, <2>3
  <1>4. ASSUME NEW s \in Senders, PauseAndSend(s) PROVE OneAtATime' /\ Paired'
    <2>1. /\ s \in Actors
          /\ pc[s] # "idle" \/ \A b \in Actors : pc[b] = "idle"
          /\ \A b \in Actors \ {s} : pc'[b] = pc[b]
      BY <1>4 DEF PauseAndSend, PausedUp
    <2>2. OneAtATime' /\ \A b \in Actors \ {s} : pc[b] = "idle" /\ pc'[b] = "idle"
      BY <2>1, MovesAlone
    <2>3. Paired'
      BY <1>4, <2>2 DEF PauseAndSend, PausedUp
    <2>. QED  BY <2>2, <2>3
  <1>5. ASSUME NEW a \in Actors, Look(a) PROVE OneAtATime' /\ Paired'
    <2>1. /\ a \in Actors
          /\ pc[a] # "idle" \/ \A b \in Actors : pc[b] = "idle"
          /\ \A b \in Actors \ {a} : pc'[b] = pc[b]
      BY <1>5 DEF Look
    <2>2. OneAtATime' /\ \A b \in Actors \ {a} : pc[b] = "idle" /\ pc'[b] = "idle"
      BY <2>1, MovesAlone
    <2>3. Paired'
      BY <1>5, <2>2 DEF Look
    <2>. QED  BY <2>2, <2>3
  <1>6. ASSUME NEW a \in Actors, Store(a) PROVE OneAtATime' /\ Paired'
    <2>1. /\ a \in Actors
          /\ pc[a] # "idle" \/ \A b \in Actors : pc[b] = "idle"
          /\ \A b \in Actors \ {a} : pc'[b] = pc[b]
      BY <1>6 DEF Store, AfterTx
    <2>2. OneAtATime' /\ \A b \in Actors \ {a} : pc[b] = "idle" /\ pc'[b] = "idle"
      BY <2>1, MovesAlone
    <2>3. Paired'
      BY <1>6, <2>2 DEF Store, AfterTx
    <2>. QED  BY <2>2, <2>3
  <1>7. ASSUME NEW a \in Actors, Put(a) PROVE OneAtATime' /\ Paired'
    <2>1. /\ a \in Actors
          /\ pc[a] # "idle" \/ \A b \in Actors : pc[b] = "idle"
          /\ \A b \in Actors \ {a} : pc'[b] = pc[b]
      BY <1>7 DEF Put, QueueTid, AfterTx
    <2>2. OneAtATime' /\ \A b \in Actors \ {a} : pc[b] = "idle" /\ pc'[b] = "idle"
      BY <2>1, MovesAlone
    <2>3. Paired'
      <3>1. /\ tid'.inprogress = tid.inprogress /\ tid'.complete = tid.complete
            /\ tid'.paused = tid.paused
        BY <1>7, PutDoes
      <3>2. \E l \in {"idle", "drain", "drained"} : pc' = [pc EXCEPT ![a] = l]
        BY <1>7 DEF Put, AfterTx
      <3>3. pc[a] = "put" /\ job' = job /\ won' = won
        BY <1>7 DEF Put
      <3>. QED  BY <2>2, <3>1, <3>2, <3>3
    <2>. QED  BY <2>2, <2>3
  <1>8. ASSUME NEW a \in Drainers, CancelTimer(a) PROVE OneAtATime' /\ Paired'
    <2>1. /\ a \in Actors
          /\ pc[a] # "idle" \/ \A b \in Actors : pc[b] = "idle"
          /\ \A b \in Actors \ {a} : pc'[b] = pc[b]
      BY <1>8 DEF CancelTimer
    <2>2. OneAtATime' /\ \A b \in Actors \ {a} : pc[b] = "idle" /\ pc'[b] = "idle"
      BY <2>1, MovesAlone
    <2>3. Paired'
      <3>1. pc[a] = "cancel" /\ tid' = tid /\ won' = won
        BY <1>8 DEF CancelTimer
      <3>2. CASE a = "work"
        <4>1. pc' = [pc EXCEPT !["work"] = "idle"] /\ job'["rx"] = job["rx"]
          BY <1>8, <3>1, <3>2 DEF CancelTimer, JobsFit, DrainersFit
        <4>. QED  BY <2>2, <3>1, <3>2, <4>1
      <3>3. CASE a = "rx" /\ job["rx"] = "delba"
        <4>1. pc' = [pc EXCEPT !["rx"] = "pause"] /\ job'["rx"] = "delba"
          BY <1>8, <3>3 DEF CancelTimer
        <4>. QED  BY <2>2, <3>1, <3>3, <4>1
      <3>4. CASE a = "rx" /\ job["rx"] # "delba"
        <4>1. job["rx"] \in {"accepted", "refused"}
          BY <3>1, <3>4 DEF JobsFit, DrainersFit
        <4>2. pc' = [pc EXCEPT !["rx"] = "settle"] /\ job'["rx"] = job["rx"]
          BY <1>8, <3>4, <4>1 DEF CancelTimer
        <4>. QED  BY <2>2, <3>1, <3>4, <4>2
      <3>. QED  BY <3>2, <3>3, <3>4
    <2>. QED  BY <2>2, <2>3
  <1>9. ASSUME NEW a \in Drainers, Unpause(a) PROVE OneAtATime' /\ Paired'
    <2>1. /\ a \in Actors
          /\ pc[a] # "idle" \/ \A b \in Actors : pc[b] = "idle"
          /\ \A b \in Actors \ {a} : pc'[b] = pc[b]
      BY <1>9 DEF Unpause, PausedDown, FlushOne, LeaveFlush, LeaveJob,
         AfterFlush
    <2>2. OneAtATime' /\ \A b \in Actors \ {a} : pc[b] = "idle" /\ pc'[b] = "idle"
      BY <2>1, MovesAlone
    <2>3. Paired'
      BY <1>9, <2>2 DEF Unpause, PausedDown, FlushOne, LeaveFlush, LeaveJob,
         AfterFlush
    <2>. QED  BY <2>2, <2>3
  <1>10. ASSUME NEW a \in Drainers, Flush(a) PROVE OneAtATime' /\ Paired'
    <2>1. /\ a \in Actors
          /\ pc[a] # "idle" \/ \A b \in Actors : pc[b] = "idle"
          /\ \A b \in Actors \ {a} : pc'[b] = pc[b]
      BY <1>10 DEF Flush, FlushOne, LeaveFlush, LeaveJob, AfterFlush
    <2>2. OneAtATime' /\ \A b \in Actors \ {a} : pc[b] = "idle" /\ pc'[b] = "idle"
      BY <2>1, MovesAlone
    <2>3. Paired'
      BY <1>10, <2>2 DEF Flush, FlushOne, LeaveFlush, LeaveJob, AfterFlush
    <2>. QED  BY <2>2, <2>3
  <1>11. ASSUME NEW a \in Drainers, DrainStart(a) PROVE OneAtATime' /\ Paired'
    <2>1. /\ a \in Actors
          /\ pc[a] # "idle" \/ \A b \in Actors : pc[b] = "idle"
          /\ \A b \in Actors \ {a} : pc'[b] = pc[b]
      BY <1>11 DEF DrainStart
    <2>2. OneAtATime' /\ \A b \in Actors \ {a} : pc[b] = "idle" /\ pc'[b] = "idle"
      BY <2>1, MovesAlone
    <2>3. Paired'
      BY <1>11, <2>2 DEF DrainStart
    <2>. QED  BY <2>2, <2>3
  <1>12. ASSUME NEW a \in Drainers, Drain(a) PROVE OneAtATime' /\ Paired'
    <2>1. /\ a \in Actors
          /\ pc[a] # "idle" \/ \A b \in Actors : pc[b] = "idle"
          /\ \A b \in Actors \ {a} : pc'[b] = pc[b]
      BY <1>12 DEF Drain, Drained, LeaveJob
    <2>2. OneAtATime' /\ \A b \in Actors \ {a} : pc[b] = "idle" /\ pc'[b] = "idle"
      BY <2>1, MovesAlone
    <2>3. Paired'
      BY <1>12, <2>2 DEF Drain, Drained, LeaveJob
    <2>. QED  BY <2>2, <2>3
  <1>13. ASSUME NEW a \in Drainers, DrainEnd(a) PROVE OneAtATime' /\ Paired'
    <2>1. /\ a \in Actors
          /\ pc[a] # "idle" \/ \A b \in Actors : pc[b] = "idle"
          /\ \A b \in Actors \ {a} : pc'[b] = pc[b]
      BY <1>13 DEF DrainEnd, Drained, LeaveJob
    <2>2. OneAtATime' /\ \A b \in Actors \ {a} : pc[b] = "idle" /\ pc'[b] = "idle"
      BY <2>1, MovesAlone
    <2>3. Paired'
      BY <1>13, <2>2 DEF DrainEnd, Drained, LeaveJob
    <2>. QED  BY <2>2, <2>3
  <1>14. ASSUME NEW answer \in {"accepted", "refused"}, RxAnswer(answer)
        PROVE  OneAtATime' /\ Paired'
    <2>1. /\ "rx" \in Actors
          /\ pc["rx"] # "idle" \/ \A b \in Actors : pc[b] = "idle"
          /\ \A b \in Actors \ {"rx"} : pc'[b] = pc[b]
      BY <1>14 DEF RxAnswer, Quiet
    <2>2. OneAtATime' /\ \A b \in Actors \ {"rx"} : pc[b] = "idle" /\ pc'[b] = "idle"
      BY <2>1, MovesAlone
    <2>3. Paired'
      BY <1>14, <2>2 DEF RxAnswer
    <2>. QED  BY <2>2, <2>3
  <1>15. ASSUME Answer PROVE OneAtATime' /\ Paired'
    <2>1. /\ "rx" \in Actors
          /\ pc["rx"] # "idle" \/ \A b \in Actors : pc[b] = "idle"
          /\ \A b \in Actors \ {"rx"} : pc'[b] = pc[b]
      BY <1>15 DEF Answer
    <2>2. OneAtATime' /\ \A b \in Actors \ {"rx"} : pc[b] = "idle" /\ pc'[b] = "idle"
      BY <2>1, MovesAlone
    <2>3. Paired'
      <3>1. tid.inprogress /\ pc["rx"] = "answer" /\ job["rx"] # "delba"
        BY <1>15 DEF Answer, JobsFit, DelbaPlaces
      <3>2. /\ pc' = [pc EXCEPT !["rx"] = "cancel"] /\ job' = job /\ won'
            /\ tid' = [tid EXCEPT !.inprogress = FALSE]
        BY <1>15, <3>1 DEF Answer
      <3>. QED  BY <2>2, <3>1, <3>2
    <2>. QED  BY <2>2, <2>3
  <1>16. ASSUME Settle PROVE OneAtATime' /\ Paired'
    <2>1. /\ "rx" \in Actors
          /\ pc["rx"] # "idle" \/ \A b \in Actors : pc[b] = "idle"
          /\ \A b \in Actors \ {"rx"} : pc'[b] = pc[b]
      BY <1>16 DEF Settle
    <2>2. OneAtATime' /\ \A b \in Actors \ {"rx"} : pc[b] = "idle" /\ pc'[b] = "idle"
      BY <2>1, MovesAlone
    <2>3. Paired'
      <3>1. pc["rx"] = "settle" /\ won
        BY <1>16, SettleGoes
      <3>2. \E l \in {"resume", "unpause"} : pc' = [pc EXCEPT !["rx"] = l]
        BY <1>16, <3>1, SettleGoes
      <3>3. /\ tid'.inprogress = tid.inprogress /\ tid'.paused = tid.paused
            /\ job' = job /\ won' = won
        BY <1>16 DEF Settle
      <3>4. ~tid.inprogress /\ tid.paused = 1
        BY <3>1
      <3>. QED  BY <2>2, <3>1, <3>2, <3>3, <3>4
    <2>. QED  BY <2>2, <2>3
  <1>17. ASSUME Resume PROVE OneAtATime' /\ Paired'
    <2>1. /\ "rx" \in Actors
          /\ pc["rx"] # "idle" \/ \A b \in Actors : pc[b] = "idle"
          /\ \A b \in Actors \ {"rx"} : pc'[b] = pc[b]
      BY <1>17 DEF Resume, PausedDown, QueueTid
    <2>2. OneAtATime' /\ \A b \in Actors \ {"rx"} : pc[b] = "idle" /\ pc'[b] = "idle"
      BY <2>1, MovesAlone
    <2>3. Paired'
      <3>1. pc["rx"] = "resume" /\ pc' = [pc EXCEPT !["rx"] = "drainstart"]
        BY <1>17 DEF Resume
      <3>2. ~tid.inprogress /\ tid.paused = 1
        BY <3>1
      <3>3. PICK b \in BOOLEAN : tid' = [tid EXCEPT !.paused = 0, !.bwork = b]
        <4>1. PausedDown = 0
          BY <3>2 DEF PausedDown
        <4>. QED  BY <1>17, <4>1, ResumeDoes
      <3>4. /\ tid'.inprogress = tid.inprogress /\ tid'.complete = tid.complete
            /\ tid'.paused = 0
        BY <3>3
      <3>. QED  BY <2>2, <3>1, <3>2, <3>4
    <2>. QED  BY <2>2, <2>3
  <1>18. ASSUME RxDelba PROVE OneAtATime' /\ Paired'
    <2>1. /\ "rx" \in Actors
          /\ pc["rx"] # "idle" \/ \A b \in Actors : pc[b] = "idle"
          /\ \A b \in Actors \ {"rx"} : pc'[b] = pc[b]
      BY <1>18 DEF RxDelba, Quiet
    <2>2. OneAtATime' /\ \A b \in Actors \ {"rx"} : pc[b] = "idle" /\ pc'[b] = "idle"
      BY <2>1, MovesAlone
    <2>3. Paired'
      BY <1>18, <2>2 DEF RxDelba
    <2>. QED  BY <2>2, <2>3
  <1>19. ASSUME DelbaClaim PROVE OneAtATime' /\ Paired'
    <2>1. /\ "rx" \in Actors
          /\ pc["rx"] # "idle" \/ \A b \in Actors : pc[b] = "idle"
          /\ \A b \in Actors \ {"rx"} : pc'[b] = pc[b]
      BY <1>19 DEF DelbaClaim
    <2>2. OneAtATime' /\ \A b \in Actors \ {"rx"} : pc[b] = "idle" /\ pc'[b] = "idle"
      BY <2>1, MovesAlone
    <2>3. Paired'
      <3>1. pc["rx"] = "delba" /\ tid.complete /\ ~tid.inprogress
        BY <1>19 DEF DelbaClaim, DelbaHasSession, EndingDelba
      <3>2. /\ pc' = [pc EXCEPT !["rx"] = "pause"] /\ job' = job /\ won' = won
            /\ tid' = [tid EXCEPT !.inprogress = FALSE]
        BY <1>19, <3>1 DEF DelbaClaim
      <3>. QED  BY <2>2, <3>1, <3>2
    <2>. QED  BY <2>2, <2>3
  <1>20. ASSUME DelbaPause PROVE OneAtATime' /\ Paired'
    <2>1. /\ "rx" \in Actors
          /\ pc["rx"] # "idle" \/ \A b \in Actors : pc[b] = "idle"
          /\ \A b \in Actors \ {"rx"} : pc'[b] = pc[b]
      BY <1>20 DEF DelbaPause, PausedUp
    <2>2. OneAtATime' /\ \A b \in Actors \ {"rx"} : pc[b] = "idle" /\ pc'[b] = "idle"
      BY <2>1, MovesAlone
    <2>3. Paired'
      <3>1. pc["rx"] = "pause" /\ tid.complete /\ ~tid.inprogress
        BY <1>20 DEF DelbaPause, DelbaHasSession, EndingDelba
      <3>2. /\ pc' = [pc EXCEPT !["rx"] = "end"] /\ job' = job /\ won' = won
            /\ tid' = [tid EXCEPT !.paused = PausedUp]
        BY <1>20 DEF DelbaPause
      <3>3. tid.paused = 0
        BY <2>2, <3>1
      <3>4. PausedUp = 1
        BY <3>3 DEF PausedUp
      <3>. QED  BY <2>2, <3>1, <3>2, <3>4
    <2>. QED  BY <2>2, <2>3
  <1>21. ASSUME DelbaEnd PROVE OneAtATime' /\ Paired'
    <2>1. /\ "rx" \in Actors
          /\ pc["rx"] # "idle" \/ \A b \in Actors : pc[b] = "idle"
          /\ \A b \in Actors \ {"rx"} : pc'[b] = pc[b]
      BY <1>21 DEF DelbaEnd
    <2>2. OneAtATime' /\ \A b \in Actors \ {"rx"} : pc[b] = "idle" /\ pc'[b] = "idle"
      BY <2>1, MovesAlone
    <2>3. Paired'
      BY <1>21, <2>2 DEF DelbaEnd
    <2>. QED  BY <2>2, <2>3
  <1>22. ASSUME Expire PROVE OneAtATime' /\ Paired'
    <2>1. /\ "work" \in Actors
          /\ pc["work"] # "idle" \/ \A b \in Actors : pc[b] = "idle"
          /\ \A b \in Actors \ {"work"} : pc'[b] = pc[b]
      BY <1>22 DEF Expire, Quiet
    <2>2. OneAtATime' /\ \A b \in Actors \ {"work"} : pc[b] = "idle" /\ pc'[b] = "idle"
      BY <2>1, MovesAlone
    <2>3. Paired'
      BY <1>22, <2>2 DEF Expire
    <2>. QED  BY <2>2, <2>3
  <1>23. ASSUME Tasklet PROVE OneAtATime' /\ Paired'
    BY <1>23 DEF Tasklet, RunList
  <1>24. ASSUME NEW f \in Frames, Complete(f) PROVE OneAtATime' /\ Paired'
    <2>1. /\ tid'.inprogress = tid.inprogress /\ tid'.paused = tid.paused
          /\ tid'.complete => tid.complete
      BY <1>24 DEF Complete
    <2>2. UNCHANGED <<pc, job, won>>
      BY <1>24 DEF Complete
    <2>. QED  BY <2>1, <2>2
  <1>25. ASSUME Fire PROVE OneAtATime' /\ Paired'
    BY <1>25 DEF Fire
  <1>26. ASSUME FireEnd PROVE OneAtATime' /\ Paired'
    BY <1>26 DEF FireEnd
  <1>27. ASSUME LoseRequest PROVE OneAtATime' /\ Paired'
    BY <1>27 DEF LoseRequest
  <1>. QED  BY <1>1, <1>2, <1>3, <1>4, <1>5, <1>6, <1>7, <1>8, <1>9, <1>10,
               <1>11, <1>12, <1>13, <1>14, <1>15, <1>16, <1>17, <1>18, <1>19,
               <1>20, <1>21, <1>22, <1>23, <1>24, <1>25, <1>26, <1>27,
               StepCases

-----------------------------------------------------------------------------
(* The invariants hold at the start and from step to step.                 *)
LEMMA InvInit ==
    ASSUME Init
    PROVE  SessionInv /\ PairInv
  <1>1. /\ pc = [a \in Actors |-> "idle"] /\ cur = [a \in Actors |-> NoFrame]
        /\ job = [a \in Drainers |-> "none"] /\ last = [a \in Drainers |-> FALSE]
        /\ \A f \in Frames : at[f] \in {"new", "gone"}
        /\ ~tid.complete /\ ~tid.inprogress /\ ~tid.cleanup /\ tid.paused = 0
    BY DEF Init, Drainers
  <1>2. TypeOK
    <2>1. tid \in Scoreboards
      BY CountsAssumption DEF Init, Scoreboards
    <2>2. at \in [Frames -> Places] /\ pc \in [Actors -> Labels]
      BY DEF Init, Places, Labels
    <2>. QED  BY <2>1, <2>2 DEF Init, TypeOK, Jobs
  <1>3. Hands
    BY <1>1 DEF Hands, OneHand, SendersFit, DrainersFit, JobsFit,
       SenderPlaces, AtFrame,
                Actors, Drainers
  <1>4. DelbaHasSession /\ PendingIsQueued /\ CleanupHasWindow
    BY <1>1 DEF DelbaHasSession, EndingDelba, PendingIsQueued,
       CleanupHasWindow, In,
                Actors
  <1>5. OneAtATime /\ Paired
    BY <1>1 DEF OneAtATime, Paired, Lacks, Owes, Actors
  <1>. QED  BY <1>2, <1>3, <1>4, <1>5 DEF SessionInv, PairInv

(* The invariant of the session, from step to step.                        *)
LEMMA SessionStep ==
    ASSUME SessionInv, [Next]_vars
    PROVE  SessionInv'
  <1>1. ASSUME Next PROVE SessionInv'
    <2>1. TypeOK'
      BY <1>1, TidKept, PcKept, JobKept, AtCurKept, TimerKept, CountsKept,
         MarksKept,
         CurInHand DEF TypeOK, Drainers
    <2>2. Hands'
      BY <1>1, CurApart, SendersStayFit, DrainersStayFit, JobsStayFit DEF Hands
    <2>. QED  BY <1>1, <2>1, <2>2, DelbaKept, PendingKept, CleanupKept
                 DEF SessionInv
  <1>2. CASE UNCHANGED vars
    BY <1>2 DEF vars, SessionInv, TypeOK, Hands, OneHand, SendersFit,
       DrainersFit, JobsFit,
                DelbaHasSession, EndingDelba, PendingIsQueued, Flushing,
                CleanupHasWindow, In
  <1>. QED  BY <1>1, <1>2

(* And that of the pauses, on top of it.                                   *)
LEMMA PairStep ==
    ASSUME SessionInv, PairInv, [Next]_vars
    PROVE  PairInv'
  <1>1. CASE Next
    BY <1>1, PairKept, StepCases DEF PairInv
  <1>2. CASE UNCHANGED vars
    BY <1>2 DEF vars, PairInv, OneAtATime, Paired, Lacks, Owes
  <1>. QED  BY <1>1, <1>2

(* The session is sound, however its handlers overlap: pending frames that *)
(* may be sent are on a list the tasklet visits (drv_tx_queue_tid, resume  *)
(* and flush), and a clean-up has frames in the window to wait for         *)
(* (drv_txampdu_del, drv_tx_complete_task).                                *)
THEOREM AddbaSessionSound == Spec => []SessionSound
  <1>1. Init => SessionInv
    BY InvInit
  <1>2. SessionInv /\ [Next]_vars => SessionInv'
    BY SessionStep
  <1>3. SessionInv => SessionSound
    BY DEF SessionInv, SessionSound
  <1>. QED  BY <1>1, <1>2, <1>3, PTL DEF Spec

(* Where handlers do not overlap, the pauses of drv_addba_req_setup and    *)
(* drv_txampdu_del and the resumes of the answer, the expiry and the DELBA *)
(* pair up: an idle TID is paused once during an exchange and not at all   *)
(* otherwise.                                                              *)
THEOREM AddbaPausesPairUp == Spec => []PausesPairUp
  <1>1. Init => SessionInv /\ PairInv
    BY InvInit
  <1>2. SessionInv /\ PairInv /\ [Next]_vars => SessionInv' /\ PairInv'
    BY SessionStep, PairStep
  <1>3. PairInv => PausesPairUp
    BY DEF PairInv, PausesPairUp, Paired, Lacks, Owes, Actors
  <1>. QED  BY <1>1, <1>2, <1>3, PTL DEF Spec

-----------------------------------------------------------------------------
(* The transmit window.  A scoreboard w whose head is the place of frame s *)
(* and which uses u places, with the frames U in their places d.           *)
Holds(w, d, s, u, U) ==
    /\ w.start = SeqNum(s) /\ s \in Nat /\ s >= 1
    /\ u \in 0 .. Baw + 1
    /\ w.tail = (w.head + u) % BufNbr
    /\ \A i \in 0 .. BufNbr - 1 :
         d[(w.head + i) % BufNbr] # None =>
           i < u /\ d[(w.head + i) % BufNbr] = s + i /\ s + i \in U
    /\ \A f \in U : /\ f \in Nat /\ s <= f /\ f < s + u
                    /\ d[(w.head + (f - s)) % BufNbr] = f

HeadHeld(w, d, u) == u # 0 => d[w.head] # None

Boards == [start : 0 .. SeqMax - 1, head : 0 .. BufNbr - 1, tail : 0 .. BufNbr - 1]
Slots == [0 .. BufNbr - 1 -> {None} \cup MPDUs]

(* The first frame that the window has not passed.                         *)
First == given + 1 - Used

Windowed == /\ Holds(win, desc, First, Used, Unanswered \ forced)
            /\ HeadHeld(win, desc, Used)
            /\ forced \subseteq 1 .. First - 1

(* A frame is in one hand.                                                 *)
InOneHand ==
    /\ down <= given /\ given <= made
    /\ chip \cup ToSet(status) \cup ({txok.frame} \ {None}) \subseteq 1 .. down
    /\ chip \cap ToSet(status) = {}
    /\ txok.frame \notin chip \cup ToSet(status)
    /\ \A i, j \in 1 .. Len(status) : status[i] = status[j] => i = j
    /\ txok.pc = "update" <=> txok.frame # None

Counts == /\ QcntBounds
          /\ IsFiniteSet(chip) /\ IsFiniteSet(forced)
          /\ txoksem + Cardinality(chip) <= down

BawInv == BawTypeOK /\ InOneHand /\ Windowed /\ Counts

(* No frame forced out of the window is answered so late that the numbers  *)
(* have come round to its own meanwhile.                                   *)
Timely == \A f \in Unanswered \cap forced : given - f < SeqMax - Baw - 1

-----------------------------------------------------------------------------
(* Remainders modulo a constant that is not a numeral.                     *)
LEMMA Remainder ==
    ASSUME NEW m \in Nat, m > 0, NEW a \in Int
    PROVE  \E q \in Int, r \in 0 .. m - 1 : a = m * q + r
  <1>1. PICK r \in 0 .. m - 1, q \in Int : r = a - m * q
    <2>1. a % m \in 0 .. m - 1 /\ a \div m \in Int
      OBVIOUS
    <2>2. a % m = a - m * (a \div m)
      OBVIOUS
    <2>. QED  BY ONLY <2>1, <2>2, Zenon
  <1>2. m * q \in Int
    OBVIOUS
  <1>3. a = m * q + r
    BY <1>1, <1>2
  <1>. QED  BY <1>3

LEMMA RemainderUnique ==
    ASSUME NEW m \in Nat, m > 0, NEW a \in Int, NEW q \in Int, NEW r \in 0 .. m - 1,
           a = m * q + r
    PROVE  a % m = r
  OBVIOUS

LEMMA RemainderShift ==
    ASSUME NEW m \in Nat, m > 0, NEW a \in Int, NEW k \in Int
    PROVE  (a + m * k) % m = a % m
  <1>1. PICK q \in Int, r \in 0 .. m - 1 : a = m * q + r
    BY Remainder
  <1>2. a % m = r
    BY <1>1, RemainderUnique
  <1>3. a + m * k = m * (q + k) + r
    BY <1>1
  <1>4. \A b \in Int, p \in Int : b = m * p + r => b % m = r
    BY RemainderUnique
  <1>5. (a + m * k) % m = r
    <2>1. q + k \in Int /\ a + m * k \in Int
      OBVIOUS
    <2>. QED  BY ONLY <1>3, <1>4, <2>1, Zenon
  <1>. QED  BY <1>2, <1>5

LEMMA RemainderPlus ==
    ASSUME NEW m \in Nat, m > 0, NEW a \in Int, NEW b \in Int
    PROVE  ((a % m) + b) % m = (a + b) % m
  <1>1. PICK q \in Int, r \in 0 .. m - 1 : a = m * q + r
    BY Remainder
  <1>2. a % m = r
    BY <1>1, RemainderUnique
  <1>3. a + b = (r + b) + m * q
    BY <1>1
  <1>4. ((r + b) + m * q) % m = (r + b) % m
    <2>1. r + b \in Int
      OBVIOUS
    <2>. QED  BY <2>1, RemainderShift
  <1>. QED  BY ONLY <1>2, <1>3, <1>4, Zenon

LEMMA RemainderMinus ==
    ASSUME NEW m \in Nat, m > 0, NEW a \in Int, NEW b \in Int
    PROVE  ((a % m) - (b % m)) % m = (a - b) % m
  <1>1. PICK q \in Int, r \in 0 .. m - 1 : a = m * q + r
    BY Remainder
  <1>2. PICK p \in Int, s \in 0 .. m - 1 : b = m * p + s
    BY Remainder
  <1>3. a % m = r /\ b % m = s
    BY <1>1, <1>2, RemainderUnique
  <1>4. PICK c \in Int, k \in Int : c = r - s /\ a - b = c + m * k
    <2>1. r - s \in Int /\ q - p \in Int /\ a - b = (r - s) + m * (q - p)
      BY <1>1, <1>2
    <2>. QED  BY ONLY <2>1
  <1>5. (c + m * k) % m = c % m
    BY RemainderShift
  <1>. QED  BY ONLY <1>3, <1>4, <1>5, Zenon

LEMMA RemainderNear ==
    ASSUME NEW m \in Nat, m > 0, NEW a \in Int
    PROVE  /\ a % m \in 0 .. m - 1
           /\ a >= 0 /\ a < m => a % m = a
           /\ a < 0 /\ a >= -m => a % m = a + m
           /\ a >= m /\ a < 2 * m => a % m = a - m
  OBVIOUS

LEMMA MinIs ==
    ASSUME NEW S \in SUBSET Nat, S # {}
    PROVE  Min(S) \in S /\ \A x \in S : Min(S) <= x
  <1>1. PICK m \in S : \A x \in S : <<x, m>> \notin OpToRel(<, Nat)
    BY WFMin, NatLessThanWellFounded, Zenon
  <1>2. \A x \in S : ~ (x < m)
    BY <1>1, Zenon DEF OpToRel
  <1>3. \A x \in S : m <= x
    BY <1>2
  <1>. QED  BY <1>3 DEF Min

-----------------------------------------------------------------------------
LEMMA BawSizes ==
    /\ SeqMax \in Nat /\ BufNbr \in Nat /\ Baw \in Nat /\ Subframes \in Nat
    /\ HalSize \in Nat /\ MaxFrames \in Nat
    /\ SeqMax > 0 /\ BufNbr > 0 /\ Baw > 0 /\ Subframes > 0
    /\ FirstSeq \in Nat /\ FirstSeq < SeqMax
    /\ Baw + 1 < BufNbr /\ 2 * Baw < SeqMax
  BY TxBaWindowAssumption

(* Round the window: i places on from h,                                   *)
LEMMA RoundIs ==
    ASSUME NEW h \in 0 .. BufNbr - 1, NEW i \in 0 .. BufNbr
    PROVE  /\ (h + i) % BufNbr = IF h + i < BufNbr THEN h + i ELSE h + i - BufNbr
           /\ (h + i) % BufNbr \in 0 .. BufNbr - 1
  BY BawSizes, RemainderNear

(* different places for different numbers,                                 *)
LEMMA RoundOnce ==
    ASSUME NEW h \in 0 .. BufNbr - 1, NEW i \in 0 .. BufNbr - 1,
           NEW j \in 0 .. BufNbr - 1, (h + i) % BufNbr = (h + j) % BufNbr
    PROVE  i = j
  BY RoundIs, BawSizes

(* and every place for some number;                                        *)
LEMMA RoundAll ==
    ASSUME NEW h \in 0 .. BufNbr - 1, NEW x \in 0 .. BufNbr - 1
    PROVE  \E i \in 0 .. BufNbr - 1 : x = (h + i) % BufNbr
  <1>1. CASE x >= h
    <2>1. x - h \in 0 .. BufNbr - 1 /\ h + (x - h) = x
      BY <1>1, BawSizes
    <2>2. (h + (x - h)) % BufNbr = x
      BY <2>1, RoundIs, BawSizes
    <2>. QED  BY <2>1, <2>2
  <1>2. CASE x < h
    <2>1. PICK i \in 0 .. BufNbr - 1 : i = x - h + BufNbr
      BY <1>2, BawSizes
    <2>2. (h + i) % BufNbr = x
      BY <2>1, RoundIs, BawSizes
    <2>. QED  BY <2>2
  <1>. QED  BY <1>1, <1>2, BawSizes

(* i places on from there.                                                 *)
LEMMA RoundOn ==
    ASSUME NEW h \in 0 .. BufNbr - 1, NEW n \in 0 .. BufNbr - 1, NEW i \in 0 .. BufNbr - 1
    PROVE  /\ n + i < BufNbr => (((h + n) % BufNbr) + i) % BufNbr = (h + (n + i)) % BufNbr
           /\ n + i >= BufNbr => (((h + n) % BufNbr) + i) % BufNbr = (h + (n + i - BufNbr)) % BufNbr
  <1>1. PICK g \in 0 .. BufNbr - 1 :
          g = (h + n) % BufNbr /\ g = IF h + n < BufNbr THEN h + n ELSE h + n - BufNbr
    BY RoundIs, BawSizes
  <1>2. (g + i) % BufNbr = IF g + i < BufNbr THEN g + i ELSE g + i - BufNbr
    BY RoundIs, BawSizes
  <1>3. ASSUME n + i < BufNbr
        PROVE  (g + i) % BufNbr = (h + (n + i)) % BufNbr
    <2>1. (h + (n + i)) % BufNbr = IF h + (n + i) < BufNbr THEN h + (n + i) ELSE h + (n + i) - BufNbr
      BY <1>3, RoundIs, BawSizes
    <2>. QED  BY <1>1, <1>2, <1>3, <2>1, BawSizes
  <1>4. ASSUME n + i >= BufNbr
        PROVE  (g + i) % BufNbr = (h + (n + i - BufNbr)) % BufNbr
    <2>1. PICK j \in 0 .. BufNbr - 1 : j = n + i - BufNbr
      BY <1>4, BawSizes
    <2>2. (h + j) % BufNbr = IF h + j < BufNbr THEN h + j ELSE h + j - BufNbr
      BY RoundIs, BawSizes
    <2>3. (g + i) % BufNbr = (h + j) % BufNbr
      BY <1>1, <1>2, <2>1, <2>2, BawSizes
    <2>. QED  BY <2>1, <2>3
  <1>. QED  BY <1>1, <1>3, <1>4

(* The places used are those from head to tail.                            *)
LEMMA UsedIs ==
    ASSUME NEW h \in 0 .. BufNbr - 1, NEW u \in 0 .. BufNbr - 1
    PROVE  (((h + u) % BufNbr) - h) % BufNbr = u
  <1>1. PICK t \in 0 .. BufNbr - 1 :
          t = (h + u) % BufNbr /\ t = IF h + u < BufNbr THEN h + u ELSE h + u - BufNbr
    BY RoundIs, BawSizes
  <1>2. CASE t = h + u
    <2>1. t - h = u /\ t - h \in Int
      BY <1>2
    <2>. QED  BY <1>1, <2>1, RemainderNear, BawSizes
  <1>3. CASE t = h + u - BufNbr
    <2>1. t - h = u - BufNbr /\ t - h \in Int /\ t - h < 0 /\ t - h >= -BufNbr
      BY <1>3, BawSizes
    <2>2. (t - h) % BufNbr = (t - h) + BufNbr
      BY <2>1, RemainderNear, BawSizes
    <2>. QED  BY <1>1, <2>1, <2>2, BawSizes
  <1>. QED  BY <1>1, <1>2, <1>3

(* The number of a frame, seen from the start of the window.               *)
LEMMA SeqNumIs ==
    ASSUME NEW f \in Int
    PROVE  SeqNum(f) \in 0 .. SeqMax - 1
  <1>1. FirstSeq + f - 1 \in Int
    BY BawSizes
  <1>. QED  BY <1>1, RemainderNear, BawSizes DEF SeqNum

LEMMA SeqNumOn ==
    ASSUME NEW s \in Int, NEW n \in Int
    PROVE  (SeqNum(s) + n) % SeqMax = SeqNum(s + n)
  <1>1. PICK a \in Int : a = FirstSeq + s - 1 /\ a + n = FirstSeq + (s + n) - 1
    BY BawSizes
  <1>2. ((a % SeqMax) + n) % SeqMax = (a + n) % SeqMax
    BY RemainderPlus, BawSizes
  <1>. QED  BY <1>1, <1>2 DEF SeqNum

LEMMA IndexOf ==
    ASSUME NEW s \in Int, NEW f \in Int, win.start = SeqNum(s)
    PROVE  /\ Index(SeqNum(f)) = (f - s) % SeqMax
           /\ f >= s /\ f - s < SeqMax => Index(SeqNum(f)) = f - s
           /\ f < s /\ s - f <= SeqMax => Index(SeqNum(f)) = SeqMax - (s - f)
  <1>1. PICK a \in Int, b \in Int :
          a = FirstSeq + f - 1 /\ b = FirstSeq + s - 1 /\ a - b = f - s
    BY BawSizes
  <1>2. ((a % SeqMax) - (b % SeqMax)) % SeqMax = (a - b) % SeqMax
    BY RemainderMinus, BawSizes
  <1>3. Index(SeqNum(f)) = (f - s) % SeqMax
    BY <1>1, <1>2 DEF Index, SeqNum
  <1>4. f - s \in Int
    OBVIOUS
  <1>5. /\ f - s >= 0 /\ f - s < SeqMax => (f - s) % SeqMax = f - s
        /\ f - s < 0 /\ f - s >= -SeqMax => (f - s) % SeqMax = f - s + SeqMax
    BY <1>4, RemainderNear, BawSizes
  <1>. QED  BY <1>3, <1>5, BawSizes

-----------------------------------------------------------------------------
(* What becomes of the window.  The place of a frame is emptied,           *)
LEMMA Emptied ==
    ASSUME NEW w \in Boards, NEW d \in Slots, NEW s, NEW u, NEW U, Holds(w, d, s, u, U),
           NEW f \in U
    PROVE  LET x == (w.head + (f - s)) % BufNbr
           IN  /\ x \in 0 .. BufNbr - 1 /\ d[x] = f
               /\ [d EXCEPT ![x] = None] \in Slots
               /\ Holds(w, [d EXCEPT ![x] = None], s, u, U \ {f})
  <1>. DEFINE x == (w.head + (f - s)) % BufNbr
              e == [d EXCEPT ![x] = None]
  <1>1. /\ w.head \in 0 .. BufNbr - 1 /\ s \in Nat /\ s >= 1 /\ f \in Nat /\ s <= f /\ f < s + u
        /\ u \in 0 .. Baw + 1
    BY DEF Holds, Boards
  <1>2. f - s \in 0 .. BufNbr - 1 /\ f - s < u
    BY <1>1, BawSizes
  <1>3. x \in 0 .. BufNbr - 1 /\ d[x] = f
    BY <1>1, <1>2, RoundIs, BawSizes DEF Holds
  <1>4. e \in Slots /\ \A y \in 0 .. BufNbr - 1 : e[y] = IF y = x THEN None ELSE d[y]
    BY <1>3 DEF Slots
  <1>5. ASSUME NEW i \in 0 .. BufNbr - 1, e[(w.head + i) % BufNbr] # None
        PROVE  i < u /\ e[(w.head + i) % BufNbr] = s + i /\ s + i \in U \ {f}
    <2>1. PICK y \in 0 .. BufNbr - 1 : y = (w.head + i) % BufNbr
      BY <1>1, RoundIs, BawSizes
    <2>2. y # x /\ e[y] = d[y] /\ d[y] # None
      BY <1>4, <1>5, <2>1
    <2>3. i < u /\ d[y] = s + i /\ s + i \in U
      BY <2>1, <2>2 DEF Holds
    <2>4. s + i # f
      <3>1. i # f - s
        BY <2>1, <2>2
      <3>. QED  BY <3>1, <1>1
    <2>. QED  BY <2>1, <2>2, <2>3, <2>4
  <1>6. ASSUME NEW g \in U \ {f}
        PROVE  g \in Nat /\ s <= g /\ g < s + u /\ e[(w.head + (g - s)) % BufNbr] = g
    <2>1. g \in Nat /\ s <= g /\ g < s + u /\ d[(w.head + (g - s)) % BufNbr] = g
      BY DEF Holds
    <2>2. g - s \in 0 .. BufNbr - 1
      BY <1>1, <2>1, BawSizes
    <2>3. (w.head + (g - s)) % BufNbr \in 0 .. BufNbr - 1
      BY <1>1, <2>2, RoundIs, BawSizes
    <2>4. (w.head + (g - s)) % BufNbr # x
      BY <2>1, <1>3
    <2>. QED  BY <1>4, <2>1, <2>3, <2>4
  <1>7. Holds(w, e, s, u, U \ {f})
    BY <1>5, <1>6 DEF Holds
  <1>. QED  BY <1>3, <1>4, <1>7

(* the window moves past n empty places,                                   *)
LEMMA Moved ==
    ASSUME NEW w \in Boards, NEW d \in Slots, NEW s, NEW u, NEW U, Holds(w, d, s, u, U),
           NEW n \in 0 .. u,
           \A i \in 0 .. n - 1 : d[(w.head + i) % BufNbr] = None,
           n = u \/ d[(w.head + n) % BufNbr] # None
    PROVE  LET v == [start |-> (w.start + n) % SeqMax, head |-> (w.head + n) % BufNbr,
                     tail |-> w.tail]
           IN  v \in Boards /\ Holds(v, d, s + n, u - n, U) /\ HeadHeld(v, d, u - n)
  <1>. DEFINE v == [start |-> (w.start + n) % SeqMax, head |-> (w.head + n) % BufNbr,
                     tail |-> w.tail]
  <1>1. /\ w.head \in 0 .. BufNbr - 1 /\ s \in Nat /\ s >= 1
        /\ u \in 0 .. Baw + 1 /\ n \in Nat /\ n <= u
    BY BawSizes DEF Holds, Boards
  <1>2. n \in 0 .. BufNbr - 1 /\ u - n \in 0 .. BufNbr - 1 /\ u \in 0 .. BufNbr - 1
    BY <1>1, BawSizes
  <1>3. PICK h \in 0 .. BufNbr - 1 : h = (w.head + n) % BufNbr
    BY <1>1, <1>2, RoundIs, BawSizes
  <1>4. (w.start + n) % SeqMax = SeqNum(s + n) /\ SeqNum(s + n) \in 0 .. SeqMax - 1
    <2>1. s \in Int /\ n \in Int /\ s + n \in Int
      BY <1>1
    <2>. QED  BY <2>1, SeqNumOn, SeqNumIs DEF Holds
  <1>5. v \in Boards /\ v.head = h /\ v.tail = w.tail /\ v.start = SeqNum(s + n)
    BY <1>3, <1>4 DEF Boards
  <1>6. v.tail = (v.head + (u - n)) % BufNbr
    <2>1. (h + (u - n)) % BufNbr = (w.head + (n + (u - n))) % BufNbr
      <3>1. n + (u - n) < BufNbr
        BY <1>1, BawSizes
      <3>. QED  BY <1>1, <1>2, <1>3, <3>1, RoundOn
    <2>2. n + (u - n) = u
      BY <1>1
    <2>. QED  BY <1>5, <2>1, <2>2 DEF Holds
  <1>7. ASSUME NEW i \in 0 .. BufNbr - 1, d[(h + i) % BufNbr] # None
        PROVE  i < u - n /\ d[(h + i) % BufNbr] = (s + n) + i /\ (s + n) + i \in U
    <2>1. n + i < BufNbr
      <3>. SUFFICES ASSUME n + i >= BufNbr PROVE FALSE
        BY <1>1, BawSizes
      <3>1. n + i - BufNbr \in 0 .. n - 1
        BY <1>1, <1>2, BawSizes
      <3>2. (h + i) % BufNbr = (w.head + (n + i - BufNbr)) % BufNbr
        BY <1>1, <1>2, <1>3, RoundOn
      <3>. QED  BY <1>7, <3>1, <3>2
    <2>2. (h + i) % BufNbr = (w.head + (n + i)) % BufNbr
      BY <1>1, <1>2, <1>3, <2>1, RoundOn
    <2>3. n + i \in 0 .. BufNbr - 1
      BY <1>1, <2>1, BawSizes
    <2>4. n + i < u /\ d[(h + i) % BufNbr] = s + (n + i) /\ s + (n + i) \in U
      BY <1>7, <2>2, <2>3 DEF Holds
    <2>5. s + (n + i) = (s + n) + i
      BY <1>1
    <2>6. i < u - n
      BY <2>4, <1>1
    <2>. QED  BY <2>4, <2>5, <2>6
  <1>8. ASSUME NEW f \in U
        PROVE  /\ f \in Nat /\ s + n <= f /\ f < (s + n) + (u - n)
               /\ d[(h + (f - (s + n))) % BufNbr] = f
    <2>1. f \in Nat /\ s <= f /\ f < s + u /\ d[(w.head + (f - s)) % BufNbr] = f
      BY DEF Holds
    <2>2. f # None
      BY <1>1, <2>1 DEF None
    <2>3. f - s >= n
      <3>1. f - s \notin 0 .. n - 1
        BY <2>1, <2>2
      <3>. QED  BY <1>1, <2>1, <3>1
    <2>4. PICK i \in 0 .. BufNbr - 1 : i = f - (s + n) /\ n + i = f - s /\ n + i < BufNbr
      BY <1>1, <2>1, <2>3, BawSizes
    <2>5. (h + i) % BufNbr = (w.head + (n + i)) % BufNbr
      BY <1>1, <1>2, <1>3, <2>4, RoundOn
    <2>6. d[(h + i) % BufNbr] = f
      BY <2>1, <2>4, <2>5
    <2>7. s + n <= f /\ f < (s + n) + (u - n)
      BY <1>1, <2>1, <2>3
    <2>. QED  BY <2>1, <2>4, <2>6, <2>7
  <1>9. s + n \in Nat /\ s + n >= 1 /\ u - n \in 0 .. Baw + 1
    BY <1>1, BawSizes
  <1>10. Holds(v, d, s + n, u - n, U)
    BY <1>5, <1>6, <1>7, <1>8, <1>9 DEF Holds
  <1>11. HeadHeld(v, d, u - n)
    <2>. SUFFICES ASSUME u - n # 0 PROVE d[h] # None
      BY <1>5 DEF HeadHeld
    <2>1. n # u
      BY <1>1
    <2>. QED  BY <1>3, <2>1
  <1>. QED  BY <1>5, <1>10, <1>11

(* and the k frames that come next take the places behind the tail.        *)
Grown(v, e, w, d, s, u, k) ==
    /\ v.start = w.start /\ v.head = w.head
    /\ v.tail = (w.head + (u + k)) % BufNbr
    /\ \A i \in 0 .. BufNbr - 1 :
         e[(w.head + i) % BufNbr] = IF i >= u /\ i < u + k THEN s + i
                                    ELSE d[(w.head + i) % BufNbr]

LEMMA Filled ==
    ASSUME NEW w \in Boards, NEW d \in Slots, NEW s, NEW u, NEW U, Holds(w, d, s, u, U),
           NEW k \in Nat, k >= 1, u + k <= Baw + 1, HeadHeld(w, d, u),
           NEW v \in Boards, NEW e \in Slots, Grown(v, e, w, d, s, u, k)
    PROVE  /\ Holds(v, e, s, u + k, U \cup ((s + u) .. (s + u + k - 1)))
           /\ HeadHeld(v, e, u + k)
  <1>. DEFINE V == U \cup ((s + u) .. (s + u + k - 1))
  <1>0. /\ v.start = w.start /\ v.head = w.head
        /\ v.tail = (w.head + (u + k)) % BufNbr
        /\ \A i \in 0 .. BufNbr - 1 :
             e[(w.head + i) % BufNbr] = IF i >= u /\ i < u + k THEN s + i
                                        ELSE d[(w.head + i) % BufNbr]
    BY DEF Grown
  <1>1. /\ w.head \in 0 .. BufNbr - 1 /\ s \in Nat /\ s >= 1
        /\ u \in 0 .. Baw + 1 /\ u \in Nat
    BY BawSizes DEF Holds, Boards
  <1>2. u + k \in 0 .. BufNbr - 1 /\ u + k \in 0 .. Baw + 1
    BY <1>1, BawSizes
  <1>3. ASSUME NEW i \in 0 .. BufNbr - 1, e[(v.head + i) % BufNbr] # None
        PROVE  i < u + k /\ e[(v.head + i) % BufNbr] = s + i /\ s + i \in V
    <2>1. CASE i >= u /\ i < u + k
      <3>1. s + i \in (s + u) .. (s + u + k - 1)
        BY <1>1, <2>1
      <3>. QED  BY <1>0, <2>1, <3>1
    <2>2. CASE ~ (i >= u /\ i < u + k)
      <3>1. e[(v.head + i) % BufNbr] = d[(w.head + i) % BufNbr]
        BY <1>0, <2>2
      <3>2. i < u /\ d[(w.head + i) % BufNbr] = s + i /\ s + i \in U
        BY <1>0, <1>3, <3>1 DEF Holds
      <3>3. i < u + k
        BY <1>1, <3>2
      <3>. QED  BY <3>1, <3>2, <3>3
    <2>. QED  BY <2>1, <2>2
  <1>4. ASSUME NEW f \in V
        PROVE  f \in Nat /\ s <= f /\ f < s + (u + k) /\ e[(v.head + (f - s)) % BufNbr] = f
    <2>1. CASE f \in U
      <3>1. f \in Nat /\ s <= f /\ f < s + u /\ d[(w.head + (f - s)) % BufNbr] = f
        BY <2>1 DEF Holds
      <3>2. f - s \in 0 .. BufNbr - 1 /\ f - s < u /\ f < s + (u + k)
        BY <1>1, <1>2, <3>1, BawSizes
      <3>. QED  BY <1>0, <3>1, <3>2, <1>1
    <2>2. CASE f \in (s + u) .. (s + u + k - 1)
      <3>1. f - s \in u .. u + k - 1 /\ f = s + (f - s)
        BY <1>1, <2>2
      <3>0. PICK i \in u .. u + k - 1 : f = s + i
        BY ONLY <3>1
      <3>2. /\ i \in 0 .. BufNbr - 1 /\ i >= u /\ i < u + k /\ f - s = i /\ f \in Nat
            /\ s <= f /\ f < s + (u + k)
        BY <1>1, <1>2, <3>0, BawSizes
      <3>. QED  BY <1>0, <3>0, <3>2
    <2>. QED  BY <2>1, <2>2
  <1>5. Holds(v, e, s, u + k, V)
    BY <1>0, <1>1, <1>2, <1>3, <1>4 DEF Holds
  <1>6. HeadHeld(v, e, u + k)
    <2>1. (w.head + 0) % BufNbr = w.head /\ 0 \in 0 .. BufNbr - 1
      <3>1. 0 \in 0 .. BufNbr - 1 /\ 0 \in 0 .. BufNbr /\ w.head + 0 = w.head
        BY <1>1, BawSizes
      <3>. QED  BY ONLY <3>1, <1>1, RoundIs, BawSizes
    <2>2. CASE u = 0
      <3>1. e[w.head] = s + 0
        BY <1>0, <1>1, <1>2, <2>1, <2>2
      <3>. QED  BY <1>0, <1>1, <3>1 DEF HeadHeld, None
    <2>3. CASE u # 0
      <3>1. e[w.head] = d[w.head]
        BY <1>0, <1>1, <2>1, <2>3
      <3>. QED  BY <1>0, <2>3, <3>1 DEF HeadHeld
    <2>. QED  BY <2>2, <2>3
  <1>. QED  BY <1>5, <1>6

-----------------------------------------------------------------------------
(* What the invariant says of the numbers.                                 *)
LEMMA BawFacts ==
    ASSUME BawInv
    PROVE  /\ given \in Nat /\ made \in Nat /\ down \in Nat /\ txoksem \in Nat /\ qcnt \in Nat
           /\ down <= given /\ given <= made /\ made <= MaxFrames
           /\ win \in Boards /\ desc \in Slots /\ win.head \in 0 .. BufNbr - 1
           /\ Used \in 0 .. Baw + 1 /\ First \in Nat /\ First >= 1 /\ First = given + 1 - Used
           /\ win.start = SeqNum(First)
           /\ chip \subseteq 1 .. down /\ ToSet(status) \subseteq 1 .. down
           /\ txok.frame \in {None} \cup 1 .. down
           /\ status \in Seq(MPDUs)
           /\ Unanswered \subseteq 1 .. given /\ Uncounted \subseteq 1 .. given
  <1>1. /\ given \in Nat /\ made \in Nat /\ down \in Nat /\ txoksem \in Nat /\ qcnt \in Nat
        /\ made <= MaxFrames /\ down <= given /\ given <= made
    BY BawSizes DEF BawInv, BawTypeOK, InOneHand
  <1>2. win \in Boards /\ desc \in Slots /\ win.head \in 0 .. BufNbr - 1
    BY DEF BawInv, BawTypeOK, Boards, Slots
  <1>3. Used \in 0 .. Baw + 1 /\ First \in Nat /\ First >= 1 /\ win.start = SeqNum(First)
    BY DEF BawInv, Windowed, Holds
  <1>4. /\ chip \subseteq 1 .. down /\ ToSet(status) \subseteq 1 .. down
        /\ txok.frame \in {None} \cup 1 .. down /\ status \in Seq(MPDUs)
    BY DEF BawInv, InOneHand, BawTypeOK
  <1>5. 1 .. down \subseteq 1 .. given /\ (down + 1) .. given \subseteq 1 .. given
    BY <1>1
  <1>6. Unanswered \subseteq 1 .. given /\ Uncounted \subseteq 1 .. given
    BY <1>4, <1>5 DEF Unanswered, Uncounted
  <1>. QED  BY <1>1, <1>2, <1>3, <1>4, <1>6 DEF First

LEMMA UncountedFinite ==
    ASSUME BawInv
    PROVE  IsFiniteSet(Uncounted) /\ Cardinality(Uncounted) \in Nat
           /\ Cardinality(Uncounted) <= given
           /\ IsFiniteSet(forced) /\ Cardinality(forced) \in Nat
           /\ IsFiniteSet(chip) /\ Cardinality(chip) \in Nat
  <1>1. IsFiniteSet(1 .. given) /\ Cardinality(1 .. given) = given
    <2>1. 1 \in Int /\ given \in Int /\ (1 > given => given = 0)
      BY BawFacts
    <2>2. IsFiniteSet(1 .. given)
          /\ Cardinality(1 .. given) = IF 1 > given THEN 0 ELSE given - 1 + 1
      BY ONLY <2>1, FS_Interval
    <2>. QED  BY <2>1, <2>2
  <1>2. Uncounted \in SUBSET (1 .. given)
    BY BawFacts
  <1>. QED  BY <1>1, <1>2, FS_Subset, FS_CardinalityType DEF BawInv, Counts

(* The step leaves the window and the hands alone.                         *)
LEMMA Elsewhere ==
    ASSUME BawInv, UNCHANGED <<given, down, chip, status, win, desc, qcnt, forced>>,
           txok'.frame = txok.frame, txok'.pc = "update" <=> txok.pc = "update",
           made' \in Nat, made <= made', txoksem' \in Nat, txoksem' <= txoksem
    PROVE  InOneHand' /\ Windowed' /\ Counts'
  <1>1. Used' = Used /\ First' = First /\ Unanswered' = Unanswered /\ Uncounted' = Uncounted
    BY DEF Used, First, Unanswered, Uncounted
  <1>2. InOneHand'
    BY BawFacts DEF BawInv, InOneHand
  <1>3. Windowed'
    BY <1>1 DEF BawInv, Windowed
  <1>4. Counts'
    BY <1>1, BawFacts, UncountedFinite DEF BawInv, Counts, QcntBounds
  <1>. QED  BY <1>2, <1>3, <1>4

LEMMA DownloadStep ==
    ASSUME BawInv, Download
    PROVE  BawInv'
  <1>1. /\ down < given /\ down' = down + 1 /\ chip' = chip \cup {down + 1}
        /\ UNCHANGED <<made, given, status, txoksem, win, desc, qcnt, wait, hr, sched,
                       lock, send, tasklet, txok, forced>>
    BY DEF Download, winVars
  <1>2. down + 1 \notin chip /\ down + 1 \notin ToSet(status) /\ down + 1 # txok.frame
    BY BawFacts DEF None
  <1>3. BawTypeOK'
    <2>1. down + 1 \in 0 .. MaxFrames /\ down + 1 \in MPDUs
      BY <1>1, BawFacts, BawSizes DEF MPDUs
    <2>2. BawTypeOK
      BY DEF BawInv
    <2>. QED  BY <1>1, <2>1, <2>2 DEF BawTypeOK
  <1>4. (down + 1) .. given = {down + 1} \cup ((down' + 1) .. given)
    BY <1>1, BawFacts
  <1>5. Unanswered' = Unanswered /\ Uncounted' = Uncounted
    BY <1>1, <1>4 DEF Unanswered, Uncounted
  <1>6. InOneHand'
    <2>1. 1 .. down \subseteq 1 .. down' /\ down + 1 \in 1 .. down' /\ down' <= given
      BY <1>1, BawFacts
    <2>. QED  BY <1>1, <1>2, <2>1 DEF BawInv, InOneHand
  <1>7. Windowed'
    <2>1. Used' = Used /\ First' = First
      BY <1>1 DEF Used, First
    <2>. QED  BY <1>1, <1>5, <2>1 DEF BawInv, Windowed
  <1>8. Counts'
    <2>1. IsFiniteSet(chip') /\ Cardinality(chip') = Cardinality(chip) + 1
      BY <1>1, <1>2, UncountedFinite, FS_AddElement
    <2>2. txoksem' + Cardinality(chip') <= down'
      BY <1>1, <2>1, BawFacts, UncountedFinite DEF BawInv, Counts
    <2>. QED  BY <1>1, <1>5, <2>1, <2>2 DEF BawInv, Counts, QcntBounds
  <1>. QED  BY <1>3, <1>6, <1>7, <1>8 DEF BawInv

LEMMA ReportStep ==
    ASSUME BawInv, ReportSome
    PROVE  BawInv'
  <1>0. PICK S \in (SUBSET chip) \ {{}} : \E b \in SetToSeqs(S) : Report(b)
    BY DEF ReportSome
  <1>1. PICK b \in SetToSeqs(S) : Report(b)
    BY <1>0
  <1>2. IsFiniteSet(S) /\ Cardinality(S) \in Nat /\ Cardinality(S) >= 1
    BY UncountedFinite, FS_Subset, FS_CardinalityType, FS_EmptySet
  <1>3. /\ b \in [1 .. Cardinality(S) -> S]
        /\ \A i, j \in 1 .. Cardinality(S) : i # j => b[i] # b[j]
    BY DEF SetToSeqs
  <1>4. /\ b \in Seq(S) /\ Len(b) = Cardinality(S) /\ DOMAIN b = 1 .. Len(b)
    BY <1>2, <1>3
  <1>5. ToSet(b) \subseteq chip /\ b[1] \in ToSet(b)
    <2>1. ToSet(b) \subseteq S /\ 1 \in DOMAIN b
      BY <1>2, <1>3, <1>4 DEF ToSet
    <2>. QED  BY <2>1 DEF ToSet
  <1>6. /\ chip' = chip \ ToSet(b) /\ status' = status \o b /\ txoksem' = txoksem + 1
        /\ UNCHANGED <<made, given, down, win, desc, qcnt, wait, hr, sched, lock, send,
                       tasklet, txok, forced>>
    BY <1>1 DEF Report, winVars
  <1>7. chip \subseteq MPDUs /\ status \in Seq(MPDUs) /\ b \in Seq(MPDUs)
    <2>1. chip \subseteq MPDUs /\ S \subseteq MPDUs
      BY DEF BawInv, BawTypeOK
    <2>. QED  BY <1>4, <2>1, BawFacts, SeqMonotonic
  <1>8. /\ status' \in Seq(MPDUs) /\ Len(status') = Len(status) + Len(b)
        /\ \A i \in 1 .. Len(status) : status'[i] = status[i]
        /\ \A i \in 1 .. Len(b) : status'[Len(status) + i] = b[i]
        /\ \A i \in Len(status) + 1 .. Len(status) + Len(b) :
             status'[i] = b[i - Len(status)] /\ i - Len(status) \in 1 .. Len(b)
        /\ Len(status) \in Nat /\ Len(b) \in Nat
        /\ DOMAIN status = 1 .. Len(status) /\ DOMAIN status' = 1 .. Len(status')
    BY <1>6, <1>7
  <1>9. ToSet(status') = ToSet(status) \cup ToSet(b)
    <2>1. ASSUME NEW x \in ToSet(status') PROVE x \in ToSet(status) \cup ToSet(b)
      <3>1. PICK i \in 1 .. Len(status) + Len(b) : x = status'[i]
        BY <1>8 DEF ToSet
      <3>2. i \in 1 .. Len(status) \/ i \in Len(status) + 1 .. Len(status) + Len(b)
        BY <1>8
      <3>3. CASE i \in 1 .. Len(status)
        BY <1>8, <3>1, <3>3 DEF ToSet
      <3>4. CASE i \in Len(status) + 1 .. Len(status) + Len(b)
        <4>1. x = b[i - Len(status)] /\ i - Len(status) \in DOMAIN b
          BY <1>4, <1>8, <3>1, <3>4
        <4>. QED  BY <4>1 DEF ToSet
      <3>. QED  BY <3>2, <3>3, <3>4
    <2>2. ASSUME NEW x \in ToSet(status) PROVE x \in ToSet(status')
      <3>1. PICK i \in 1 .. Len(status) : x = status[i]
        BY <1>8 DEF ToSet
      <3>2. i \in DOMAIN status' /\ status'[i] = x
        BY <1>8, <3>1
      <3>. QED  BY <3>2 DEF ToSet
    <2>3. ASSUME NEW x \in ToSet(b) PROVE x \in ToSet(status')
      <3>1. PICK i \in 1 .. Len(b) : x = b[i]
        BY <1>4 DEF ToSet
      <3>2. Len(status) + i \in DOMAIN status' /\ status'[Len(status) + i] = x
        BY <1>8, <3>1
      <3>. QED  BY <3>2 DEF ToSet
    <2>. QED  BY <2>1, <2>2, <2>3
  <1>10. \A i, j \in 1 .. Len(status') : status'[i] = status'[j] => i = j
    <2>. SUFFICES ASSUME NEW i \in 1 .. Len(status'), NEW j \in 1 .. Len(status'),
                         status'[i] = status'[j], i < j
                  PROVE  FALSE
      BY <1>8
    <2>1. CASE j \in 1 .. Len(status)
      <3>1. i \in 1 .. Len(status) /\ i # j
        BY <2>1
      <3>. QED  BY <1>8, <2>1, <3>1 DEF BawInv, InOneHand
    <2>2. CASE i \in 1 .. Len(status) /\ j \in Len(status) + 1 .. Len(status) + Len(b)
      <3>1. status'[i] \in ToSet(status) /\ status'[j] \in ToSet(b)
        <4>1. status'[i] = status[i] /\ status'[j] = b[j - Len(status)]
              /\ i \in DOMAIN status /\ j - Len(status) \in DOMAIN b
          BY <1>4, <1>8, <2>2
        <4>. QED  BY <4>1 DEF ToSet
      <3>. QED  BY <1>5, <3>1 DEF BawInv, InOneHand
    <2>3. CASE i \in Len(status) + 1 .. Len(status) + Len(b)
      <3>1. j \in Len(status) + 1 .. Len(status) + Len(b)
        BY <1>8, <2>3
      <3>2. b[i - Len(status)] = b[j - Len(status)] /\ i - Len(status) \in 1 .. Len(b)
            /\ j - Len(status) \in 1 .. Len(b) /\ i - Len(status) # j - Len(status)
        BY <1>8, <2>3, <3>1
      <3>. QED  BY <1>3, <1>4, <3>2
    <2>. QED  BY <1>8, <2>1, <2>2, <2>3
  <1>11. IsFiniteSet(chip') /\ Cardinality(chip') <= Cardinality(chip) - 1
    <2>1. chip' \subseteq chip \ {b[1]} /\ b[1] \in chip
      BY <1>5, <1>6
    <2>2. IsFiniteSet(chip \ {b[1]}) /\ Cardinality(chip \ {b[1]}) = Cardinality(chip) - 1
      BY <2>1, UncountedFinite, FS_RemoveElement
    <2>. QED  BY <2>1, <2>2, FS_Subset
  <1>12. Counts' /\ txoksem' <= down
    <2>1. txoksem' + Cardinality(chip') <= down' /\ txoksem' <= down
      <3>1. PICK c \in Nat : c = Cardinality(chip')
        BY <1>11, FS_CardinalityType
      <3>2. PICK e \in Nat : e = Cardinality(chip)
        BY UncountedFinite
      <3>3. txoksem + e <= down /\ c <= e - 1
        BY <1>11, <3>1, <3>2 DEF BawInv, Counts
      <3>4. txoksem \in Nat /\ down \in Nat /\ down' = down /\ txoksem' = txoksem + 1
        BY <1>6, BawFacts
      <3>5. txoksem' + c <= down' /\ txoksem' <= down
        BY ONLY <3>3, <3>4
      <3>. QED  BY <3>1, <3>5
    <2>2. Uncounted' = Uncounted
      BY <1>5, <1>6, <1>9 DEF Uncounted
    <2>. QED  BY <1>6, <1>11, <2>1, <2>2 DEF BawInv, Counts, QcntBounds
  <1>13. BawTypeOK'
    <2>1. txoksem' \in 0 .. MaxFrames
      <3>1. txoksem \in Nat /\ down <= MaxFrames /\ txoksem' = txoksem + 1
            /\ down \in Nat /\ MaxFrames \in Nat
        BY <1>6, BawFacts, BawSizes
      <3>. QED  BY ONLY <1>12, <3>1
    <2>2. BawTypeOK
      BY DEF BawInv
    <2>. QED  BY <1>6, <1>8, <2>1, <2>2 DEF BawTypeOK
  <1>14. InOneHand'
    BY <1>5, <1>6, <1>9, <1>10 DEF BawInv, InOneHand
  <1>15. Windowed'
    <2>1. Used' = Used /\ First' = First
      BY <1>6 DEF Used, First
    <2>2. Unanswered' = Unanswered
      BY <1>5, <1>6, <1>9 DEF Unanswered
    <2>. QED  BY <1>6, <2>1, <2>2 DEF BawInv, Windowed
  <1>. QED  BY <1>12, <1>13, <1>14, <1>15 DEF BawInv

LEMMA TakesStep ==
    ASSUME BawInv, TxOkTakes
    PROVE  BawInv'
  <1>. DEFINE f == Head(status)
  <1>1. /\ txok.pc = "take" /\ status # <<>> /\ status' = Tail(status)
        /\ qcnt' = (IF qcnt > 0 THEN qcnt - 1 ELSE 0)
        /\ txok' = [pc |-> "update", frame |-> f]
        /\ UNCHANGED <<made, given, down, chip, txoksem, win, desc, wait, hr, sched,
                       lock, send, tasklet, forced>>
    BY DEF TxOkTakes, winVars
  <1>2. /\ status \in Seq(MPDUs) /\ f = status[1] /\ f \in MPDUs
        /\ status' \in Seq(MPDUs) /\ Len(status') = Len(status) - 1
        /\ Len(status) \in Nat /\ Len(status) >= 1
        /\ \A i \in 1 .. Len(status') : status'[i] = status[i + 1]
        /\ DOMAIN status = 1 .. Len(status) /\ DOMAIN status' = 1 .. Len(status')
    BY <1>1, BawFacts, HeadTailProperties, LenProperties, EmptySeq
  <1>3. \A i, j \in 1 .. Len(status) : status[i] = status[j] => i = j
    BY DEF BawInv, InOneHand
  <1>4. ToSet(status) = ToSet(status') \cup {f} /\ f \notin ToSet(status')
    <2>1. ASSUME NEW x \in ToSet(status) PROVE x \in ToSet(status') \cup {f}
      <3>1. PICK i \in 1 .. Len(status) : x = status[i]
        BY <1>2 DEF ToSet
      <3>2. CASE i = 1
        BY <1>2, <3>1, <3>2
      <3>3. CASE i # 1
        <4>1. i - 1 \in DOMAIN status' /\ status'[i - 1] = x
          BY <1>2, <3>1, <3>3
        <4>. QED  BY <4>1 DEF ToSet
      <3>. QED  BY <3>2, <3>3
    <2>2. ASSUME NEW x \in ToSet(status') PROVE x \in ToSet(status) /\ x # f
      <3>1. PICK i \in 1 .. Len(status') : x = status'[i]
        BY <1>2 DEF ToSet
      <3>2. i + 1 \in 1 .. Len(status) /\ status[i + 1] = x /\ i + 1 # 1 /\ 1 \in 1 .. Len(status)
        BY <1>2, <3>1
      <3>. QED  BY <1>2, <1>3, <3>2 DEF ToSet
    <2>3. f \in ToSet(status)
      <3>1. 1 \in DOMAIN status
        BY <1>2
      <3>. QED  BY <1>2, <3>1 DEF ToSet
    <2>. QED  BY <2>1, <2>2, <2>3
  <1>5. f \in 1 .. down /\ f \notin chip /\ f # None /\ txok.frame = None
    <2>1. f \in 1 .. down
      BY <1>4, BawFacts
    <2>. QED  BY <1>1, <1>4, <2>1 DEF BawInv, InOneHand, None
  <1>6. \A i, j \in 1 .. Len(status') : status'[i] = status'[j] => i = j
    <2>. SUFFICES ASSUME NEW i \in 1 .. Len(status'), NEW j \in 1 .. Len(status'),
                         status'[i] = status'[j]
                  PROVE  i = j
      OBVIOUS
    <2>1. i + 1 \in 1 .. Len(status) /\ j + 1 \in 1 .. Len(status)
          /\ status[i + 1] = status[j + 1]
      BY <1>2
    <2>2. i + 1 = j + 1
      BY <1>3, <2>1
    <2>. QED  BY <2>2
  <1>7. InOneHand'
    BY <1>1, <1>4, <1>5, <1>6 DEF BawInv, InOneHand
  <1>8. Windowed'
    <2>1. Used' = Used /\ First' = First
      BY <1>1 DEF Used, First
    <2>2. Unanswered' = Unanswered
      BY <1>1, <1>4, <1>5 DEF Unanswered
    <2>. QED  BY <1>1, <2>1, <2>2 DEF BawInv, Windowed
  <1>9. /\ f \in Uncounted /\ Uncounted' = Uncounted \ {f}
    <2>1. f \notin (down + 1) .. given
      BY <1>5, BawFacts
    <2>. QED  BY <1>1, <1>4, <1>5, <2>1 DEF Uncounted
  <1>10. Cardinality(Uncounted') = Cardinality(Uncounted) - 1 /\ Cardinality(Uncounted') \in Nat
    BY <1>9, UncountedFinite, FS_RemoveElement, FS_CardinalityType
  <1>11. QcntBounds'
    <2>1. Cardinality(forced') = Cardinality(forced)
      BY <1>1
    <2>2. /\ qcnt <= Cardinality(Uncounted)
          /\ qcnt >= Cardinality(Uncounted) - Cardinality(forced)
      BY DEF BawInv, Counts, QcntBounds
    <2>3. PICK a \in Nat, b \in Nat, c \in Nat :
             a = Cardinality(Uncounted) /\ b = Cardinality(Uncounted') /\ c = Cardinality(forced)
      BY <1>10, UncountedFinite
    <2>4. b = a - 1 /\ qcnt <= a /\ qcnt >= a - c
      BY <1>10, <2>2, <2>3
    <2>5. qcnt' <= b /\ qcnt' >= b - c
      <3>1. qcnt \in Nat /\ qcnt' = (IF qcnt > 0 THEN qcnt - 1 ELSE 0)
        BY <1>1, BawFacts
      <3>. QED  BY ONLY <2>4, <3>1
    <2>. QED  BY <2>1, <2>3, <2>5 DEF QcntBounds
  <1>12. Counts'
    BY <1>1, <1>11 DEF BawInv, Counts
  <1>13. BawTypeOK'
    <2>1. qcnt' \in 0 .. MaxFrames
      BY <1>1, BawFacts, BawSizes DEF BawInv, BawTypeOK
    <2>2. BawTypeOK
      BY DEF BawInv
    <2>. QED  BY <1>1, <1>2, <2>1, <2>2 DEF BawTypeOK
  <1>. QED  BY <1>7, <1>8, <1>12, <1>13 DEF BawInv

-----------------------------------------------------------------------------
(* What an aggregate may take: its last frame is within the window.        *)
LEMMA SizesFacts ==
    ASSUME BawInv, NEW k \in Sizes
    PROVE  /\ k \in Nat /\ k >= 1 /\ given + k <= made
           /\ Used + k <= Baw + 1
           /\ \A i \in 1 .. k : Index(SeqNum(given + i)) = Used + i - 1
  <1>1. Baw \div 2 \in Nat /\ Baw \div 2 <= Baw /\ Pending \in Nat
    BY BawFacts, BawSizes DEF Pending
  <1>2. Burst \in Nat /\ Burst <= Baw /\ Burst <= Baw \div 2
    <2>1. {Baw \div 2, Subframes} \in SUBSET Nat /\ {Baw \div 2, Subframes} # {}
      BY <1>1, BawSizes
    <2>2. Burst \in {Baw \div 2, Subframes} /\ Burst <= Baw \div 2
      BY <2>1, MinIs DEF Burst
    <2>. QED  BY <1>1, <2>1, <2>2, BawSizes
  <1>3. PICK m \in Nat : m = Min({Burst, Pending}) /\ m <= Burst /\ m <= Pending
    <2>1. {Burst, Pending} \in SUBSET Nat /\ {Burst, Pending} # {}
      BY <1>1, <1>2
    <2>. QED  BY <2>1, MinIs
  <1>4. k \in 1 .. m /\ \A i \in 1 .. k : Within(SeqNum(given + i))
    BY <1>3 DEF Sizes
  <1>5. k \in Nat /\ k >= 1 /\ k <= Baw /\ k <= Baw \div 2 /\ k <= Pending
    BY <1>1, <1>2, <1>3, <1>4, BawSizes
  <1>6. given + k <= made
    BY <1>5, BawFacts DEF Pending
  <1>7. ASSUME NEW i \in 1 .. k
        PROVE  Index(SeqNum(given + i)) = Used + i - 1
    <2>0. /\ given \in Nat /\ Used \in Nat /\ Used <= Baw + 1 /\ First \in Nat
          /\ First = given + 1 - Used
      BY BawFacts, BawSizes
    <2>1. PICK s \in Int, f \in Int, u \in Nat :
            s = First /\ f = given + i /\ u = Used /\ f - s = u + i - 1 /\ u <= Baw + 1
      <3>1. First \in Int /\ given + i \in Int /\ (given + i) - First = Used + i - 1
        BY <1>5, <2>0
      <3>. QED  BY <2>0, <3>1
    <2>2. f >= s /\ f - s < SeqMax
      <3>1. 1 <= i /\ i <= Baw \div 2 /\ Baw \div 2 + Baw \div 2 <= Baw
        BY <1>1, <1>2, <1>5, BawSizes
      <3>. QED  BY <2>1, <3>1, <1>1, BawSizes
    <2>3. win.start = SeqNum(s)
      BY <2>1, BawFacts
    <2>4. Index(SeqNum(f)) = f - s
      BY <2>2, <2>3, IndexOf
    <2>. QED  BY <2>1, <2>4
  <1>8. Used + k <= Baw + 1
    <2>1. k \in 1 .. k
      BY <1>5
    <2>2. Used + k - 1 <= Baw
      BY <1>4, <1>7, <2>1 DEF Within
    <2>. QED  BY <1>5, <2>2, BawFacts, BawSizes
  <1>. QED  BY <1>5, <1>6, <1>7, <1>8

(* drv_tx_add2baw puts them in the places after the tail.                  *)
LEMMA Added ==
    ASSUME BawInv, NEW k \in Sizes, Add2Baw(k)
    PROVE  /\ win' \in Boards /\ desc' \in Slots
           /\ Holds(win', desc', First, Used + k,
                    (Unanswered \ forced) \cup ((First + Used) .. (First + Used + k - 1)))
           /\ HeadHeld(win', desc', Used + k)
           /\ Used' = Used + k
  <1>. DEFINE spot(i) == Place(Index(SeqNum(given + i)))
  <1>1. PICK u \in 0 .. Baw + 1 : u = Used
    BY BawFacts
  <1>2. PICK h \in 0 .. BufNbr - 1 : h = win.head
    BY BawFacts
  <1>3. /\ k \in Nat /\ k >= 1 /\ u \in Nat /\ u + k <= Baw + 1 /\ u + k \in 0 .. BufNbr - 1
        /\ \A i \in 1 .. k : Index(SeqNum(given + i)) = u + i - 1 /\ u + i - 1 \in 0 .. BufNbr - 1
    BY <1>1, SizesFacts, BawSizes
  <1>4. \A i \in 1 .. k : spot(i) = (h + (u + i - 1)) % BufNbr
    BY <1>2, <1>3 DEF Place
  <1>5. /\ desc' = [s \in DOMAIN desc |->
                      IF \E i \in 1 .. k : spot(i) = s
                      THEN given + (CHOOSE i \in 1 .. k : spot(i) = s)
                      ELSE desc[s]]
        /\ win' = [win EXCEPT !.tail = IF Extends(Index(SeqNum(given + k)))
                                       THEN (spot(k) + 1) % BufNbr ELSE @]
    BY DEF Add2Baw
  <1>. HIDE DEF spot
  <1>6. spot(k) = (h + (u + k - 1)) % BufNbr /\ Index(SeqNum(given + k)) = u + k - 1
    <2>1. k \in 1 .. k
      BY <1>3
    <2>. QED  BY <1>3, <1>4, <2>1
  <1>7. Extends(Index(SeqNum(given + k)))
    BY <1>1, <1>3, <1>6 DEF Extends
  <1>8. (spot(k) + 1) % BufNbr = (h + (u + k)) % BufNbr
    <2>1. /\ u + k - 1 \in 0 .. BufNbr - 1 /\ 1 \in 0 .. BufNbr - 1
          /\ (u + k - 1) + 1 = u + k /\ (u + k - 1) + 1 < BufNbr
      BY <1>3, BawSizes
    <2>2. (((h + (u + k - 1)) % BufNbr) + 1) % BufNbr = (h + ((u + k - 1) + 1)) % BufNbr
      BY <2>1, RoundOn
    <2>. QED  BY ONLY <1>6, <2>1, <2>2
  <1>9. PICK t \in 0 .. BufNbr - 1 : t = (h + (u + k)) % BufNbr
    BY <1>3, RoundIs, BawSizes
  <1>10. win' \in Boards /\ win'.start = win.start /\ win'.head = win.head /\ win'.tail = t
    <2>1. win \in Boards /\ win' = [win EXCEPT !.tail = t]
      BY <1>5, <1>7, <1>8, <1>9, BawFacts
    <2>. QED  BY <1>9, <2>1 DEF Boards
  <1>11. desc \in Slots /\ DOMAIN desc = 0 .. BufNbr - 1
    BY BawFacts DEF Slots
  <1>12. ASSUME NEW j \in 0 .. BufNbr - 1
         PROVE  desc'[(h + j) % BufNbr] = IF j >= u /\ j < u + k THEN First + j
                                          ELSE desc[(h + j) % BufNbr]
    <2>1. PICK s \in 0 .. BufNbr - 1 : s = (h + j) % BufNbr
      BY RoundIs, BawSizes
    <2>2. desc'[s] = IF \E i \in 1 .. k : spot(i) = s
                     THEN given + (CHOOSE i \in 1 .. k : spot(i) = s)
                     ELSE desc[s]
      BY <1>5, <1>11
    <2>3. \A i \in 1 .. k : spot(i) = s => u + i - 1 = j
      BY <1>3, <1>4, <2>1, RoundOnce
    <2>4. CASE j >= u /\ j < u + k
      <3>1. PICK i \in 1 .. k : i = j - u + 1 /\ u + i - 1 = j
        BY <1>3, <2>4
      <3>2. spot(i) = s
        BY <1>4, <2>1, <3>1
      <3>3. \A l \in 1 .. k : spot(l) = s => l = i
        BY <1>3, <2>3, <3>1
      <3>4. (CHOOSE l \in 1 .. k : spot(l) = s) = i
        BY <3>2, <3>3
      <3>5. given + i = First + j
        BY <1>1, <3>1, BawFacts
      <3>. QED  BY <2>1, <2>2, <2>4, <3>2, <3>4, <3>5
    <2>5. CASE ~ (j >= u /\ j < u + k)
      <3>1. ~ \E i \in 1 .. k : spot(i) = s
        BY <1>3, <2>3, <2>5
      <3>. QED  BY <2>1, <2>2, <2>5, <3>1
    <2>. QED  BY <2>4, <2>5
  <1>13. desc' \in Slots
    <2>1. ASSUME NEW s \in 0 .. BufNbr - 1
          PROVE  desc'[s] \in {None} \cup MPDUs
      <3>1. PICK j \in 0 .. BufNbr - 1 : s = (h + j) % BufNbr
        BY RoundAll
      <3>2. CASE j >= u /\ j < u + k
        <4>1. First + j \in MPDUs
          <5>1. First + j >= 1 /\ First + j <= given + k /\ First + j \in Nat
            <6>1. given \in Nat /\ First \in Nat /\ First >= 1 /\ First = given + 1 - u
              BY <1>1, BawFacts
            <6>. QED  BY <1>3, <3>2, <6>1
          <5>2. given + k <= MaxFrames
            <6>1. given + k <= made /\ made <= MaxFrames /\ k \in Nat
              BY SizesFacts, BawFacts
            <6>. QED  BY <6>1, BawFacts, BawSizes
          <5>. QED  BY <1>3, <5>1, <5>2, BawFacts, BawSizes DEF MPDUs
        <4>. QED  BY <1>12, <3>1, <3>2, <4>1
      <3>3. CASE ~ (j >= u /\ j < u + k)
        <4>1. desc'[s] = desc[s]
          BY <1>12, <3>1, <3>3
        <4>. QED  BY <1>11, <4>1 DEF Slots
      <3>. QED  BY <3>2, <3>3
    <2>2. DOMAIN desc' = 0 .. BufNbr - 1 /\ desc' = [s \in 0 .. BufNbr - 1 |-> desc'[s]]
      BY <1>5, <1>11
    <2>. QED  BY <2>1, <2>2 DEF Slots
  <1>14. Holds(win, desc, First, u, Unanswered \ forced) /\ HeadHeld(win, desc, u)
    BY <1>1 DEF BawInv, Windowed
  <1>15. /\ Holds(win', desc', First, u + k,
                  (Unanswered \ forced) \cup ((First + u) .. (First + u + k - 1)))
         /\ HeadHeld(win', desc', u + k)
         /\ (win'.tail - win'.head) % BufNbr = u + k
    <2>1. Grown(win', desc', win, desc, First, u, k)
      BY <1>2, <1>9, <1>10, <1>12 DEF Grown
    <2>2. /\ win \in Boards /\ desc \in Slots /\ win' \in Boards /\ desc' \in Slots
          /\ k \in Nat /\ k >= 1 /\ u + k <= Baw + 1
      BY <1>3, <1>10, <1>11, <1>13, BawFacts
    <2>3. /\ Holds(win', desc', First, u + k,
                   (Unanswered \ forced) \cup ((First + u) .. (First + u + k - 1)))
      BY ONLY <1>14, <2>1, <2>2, Filled
    <2>4. HeadHeld(win', desc', u + k)
      BY ONLY <1>14, <2>1, <2>2, Filled
    <2>5. (win'.tail - win'.head) % BufNbr = u + k
      <3>1. (t - h) % BufNbr = u + k
        BY <1>3, <1>9, UsedIs
      <3>. QED  BY <1>2, <1>10, <3>1
    <2>. QED  BY <2>3, <2>4, <2>5
  <1>16. Used' = u + k
    BY <1>15 DEF Used
  <1>. QED  BY <1>1, <1>10, <1>13, <1>15, <1>16

LEMMA LoopTypes ==
    ASSUME BawTypeOK, NEW who \in {"send", "tasklet"}, LoopOf(who),
           LeaveLoop(who) \/ UNCHANGED <<send, lock, tasklet>>
    PROVE  /\ lock' \in {"free", "send", "tasklet"}
           /\ send' \in {"idle", "attach", "cancel", "loop"}
           /\ tasklet' \in [pc : {"off", "begin", "loop", "restore", "lists"},
                            list : 0 .. VO, wait : BOOLEAN, change : BOOLEAN]
  <1>1. CASE UNCHANGED <<send, lock, tasklet>>
    BY <1>1 DEF BawTypeOK
  <1>2. CASE LeaveLoop(who) /\ who = "send"
    BY <1>2 DEF BawTypeOK, LeaveLoop
  <1>3. CASE LeaveLoop(who) /\ who # "send"
    BY <1>3 DEF BawTypeOK, LeaveLoop
  <1>. QED  BY <1>1, <1>2, <1>3

LEMMA BuildStep ==
    ASSUME BawInv, NEW who \in {"send", "tasklet"}, NEW k \in MPDUs, AggrBuild(who, k)
    PROVE  BawInv'
  <1>1. /\ LoopOf(who) /\ k \in Sizes /\ Add2Baw(k) /\ given' = given + k
        /\ qcnt' = qcnt + k /\ wait' = FALSE
        /\ LeaveLoop(who) \/ UNCHANGED <<send, lock, tasklet>>
        /\ UNCHANGED <<made, down, chip, status, txoksem, hr, sched, txok, forced>>
    BY DEF AggrBuild, Counted, halVars
  <1>2. /\ k \in Nat /\ k >= 1 /\ given + k <= made /\ Used + k <= Baw + 1
    BY <1>1, SizesFacts
  <1>3. /\ win' \in Boards /\ desc' \in Slots
        /\ Holds(win', desc', First, Used + k,
                 (Unanswered \ forced) \cup ((First + Used) .. (First + Used + k - 1)))
        /\ HeadHeld(win', desc', Used + k)
        /\ Used' = Used + k
    BY <1>1, Added
  <1>4. PICK g \in Nat, u \in Nat, s \in Nat :
          /\ g = given /\ u = Used /\ s = First /\ s = g + 1 - u /\ s >= 1
          /\ given' = g + k /\ down <= g /\ down \in Nat
    BY <1>1, BawFacts, BawSizes
  <1>5. First' = First
    BY <1>2, <1>3, <1>4 DEF First
  <1>6. (First + Used) .. (First + Used + k - 1) = (g + 1) .. (g + k)
    <2>1. s + u = g + 1 /\ s + u + k - 1 = g + k
      BY <1>2, <1>4
    <2>. QED  BY <1>4, <2>1
  <1>7. (down + 1) .. (g + k) = ((down + 1) .. g) \cup ((g + 1) .. (g + k))
    BY <1>2, <1>4
  <1>8. /\ Unanswered' = Unanswered \cup ((g + 1) .. (g + k))
        /\ Uncounted' = Uncounted \cup ((g + 1) .. (g + k))
    BY <1>1, <1>4, <1>7 DEF Unanswered, Uncounted
  <1>9. forced \subseteq 1 .. s - 1 /\ forced \cap ((g + 1) .. (g + k)) = {}
    <2>1. forced \subseteq 1 .. s - 1
      BY <1>4 DEF BawInv, Windowed
    <2>2. (1 .. s - 1) \cap ((g + 1) .. (g + k)) = {}
      BY <1>4
    <2>. QED  BY <2>1, <2>2
  <1>10. Windowed'
    <2>1. Unanswered' \ forced' = (Unanswered \ forced) \cup ((First + Used) .. (First + Used + k - 1))
      BY <1>1, <1>6, <1>8, <1>9
    <2>2. forced' \subseteq 1 .. First' - 1
      BY <1>1, <1>4, <1>5, <1>9
    <2>. QED  BY <1>3, <1>5, <2>1, <2>2 DEF Windowed
  <1>11. InOneHand'
    <2>1. down' <= given' /\ given' <= made'
      BY <1>1, <1>2, <1>4
    <2>. QED  BY <1>1, <2>1 DEF BawInv, InOneHand
  <1>12. Cardinality(Uncounted') = Cardinality(Uncounted) + k
    <2>1. IsFiniteSet((g + 1) .. (g + k)) /\ Cardinality((g + 1) .. (g + k)) = k
      <3>1. g + 1 \in Int /\ g + k \in Int /\ ~ (g + 1 > g + k) /\ g + k - (g + 1) + 1 = k
        BY <1>2, <1>4
      <3>2. IsFiniteSet((g + 1) .. (g + k))
            /\ Cardinality((g + 1) .. (g + k)) =
                 IF g + 1 > g + k THEN 0 ELSE (g + k) - (g + 1) + 1
        BY ONLY <3>1, FS_Interval
      <3>. QED  BY <1>2, <1>4, <3>1, <3>2
    <2>2. Uncounted \cap ((g + 1) .. (g + k)) = {}
      <3>1. (1 .. g) \cap ((g + 1) .. (g + k)) = {}
        BY <1>4
      <3>. QED  BY <1>4, <3>1, BawFacts
    <2>3. Cardinality({}) = 0
      BY FS_EmptySet
    <2>4. Cardinality(Uncounted \cup ((g + 1) .. (g + k))) =
            Cardinality(Uncounted) + k - Cardinality({})
      BY <2>1, <2>2, UncountedFinite, FS_Union
    <2>. QED  BY <1>2, <1>8, <2>3, <2>4, UncountedFinite
  <1>13. QcntBounds' /\ qcnt' <= given' /\ qcnt' \in Nat
    <2>1. PICK a \in Nat, c \in Nat : a = Cardinality(Uncounted) /\ c = Cardinality(forced)
      BY UncountedFinite
    <2>2. qcnt <= a /\ qcnt >= a - c /\ a <= given /\ qcnt \in Nat
      BY <2>1, UncountedFinite, BawFacts DEF BawInv, Counts, QcntBounds
    <2>3. qcnt' <= a + k /\ qcnt' >= (a + k) - c /\ qcnt' <= given' /\ qcnt' \in Nat
      BY <1>1, <1>2, <1>4, <2>2
    <2>4. Cardinality(forced') = c /\ Cardinality(Uncounted') = a + k
      BY <1>1, <1>12, <2>1
    <2>. QED  BY <2>3, <2>4 DEF QcntBounds
  <1>14. Counts'
    BY <1>1, <1>13 DEF BawInv, Counts
  <1>15. BawTypeOK'
    <2>1. BawTypeOK
      BY DEF BawInv
    <2>2. given' \in 0 .. MaxFrames /\ qcnt' \in 0 .. MaxFrames
      <3>1. made <= MaxFrames /\ made \in Nat /\ MaxFrames \in Nat /\ given' \in Nat /\ given' <= made
        BY <1>1, <1>2, <1>4, BawFacts, BawSizes
      <3>. QED  BY <1>13, <3>1
    <2>3. win' \in Boards /\ desc' \in Slots
      BY <1>3
    <2>4. /\ lock' \in {"free", "send", "tasklet"}
          /\ send' \in {"idle", "attach", "cancel", "loop"}
          /\ tasklet' \in [pc : {"off", "begin", "loop", "restore", "lists"},
                           list : 0 .. VO, wait : BOOLEAN, change : BOOLEAN]
      BY <1>1, <2>1, LoopTypes
    <2>. QED  BY <1>1, <2>1, <2>2, <2>3, <2>4 DEF BawTypeOK, Boards, Slots
  <1>. QED  BY <1>10, <1>11, <1>14, <1>15 DEF BawInv

-----------------------------------------------------------------------------
LEMMA AdvanceIs ==
    ASSUME BawInv, NEW d \in Slots
    PROVE  /\ Advance(d) \in 0 .. Used
           /\ \A i \in 0 .. Advance(d) - 1 : d[Place(i)] = None
           /\ Advance(d) = Used \/ d[Place(Advance(d))] # None
  <1>. DEFINE Passable(n) == /\ \A i \in 0 .. n - 1 : d[Place(i)] = None
                             /\ n = Used \/ d[Place(n)] # None
              S == {n \in 0 .. Used : n = Used \/ d[Place(n)] # None}
  <1>1. Used \in Nat
    BY BawFacts, BawSizes
  <1>2. S \in SUBSET Nat /\ S # {}
    <2>1. Used \in S
      BY <1>1
    <2>. QED  BY <1>1, <2>1
  <1>3. PICK n \in S : \A x \in S : n <= x
    BY <1>2, MinIs
  <1>4. n \in 0 .. Used /\ Passable(n)
    <2>1. ASSUME NEW i \in 0 .. n - 1 PROVE d[Place(i)] = None
      <3>1. i \in 0 .. Used /\ ~ (n <= i)
        BY <1>1, <1>3
      <3>2. i \notin S
        BY <1>3, <3>1
      <3>. QED  BY <3>1, <3>2
    <2>. QED  BY <1>3, <2>1
  <1>5. Advance(d) = CHOOSE m \in 0 .. Used : Passable(m)
    BY DEF Advance
  <1>. HIDE DEF Passable
  <1>6. Advance(d) \in 0 .. Used /\ Passable(Advance(d))
    BY <1>4, <1>5
  <1>. USE DEF Passable
  <1>. QED  BY <1>6

(* A frame that was forced out is not answered in time to be mistaken.     *)
LEMMA LateIsOutside ==
    ASSUME BawInv, Timely, NEW f \in Unanswered \cap forced
    PROVE  ~ InWindow(f)
  <1>1. PICK g \in Nat, u \in 0 .. Baw + 1, s \in Nat :
          g = given /\ u = Used /\ s = First /\ s = g + 1 - u
    BY BawFacts
  <1>2. f \in 1 .. g /\ f < s /\ g - f < SeqMax - Baw - 1
    <2>1. f \in 1 .. s - 1
      BY <1>1 DEF BawInv, Windowed
    <2>2. f \in 1 .. g
      BY <1>1, BawFacts
    <2>. QED  BY <1>1, <2>1, <2>2 DEF Timely
  <1>3. s - f <= SeqMax /\ SeqMax - (s - f) > Baw
    BY <1>1, <1>2, BawSizes
  <1>4. Index(SeqNum(f)) = SeqMax - (s - f)
    <2>1. f \in Int /\ s \in Int /\ win.start = SeqNum(s)
      BY <1>1, <1>2, BawFacts
    <2>. QED  BY <1>2, <1>3, <2>1, IndexOf
  <1>. QED  BY <1>1, <1>2, <1>3, <1>4, BawSizes DEF InWindow

(* A frame that was not has its place.                                     *)
LEMMA HeldIsInside ==
    ASSUME BawInv, NEW f \in Unanswered \ forced
    PROVE  /\ f - First \in 0 .. Used - 1 /\ f - First \in 0 .. BufNbr - 1
           /\ f \in Nat /\ First <= f
           /\ Index(SeqNum(f)) = f - First /\ InWindow(f)
           /\ Place(Index(SeqNum(f))) = (win.head + (f - First)) % BufNbr
  <1>1. PICK g \in Nat, u \in 0 .. Baw + 1, s \in Nat :
          g = given /\ u = Used /\ s = First /\ s = g + 1 - u
    BY BawFacts
  <1>2. f \in Nat /\ s <= f /\ f < s + u
    BY <1>1 DEF BawInv, Windowed, Holds
  <1>3. f - s \in 0 .. u - 1 /\ f - s \in 0 .. BufNbr - 1 /\ f - s <= Baw /\ f - s < SeqMax
    BY <1>1, <1>2, BawSizes
  <1>4. Index(SeqNum(f)) = f - s
    <2>1. f \in Int /\ s \in Int /\ win.start = SeqNum(s)
      BY <1>1, <1>2, BawFacts
    <2>. QED  BY <1>2, <1>3, <2>1, IndexOf
  <1>. QED  BY <1>1, <1>2, <1>3, <1>4 DEF InWindow, Place

LEMMA UpdatesStep ==
    ASSUME BawInv, Timely, TxOkUpdates
    PROVE  BawInv'
  <1>. DEFINE f      == txok.frame
              U      == Unanswered \ forced
              answer == [desc EXCEPT ![Place(Index(SeqNum(f)))] = None]
              force  == ForcesHead(answer)
              after  == IF force THEN [answer EXCEPT ![win.head] = None] ELSE answer
  <1>1. /\ txok.pc = "update" /\ sched' \in BOOLEAN
        /\ txok' = [pc |-> "take", frame |-> None]
        /\ UNCHANGED <<made, given, down, chip, status, txoksem, wait, hr, lock, send, tasklet>>
    BY DEF TxOkUpdates, halVars, Rescheduled
  <1>2. IF InWindow(f)
        THEN /\ desc' = after
             /\ win' = [start |-> (win.start + Advance(after)) % SeqMax,
                        head |-> Place(Advance(after)), tail |-> win.tail]
             /\ qcnt' = (IF force /\ qcnt > 0 THEN qcnt - 1 ELSE qcnt)
             /\ forced' = IF force THEN forced \cup {answer[win.head]} ELSE forced
        ELSE UNCHANGED <<win, desc, qcnt, forced>>
    BY DEF TxOkUpdates, winVars
  <1>. HIDE DEF answer, force, after
  <1>3. f # None /\ f \in 1 .. down /\ f \notin chip \cup ToSet(status) /\ f \in Unanswered
    <2>1. f # None
      BY <1>1 DEF BawInv, InOneHand
    <2>2. f \notin chip \cup ToSet(status)
      BY DEF BawInv, InOneHand
    <2>. QED  BY <2>1, <2>2, BawFacts DEF Unanswered
  <1>4. Unanswered' = Unanswered \ {f} /\ Uncounted' = Uncounted
    <2>1. f \notin (down + 1) .. given
      BY <1>3, BawFacts
    <2>. QED  BY <1>1, <1>3, <2>1 DEF Unanswered, Uncounted
  <1>5. InOneHand'
    <2>1. txok'.pc # "update" /\ txok'.frame = None /\ None \notin 1 .. down
      BY <1>1 DEF None
    <2>2. None \notin chip \cup ToSet(status)
      BY <2>1, BawFacts
    <2>. QED  BY <1>1, <2>1, <2>2 DEF BawInv, InOneHand
  <1>6. CASE ~ InWindow(f)
    <2>1. UNCHANGED <<win, desc, qcnt, forced>>
      BY <1>2, <1>6
    <2>2. f \in forced
      BY <1>3, <1>6, HeldIsInside
    <2>3. Unanswered' \ forced' = Unanswered \ forced
      BY <1>4, <2>1, <2>2
    <2>4. Used' = Used /\ First' = First
      BY <1>1, <2>1 DEF Used, First
    <2>5. Windowed'
      BY <2>1, <2>3, <2>4 DEF BawInv, Windowed
    <2>6. Counts'
      BY <1>1, <1>4, <2>1 DEF BawInv, Counts, QcntBounds
    <2>7. BawTypeOK'
      BY <1>1, <2>1 DEF BawInv, BawTypeOK
    <2>. QED  BY <1>5, <2>5, <2>6, <2>7 DEF BawInv
  <1>7. CASE InWindow(f)
    <2>1. f \in U
      BY <1>3, <1>7, LateIsOutside
    <2>2. PICK u \in 0 .. Baw + 1, s \in Nat :
            u = Used /\ s = First /\ s >= 1 /\ s = given + 1 - u
      BY BawFacts
    <2>3. win \in Boards /\ desc \in Slots /\ Holds(win, desc, s, u, U)
      BY <2>2, BawFacts DEF BawInv, Windowed
    <2>4. PICK x \in 0 .. BufNbr - 1 :
            x = (win.head + (f - s)) % BufNbr /\ answer = [desc EXCEPT ![x] = None]
      <3>1. Place(Index(SeqNum(f))) = (win.head + (f - s)) % BufNbr
        BY <2>1, <2>2, HeldIsInside
      <3>2. (win.head + (f - s)) % BufNbr \in 0 .. BufNbr - 1
        BY <2>1, <2>3, Emptied
      <3>. QED  BY <3>1, <3>2 DEF answer
    <2>5. answer \in Slots /\ Holds(win, answer, s, u, U \ {f})
      BY <2>1, <2>3, <2>4, Emptied
    <2>6. /\ after \in Slots /\ Holds(win, after, s, u, Unanswered' \ forced')
          /\ forced' = (IF force THEN forced \cup {s} ELSE forced)
          /\ force => after[win.head] = None /\ s \in U /\ u > 0
      <3>1. CASE ~ force
        <4>1. after = answer /\ forced' = forced
          BY <1>2, <1>7, <3>1 DEF after
        <4>2. Unanswered' \ forced' = U \ {f}
          BY <1>4, <4>1
        <4>. QED  BY <2>5, <3>1, <4>1, <4>2
      <3>2. CASE force
        <4>1. answer[win.head] # None
          BY <3>2 DEF force, ForcesHead
        <4>2. (win.head + 0) % BufNbr = win.head /\ 0 \in 0 .. BufNbr - 1
          <5>1. 0 \in 0 .. BufNbr - 1 /\ 0 \in 0 .. BufNbr /\ win.head \in 0 .. BufNbr - 1
                /\ win.head + 0 = win.head
            BY BawFacts, BawSizes
          <5>. QED  BY ONLY <5>1, RoundIs, BawSizes
        <4>3. 0 < u /\ answer[win.head] = s /\ s \in U \ {f}
          <5>1. 0 < u /\ answer[win.head] = s + 0 /\ s + 0 \in U \ {f}
            BY <2>5, <4>1, <4>2 DEF Holds
          <5>. QED  BY <2>2, <5>1
        <4>4. after = [answer EXCEPT ![(win.head + (s - s)) % BufNbr] = None]
          <5>1. s - s = 0
            BY <2>2
          <5>. QED  BY <3>2, <4>2, <5>1 DEF after
        <4>5. after \in Slots /\ Holds(win, after, s, u, (U \ {f}) \ {s})
          BY <2>3, <2>5, <4>3, <4>4, Emptied
        <4>6. forced' = forced \cup {s}
          BY <1>2, <1>7, <3>2, <4>3
        <4>7. Unanswered' \ forced' = (U \ {f}) \ {s}
          BY <1>4, <4>6
        <4>8. after[win.head] = None
          <5>1. answer \in Slots /\ win.head \in 0 .. BufNbr - 1
            BY <2>5, BawFacts
          <5>. QED  BY <3>2, <5>1 DEF after, Slots
        <4>. QED  BY <3>2, <4>3, <4>5, <4>6, <4>7, <4>8
      <3>. QED  BY <3>1, <3>2
    <2>7. PICK n \in 0 .. u :
            /\ n = Advance(after)
            /\ \A i \in 0 .. n - 1 : after[(win.head + i) % BufNbr] = None
            /\ n = u \/ after[(win.head + n) % BufNbr] # None
      <3>1. /\ Advance(after) \in 0 .. Used
            /\ \A i \in 0 .. Advance(after) - 1 : after[Place(i)] = None
            /\ Advance(after) = Used \/ after[Place(Advance(after))] # None
        BY <2>6, AdvanceIs
      <3>. QED  BY <2>2, <3>1 DEF Place
    <2>8. /\ desc' = after
          /\ win' = [start |-> (win.start + n) % SeqMax, head |-> (win.head + n) % BufNbr,
                     tail |-> win.tail]
          /\ qcnt' = (IF force /\ qcnt > 0 THEN qcnt - 1 ELSE qcnt)
      BY <1>2, <1>7, <2>7 DEF Place
    <2>9. /\ win' \in Boards /\ HeadHeld(win', desc', u - n)
          /\ Holds(win', desc', s + n, u - n, Unanswered' \ forced')
      BY <2>3, <2>6, <2>7, <2>8, Moved
    <2>10. Used' = u - n /\ First' = s + n
      <3>1. u - n \in 0 .. BufNbr - 1
        BY <2>2, <2>7, BawSizes
      <3>2. PICK h \in 0 .. BufNbr - 1, t \in 0 .. BufNbr - 1 :
              h = win'.head /\ t = win'.tail /\ t = (h + (u - n)) % BufNbr
        BY <2>9 DEF Boards, Holds
      <3>3. (t - h) % BufNbr = u - n
        BY <3>1, <3>2, UsedIs
      <3>4. Used' = u - n
        BY <3>2, <3>3 DEF Used
      <3>5. given' + 1 - (u - n) = s + n
        BY <1>1, <2>2, <2>7, BawFacts, BawSizes
      <3>. QED  BY <3>4, <3>5 DEF First
    <2>11. forced' \subseteq 1 .. First' - 1
      <3>1. forced \subseteq 1 .. s - 1
        BY <2>2 DEF BawInv, Windowed
      <3>2. 1 .. s - 1 \subseteq 1 .. First' - 1
        BY <2>2, <2>7, <2>10
      <3>3. ASSUME force PROVE s \in 1 .. First' - 1
        <4>1. n # 0
          <5>. SUFFICES ASSUME n = 0 PROVE FALSE
            OBVIOUS
          <5>1. (win.head + 0) % BufNbr = win.head
            <6>1. 0 \in 0 .. BufNbr - 1 /\ 0 \in 0 .. BufNbr /\ win.head \in 0 .. BufNbr - 1
                  /\ win.head + 0 = win.head
              BY BawFacts, BawSizes
            <6>. QED  BY ONLY <6>1, RoundIs, BawSizes
          <5>. QED  BY <2>6, <2>7, <3>3, <5>1
        <4>. QED  BY <2>2, <2>7, <2>10, <4>1
      <3>. QED  BY <2>6, <3>1, <3>2, <3>3
    <2>12. Windowed'
      BY <2>9, <2>10, <2>11 DEF Windowed
    <2>13. /\ IsFiniteSet(forced')
           /\ Cardinality(forced') = (IF force THEN Cardinality(forced) + 1 ELSE Cardinality(forced))
      <3>1. s \notin forced
        <4>1. s \notin 1 .. s - 1
          BY <2>2
        <4>. QED  BY <2>2, <4>1 DEF BawInv, Windowed
      <3>. QED  BY <2>6, <3>1, UncountedFinite, FS_AddElement
    <2>14. QcntBounds' /\ qcnt' \in Nat /\ qcnt' <= qcnt
      <3>1. PICK a \in Nat, c \in Nat : a = Cardinality(Uncounted) /\ c = Cardinality(forced)
        BY UncountedFinite
      <3>2. qcnt <= a /\ qcnt >= a - c /\ qcnt \in Nat
        BY <3>1, BawFacts DEF BawInv, Counts, QcntBounds
      <3>3. Cardinality(Uncounted') = a
        BY <1>4, <3>1
      <3>4. CASE force
        <4>1. qcnt' <= a /\ qcnt' >= a - (c + 1) /\ qcnt' \in Nat /\ qcnt' <= qcnt
          BY <2>8, <3>2, <3>4
        <4>2. Cardinality(forced') = c + 1
          BY <2>13, <3>1, <3>4
        <4>. QED  BY <3>3, <4>1, <4>2 DEF QcntBounds
      <3>5. CASE ~ force
        <4>1. qcnt' <= a /\ qcnt' >= a - c /\ qcnt' \in Nat /\ qcnt' <= qcnt
          BY <2>8, <3>2, <3>5
        <4>2. Cardinality(forced') = c
          BY <2>13, <3>1, <3>5
        <4>. QED  BY <3>3, <4>1, <4>2 DEF QcntBounds
      <3>. QED  BY <3>4, <3>5
    <2>15. Counts'
      BY <1>1, <2>13, <2>14 DEF BawInv, Counts
    <2>16. BawTypeOK'
      <3>1. BawTypeOK
        BY DEF BawInv
      <3>2. forced' \subseteq MPDUs
        <4>1. force => s \in 1 .. given
          BY <2>6, BawFacts
        <4>2. 1 .. given \subseteq MPDUs
          BY BawFacts, BawSizes DEF MPDUs
        <4>. QED  BY <2>6, <3>1, <4>1, <4>2 DEF BawTypeOK
      <3>3. qcnt' \in 0 .. MaxFrames
        BY <2>14, <3>1, BawSizes DEF BawTypeOK
      <3>. QED  BY <1>1, <2>6, <2>8, <2>9, <3>1, <3>2, <3>3 DEF BawTypeOK, Boards, Slots
    <2>. QED  BY <1>5, <2>12, <2>15, <2>16 DEF BawInv
  <1>. QED  BY <1>6, <1>7

-----------------------------------------------------------------------------
LEMMA BawInitial == BawInit => BawInv
  <1>. SUFFICES ASSUME BawInit PROVE BawInv
    OBVIOUS
  <1>1. /\ made = 0 /\ given = 0 /\ down = 0 /\ chip = {} /\ status = <<>> /\ txoksem = 0
        /\ win = [start |-> FirstSeq, head |-> 0, tail |-> 0]
        /\ desc = [s \in 0 .. BufNbr - 1 |-> None]
        /\ qcnt = 0 /\ wait = TRUE /\ hr = "off" /\ sched = FALSE /\ lock = "free"
        /\ send = "idle"
        /\ tasklet = [pc |-> "off", list |-> 0, wait |-> FALSE, change |-> FALSE]
        /\ txok = [pc |-> "down", frame |-> None] /\ forced = {}
    BY DEF BawInit
  <1>2. ToSet(status) = {} /\ Len(status) = 0 /\ status \in Seq(MPDUs)
    BY <1>1 DEF ToSet
  <1>3. Unanswered = {} /\ Uncounted = {}
    <2>1. (0 + 1) .. 0 = {}
      OBVIOUS
    <2>. QED  BY <1>1, <1>2, <2>1 DEF Unanswered, Uncounted
  <1>4. BawTypeOK
    <2>1. win \in [start : 0 .. SeqMax - 1, head : 0 .. BufNbr - 1, tail : 0 .. BufNbr - 1]
      BY <1>1, BawSizes
    <2>2. desc \in [0 .. BufNbr - 1 -> {None} \cup MPDUs]
      BY <1>1
    <2>3. 0 \in 0 .. MaxFrames
      BY BawSizes
    <2>4. txok \in [pc : {"down", "take", "update"}, frame : {None} \cup MPDUs]
      BY <1>1
    <2>5. tasklet \in [pc : {"off", "begin", "loop", "restore", "lists"},
                       list : 0 .. VO, wait : BOOLEAN, change : BOOLEAN]
      BY <1>1 DEF VO
    <2>. QED  BY <1>1, <1>2, <2>1, <2>2, <2>3, <2>4, <2>5 DEF BawTypeOK
  <1>5. InOneHand
    BY <1>1, <1>2 DEF InOneHand
  <1>6. Used = 0 /\ First = 1
    <2>1. (0 + 0) % BufNbr = 0 /\ 0 \in 0 .. BufNbr - 1
      BY RoundIs, BawSizes
    <2>2. (((0 + 0) % BufNbr) - 0) % BufNbr = 0
      BY <2>1, UsedIs
    <2>3. 0 % BufNbr = 0
      BY <2>1
    <2>4. win.tail = 0 /\ win.head = 0 /\ 0 - 0 = 0
      BY <1>1
    <2>5. Used = 0
      BY ONLY <2>3, <2>4 DEF Used
    <2>. QED  BY <1>1, <2>5 DEF First
  <1>7. Windowed
    <2>1. SeqNum(1) = FirstSeq
      <3>1. FirstSeq + 1 - 1 = FirstSeq /\ FirstSeq \in Int
        BY BawSizes
      <3>2. FirstSeq % SeqMax = FirstSeq
        BY <3>1, RemainderNear, BawSizes
      <3>. QED  BY ONLY <3>1, <3>2 DEF SeqNum
    <2>2. (0 + 0) % BufNbr = 0
      BY RoundIs, BawSizes
    <2>3. \A i \in 0 .. BufNbr - 1 : desc[(0 + i) % BufNbr] = None
      <3>1. ASSUME NEW i \in 0 .. BufNbr - 1 PROVE desc[(0 + i) % BufNbr] = None
        <4>1. (0 + i) % BufNbr \in 0 .. BufNbr - 1
          BY RoundIs, BawSizes
        <4>. QED  BY <1>1, <4>1
      <3>. QED  BY <3>1
    <2>4. win.start = FirstSeq /\ win.head = 0 /\ win.tail = 0
      BY <1>1
    <2>5. Holds(win, desc, 1, 0, {})
      BY <2>1, <2>2, <2>3, <2>4, BawSizes DEF Holds
    <2>6. HeadHeld(win, desc, 0)
      BY DEF HeadHeld
    <2>. QED  BY <1>1, <1>3, <1>6, <2>5, <2>6 DEF Windowed
  <1>8. Counts
    BY <1>1, <1>3, FS_EmptySet DEF Counts, QcntBounds
  <1>. QED  BY <1>4, <1>5, <1>7, <1>8 DEF BawInv

(* One step of BawNext.                                                    *)
THEOREM BawStep ==
    ASSUME BawInv, Timely, [BawNext]_bawVars
    PROVE  BawInv'
  <1>. BawTypeOK
    BY DEF BawInv
  <1>1. CASE Send
    <2>1. made' \in 0 .. MaxFrames /\ made' \in Nat /\ made <= made'
      BY <1>1, BawFacts, BawSizes DEF Send
    <2>2. InOneHand' /\ Windowed' /\ Counts'
      BY <1>1, <2>1, Elsewhere, BawFacts DEF Send, halVars, winVars
    <2>3. BawTypeOK'
      BY <1>1, <2>1 DEF Send, BawTypeOK, halVars, winVars
    <2>. QED  BY <2>2, <2>3 DEF BawInv
  <1>2. CASE Attach
    <2>1. InOneHand' /\ Windowed' /\ Counts'
      BY <1>2, Elsewhere, BawFacts DEF Attach, halVars, winVars
    <2>2. BawTypeOK'
      BY <1>2 DEF Attach, BawTypeOK, halVars, winVars
    <2>. QED  BY <2>1, <2>2 DEF BawInv
  <1>3. CASE Cancel
    <2>1. InOneHand' /\ Windowed' /\ Counts'
      BY <1>3, Elsewhere, BawFacts DEF Cancel, halVars, winVars
    <2>2. BawTypeOK'
      BY <1>3 DEF Cancel, BawTypeOK, halVars, winVars
    <2>. QED  BY <2>1, <2>2 DEF BawInv
  <1>4. CASE TimerExpires
    <2>1. InOneHand' /\ Windowed' /\ Counts'
      BY <1>4, Elsewhere, BawFacts DEF TimerExpires, halVars, winVars
    <2>2. BawTypeOK'
      BY <1>4 DEF TimerExpires, BawTypeOK, halVars, winVars
    <2>. QED  BY <2>1, <2>2 DEF BawInv
  <1>5. CASE TimerEnds
    <2>1. InOneHand' /\ Windowed' /\ Counts'
      BY <1>5, Elsewhere, BawFacts DEF TimerEnds, halVars, winVars
    <2>2. BawTypeOK'
      BY <1>5 DEF TimerEnds, BawTypeOK, halVars, winVars
    <2>. QED  BY <2>1, <2>2 DEF BawInv
  <1>6. ASSUME NEW who \in {"send", "tasklet"}, AggrStop(who)
        PROVE  BawInv'
    <2>1. InOneHand' /\ Windowed' /\ Counts'
      BY <1>6, Elsewhere, BawFacts DEF AggrStop, halVars, winVars
    <2>2. /\ lock' \in {"free", "send", "tasklet"}
          /\ send' \in {"idle", "attach", "cancel", "loop"}
          /\ tasklet' \in [pc : {"off", "begin", "loop", "restore", "lists"},
                           list : 0 .. VO, wait : BOOLEAN, change : BOOLEAN]
      BY <1>6, LoopTypes DEF AggrStop
    <2>3. wait' \in BOOLEAN
      BY <1>6 DEF AggrStop, WaitAfterStop, BawTypeOK
    <2>4. UNCHANGED <<made, given, down, chip, status, txoksem, win, desc, qcnt, hr, sched,
                      txok, forced>>
      BY <1>6 DEF AggrStop, halVars, winVars
    <2>5. BawTypeOK'
      BY <2>2, <2>3, <2>4 DEF BawTypeOK
    <2>. QED  BY <2>1, <2>5 DEF BawInv
  <1>7. ASSUME NEW who \in {"send", "tasklet"}, NEW k \in MPDUs, AggrBuild(who, k)
        PROVE  BawInv'
    BY <1>7, BuildStep
  <1>8. CASE TaskletBegin
    <2>1. InOneHand' /\ Windowed' /\ Counts'
      BY <1>8, Elsewhere, BawFacts DEF TaskletBegin, halVars, winVars
    <2>2. tasklet' \in [pc : {"off", "begin", "loop", "restore", "lists"},
                        list : 0 .. VO, wait : BOOLEAN, change : BOOLEAN]
      BY <1>8 DEF TaskletBegin, BawTypeOK, VO
    <2>3. BawTypeOK'
      BY <1>8, <2>2 DEF TaskletBegin, BawTypeOK, halVars, winVars
    <2>. QED  BY <2>1, <2>3 DEF BawInv
  <1>9. CASE TaskletLocks
    <2>1. InOneHand' /\ Windowed' /\ Counts'
      BY <1>9, Elsewhere, BawFacts DEF TaskletLocks, halVars, winVars
    <2>2. /\ tasklet' \in [pc : {"off", "begin", "loop", "restore", "lists"},
                           list : 0 .. VO, wait : BOOLEAN, change : BOOLEAN]
          /\ lock' \in {"free", "send", "tasklet"}
      BY <1>9 DEF TaskletLocks, BawTypeOK
    <2>3. BawTypeOK'
      BY <1>9, <2>2 DEF TaskletLocks, BawTypeOK, halVars, winVars
    <2>. QED  BY <2>1, <2>3 DEF BawInv
  <1>10. CASE TaskletRestores
    <2>1. InOneHand' /\ Windowed' /\ Counts'
      BY <1>10, Elsewhere, BawFacts DEF TaskletRestores, halVars, winVars
    <2>2. tasklet' \in [pc : {"off", "begin", "loop", "restore", "lists"},
                        list : 0 .. VO, wait : BOOLEAN, change : BOOLEAN]
      <3>1. PICK c \in BOOLEAN : c = (tasklet.change \/ (tasklet.wait /\ ~wait))
        OBVIOUS
      <3>2. CASE tasklet.list = VO
        BY <1>10, <3>2 DEF TaskletRestores, VO
      <3>3. CASE tasklet.list # VO
        <4>1. tasklet' = [tasklet EXCEPT !.pc = "lists", !.list = @ + 1, !.change = c]
          BY <1>10, <3>1, <3>3 DEF TaskletRestores
        <4>2. tasklet.list + 1 \in 0 .. VO
          BY <3>3 DEF BawTypeOK, VO
        <4>. QED  BY <4>1, <4>2 DEF BawTypeOK
      <3>. QED  BY <3>2, <3>3
    <2>3. lock' \in {"free", "send", "tasklet"} /\ wait' \in BOOLEAN
      BY <1>10 DEF TaskletRestores, BawTypeOK
    <2>4. BawTypeOK'
      BY <1>10, <2>2, <2>3 DEF TaskletRestores, BawTypeOK, halVars, winVars
    <2>. QED  BY <2>1, <2>4 DEF BawInv
  <1>11. CASE TxOkWakes
    <2>1. /\ txok' = [txok EXCEPT !.pc = "take"] /\ txok.pc = "down" /\ txoksem > 0
          /\ txoksem' = txoksem - 1 /\ wait' = (wait \/ hr = "off")
          /\ UNCHANGED <<made, given, down, chip, status, win, desc, qcnt, hr, sched,
                         lock, send, tasklet, forced>>
      BY <1>11 DEF TxOkWakes, winVars
    <2>2. txok'.frame = txok.frame /\ txok'.pc = "take"
          /\ txok' \in [pc : {"down", "take", "update"}, frame : {None} \cup MPDUs]
      BY <2>1 DEF BawTypeOK
    <2>3. txoksem' \in Nat /\ txoksem' <= txoksem /\ txoksem' \in 0 .. MaxFrames
      <3>1. txoksem \in Nat /\ txoksem <= MaxFrames /\ MaxFrames \in Nat
        BY BawFacts, BawSizes DEF BawTypeOK
      <3>. QED  BY <2>1, <3>1
    <2>4. InOneHand' /\ Windowed' /\ Counts'
      BY <2>1, <2>2, <2>3, Elsewhere, BawFacts
    <2>5. BawTypeOK'
      BY <2>1, <2>2, <2>3 DEF BawTypeOK
    <2>. QED  BY <2>4, <2>5 DEF BawInv
  <1>12. CASE TxOkSleeps
    <2>1. /\ txok' = [txok EXCEPT !.pc = "down"] /\ txok.pc = "take"
          /\ UNCHANGED <<made, given, down, chip, status, txoksem, win, desc, qcnt, wait, hr,
                         sched, lock, send, tasklet, forced>>
      BY <1>12 DEF TxOkSleeps, halVars, winVars
    <2>2. txok'.frame = txok.frame /\ txok'.pc = "down"
          /\ txok' \in [pc : {"down", "take", "update"}, frame : {None} \cup MPDUs]
      BY <2>1 DEF BawTypeOK
    <2>3. InOneHand' /\ Windowed' /\ Counts'
      BY <2>1, <2>2, Elsewhere, BawFacts
    <2>4. BawTypeOK'
      BY <2>1, <2>2 DEF BawTypeOK
    <2>. QED  BY <2>3, <2>4 DEF BawInv
  <1>13. CASE UNCHANGED bawVars
    <2>1. InOneHand' /\ Windowed' /\ Counts'
      BY <1>13, Elsewhere, BawFacts DEF bawVars, halVars, winVars
    <2>2. BawTypeOK'
      BY <1>13 DEF bawVars, BawTypeOK, halVars, winVars
    <2>. QED  BY <2>1, <2>2 DEF BawInv
  <1>. QED
    BY <1>1, <1>2, <1>3, <1>4, <1>5, <1>6, <1>7, <1>8, <1>9, <1>10, <1>11, <1>12, <1>13,
       TakesStep, UpdatesStep, DownloadStep, ReportStep
    DEF BawNext, Sender, Timer, AmpduTasklet, TxOk, Hal

-----------------------------------------------------------------------------
(* What the invariant says of the window, in the code's own terms.         *)
LEMMA BawInvSound == BawInv => WindowSound
  <1>. SUFFICES ASSUME BawInv PROVE WindowSound
    OBVIOUS
  <1>1. PICK u \in 0 .. Baw + 1, s \in Nat :
          u = Used /\ s = First /\ s >= 1
    BY BawFacts
  <1>2. Holds(win, desc, s, u, Unanswered \ forced) /\ HeadHeld(win, desc, u)
    BY <1>1 DEF BawInv, Windowed
  <1>3. win.head \in 0 .. BufNbr - 1 /\ win \in Boards
    BY BawFacts
  <1>4. ASSUME NEW i \in 0 .. BufNbr - 1, desc[Place(i)] # None
        PROVE  /\ i < Used
               /\ desc[Place(i)] \in Unanswered \ forced
               /\ SeqNum(desc[Place(i)]) = (win.start + i) % SeqMax
    <2>1. i < u /\ desc[Place(i)] = s + i /\ s + i \in Unanswered \ forced
      BY <1>2, <1>4 DEF Holds, Place
    <2>2. (SeqNum(s) + i) % SeqMax = SeqNum(s + i)
      BY <1>1, SeqNumOn, BawSizes
    <2>. QED  BY <1>1, <1>2, <2>1, <2>2 DEF Holds
  <1>5. ASSUME NEW f \in Unanswered \ forced
        PROVE  Within(SeqNum(f)) /\ desc[Place(Index(SeqNum(f)))] = f
    <2>1. desc[(win.head + (f - s)) % BufNbr] = f
      BY <1>2 DEF Holds
    <2>. QED  BY <1>1, <2>1, HeldIsInside DEF Within, InWindow
  <1>6. Used <= Baw + 1
    BY <1>1, BawSizes
  <1>7. ASSUME win.head # win.tail PROVE desc[win.head] # None
    <2>1. u # 0
      <3>. SUFFICES ASSUME u = 0 PROVE FALSE
        OBVIOUS
      <3>1. (win.head + 0) % BufNbr = win.head
        <4>1. 0 \in 0 .. BufNbr - 1 /\ 0 \in 0 .. BufNbr /\ win.head \in 0 .. BufNbr - 1
              /\ win.head + 0 = win.head
          BY BawFacts, BawSizes
        <4>. QED  BY ONLY <4>1, RoundIs, BawSizes
      <3>. QED  BY <1>2, <1>7, <3>1 DEF Holds
    <2>. QED  BY <1>2, <2>1 DEF HeadHeld
  <1>8. WindowAccounts
    BY <1>4, <1>5, <1>6, <1>7 DEF WindowAccounts, BawInv
  <1>. QED  BY <1>8 DEF WindowSound, BawInv, Counts

(* As long as no completion comes so late that the numbers of the frames   *)
(* given since have come round to its own, window and count are about the  *)
(* same frames, whatever the sizes and however many frames are sent:       *)
(* drv_tx_add2baw, drv_tx_update_ba_win and txlist_qcnt agree, at every    *)
(* interleaving of the sender, the timer, the tasklet, the txok thread and *)
(* the firmware.                                                           *)
THEOREM BlockAckWindowSound == BawSpec /\ []Timely => []WindowSound
  <1>1. BawInit => BawInv
    BY BawInitial
  <1>2. BawInv /\ Timely /\ [BawNext]_bawVars => BawInv'
    BY BawStep
  <1>3. BawInv => WindowSound
    BY BawInvSound
  <1>. QED  BY <1>1, <1>2, <1>3, PTL DEF BawSpec
=============================================================================
