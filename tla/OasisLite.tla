------------------------------ MODULE OasisLite ------------------------------
(***************************************************************************)
(* The state machine above the face library of the 3D lock                 *)
(* (src/smart_lock/HAL/face_rec/hal_vision_algo_oasis_lite3D.c): the modes *)
(* recognition, registration and deregistration, the timers that end them, *)
(* the blockers that hold the library stopped, and the events that start   *)
(* and stop it.                                                            *)
(*                                                                         *)
(* Events and frames are messages of one queue, handled one after another  *)
(* by the vision algorithm task.  Timer callbacks run in the FreeRTOS      *)
(* timer task, which has the highest priority: each is one step, and comes *)
(* between any two steps of a handler.  A handler that stops the timers is *)
(* two steps, because the result timer is the last one stopped and its     *)
(* callback starts timers that have just been stopped.                     *)
(***************************************************************************)
EXTENDS Integers

CONSTANTS
  Inputs,     \* kinds of events that arrive
  MaxFrames,  \* answers of the camera that wait in the queue
  TimersFail  \* TRUE: sln_timer_start may fail for want of memory

ASSUME OasisAssumption == MaxFrames \in Nat \ {0} /\ TimersFail \in BOOLEAN

VARIABLES
  runFlag,     \* run_flag; "locked" is OASIS_RUN_FLAG_NUM
  prevRunFlag, \* prevRunFlag: what runs after the next start
  blockers,    \* s_blockingList
  armed,       \* timers whose pointer is not NULL
  orphans,     \* timers whose pointer was overwritten while they ran
  timeout,     \* timer_timeout: set by callbacks, cleared by a run
  result,      \* mode and outcome of the last result
  name,        \* s_UserNameReference: "none", a "user" name, or "freed" memory
  sleepMode,   \* the stored configuration: sleep after a recognition
  sleeping,    \* sleep has been enabled in the low power manager
  asked,       \* the camera manager holds a request for frames
  delivered,   \* answers of the camera in the queue
  pc           \* point the vision algorithm task has reached

vars == <<runFlag, prevRunFlag, blockers, armed, orphans, timeout, result, name,
          sleepMode, sleeping, asked, delivered, pc>>

flags  == <<runFlag, prevRunFlag>>
frames == <<asked, delivered>>
lpm    == <<sleepMode, sleeping>>

Modes    == {"rec", "reg", "dereg"}
RunFlags == Modes \cup {"stop", "locked"}
Timers   == {"detFace", "reg", "dereg", "rec", "result"}
Outcomes == {"invalid", "success", "unknown", "duplicated", "timeout",
             "cancelled"}
Results  == [mode : Modes, outcome : Outcomes]
Switches == {"startRec", "startReg", "startDereg",
             "stop", "stopRec", "stopReg", "stopDereg"}
Points   == {"idle", "infer", "decide", "lpmOff"} \cup Switches

TypeOK ==
  /\ runFlag \in RunFlags /\ prevRunFlag \in RunFlags
  /\ blockers \subseteq {"record", "user"}
  /\ armed \subseteq Timers /\ orphans \subseteq Timers
  /\ timeout \in BOOLEAN
  /\ result \in Results
  /\ name \in {"none", "user", "freed"}
  /\ sleepMode \in BOOLEAN /\ sleeping \in BOOLEAN
  /\ asked \in BOOLEAN /\ delivered \in 0 .. MaxFrames
  /\ pc \in Points

-----------------------------------------------------------------------------
(***************************************************************************)
(* Timers.  sln_timer_start clears the pointer first: a timer that runs    *)
(* already is forgotten and cannot be stopped any more.  One forgotten     *)
(* timer per pointer is kept.                                              *)
(***************************************************************************)
Arm(before, timers) ==
  \E started \in (IF TimersFail THEN SUBSET timers ELSE {timers}) :
    armed' = (before \ timers) \cup started

Forget(before, timers) == orphans' = orphans \cup (before \cap timers)

(* The timers of recognition are started only if the lock is to sleep. *)
RecognitionTimers == IF sleepMode THEN {"rec", "detFace"} ELSE {}

(* The result of a mode that starts: zeroes but for the mode. *)
Fresh(mode) == [mode |-> mode, outcome |-> "invalid"]

(* After HAL_VisionAlgoDev_OasisLite_Init and the first request for frames. *)
Init ==
  /\ runFlag = "rec" /\ prevRunFlag = "stop"
  /\ blockers = {} /\ orphans = {}
  /\ timeout = FALSE /\ result = Fresh("rec") /\ name = "none"
  /\ sleeping = FALSE
  /\ asked = TRUE /\ delivered = 0
  /\ pc = "idle"
  /\ sleepMode \in BOOLEAN
  /\ armed \in IF TimersFail THEN SUBSET RecognitionTimers
                             ELSE {RecognitionTimers}

(* The wake-up restarts the device with the stored configuration. *)
Sleep ==
  /\ sleeping
  /\ runFlag' = "rec" /\ prevRunFlag' = "stop"
  /\ blockers' = {} /\ orphans' = {}
  /\ timeout' = FALSE /\ result' = Fresh("rec") /\ name' = "none"
  /\ sleeping' = FALSE
  /\ asked' = TRUE /\ delivered' = 0
  /\ pc' = "idle"
  /\ Arm({}, RecognitionTimers)
  /\ UNCHANGED sleepMode

-----------------------------------------------------------------------------
(***************************************************************************)
(* The second step of a handler: the result timer is stopped, then the     *)
(* mode changes.                                                           *)
(***************************************************************************)
(* Seeded bug: the result timer is left alone. *)
NothingStopped == armed

Unstopped == armed \ {"result"}

StartMode(mode, timers) ==
  /\ runFlag' = mode
  /\ result' = Fresh(mode)
  /\ Arm(Unstopped, timers) /\ Forget(Unstopped, timers)
  /\ pc' = "idle"
  /\ UNCHANGED <<blockers, timeout, name, lpm, frames>>

StartRecognition ==
  /\ pc = "startRec"
  /\ StartMode("rec", RecognitionTimers)
  /\ prevRunFlag' = "stop"

StartRegistration ==
  /\ pc = "startReg"
  /\ StartMode("reg", {"detFace", "reg"})
  /\ prevRunFlag' = "stop"

StartDeregistration ==
  /\ pc = "startDereg"
  /\ StartMode("dereg", {"detFace", "dereg"})
  /\ UNCHANGED prevRunFlag

StopMode(prev, last) ==
  /\ runFlag' = "stop"
  /\ prevRunFlag' = prev
  /\ result' = last
  /\ armed' = Unstopped
  /\ pc' = "idle"
  /\ UNCHANGED <<blockers, orphans, timeout, name, lpm, frames>>

Cancelled(mode) == [mode |-> mode, outcome |-> "cancelled"]

(* Seeded bug: _oasis_stop stores the run flag that it has just set. *)
OasisStopForgets == pc = "stop" /\ StopMode("stop", Fresh("rec"))

(* _oasis_stop and _oasis_stop_recognition, _registration, _deregistration. *)
OasisStop          == pc = "stop"      /\ StopMode(runFlag, Fresh("rec"))
StopRecognition    == pc = "stopRec"   /\ StopMode("rec", Cancelled("rec"))
StopRegistration   == pc = "stopReg"   /\ StopMode("reg", Cancelled("reg"))
StopDeregistration == pc = "stopDereg" /\ StopMode("dereg", Cancelled("dereg"))

(* The first step: all timers but the result timer are stopped. *)
Begin(next) ==
  /\ armed' = armed \cap {"result"}
  /\ pc' = next

Input(kind) == kind \in Inputs /\ pc = "idle"

-----------------------------------------------------------------------------
(***************************************************************************)
(* Events (HAL_VisionAlgoDev_OasisLite_InputNotify) that start and stop a  *)
(* mode.  A start is skipped while Oasis is stopped, a stop unless its     *)
(* mode runs; a skipped event changes nothing.                             *)
(***************************************************************************)
StartRec ==
  /\ Input("startRec")
  /\ runFlag # "stop"
  /\ Begin("startRec")
  /\ UNCHANGED <<flags, blockers, orphans, timeout, result, name, lpm, frames>>

StopModeEvent(kind, mode) ==
  /\ Input(kind)
  /\ runFlag = mode
  /\ Begin(kind)
  /\ UNCHANGED <<flags, blockers, orphans, timeout, result, name, lpm, frames>>

StopRec     == StopModeEvent("stopRec", "rec")
AddUserStop == StopModeEvent("stopReg", "reg")
DelUserStop == StopModeEvent("stopDereg", "dereg")

(* Seeded bug: a registration starts although Oasis is stopped. *)
AddUserAlways ==
  /\ Input("addUser")
  /\ name' = "user"
  /\ Begin("startReg")
  /\ UNCHANGED <<flags, blockers, orphans, timeout, result, lpm, frames>>

(* The event brings a name, or has none; without one it ends a             *)
(* registration that is under way.  The name changes even when the start   *)
(* is skipped.                                                             *)
AddUser ==
  /\ Input("addUser")
  /\ \E given \in {"user", "none"} :
       /\ name' = given
       /\ CASE runFlag = "stop" -> UNCHANGED <<armed, pc>>
            [] runFlag = "reg" /\ given = "none" -> Begin("startRec")
            [] OTHER -> Begin("startReg")
  /\ UNCHANGED <<flags, blockers, orphans, timeout, result, lpm, frames>>

(* With neither id nor name: the next recognised face.  A second event     *)
(* ends a deregistration that is under way.                                *)
DelUser ==
  /\ Input("delUser")
  /\ runFlag # "stop"
  /\ Begin(IF runFlag = "dereg" THEN "startRec" ELSE "startDereg")
  /\ UNCHANGED <<flags, blockers, orphans, timeout, result, name, lpm, frames>>

(* The name of a face that a phone or a computer sends is in the message,  *)
(* whose memory the response frees; a successful AddFace clears the name,  *)
(* except when duplicates are allowed.                                     *)
AddUserRemote ==
  /\ Input("addUserRemote")
  /\ name' \in {"none", "freed"}
  /\ UNCHANGED <<flags, blockers, armed, orphans, timeout, result, lpm, frames,
                 pc>>

-----------------------------------------------------------------------------
(***************************************************************************)
(* Blockers: a recording and the user's "oasis stop" each hold it stopped. *)
(***************************************************************************)
Block(b) ==
  /\ blockers' = blockers \cup {b}
  /\ IF runFlag = "stop" THEN UNCHANGED <<armed, pc>> ELSE Begin("stop")
  /\ UNCHANGED <<flags, orphans, timeout, result, name, lpm, frames>>

(* Seeded bug: no frames are requested. *)
StartWithoutFrames ==
  /\ blockers' = {}
  /\ runFlag' = prevRunFlag
  /\ prevRunFlag' = "stop"
  /\ IF prevRunFlag = "stop" THEN UNCHANGED <<armed, pc>> ELSE Begin("startRec")
  /\ UNCHANGED frames

(* Seeded bug: prevRunFlag is used and kept. *)
StartAgainAndAgain ==
  /\ blockers' = {}
  /\ asked' = TRUE
  /\ runFlag' = prevRunFlag
  /\ IF prevRunFlag = "stop" THEN UNCHANGED <<armed, pc>> ELSE Begin("startRec")
  /\ UNCHANGED <<prevRunFlag, delivered>>

(* _oasis_start up to the point where the result timer is stopped. *)
OasisStart ==
  /\ blockers' = {}
  /\ asked' = TRUE
  /\ runFlag' = prevRunFlag
  /\ prevRunFlag' = "stop"
  /\ IF prevRunFlag = "stop" THEN UNCHANGED <<armed, pc>> ELSE Begin("startRec")
  /\ UNCHANGED delivered

OasisStartFails ==
  /\ blockers' # {}
  /\ UNCHANGED <<flags, armed, frames, pc>>

RecordingStart == Input("recordStart") /\ Block("record")

RecordingStop ==
  /\ Input("recordStop")
  /\ blockers' = blockers \ {"record"}
  /\ IF prevRunFlag = "stop" THEN UNCHANGED <<flags, armed, frames, pc>>
                             ELSE OasisStart \/ OasisStartFails
  /\ UNCHANGED <<orphans, timeout, result, name, lpm>>

SetStateStopped == Input("oasisStop") /\ Block("user")

SetStateRunning ==
  /\ Input("oasisStart")
  /\ runFlag = "stop"
  /\ blockers' = blockers \ {"user"}
  /\ OasisStart \/ OasisStartFails
  /\ UNCHANGED <<orphans, timeout, result, name, lpm>>

-----------------------------------------------------------------------------
(***************************************************************************)
(* kEventID_SetLPMTrigger.  Disabling stops the timers of the mode, then   *)
(* writes the configuration.                                               *)
(***************************************************************************)
LpmEnable ==
  /\ Input("lpmOn")
  /\ IF runFlag = "rec"
       THEN /\ Arm(armed, {"rec", "detFace"})
            /\ Forget(armed, {"rec", "detFace"})
       ELSE UNCHANGED <<armed, orphans>>
  /\ sleepMode' = TRUE
  /\ UNCHANGED <<flags, blockers, timeout, result, name, sleeping, frames, pc>>

LpmDisable ==
  /\ Input("lpmOff")
  /\ armed' = armed \ {"rec", "detFace"}
  /\ sleeping' = FALSE
  /\ pc' = "lpmOff"
  /\ UNCHANGED <<flags, blockers, orphans, timeout, result, name, sleepMode,
                 frames>>

LpmDisableStored ==
  /\ pc = "lpmOff"
  /\ sleepMode' = FALSE
  /\ pc' = "idle"
  /\ UNCHANGED <<flags, blockers, armed, orphans, timeout, result, name,
                 sleeping, frames>>

-----------------------------------------------------------------------------
(***************************************************************************)
(* A run over a pair of frames (HAL_VisionAlgoDev_OasisLite_Run), which    *)
(* the vision algorithm manager starts when the camera has answered; it    *)
(* requests the next pair unless Oasis is stopped.                         *)
(***************************************************************************)
Deliver ==
  /\ asked /\ delivered < MaxFrames
  /\ asked' = FALSE
  /\ delivered' = delivered + 1
  /\ UNCHANGED <<flags, blockers, armed, orphans, timeout, result, name, lpm, pc>>

(* Seeded bug: a run begins before all frames have come. *)
RunTooEarly ==
  /\ pc = "idle"
  /\ runFlag \notin Modes
  /\ delivered' = delivered - 1
  /\ asked' = (asked \/ runFlag = "locked")
  /\ UNCHANGED <<flags, blockers, armed, orphans, timeout, result, name, lpm, pc>>

RunSkipped ==
  /\ pc = "idle" /\ delivered > 0
  /\ runFlag \notin Modes
  /\ delivered' = delivered - 1
  /\ asked' = (asked \/ runFlag = "locked")
  /\ UNCHANGED <<flags, blockers, armed, orphans, timeout, result, name, lpm, pc>>

RunBegin ==
  /\ pc = "idle" /\ delivered > 0
  /\ runFlag \in Modes
  /\ delivered' = delivered - 1
  /\ result' = Fresh(runFlag)
  /\ pc' = "infer"
  /\ UNCHANGED <<flags, blockers, armed, orphans, timeout, name, lpm, asked>>

(* What OASISLT_run_extend reports through _oasis_lite_EvtCb. *)
Inferred ==
  CASE result.mode = "rec"   -> {"invalid", "unknown", "success"}
    [] result.mode = "reg"   -> {"invalid", "duplicated", "success"}
    [] result.mode = "dereg" -> {"invalid", "success"}

Good == {"success", "duplicated"}

(* Seeded bug: a timeout is noticed in recognition alone. *)
CheckTimeoutRec(outcome) ==
  IF timeout /\ result.mode = "rec" /\ outcome \notin Good THEN "timeout"
                                                           ELSE outcome

(* _oasis_lite_check_timeout: a good outcome goes before a timeout. *)
CheckTimeout(outcome) ==
  IF timeout /\ outcome \notin Good THEN "timeout" ELSE outcome

(* The library adds a registered face under the name, then clears it. *)
RunInfer ==
  /\ pc = "infer"
  /\ \E outcome \in Inferred :
       /\ result' = [result EXCEPT !.outcome = CheckTimeout(outcome)]
       /\ name' = IF result.mode = "reg" /\ outcome = "success" THEN "none"
                                                                ELSE name
  /\ timeout' = FALSE
  /\ pc' = "decide"
  /\ UNCHANGED <<flags, blockers, armed, orphans, lpm, frames>>

Final == result.outcome \in Good \cup {"timeout"}

(* Seeded bug: the result timer is not started. *)
LockForGood ==
  /\ runFlag' = "locked"
  /\ armed' = {}

(* _process_inference_result, from the notification on. *)
Lock ==
  /\ runFlag' = "locked"
  /\ Arm({}, {"result"})

RunDecide ==
  /\ pc = "decide"
  /\ IF Final THEN Lock ELSE UNCHANGED <<runFlag, armed>>
  /\ asked' = TRUE
  /\ pc' = "idle"
  /\ UNCHANGED <<prevRunFlag, blockers, orphans, timeout, result, name, lpm,
                 delivered>>

-----------------------------------------------------------------------------
(***************************************************************************)
(* Timer callbacks.  timer_callback stops a timer that its function did    *)
(* not stop.                                                               *)
(***************************************************************************)

(* Seeded bug: the timer of a registration does not set timer_timeout. *)
ModeTimerSilent(t) ==
  /\ armed' = IF t = "detFace" THEN {} ELSE armed \ {"detFace", t}
  /\ timeout' = IF t = "reg" THEN timeout ELSE TRUE
  /\ UNCHANGED <<flags, result, sleeping>>

(* The timers of a mode: detFace stops all of them, the others detFace. *)
ModeTimer(t) ==
  /\ armed' = IF t = "detFace" THEN {} ELSE armed \ {"detFace", t}
  /\ timeout' = TRUE
  /\ UNCHANGED <<flags, result, sleeping>>

(* _oasis_timer_result.  Whether the usage counts of the low power manager *)
(* are zero is for others to say.                                          *)
ResultSleeps ==
  /\ result.mode = "rec" /\ sleepMode
  /\ sleeping' = TRUE
  /\ runFlag' = "locked"
  /\ armed' = armed \ {"result"}
  /\ UNCHANGED <<prevRunFlag, timeout, result>>

ResultStarts ==
  /\ IF runFlag = "stop"
       THEN armed' = armed \ {"result"} /\ UNCHANGED <<flags, result>>
       ELSE /\ runFlag' = "rec" /\ prevRunFlag' = "stop"
            /\ result' = Fresh("rec")
            /\ Arm({}, RecognitionTimers)
  /\ UNCHANGED <<timeout, sleeping>>

Callback(t) ==
  IF t = "result" THEN ResultSleeps \/ ResultStarts ELSE ModeTimer(t)

Expire(t) ==
  /\ t \in armed
  /\ Callback(t)
  /\ UNCHANGED <<blockers, orphans, name, sleepMode, frames, pc>>

(* A forgotten timer finds the pointer of its successor, if there is one. *)
ExpireForgotten(t) ==
  /\ t \in orphans
  /\ orphans' = orphans \ {t}
  /\ IF t \in armed THEN Callback(t)
                    ELSE UNCHANGED <<flags, armed, timeout, result, sleeping>>
  /\ UNCHANGED <<blockers, name, sleepMode, frames, pc>>

-----------------------------------------------------------------------------
Event ==
  \/ StartRec \/ StopRec \/ AddUser \/ AddUserStop \/ DelUser \/ DelUserStop
  \/ AddUserRemote
  \/ RecordingStart \/ RecordingStop \/ SetStateStopped \/ SetStateRunning
  \/ LpmEnable \/ LpmDisable

SecondStep ==
  \/ StartRecognition \/ StartRegistration \/ StartDeregistration
  \/ OasisStop \/ StopRecognition \/ StopRegistration \/ StopDeregistration
  \/ LpmDisableStored

Run == RunSkipped \/ RunBegin \/ RunInfer \/ RunDecide

Next ==
  \/ Event \/ SecondStep
  \/ Deliver \/ Run
  \/ \E t \in Timers : Expire(t) \/ ExpireForgotten(t)
  \/ Sleep

Spec == Init /\ [][Next]_vars

(* The camera answers; the queue is served in order, so that no message    *)
(* waits for ever behind later ones; timers expire; once enabled, sleep    *)
(* comes, since every user of the low power manager lets go in the end.    *)
FairSpec ==
  /\ Spec
  /\ WF_vars(Deliver) /\ WF_vars(SecondStep) /\ SF_vars(Run)
  /\ \A t \in Timers \ {"detFace"} : WF_vars(Expire(t))
  /\ WF_vars(Sleep)

-----------------------------------------------------------------------------
(***************************************************************************)
(* Properties.                                                             *)
(***************************************************************************)

(* What to run after the next start is known exactly while Oasis is        *)
(* stopped: a stopped Oasis can always be started again, and the end of a  *)
(* recording does not restart one that runs.  The timer task writes both   *)
(* flags too.                                                              *)
RestartPoint == prevRunFlag # "stop" <=> runFlag = "stop"

(* While a recording or the user holds Oasis stopped, neither an event nor *)
(* the result timer's callback, which starts recognition, sets it going.   *)
StopHolds == blockers # {} /\ pc # "stop" => runFlag = "stop"

(* The result timer runs only in the pause after a result, so that its     *)
(* callback can cut no mode short.                                         *)
ResultTimerInPause == "result" \in armed => runFlag = "locked"

(* The camera's answers drive every run, and only a run or a start asks    *)
(* again: unless Oasis is stopped there is always a request or an answer   *)
(* under way, however starts, stops and late answers mix.                  *)
FramesCirculate ==
  runFlag # "stop" => asked \/ delivered > 0 \/ pc \in {"infer", "decide"}

(* No registration or deregistration is open-ended: its own timer runs, or *)
(* has fired and the next run will see it, or the run has just seen it.    *)
EnrolmentIsTimed ==
  runFlag \in {"reg", "dereg"} /\ pc \notin Switches =>
    runFlag \in armed \/ timeout \/ (pc = "decide" /\ Final)

(* When the last blocker is released Oasis runs, whichever it was and      *)
(* however the recording and the user's commands overlapped.               *)
ResumesWhenReleased ==
  [][blockers # {} /\ blockers' = {} => runFlag' # "stop"]_vars

(* The pause after a result ends, in recognition or in sleep, unless the   *)
(* user ever disables sleep in the middle of one.                          *)
PauseEnds == []<>(runFlag # "locked") \/ <>(runFlag = "locked" /\ pc = "lpmOff")

(* Each registration or deregistration ends, unless another event starts   *)
(* it anew.                                                                *)
EnrolmentEnds ==
  /\ runFlag = "reg"   ~> runFlag # "reg"   \/ pc = "startReg"
  /\ runFlag = "dereg" ~> runFlag # "dereg"

(* Every mode that a timer is to end does end.                             *)
ModesEnd == PauseEnds /\ EnrolmentEnds

(* The comment on the timers: a mode is left in advance if its own timers  *)
(* see no face.  A mode must not begin with the timeout of another.        *)
NoStaleTimeout ==
  [][runFlag' \in Modes /\ runFlag' # runFlag => ~timeout']_vars

(* s_UserNameReference: a registration under way has a name in memory that *)
(* is still allocated.                                                     *)
NameAllocated == runFlag = "reg" => name # "freed"

(* The pause after a result ends, whatever the user does. *)
PauseAlwaysEnds == []<>(runFlag # "locked")

(* The lock does not go to sleep in the middle of a registration. *)
NoSleepInEnrolment == [][Sleep => runFlag \notin {"reg", "dereg"}]_vars
=============================================================================
