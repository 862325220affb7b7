--------------------------- MODULE OasisLite_proofs ---------------------------
(***************************************************************************)
(* Proofs about OasisLite, for every choice of events, every length of the *)
(* queue, and whether or not timers can fail to start.                     *)
(***************************************************************************)
EXTENDS OasisLite, TLAPS

(* What the task knows at the points where a callback may have come in. *)
PointKnows ==
  /\ pc \in Switches => runFlag # "stop"
  /\ pc \in {"infer", "decide"} => runFlag \in Modes

-----------------------------------------------------------------------------
(* sln_timer_start arms no other timer than those it is asked for, and all *)
(* of them if none fails.                                                  *)
LEMMA ArmBounds ==
  ASSUME NEW before, NEW timers, Arm(before, timers)
  PROVE  /\ armed' \subseteq before \cup timers
         /\ ~TimersFail => armed' = before \cup timers
<1>1. PICK started \in (IF TimersFail THEN SUBSET timers ELSE {timers}) :
        armed' = (before \ timers) \cup started
  BY DEF Arm
<1>2. started \subseteq timers
  BY <1>1
<1> QED  BY <1>1, <1>2

(* The timers of recognition, spelt out. *)
LEMMA RecognitionTimersAre == RecognitionTimers \subseteq {"rec", "detFace"}
BY DEF RecognitionTimers

(* The results, spelt out. *)
LEMMA ResultsAre ==
  /\ \A mode \in Modes : Fresh(mode) \in Results /\ Cancelled(mode) \in Results
  /\ \A r \in Results, outcome \in Outcomes :
       [r EXCEPT !.outcome = outcome] \in Results
BY DEF Fresh, Cancelled, Results, Outcomes

-----------------------------------------------------------------------------
(* Every step keeps the types. *)
LEMMA TypeInit == Init => TypeOK
<1> SUFFICES ASSUME Init PROVE TypeOK
  OBVIOUS
<1>1. armed \subseteq Timers
  BY DEF Init, RecognitionTimers, Timers
<1>2. result \in Results
  BY ResultsAre DEF Init, Modes
<1>3. delivered \in 0 .. MaxFrames
  BY OasisAssumption DEF Init
<1> QED
  BY <1>1, <1>2, <1>3 DEF Init, TypeOK, Modes, RunFlags, Points

(* Every step keeps the types. *)
LEMMA TypeStep == TypeOK /\ [Next]_vars => TypeOK'
<1> SUFFICES ASSUME TypeOK, [Next]_vars PROVE TypeOK'
  OBVIOUS
<1>1. CASE Event
  <2> USE DEF TypeOK, Points, Switches, flags, frames, lpm, Input, Begin
  <2>1. CASE StartRec
    BY <2>1 DEF StartRec
  <2>2. CASE StopRec
    BY <2>2 DEF StopRec, StopModeEvent
  <2>3. CASE AddUser
    BY <2>3 DEF AddUser
  <2>4. CASE AddUserStop
    BY <2>4 DEF AddUserStop, StopModeEvent
  <2>5. CASE DelUser
    BY <2>5 DEF DelUser
  <2>6. CASE DelUserStop
    BY <2>6 DEF DelUserStop, StopModeEvent
  <2>7. CASE AddUserRemote
    BY <2>7 DEF AddUserRemote
  <2>8. CASE RecordingStart
    BY <2>8 DEF RecordingStart, Block
  <2>9. CASE RecordingStop
    BY <2>9 DEF RecordingStop, OasisStart, OasisStartFails, RunFlags
  <2>10. CASE SetStateStopped
    BY <2>10 DEF SetStateStopped, Block
  <2>11. CASE SetStateRunning
    BY <2>11 DEF SetStateRunning, OasisStart, OasisStartFails, RunFlags
  <2>12. CASE LpmEnable
    <3>0. armed' \subseteq armed \cup {"rec", "detFace"}
      BY <2>12 DEF LpmEnable, Arm
    <3>1. armed' \subseteq Timers /\ orphans' \subseteq Timers
      BY <2>12, <3>0 DEF LpmEnable, Forget, Timers
    <3>2. sleepMode' \in BOOLEAN
      BY <2>12 DEF LpmEnable
    <3>3. UNCHANGED <<runFlag, prevRunFlag, blockers, timeout, result, name,
                      sleeping, asked, delivered, pc>>
      BY <2>12 DEF LpmEnable
    <3> QED  BY <3>1, <3>2, <3>3
  <2>13. CASE LpmDisable
    BY <2>13 DEF LpmDisable
  <2> QED
    BY <1>1, <2>1, <2>2, <2>3, <2>4, <2>5, <2>6, <2>7, <2>8, <2>9, <2>10,
       <2>11, <2>12, <2>13 DEF Event
<1>2. CASE SecondStep
  <2>1. ASSUME NEW mode \in Modes, NEW timers \in SUBSET Timers,
               StartMode(mode, timers), prevRunFlag' \in RunFlags
        PROVE  TypeOK'
    <3>1. armed' \subseteq Timers /\ orphans' \subseteq Timers
      BY <2>1, ArmBounds DEF TypeOK, StartMode, Forget, Unstopped
    <3>2. result' \in Results /\ runFlag' \in RunFlags
      BY <2>1, ResultsAre DEF StartMode, RunFlags
    <3> QED  BY <2>1, <3>1, <3>2 DEF TypeOK, StartMode, Points, lpm, frames
  <2>2. CASE StartRecognition
    BY <2>1, <2>2, RecognitionTimersAre DEF StartRecognition, Modes, RunFlags,
       Timers
  <2>3. CASE StartRegistration
    BY <2>1, <2>3 DEF StartRegistration, Modes, RunFlags, Timers
  <2>4. CASE StartDeregistration
    BY <2>1, <2>4 DEF TypeOK, StartDeregistration, Modes, Timers
  <2>5. ASSUME NEW prev \in RunFlags, NEW last \in Results, StopMode(prev, last)
        PROVE  TypeOK'
    BY <2>5 DEF TypeOK, StopMode, Unstopped, RunFlags, Points, lpm, frames
  <2>6. CASE OasisStop
    BY <2>5, <2>6, ResultsAre DEF TypeOK, OasisStop, Modes
  <2>7. CASE StopRecognition
    BY <2>5, <2>7, ResultsAre DEF StopRecognition, Modes, RunFlags
  <2>8. CASE StopRegistration
    BY <2>5, <2>8, ResultsAre DEF StopRegistration, Modes, RunFlags
  <2>9. CASE StopDeregistration
    BY <2>5, <2>9, ResultsAre DEF StopDeregistration, Modes, RunFlags
  <2>10. CASE LpmDisableStored
    BY <2>10 DEF TypeOK, LpmDisableStored, Points, flags, frames
  <2> QED
    BY <1>2, <2>2, <2>3, <2>4, <2>6, <2>7, <2>8, <2>9, <2>10 DEF SecondStep
<1>3. CASE Deliver
  <2>1. delivered' \in 0 .. MaxFrames
    BY <1>3, OasisAssumption DEF TypeOK, Deliver
  <2> QED  BY <1>3, <2>1 DEF TypeOK, Deliver, flags, lpm
<1>4. CASE Run
  <2>1. ASSUME delivered > 0, delivered' = delivered - 1
        PROVE  delivered' \in 0 .. MaxFrames
    BY <2>1, OasisAssumption DEF TypeOK
  <2>2. CASE RunSkipped
    BY <2>1, <2>2 DEF TypeOK, RunSkipped, flags, lpm
  <2>3. CASE RunBegin
    <3>1. result' \in Results
      BY <2>3, ResultsAre DEF RunBegin
    <3> QED  BY <2>1, <2>3, <3>1 DEF TypeOK, RunBegin, Points, flags, lpm
  <2>4. CASE RunInfer
    <3>1. PICK outcome \in Inferred :
            result' = [result EXCEPT !.outcome = CheckTimeout(outcome)]
      BY <2>4 DEF RunInfer
    <3>2. outcome \in Outcomes
      <4>1. result.mode \in Modes
        BY DEF TypeOK, Results
      <4> QED  BY <3>1, <4>1 DEF Inferred, Outcomes, Modes
    <3>3. CheckTimeout(outcome) \in Outcomes
      BY <3>2 DEF CheckTimeout, Outcomes
    <3>4. result' \in Results
      BY <3>1, <3>3, ResultsAre DEF TypeOK
    <3> QED  BY <2>4, <3>4 DEF TypeOK, RunInfer, Points, flags, lpm, frames
  <2>5. CASE RunDecide
    <3>0. armed' \subseteq armed \cup {"result"}
      BY <2>5 DEF RunDecide, Lock, Arm
    <3>1. armed' \subseteq Timers
      BY <3>0 DEF TypeOK, Timers
    <3>2. runFlag' \in RunFlags
      BY <2>5 DEF TypeOK, RunDecide, Lock, RunFlags
    <3>3. asked' \in BOOLEAN /\ pc' \in Points
      BY <2>5 DEF RunDecide, Points
    <3>4. UNCHANGED <<prevRunFlag, blockers, orphans, timeout, result, name,
                      sleepMode, sleeping, delivered>>
      BY <2>5 DEF RunDecide, lpm
    <3> QED  BY <3>1, <3>2, <3>3, <3>4 DEF TypeOK
  <2> QED  BY <1>4, <2>2, <2>3, <2>4, <2>5 DEF Run
<1>5. ASSUME NEW t \in Timers, Callback(t), UNCHANGED <<blockers, name, sleepMode,
             frames, pc>>, orphans' \subseteq orphans
      PROVE  TypeOK'
  <2>1. CASE ModeTimer(t)
    BY <1>5, <2>1 DEF TypeOK, ModeTimer, flags, frames
  <2>2. CASE ResultSleeps
    BY <1>5, <2>2 DEF TypeOK, ResultSleeps, RunFlags, frames
  <2>3. CASE ResultStarts
    <3>0. armed' \subseteq armed \cup {"rec", "detFace"}
      BY <2>3, RecognitionTimersAre DEF ResultStarts, Arm
    <3>1. armed' \subseteq Timers
      BY <3>0 DEF TypeOK, Timers
    <3>2. result' \in Results
      BY <2>3, ResultsAre DEF TypeOK, ResultStarts, Modes
    <3>3. runFlag' \in RunFlags /\ prevRunFlag' \in RunFlags
      BY <2>3 DEF TypeOK, ResultStarts, RunFlags, Modes, flags
    <3>4. UNCHANGED <<timeout, sleeping>>
      BY <2>3 DEF ResultStarts
    <3> QED
      BY <1>5, <3>1, <3>2, <3>3, <3>4 DEF TypeOK, frames, Timers
  <2> QED  BY <1>5, <2>1, <2>2, <2>3 DEF Callback
<1>6. ASSUME NEW t \in Timers, Expire(t)
      PROVE  TypeOK'
  BY <1>5, <1>6 DEF Expire
<1>7. ASSUME NEW t \in Timers, ExpireForgotten(t)
      PROVE  TypeOK'
  <2>1. CASE t \in armed
    BY <1>5, <1>7, <2>1 DEF ExpireForgotten
  <2>2. CASE t \notin armed
    BY <1>7, <2>2 DEF TypeOK, ExpireForgotten, flags, frames
  <2> QED  BY <2>1, <2>2
<1>8. CASE Sleep
  <2>0. armed' \subseteq RecognitionTimers
    BY <1>8 DEF Sleep, Arm
  <2>1. armed' \subseteq Timers
    BY <2>0, RecognitionTimersAre DEF Timers
  <2>2. result' \in Results
    BY <1>8, ResultsAre DEF Sleep, Modes
  <2>3. delivered' \in 0 .. MaxFrames
    BY <1>8, OasisAssumption DEF Sleep
  <2>4. runFlag' \in RunFlags /\ prevRunFlag' \in RunFlags /\ pc' \in Points
    BY <1>8 DEF Sleep, RunFlags, Modes, Points
  <2>5. timeout' \in BOOLEAN /\ sleeping' \in BOOLEAN /\ asked' \in BOOLEAN
    BY <1>8 DEF Sleep
  <2>6. blockers' = {} /\ orphans' = {} /\ name' = "none" /\ sleepMode' = sleepMode
    BY <1>8 DEF Sleep
  <2> QED  BY <2>1, <2>2, <2>3, <2>4, <2>5, <2>6 DEF TypeOK
<1>9. CASE UNCHANGED vars
  BY <1>9 DEF TypeOK, vars
<1> QED
  BY <1>1, <1>2, <1>3, <1>4, <1>6, <1>7, <1>8, <1>9 DEF Next

(* OasisLite is correctly typed: among others no more than MaxFrames       *)
(* answers wait, and every result has a mode of the library.               *)
THEOREM OasisTypeCorrect == Spec => []TypeOK
<1> QED  BY TypeInit, TypeStep, PTL DEF Spec

-----------------------------------------------------------------------------
(***************************************************************************)
(* The inductive invariant.  RestartPoint needs ResultTimerInPause, since  *)
(* the result timer's callback writes both flags; that needs PointKnows,   *)
(* since a callback may come between the two steps of a handler.           *)
(***************************************************************************)
Safe ==
  /\ RestartPoint
  /\ StopHolds
  /\ ResultTimerInPause
  /\ FramesCirculate
  /\ PointKnows

(* The state after the restart. *)
LEMMA SafeInit == Init => Safe
<1> SUFFICES ASSUME Init PROVE Safe
  OBVIOUS
<1>1. "result" \notin armed
  BY RecognitionTimersAre DEF Init
<1> QED
  BY <1>1 DEF Init, Safe, RestartPoint, StopHolds, ResultTimerInPause,
     FramesCirculate, PointKnows, Modes, Switches

(* The first step of a handler that runs only while Oasis is not stopped. *)
LEMMA SafeBegin ==
  ASSUME Safe, NEW next \in Switches, pc = "idle", runFlag # "stop", Begin(next),
         UNCHANGED <<runFlag, prevRunFlag, asked, delivered>>,
         UNCHANGED blockers \/ next = "stop"
  PROVE  Safe'
BY DEF Safe, RestartPoint, StopHolds, ResultTimerInPause, FramesCirculate,
   PointKnows, Switches, Begin

(* Events that leave the flags, the timers and the frames alone. *)
LEMMA SafeKept ==
  ASSUME Safe, UNCHANGED <<runFlag, prevRunFlag, asked, delivered, pc>>,
         armed' \subseteq armed \cup (Timers \ {"result"}),
         UNCHANGED blockers \/ runFlag = "stop"
  PROVE  Safe'
BY DEF Safe, RestartPoint, StopHolds, ResultTimerInPause, FramesCirculate,
   PointKnows

(* _oasis_start, once no blocker is left. *)
LEMMA SafeOasisStart ==
  ASSUME Safe, pc = "idle", OasisStart, runFlag = "stop"
  PROVE  Safe' /\ runFlag' # "stop"
<1>1. prevRunFlag # "stop" /\ "result" \notin armed
  BY DEF Safe, RestartPoint, ResultTimerInPause
<1>2. runFlag' = prevRunFlag /\ prevRunFlag' = "stop" /\ blockers' = {}
  BY DEF OasisStart
<1>3. asked' = TRUE
  BY DEF OasisStart
<1>4. armed' = armed \cap {"result"} /\ pc' = "startRec"
  BY <1>1 DEF OasisStart, Begin
<1> QED
  BY <1>1, <1>2, <1>3, <1>4 DEF Safe, RestartPoint, StopHolds,
     ResultTimerInPause, FramesCirculate, PointKnows, Switches

(* The first step of every handler. *)
LEMMA SafeEvent == Safe /\ Event => Safe'
<1> SUFFICES ASSUME Safe, Event PROVE Safe'
  OBVIOUS
<1> USE DEF flags, frames, lpm, Input
<1>1. CASE StartRec
  BY <1>1, SafeBegin DEF StartRec, Switches
<1>2. CASE StopRec
  BY <1>2, SafeBegin DEF StopRec, StopModeEvent, Switches
<1>3. CASE AddUser
  <2>1. CASE runFlag = "stop"
    BY <1>3, <2>1, SafeKept DEF AddUser
  <2>2. CASE runFlag # "stop"
    <3>1. PICK next \in {"startRec", "startReg"} : Begin(next)
      BY <1>3, <2>2 DEF AddUser
    <3>2. pc = "idle" /\ UNCHANGED <<runFlag, prevRunFlag, asked, delivered,
                                     blockers>>
      BY <1>3 DEF AddUser
    <3> QED  BY <2>2, <3>1, <3>2, SafeBegin DEF Switches
  <2> QED  BY <2>1, <2>2
<1>4. CASE AddUserStop
  BY <1>4, SafeBegin DEF AddUserStop, StopModeEvent, Switches
<1>5. CASE DelUser
  BY <1>5, SafeBegin DEF DelUser, Switches
<1>6. CASE DelUserStop
  BY <1>6, SafeBegin DEF DelUserStop, StopModeEvent, Switches
<1>7. CASE AddUserRemote
  BY <1>7, SafeKept DEF AddUserRemote
<1>8. ASSUME NEW b, pc = "idle", Block(b)
      PROVE  Safe'
  <2>1. CASE runFlag = "stop"
    BY <1>8, <2>1, SafeKept DEF Block
  <2>2. CASE runFlag # "stop"
    BY <1>8, <2>2, SafeBegin DEF Block, Switches
  <2> QED  BY <2>1, <2>2
<1>9. CASE RecordingStart
  BY <1>8, <1>9 DEF RecordingStart
<1>10. CASE SetStateStopped
  BY <1>8, <1>10 DEF SetStateStopped
<1>11. CASE RecordingStop
  <2>1. CASE prevRunFlag = "stop"
    <3>1. blockers = {}
      BY <1>11, <2>1 DEF RecordingStop, Safe, RestartPoint, StopHolds
    <3> QED  BY <1>11, <2>1, <3>1, SafeKept DEF RecordingStop
  <2>2. CASE prevRunFlag # "stop"
    <3>1. runFlag = "stop" /\ pc = "idle"
      BY <1>11, <2>2 DEF RecordingStop, Safe, RestartPoint
    <3>2. CASE OasisStart
      BY <3>1, <3>2, SafeOasisStart
    <3>3. CASE OasisStartFails
      BY <3>1, <3>3, SafeKept DEF OasisStartFails
    <3> QED  BY <1>11, <2>2, <3>2, <3>3 DEF RecordingStop
  <2> QED  BY <2>1, <2>2
<1>12. CASE SetStateRunning
  <2>1. runFlag = "stop" /\ pc = "idle"
    BY <1>12 DEF SetStateRunning
  <2>2. CASE OasisStart
    BY <2>1, <2>2, SafeOasisStart
  <2>3. CASE OasisStartFails
    BY <2>1, <2>3, SafeKept DEF OasisStartFails
  <2> QED  BY <1>12, <2>2, <2>3 DEF SetStateRunning
<1>13. CASE LpmEnable
  <2>1. armed' \subseteq armed \cup {"rec", "detFace"}
    BY <1>13 DEF LpmEnable, Arm
  <2>2. UNCHANGED <<runFlag, prevRunFlag, asked, delivered, pc, blockers>>
    BY <1>13 DEF LpmEnable
  <2> QED  BY <2>1, <2>2, SafeKept DEF Timers
<1>14. CASE LpmDisable
  BY <1>14 DEF LpmDisable, Safe, RestartPoint, StopHolds, ResultTimerInPause,
     FramesCirculate, PointKnows, Switches
<1> QED
  BY <1>1, <1>2, <1>3, <1>4, <1>5, <1>6, <1>7, <1>9, <1>10, <1>11, <1>12, <1>13,
     <1>14 DEF Event

(* The second step of a handler. *)
LEMMA SafeSecondStep == Safe /\ SecondStep => Safe'
<1> SUFFICES ASSUME Safe, SecondStep PROVE Safe'
  OBVIOUS
<1>1. ASSUME NEW mode \in Modes, NEW timers, StartMode(mode, timers),
             "result" \notin timers, pc \in {"startRec", "startReg", "startDereg"},
             prevRunFlag' \in {prevRunFlag, "stop"}
      PROVE  Safe'
  <2>1. "result" \notin armed'
    BY <1>1 DEF StartMode, Unstopped, Arm
  <2>2. runFlag # "stop" /\ blockers = {} /\ prevRunFlag = "stop"
    BY <1>1 DEF Safe, PointKnows, Switches, StopHolds, RestartPoint
  <2>3. runFlag' = mode /\ pc' = "idle" /\ UNCHANGED <<blockers, asked, delivered>>
    BY <1>1 DEF StartMode, frames
  <2>4. mode # "stop"
    BY <1>1 DEF Modes
  <2> QED
    BY <1>1, <2>1, <2>2, <2>3, <2>4 DEF Safe, RestartPoint, StopHolds,
       ResultTimerInPause, FramesCirculate, PointKnows, Switches
<1>2. CASE StartRecognition
  BY <1>1, <1>2, RecognitionTimersAre DEF StartRecognition, Modes
<1>3. CASE StartRegistration
  BY <1>1, <1>3 DEF StartRegistration, Modes
<1>4. CASE StartDeregistration
  BY <1>1, <1>4 DEF StartDeregistration, Modes
<1>5. ASSUME NEW prev, NEW last, StopMode(prev, last), prev # "stop"
      PROVE  Safe'
  BY <1>5 DEF StopMode, Unstopped, Safe, RestartPoint, StopHolds,
     ResultTimerInPause, FramesCirculate, PointKnows, Switches
<1>6. CASE OasisStop
  <2>1. runFlag # "stop"
    BY <1>6 DEF OasisStop, Safe, PointKnows, Switches
  <2> QED  BY <1>5, <1>6, <2>1 DEF OasisStop
<1>7. CASE StopRecognition
  BY <1>5, <1>7 DEF StopRecognition
<1>8. CASE StopRegistration
  BY <1>5, <1>8 DEF StopRegistration
<1>9. CASE StopDeregistration
  BY <1>5, <1>9 DEF StopDeregistration
<1>10. CASE LpmDisableStored
  BY <1>10 DEF LpmDisableStored, flags, frames, Safe, RestartPoint, StopHolds,
     ResultTimerInPause, FramesCirculate, PointKnows, Switches
<1> QED
  BY <1>2, <1>3, <1>4, <1>6, <1>7, <1>8, <1>9, <1>10 DEF SecondStep

(* A frame that is delivered, and a run of the algorithm. *)
LEMMA SafeRun == Safe /\ TypeOK /\ (Deliver \/ Run) => Safe'
<1> SUFFICES ASSUME Safe, TypeOK, Deliver \/ Run PROVE Safe'
  OBVIOUS
<1> USE DEF Safe, RestartPoint, StopHolds, ResultTimerInPause, PointKnows,
            Modes, Switches
<1>1. CASE Deliver
  <2>1. delivered' > 0
    BY <1>1, OasisAssumption DEF Deliver, TypeOK
  <2> QED  BY <1>1, <2>1 DEF Deliver, FramesCirculate, flags
<1>2. CASE RunSkipped
  <2>1. runFlag # "stop" => asked'
    BY <1>2 DEF RunSkipped, TypeOK, RunFlags
  <2> QED  BY <1>2, <2>1 DEF RunSkipped, FramesCirculate, flags
<1>3. CASE RunBegin
  BY <1>3 DEF RunBegin, FramesCirculate, flags
<1>4. CASE RunInfer
  BY <1>4 DEF RunInfer, FramesCirculate, flags
<1>5. CASE RunDecide
  <2>1. runFlag' # "stop" /\ ("result" \in armed' => runFlag' = "locked")
    BY <1>5 DEF RunDecide, Lock
  <2>2. pc' = "idle" /\ asked' = TRUE /\ UNCHANGED <<prevRunFlag, blockers>>
    BY <1>5 DEF RunDecide
  <2>3. runFlag # "stop" /\ pc # "stop"
    BY <1>5 DEF RunDecide
  <2> QED  BY <2>1, <2>2, <2>3 DEF FramesCirculate
<1> QED  BY <1>1, <1>2, <1>3, <1>4, <1>5 DEF Run

(* The callbacks of the timers, at any point of the task. *)
LEMMA SafeCallback ==
  ASSUME Safe, TypeOK, NEW t \in armed, Callback(t),
         UNCHANGED <<blockers, asked, delivered, pc>>
  PROVE  Safe'
<1> USE DEF Safe, RestartPoint, StopHolds, ResultTimerInPause, FramesCirculate,
            PointKnows
<1>1. CASE t # "result"
  BY <1>1 DEF Callback, ModeTimer, flags
<1>2. CASE t = "result"
  <2>1. runFlag = "locked" /\ prevRunFlag = "stop" /\ pc \notin {"infer", "decide"}
    BY <1>2 DEF Modes
  <2>2. CASE ResultSleeps
    BY <2>1, <2>2 DEF ResultSleeps
  <2>3. CASE ResultStarts
    <3>1. runFlag' = "rec" /\ prevRunFlag' = "stop"
      BY <2>1, <2>3 DEF ResultStarts
    <3>2. "result" \notin armed'
      BY <2>1, <2>3, RecognitionTimersAre DEF ResultStarts, Arm
    <3> QED  BY <2>1, <3>1, <3>2 DEF Switches
  <2> QED  BY <1>2, <2>2, <2>3 DEF Callback
<1> QED  BY <1>1, <1>2

(* Every step. *)
LEMMA SafeStep == Safe /\ TypeOK /\ [Next]_vars => Safe'
<1> SUFFICES ASSUME Safe, TypeOK, [Next]_vars PROVE Safe'
  OBVIOUS
<1>1. CASE Event \/ SecondStep \/ Deliver \/ Run
  BY <1>1, SafeEvent, SafeSecondStep, SafeRun
<1>2. ASSUME NEW t \in Timers, Expire(t)
      PROVE  Safe'
  BY <1>2, SafeCallback DEF Expire, frames
<1>3. ASSUME NEW t \in Timers, ExpireForgotten(t)
      PROVE  Safe'
  <2>1. CASE t \in armed
    BY <1>3, <2>1, SafeCallback DEF ExpireForgotten, frames
  <2>2. CASE t \notin armed
    BY <1>3, <2>2 DEF ExpireForgotten, flags, frames, Safe, RestartPoint,
       StopHolds, ResultTimerInPause, FramesCirculate, PointKnows
  <2> QED  BY <2>1, <2>2
<1>4. CASE Sleep
  <2>1. "result" \notin armed'
    BY <1>4, RecognitionTimersAre DEF Sleep, Arm
  <2>2. runFlag' = "rec" /\ prevRunFlag' = "stop" /\ blockers' = {} /\ pc' = "idle"
    BY <1>4 DEF Sleep
  <2>3. asked' = TRUE
    BY <1>4 DEF Sleep
  <2> QED
    BY <2>1, <2>2, <2>3 DEF Safe, RestartPoint, StopHolds, ResultTimerInPause,
       FramesCirculate, PointKnows, Modes, Switches
<1>5. CASE UNCHANGED vars
  BY <1>5 DEF vars, Safe, RestartPoint, StopHolds, ResultTimerInPause,
     FramesCirculate, PointKnows
<1> QED  BY <1>1, <1>2, <1>3, <1>4, <1>5 DEF Next

(* Safe holds for ever; the theorems below name its parts. *)
THEOREM OasisInvariant == Spec => [](TypeOK /\ Safe)
<1>1. Init => TypeOK /\ Safe
  BY TypeInit, SafeInit
<1>2. TypeOK /\ Safe /\ [Next]_vars => (TypeOK /\ Safe)'
  BY TypeStep, SafeStep
<1> QED  BY <1>1, <1>2, PTL DEF Spec

(* A stopped Oasis can always be started again, and one that runs is not   *)
(* started by the end of a recording.                                      *)
THEOREM RestartIsKnown == Spec => []RestartPoint
<1>1. Safe => RestartPoint
  BY DEF Safe
<1> QED  BY <1>1, OasisInvariant, PTL

(* Nothing sets Oasis going while a recording or the user holds it. *)
THEOREM BlockersHold == Spec => []StopHolds
<1>1. Safe => StopHolds
  BY DEF Safe
<1> QED  BY <1>1, OasisInvariant, PTL

(* The result timer's callback never comes in the middle of a mode. *)
THEOREM ResultTimerIsLate == Spec => []ResultTimerInPause
<1>1. Safe => ResultTimerInPause
  BY DEF Safe
<1> QED  BY <1>1, OasisInvariant, PTL

(* Frames go round for as long as Oasis is not stopped. *)
THEOREM FramesGoRound == Spec => []FramesCirculate
<1>1. Safe => FramesCirculate
  BY DEF Safe
<1> QED  BY <1>1, OasisInvariant, PTL

-----------------------------------------------------------------------------
(***************************************************************************)
(* Registrations end: needs timers that start.                             *)
(***************************************************************************)
LEMMA TimedStep ==
  ASSUME ~TimersFail, TypeOK, Safe, EnrolmentIsTimed, [Next]_vars
  PROVE  EnrolmentIsTimed'
<1> USE DEF EnrolmentIsTimed
<1>1. ASSUME UNCHANGED <<runFlag, timeout>>, armed \ {"rec", "detFace"} \subseteq armed',
             pc \in {"idle", "lpmOff"}, pc' \notin Switches => pc' \in {"idle", "lpmOff"}
      PROVE  EnrolmentIsTimed'
  BY <1>1 DEF Switches
<1>2. ASSUME pc' \in Switches \/ runFlag' \notin {"reg", "dereg"}
      PROVE  EnrolmentIsTimed'
  BY <1>2
<1>3. CASE Event
  <2> USE DEF flags, Input, Begin, Switches
  <2>1. CASE StartRec \/ DelUser
    BY <1>2, <2>1 DEF StartRec, DelUser
  <2>2. CASE StopRec \/ AddUserStop \/ DelUserStop
    BY <1>2, <2>2 DEF StopRec, AddUserStop, DelUserStop, StopModeEvent
  <2>3. CASE AddUser
    BY <1>2, <2>3 DEF AddUser
  <2>4. CASE AddUserRemote
    BY <2>4 DEF AddUserRemote
  <2>5. CASE RecordingStart \/ SetStateStopped
    BY <1>2, <2>5 DEF RecordingStart, SetStateStopped, Block
  <2>6. CASE RecordingStop
    <3>1. CASE prevRunFlag = "stop"
      BY <2>6, <3>1 DEF RecordingStop
    <3>2. CASE OasisStart /\ prevRunFlag # "stop"
      BY <1>2, <3>2 DEF OasisStart
    <3>3. CASE OasisStartFails
      BY <2>6, <3>3 DEF RecordingStop, OasisStartFails
    <3> QED  BY <2>6, <3>1, <3>2, <3>3 DEF RecordingStop
  <2>7. CASE SetStateRunning
    <3>1. runFlag = "stop" /\ prevRunFlag # "stop"
      BY <2>7 DEF SetStateRunning, Safe, RestartPoint
    <3>2. CASE OasisStart
      BY <1>2, <3>1, <3>2 DEF OasisStart
    <3>3. CASE OasisStartFails
      BY <1>2, <3>1, <3>3 DEF OasisStartFails
    <3> QED  BY <2>7, <3>2, <3>3 DEF SetStateRunning
  <2>8. CASE LpmEnable
    <3>1. armed \subseteq armed'
      BY <2>8 DEF LpmEnable, Arm
    <3>2. UNCHANGED <<runFlag, timeout, pc>> /\ pc = "idle"
      BY <2>8 DEF LpmEnable
    <3> QED  BY <1>1, <3>1, <3>2
  <2>9. CASE LpmDisable
    BY <1>1, <2>9 DEF LpmDisable
  <2> QED
    BY <1>3, <2>1, <2>2, <2>3, <2>4, <2>5, <2>6, <2>7, <2>8, <2>9 DEF Event
<1>4. CASE SecondStep
  <2>1. ASSUME NEW mode, NEW timers, StartMode(mode, timers), mode \in timers
        PROVE  EnrolmentIsTimed'
    <3>1. mode \in armed' /\ runFlag' = mode
      BY <2>1, ArmBounds DEF StartMode
    <3> QED  BY <3>1
  <2>2. CASE StartRecognition
    BY <1>2, <2>2 DEF StartRecognition, StartMode
  <2>3. CASE StartRegistration
    BY <2>1, <2>3 DEF StartRegistration
  <2>4. CASE StartDeregistration
    BY <2>1, <2>4 DEF StartDeregistration
  <2>5. CASE OasisStop \/ StopRecognition \/ StopRegistration \/ StopDeregistration
    BY <1>2, <2>5 DEF OasisStop, StopRecognition, StopRegistration,
       StopDeregistration, StopMode
  <2>6. CASE LpmDisableStored
    BY <1>1, <2>6 DEF LpmDisableStored, flags
  <2> QED  BY <1>4, <2>2, <2>3, <2>4, <2>5, <2>6 DEF SecondStep
<1>5. CASE Deliver
  BY <1>5 DEF Deliver, flags, Final
<1>6. CASE Run
  <2>1. CASE RunSkipped
    BY <2>1 DEF RunSkipped, flags, Final
  <2>2. CASE RunBegin
    BY <2>2 DEF RunBegin, flags, Switches
  <2>3. CASE RunInfer
    <3>1. PICK outcome \in Inferred :
            result' = [result EXCEPT !.outcome = CheckTimeout(outcome)]
      BY <2>3 DEF RunInfer
    <3>2. timeout => Final'
      BY <3>1 DEF TypeOK, Results, CheckTimeout, Final, Good
    <3>3. pc = "infer" /\ pc' = "decide" /\ UNCHANGED <<runFlag, armed>>
      BY <2>3 DEF RunInfer, flags
    <3> QED  BY <3>2, <3>3 DEF Switches
  <2>4. CASE RunDecide
    <3>1. CASE Final
      BY <1>2, <2>4, <3>1 DEF RunDecide, Lock
    <3>2. CASE ~Final
      BY <2>4, <3>2 DEF RunDecide, Switches
    <3> QED  BY <3>1, <3>2
  <2> QED  BY <1>6, <2>1, <2>2, <2>3, <2>4 DEF Run
<1>7. ASSUME NEW t \in armed, Callback(t)
      PROVE  EnrolmentIsTimed'
  <2>1. CASE t # "result"
    BY <1>7, <2>1 DEF Callback, ModeTimer
  <2>2. CASE t = "result"
    <3>1. runFlag = "locked"
      BY <2>2 DEF Safe, ResultTimerInPause
    <3> QED
      BY <1>2, <1>7, <2>2, <3>1 DEF Callback, ResultSleeps, ResultStarts
  <2> QED  BY <2>1, <2>2
<1>8. ASSUME NEW t \in Timers, Expire(t)
      PROVE  EnrolmentIsTimed'
  BY <1>7, <1>8 DEF Expire
<1>9. ASSUME NEW t \in Timers, ExpireForgotten(t)
      PROVE  EnrolmentIsTimed'
  <2>1. CASE t \in armed
    BY <1>7, <1>9, <2>1 DEF ExpireForgotten
  <2>2. CASE t \notin armed
    BY <1>9, <2>2 DEF ExpireForgotten, flags, Final
  <2> QED  BY <2>1, <2>2
<1>10. CASE Sleep
  BY <1>2, <1>10 DEF Sleep
<1>11. CASE UNCHANGED vars
  BY <1>11 DEF vars, Final
<1> QED  BY <1>3, <1>4, <1>5, <1>6, <1>8, <1>9, <1>10, <1>11 DEF Next

(* If no timer fails to start, every registration and deregistration that  *)
(* is under way will be ended by its own timer at the latest.              *)
THEOREM EnrolmentsAreTimed ==
  ASSUME ~TimersFail
  PROVE  Spec => []EnrolmentIsTimed
<1>1. Init => EnrolmentIsTimed
  BY DEF Init, EnrolmentIsTimed
<1>2. TypeOK /\ Safe /\ EnrolmentIsTimed /\ [Next]_vars => EnrolmentIsTimed'
  BY TimedStep
<1> QED  BY <1>1, <1>2, OasisInvariant, PTL DEF Spec

-----------------------------------------------------------------------------
(* Whenever the last blocker is released, Oasis runs. *)
THEOREM ReleaseResumes == Spec => ResumesWhenReleased
<1>1. ASSUME Safe, [Next]_vars, blockers # {}, blockers' = {}
      PROVE  runFlag' # "stop"
  <2>1. CASE RecordingStop
    <3>1. runFlag = "stop" /\ pc = "idle" /\ prevRunFlag # "stop"
      BY <1>1, <2>1 DEF RecordingStop, Input, Safe, StopHolds, RestartPoint
    <3>2. OasisStart
      BY <1>1, <2>1, <3>1 DEF RecordingStop, OasisStartFails
    <3> QED  BY <1>1, <3>1, <3>2, SafeOasisStart
  <2>2. CASE SetStateRunning
    <3>1. runFlag = "stop" /\ pc = "idle"
      BY <2>2 DEF SetStateRunning, Input
    <3>2. OasisStart
      BY <1>1, <2>2 DEF SetStateRunning, OasisStartFails
    <3> QED  BY <1>1, <3>1, <3>2, SafeOasisStart
  <2>3. CASE Sleep
    BY <2>3 DEF Sleep
  <2>4. CASE UNCHANGED blockers
    BY <1>1, <2>4
  <2>5. CASE RecordingStart \/ SetStateStopped
    BY <1>1, <2>5 DEF RecordingStart, SetStateStopped, Block
  <2>6. CASE Event
    BY <2>1, <2>2, <2>4, <2>5, <2>6 DEF Event, StartRec, StopRec, AddUser,
       AddUserStop, DelUser, DelUserStop, StopModeEvent, AddUserRemote,
       LpmEnable, LpmDisable
  <2>7. CASE SecondStep
    BY <2>4, <2>7 DEF SecondStep, StartRecognition, StartRegistration,
       StartDeregistration, StartMode, OasisStop, StopRecognition,
       StopRegistration, StopDeregistration, StopMode, LpmDisableStored
  <2>8. CASE Deliver \/ Run
    BY <2>4, <2>8 DEF Deliver, Run, RunSkipped, RunBegin, RunInfer, RunDecide
  <2>9. ASSUME NEW t \in Timers, Expire(t) \/ ExpireForgotten(t)
        PROVE  runFlag' # "stop"
    BY <2>4, <2>9 DEF Expire, ExpireForgotten
  <2> QED
    BY <1>1, <2>3, <2>4, <2>6, <2>7, <2>8, <2>9 DEF Next, vars
<1>2. TypeOK /\ Safe /\ [Next]_vars =>
        [blockers # {} /\ blockers' = {} => runFlag' # "stop"]_vars
  BY <1>1
<1> QED  BY <1>2, OasisInvariant, PTL DEF Spec, ResumesWhenReleased
=============================================================================
