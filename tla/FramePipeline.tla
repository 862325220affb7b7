---------------------------- MODULE FramePipeline ----------------------------
(***************************************************************************)
(* How frames travel through src/smart_lock/framework/core: the displays   *)
(* and the vision algorithm request them from the camera manager           *)
(* (fwk_camera_manager.c), which keeps one pending request per display and *)
(* per kind of frame, fills the requested buffers from every camera frame  *)
(* of the right format and answers; fwk_display_manager.c shows the answer *)
(* and asks again, fwk_vision_algo_manager.c waits until it has every kind *)
(* of frame, runs the algorithm and asks again.  All messages go through   *)
(* bounded queues that drop what does not fit (fwk_message.c).             *)
(*                                                                         *)
(* A panel is a display driven by interrupts, with two frame buffers       *)
(* (HAL/common/hal_display_lcdif_rk024hh298.c); a screen is one whose blit *)
(* operator returns when the frame is sent.  The camera is a CSI camera,   *)
(* whose driver (drivers/fsl_csi.c) fills a ring of buffers.               *)
(***************************************************************************)
EXTENDS Integers, FiniteSets, Sequences, SequencesExt

CONSTANTS
  Panels, Screens, \* the displays
  Frames,          \* the kinds of frame the algorithm supports
  Formats,         \* pixel formats the camera delivers, in any order
  Source,          \* the format each display (at first) and frame asks for
  BufferCount,     \* CAMERA_DEV_BUFFER_COUNT
  QueueLength,     \* mainQUEUE_LENGTH
  MaxOthers,       \* bound: other messages waiting in the camera's queue
  MaxRestarts,     \* bound: times the algorithm is stopped and started
  MaxChanges,      \* bound: times the user changes what a panel shows
  Interruptible,   \* the panel's interrupt may come in the middle of a blit
  None             \* no frame buffer, no request, no slot

Displays == Panels \cup Screens
Slots    == Displays \cup Frames
Buffers  == {0, 1}

(* The managers keep displays and kinds of frame in arrays of their own.   *)
ASSUME SlotsAssumption ==
  /\ IsFiniteSet(Slots)
  /\ Panels \cap Screens = {} /\ Displays \cap Frames = {}
ASSUME SourceAssumption == Source \in [Slots -> Formats]
ASSUME BufferAssumption == BufferCount \in Nat \ {0, 1} /\ QueueLength \in Nat \ {0}
ASSUME BoundAssumption  ==
  MaxOthers \in Nat /\ MaxRestarts \in Nat /\ MaxChanges \in Nat

VARIABLES
  cameraQ, displayQ, algoQ, \* the managers' queues, of pointers to messages
  requestMsg,   \* displayRequestMsgs: the one message of each display
  responseMsg,  \* displayResponseMsg: data of the answer to each display
  pending,      \* displayRequestFrameInfo and vAlgoRequestFrameInfo
  filled,       \* frames in the CSI driver's queue of full buffers
  active,       \* buffers the CSI is writing to
  serving,      \* format of the frame the camera manager is handing out
  drawing,      \* slot whose buffer gfx_blit is writing
  ready,        \* frameReady
  running,      \* run_flag # OASIS_RUN_FLAG_STOP
  inferring,    \* the algorithm runs
  restarts,     \* stops so far
  source,       \* cap.srcFormat of each display
  changes,      \* changes of it so far
  blit,         \* how far a panel's blit operator has come
  newBuffer,    \* s_NewBufferSet
  current,      \* s_pCurrentFrameBuffer
  next, scanned \* buffer the panel shows next, and shows

queues == <<cameraQ, displayQ, algoQ>>
csi    == <<filled, active>>
camera == <<pending, serving, drawing>>
algo   == <<ready, running, inferring, restarts>>
panel  == <<source, changes, blit, newBuffer, current, next, scanned>>
msgs   == <<requestMsg, responseMsg>>
vars   == <<queues, csi, camera, algo, panel, msgs>>

Request == [buffer : Buffers, source : Formats]
Message == [id : {"request", "answer"}, slot : Slots]
             \cup [id : {"dequeue", "other", "stop", "start", "source"}, slot : {None}]
Msg(id)  == [id |-> id, slot |-> None]
RequestFor(s) == [id |-> "request", slot |-> s]
AnswerTo(s)   == [id |-> "answer", slot |-> s]

ASSUME NoneAssumption ==
  None \notin Slots \cup Buffers /\ None \notin Formats /\ None \notin Request

TypeOK ==
  /\ \A q \in {cameraQ, displayQ, algoQ} :
       q \in Seq(Message) /\ Len(q) <= QueueLength
  /\ requestMsg \in [Displays -> Request]
  /\ responseMsg \in [Displays -> Buffers]
  /\ pending \in [Slots -> Request \cup {None}]
  /\ filled \in 0 .. BufferCount /\ active \in 1 .. 2
  /\ serving \in Formats \cup {None} /\ drawing \in Slots \cup {None}
  /\ ready \subseteq Frames /\ running \in BOOLEAN /\ inferring \in BOOLEAN
  /\ restarts \in 0 .. MaxRestarts
  /\ source \in [Displays -> Formats] /\ changes \in 0 .. MaxChanges
  /\ blit \in [Panels -> 0 .. 2]
  /\ newBuffer \in [Panels -> BOOLEAN]
  /\ current \in [Panels -> Buffers \cup {None}]
  /\ next \in [Panels -> Buffers] /\ scanned \in [Panels -> Buffers]

(* FWK_Message_Put, FWK_Message_PutFromIsr: a full queue drops the message.*)
Put(q, m) == IF Len(q) < QueueLength THEN Append(q, m) ELSE q

(* A request for each of the slots, put one after the other.               *)
Ask(q, slots) ==
  LET order == SetToSeq(slots)
      asked == q \o [i \in 1 .. Cardinality(slots) |-> RequestFor(order[i])]
  IN  IF Len(asked) <= QueueLength THEN asked ELSE SubSeq(asked, 1, QueueLength)

Waiting(q, id) == Cardinality({i \in DOMAIN q : q[i].id = id})

(* The managers' task inits: every display and every kind of frame has     *)
(* been requested once, the panel shows buffer 0 and offers buffer 1.      *)
Init ==
  /\ cameraQ = Ask(<<>>, Slots) /\ displayQ = <<>> /\ algoQ = <<>>
  /\ requestMsg = [d \in Displays |-> [buffer |-> 1, source |-> Source[d]]]
  /\ responseMsg = [d \in Displays |-> 0]
  /\ pending = [s \in Slots |-> None]
  /\ filled = 0 /\ active = 2
  /\ serving = None /\ drawing = None
  /\ ready = {} /\ running = TRUE /\ inferring = FALSE /\ restarts = 0
  /\ source = [d \in Displays |-> Source[d]] /\ changes = 0
  /\ blit = [d \in Panels |-> 0]
  /\ newBuffer = [d \in Panels |-> FALSE]
  /\ current = [d \in Panels |-> None]
  /\ next = [d \in Panels |-> 0] /\ scanned = [d \in Panels |-> 0]

-----------------------------------------------------------------------------
(***************************************************************************)
(* The camera.                                                             *)
(***************************************************************************)
Empty == BufferCount - filled - active - (IF serving = None THEN 0 ELSE 1)

(* Seeded bugs: the last active buffer is given away, or a frame that was  *)
(* not queued is announced.                                                *)
CaptureLast ==
  /\ active > 0 /\ filled < BufferCount
  /\ filled' = filled + 1
  /\ active' = active - 1
  /\ cameraQ' = Put(cameraQ, Msg("dequeue"))
  /\ UNCHANGED <<displayQ, algoQ, camera, algo, panel, msgs>>
AnnounceAlways ==
  LET captured == IF active = 2 THEN 1 ELSE 0
      refilled == IF active - captured < 2 /\ Empty > 0 THEN 1 ELSE 0
  IN  /\ filled' = filled + captured
      /\ active' = active - captured + refilled
      /\ cameraQ' = Put(cameraQ, Msg("dequeue"))
      /\ UNCHANGED <<displayQ, algoQ, camera, algo, panel, msgs>>

(* CSI_TransferHandleIRQ: the frame just captured is queued and announced  *)
(* only while two buffers are active; then an empty buffer takes its place.*)
CaptureFrame ==
  LET captured == IF active = 2 THEN 1 ELSE 0
      refilled == IF active - captured < 2 /\ Empty > 0 THEN 1 ELSE 0
  IN  /\ captured + refilled > 0
      /\ filled' = filled + captured
      /\ active' = active - captured + refilled
      /\ cameraQ' = IF captured = 1 THEN Put(cameraQ, Msg("dequeue")) ELSE cameraQ
      /\ UNCHANGED <<displayQ, algoQ, camera, algo, panel, msgs>>

Receive(id) == serving = None /\ cameraQ # <<>> /\ Head(cameraQ).id = id

(* kFWKMessageID_DisplayRequestFrame, kFWKMessageID_VAlgoRequestFrame: a   *)
(* request is ignored while an earlier one of the same slot is pending.    *)
TakeRequest ==
  /\ Receive("request")
  /\ LET s == Head(cameraQ).slot
         request == IF s \in Displays THEN requestMsg[s]
                    ELSE [buffer |-> 0, source |-> Source[s]]
     IN  pending' = IF pending[s] = None
                    THEN [pending EXCEPT ![s] = request] ELSE pending
  /\ cameraQ' = Tail(cameraQ)
  /\ UNCHANGED <<displayQ, algoQ, csi, serving, drawing, algo, panel, msgs>>

(* kFWKMessageID_CameraDequeue: takes a full buffer from the driver ...    *)
Dequeue(format) ==
  /\ Receive("dequeue")
  /\ filled > 0
  /\ filled' = filled - 1
  /\ serving' = format
  /\ cameraQ' = Tail(cameraQ)
  /\ UNCHANGED <<displayQ, algoQ, active, pending, drawing, algo, panel, msgs>>

Matches(s) == serving # None /\ pending[s] # None /\ pending[s].source = serving

(* ... converts it into the buffer of every pending request it matches ... *)
Draw(s) ==
  /\ drawing = None /\ Matches(s)
  /\ drawing' = s
  /\ UNCHANGED <<queues, csi, pending, serving, algo, panel, msgs>>

(* ... sends the answer and clears the request ...                         *)
Answer(s) ==
  /\ drawing = s
  /\ IF s \in Displays
     THEN /\ responseMsg' = [responseMsg EXCEPT ![s] = pending[s].buffer]
          /\ displayQ' = Put(displayQ, AnswerTo(s))
          /\ UNCHANGED algoQ
     ELSE /\ algoQ' = Put(algoQ, AnswerTo(s))
          /\ UNCHANGED <<responseMsg, displayQ>>
  /\ pending' = [pending EXCEPT ![s] = None]
  /\ drawing' = None
  /\ UNCHANGED <<cameraQ, csi, serving, algo, panel, requestMsg>>

(* ... and gives the buffer back to the driver.                            *)
Enqueue ==
  /\ serving # None /\ drawing = None
  /\ \A s \in Slots : ~Matches(s)
  /\ serving' = None
  /\ UNCHANGED <<queues, csi, pending, drawing, algo, panel, msgs>>

(* kFWKMessageID_InputNotify and the other messages change no frame state. *)
TakeOther ==
  /\ Receive("other")
  /\ cameraQ' = Tail(cameraQ)
  /\ UNCHANGED <<displayQ, algoQ, csi, camera, algo, panel, msgs>>

PostOther ==
  /\ Waiting(cameraQ, "other") < MaxOthers
  /\ cameraQ' = Put(cameraQ, Msg("other"))
  /\ UNCHANGED <<displayQ, algoQ, csi, camera, algo, panel, msgs>>

-----------------------------------------------------------------------------
(***************************************************************************)
(* The vision algorithm manager.                                           *)
(***************************************************************************)
Event(id) == ~inferring /\ algoQ # <<>> /\ Head(algoQ).id = id

(* Seeded bug: the next frame is requested before the algorithm has run.   *)
FrameReadyAsks ==
  /\ Event("answer")
  /\ algoQ' = Tail(algoQ)
  /\ ready' = ready \cup {Head(algoQ).slot}
  /\ inferring' = (ready' = Frames)
  /\ cameraQ' = Put(cameraQ, RequestFor(Head(algoQ).slot))
  /\ UNCHANGED <<displayQ, csi, camera, running, restarts, panel, msgs>>

(* kFWKMessageID_VAlgoResponseFrame: run once every kind of frame is there.*)
FrameReady ==
  /\ Event("answer")
  /\ algoQ' = Tail(algoQ)
  /\ ready' = ready \cup {Head(algoQ).slot}
  /\ inferring' = (ready' = Frames)
  /\ UNCHANGED <<cameraQ, displayQ, csi, camera, running, restarts, panel, msgs>>

(* Seeded bug: no new frames are requested.                                *)
RunReturnsSilently ==
  /\ inferring
  /\ inferring' = FALSE
  /\ ready' = {}
  /\ UNCHANGED <<queues, csi, camera, running, restarts, panel, msgs>>

(* The algorithm is done: ask for new frames unless it has been stopped.   *)
RunReturns ==
  /\ inferring
  /\ inferring' = FALSE
  /\ ready' = {}
  /\ cameraQ' = IF running THEN Ask(cameraQ, Frames) ELSE cameraQ
  /\ UNCHANGED <<displayQ, algoQ, csi, camera, running, restarts, panel, msgs>>

(* The user stops and starts the algorithm (kEventFaceRecID_OasisSetState).*)
PostStop ==
  /\ restarts < MaxRestarts
  /\ restarts' = restarts + 1
  /\ algoQ' = Put(algoQ, Msg("stop"))
  /\ UNCHANGED <<cameraQ, displayQ, csi, camera, ready, running, inferring, panel, msgs>>

PostStart ==
  /\ restarts > 0 /\ Waiting(algoQ, "start") = 0
  /\ algoQ' = Put(algoQ, Msg("start"))
  /\ UNCHANGED <<cameraQ, displayQ, csi, camera, algo, panel, msgs>>

OasisStop ==
  /\ Event("stop")
  /\ algoQ' = Tail(algoQ)
  /\ running' = FALSE
  /\ UNCHANGED <<cameraQ, displayQ, csi, camera, ready, inferring, restarts, panel, msgs>>

(* _oasis_start requests frames whatever is still on its way; it is called *)
(* only when the algorithm is stopped.                                     *)
OasisStart ==
  /\ Event("start")
  /\ algoQ' = Tail(algoQ)
  /\ running' = TRUE
  /\ cameraQ' = IF running THEN cameraQ ELSE Ask(cameraQ, Frames)
  /\ UNCHANGED <<displayQ, csi, camera, ready, inferring, restarts, panel, msgs>>

-----------------------------------------------------------------------------
(***************************************************************************)
(* The display manager.                                                    *)
(***************************************************************************)
Shows(d) == displayQ # <<>> /\ Head(displayQ) = AnswerTo(d)

(* A screen's blit returns kStatus_HAL_DisplaySuccess, and the manager     *)
(* asks again.                                                             *)
BlitScreen(d) ==
  /\ d \in Screens /\ Shows(d)
  /\ displayQ' = Tail(displayQ)
  /\ cameraQ' = Put(cameraQ, RequestFor(d))
  /\ UNCHANGED <<algoQ, csi, camera, algo, panel, msgs>>

(* Seeded bug: the interrupt is not told of the new buffer.                *)
BlitLeavesFlag(d) ==
  /\ Shows(d) /\ blit[d] = 0
  /\ blit' = [blit EXCEPT ![d] = 1]
  /\ UNCHANGED <<queues, csi, camera, algo, source, changes, newBuffer, current,
                 next, scanned, msgs>>

(* A panel's blit returns kStatus_HAL_DisplayNonBlocking: it announces the *)
(* buffer in three stores and leaves it to the interrupt to ask again.     *)
BlitSetsFlag(d) ==
  /\ Shows(d) /\ blit[d] = 0
  /\ newBuffer' = [newBuffer EXCEPT ![d] = TRUE]
  /\ blit' = [blit EXCEPT ![d] = 1]
  /\ UNCHANGED <<queues, csi, camera, algo, source, changes, current, next, scanned, msgs>>

BlitSetsCurrent(d) ==
  /\ blit[d] = 1
  /\ current' = [current EXCEPT ![d] = responseMsg[d]]
  /\ blit' = [blit EXCEPT ![d] = 2]
  /\ UNCHANGED <<queues, csi, camera, algo, source, changes, newBuffer, next, scanned, msgs>>

BlitSetsNext(d) ==
  /\ blit[d] = 2
  /\ next' = [next EXCEPT ![d] = responseMsg[d]]
  /\ blit' = [blit EXCEPT ![d] = 0]
  /\ displayQ' = Tail(displayQ)
  /\ UNCHANGED <<cameraQ, algoQ, csi, camera, algo, msgs>>
  /\ UNCHANGED <<source, changes, newBuffer, current, scanned>>

(* Seeded bug: the buffer just set is requested instead of the other one.  *)
PanelAsksCurrent(d) ==
  /\ Interruptible \/ blit[d] = 0
  /\ scanned' = [scanned EXCEPT ![d] = next[d]]
  /\ newBuffer' = [newBuffer EXCEPT ![d] = FALSE]
  /\ IF newBuffer[d] /\ current[d] # None
     THEN /\ requestMsg' = [requestMsg EXCEPT ![d] =
                              [buffer |-> current[d], source |-> source[d]]]
          /\ cameraQ' = Put(cameraQ, RequestFor(d))
     ELSE UNCHANGED <<requestMsg, cameraQ>>
  /\ UNCHANGED <<displayQ, algoQ, csi, camera, algo, responseMsg>>
  /\ UNCHANGED <<source, changes, blit, current, next>>

(* The panel has shown a frame and goes on with the next buffer;           *)
(* DISPLAY_LCDIF_IRQHandler asks for a frame in the other one.             *)
PanelFrameDone(d) ==
  /\ Interruptible \/ blit[d] = 0
  /\ scanned' = [scanned EXCEPT ![d] = next[d]]
  /\ newBuffer' = [newBuffer EXCEPT ![d] = FALSE]
  /\ IF newBuffer[d] /\ current[d] # None
     THEN /\ requestMsg' = [requestMsg EXCEPT ![d] =
                              [buffer |-> 1 - current[d], source |-> source[d]]]
          /\ cameraQ' = Put(cameraQ, RequestFor(d))
     ELSE UNCHANGED <<requestMsg, cameraQ>>
  /\ UNCHANGED <<displayQ, algoQ, csi, camera, algo, responseMsg>>
  /\ UNCHANGED <<source, changes, blit, current, next>>

(* kEventID_SetDisplayOutputSource, which pretends that a buffer was set.  *)
PostSource ==
  /\ changes < MaxChanges
  /\ changes' = changes + 1
  /\ displayQ' = Put(displayQ, Msg("source"))
  /\ UNCHANGED <<cameraQ, algoQ, csi, camera, algo, msgs>>
  /\ UNCHANGED <<source, blit, newBuffer, current, next, scanned>>

SetSource(d) ==
  /\ d \in Panels /\ displayQ # <<>> /\ Head(displayQ).id = "source"
  /\ displayQ' = Tail(displayQ)
  /\ \E format \in Formats : source' = [source EXCEPT ![d] = format]
  /\ newBuffer' = [newBuffer EXCEPT ![d] = TRUE]
  /\ UNCHANGED <<cameraQ, algoQ, csi, camera, algo, msgs>>
  /\ UNCHANGED <<changes, blit, current, next, scanned>>

-----------------------------------------------------------------------------
Hand == (\E s \in Slots : Draw(s) \/ Answer(s)) \/ Enqueue
CameraManager == TakeRequest \/ TakeOther \/ Hand
AlgoManager   == FrameReady \/ RunReturns \/ OasisStop \/ OasisStart
DisplayManager(d) ==
  \/ BlitScreen(d)
  \/ d \in Panels /\ (BlitSetsFlag(d) \/ BlitSetsCurrent(d) \/ BlitSetsNext(d))
  \/ SetSource(d)
User == PostOther \/ PostStop \/ PostStart \/ PostSource

Next ==
  \/ CaptureFrame
  \/ CameraManager \/ \E format \in Formats : Dequeue(format)
  \/ AlgoManager
  \/ \E d \in Displays : DisplayManager(d)
  \/ \E d \in Panels : PanelFrameDone(d)
  \/ User

Spec == Init /\ [][Next]_vars

(* The hardware keeps capturing and scanning, every task that has a message *)
(* runs, and the camera delivers each format again and again.               *)
FairSpec ==
  /\ Spec
  /\ WF_vars(CaptureFrame) /\ WF_vars(CameraManager) /\ WF_vars(AlgoManager)
  /\ \A format \in Formats : SF_vars(Dequeue(format))
  /\ \A d \in Displays : WF_vars(DisplayManager(d))
  /\ \A d \in Panels : WF_vars(PanelFrameDone(d))

-----------------------------------------------------------------------------
(***************************************************************************)
(* Properties.                                                             *)
(***************************************************************************)
Answered(s) == AnswerTo(s) \in ToSet(displayQ) \cup ToSet(algoQ)

(* Every frame in the driver's queue is announced by one message: were one *)
(* lost, its buffer would never come back to the driver, and after         *)
(* BufferCount - 1 losses the camera would stop for good.                  *)
EveryFrameAnnounced == Waiting(cameraQ, "dequeue") = filled

(* The camera manager never writes to a frame that the algorithm already   *)
(* counts as its own, in particular not while the algorithm runs.          *)
FrameNotTorn == drawing \in Frames => drawing \notin ready

(* The camera manager never writes to a buffer that the panel shows or is  *)
(* told to show next.                                                      *)
PanelNotTorn ==
  drawing \in Panels => pending[drawing].buffer \notin {scanned[drawing], next[drawing]}

(* No frame is written while somebody reads it.                            *)
NotTorn == FrameNotTorn /\ PanelNotTorn

(* The algorithm is run on and on while it is not stopped, and the panel   *)
(* and the screen get frames.                                              *)
AlgorithmRuns == []<>(inferring \/ ~running)
DisplaysShow  == \A d \in Displays : []<>Answered(d)
=============================================================================
