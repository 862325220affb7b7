----------------------------- MODULE LpmManager -----------------------------
(***************************************************************************)
(* The low power manager (src/smart_lock/framework/core/fwk_lpm_manager.c, *)
(* HAL/common/hal_sln_lpm.c) and the parts of its clients that decide when *)
(* the device powers down: the flash file system and the BLE bridge, which *)
(* hold the device awake while they are busy; the push button and the      *)
(* result timer of the face library, which enable sleep; the shell's event *)
(* "lpm disable", which disables it; and the framework managers, which are *)
(* told to shut their devices down 1.5 s before the power goes.            *)
(*                                                                         *)
(* The timer callbacks run in the FreeRTOS timer task, whose priority is   *)
(* the highest, so each is one step; every other step is between two       *)
(* points at which a task can be preempted.                                *)
(***************************************************************************)
EXTENDS Integers, FiniteSets, Sequences

CONSTANTS
  Tasks,       \* tasks that read and write files
  Managers,    \* framework managers, each with a message queue
  QueueLength, \* mainQUEUE_LENGTH
  Prompt,      \* TRUE: 1.5 s is enough for every manager to handle all that
               \* its queue holds and finish the file operation it is in
  Nobody       \* the mutex of the file system is free

ASSUME TasksAssumption == IsFiniteSet(Tasks) /\ Cardinality(Tasks) <= 127
ASSUME LpmOptions == Prompt \in BOOLEAN /\ QueueLength \in Nat \ {0}
ASSUME NobodyAssumption == Nobody \notin Tasks

VARIABLES
  enable,     \* s_LpmManager.enable: "off", or who enabled sleep last
  usage,      \* usageCount of each registered request, an int8_t
  timer,      \* the periodic idle check runs
  preTimer,   \* the pre-enter sleep timer runs
  power,      \* FALSE: the SNVS mode, out of which the device reboots
  flashLock,  \* holder of s_LittlefsHandler.lock
  op,         \* point each task has reached in a file operation
  sleepMode,  \* sleepMode of the stored configuration: sleep after a timeout
  disabling,  \* the handler of "lpm disable" is half way
  queue,      \* messages waiting for each manager
  shut        \* managers that have shut their devices down

vars == <<enable, usage, timer, preTimer, power, flashLock, op, sleepMode,
          disabling, queue, shut>>

lpm    == <<enable, usage, timer, preTimer, power>>
config == <<sleepMode, disabling>>
mail   == <<queue, shut>>

Requests == {"flash", "ble"}
Messages == {"work", "preEnterSleep"}
Queue    == {q \in Seq(Messages) : Len(q) <= QueueLength}

TypeOK ==
  /\ enable \in {"off", "timeout", "button"}
  /\ usage \in [Requests -> -128 .. 127]
  /\ timer \in BOOLEAN /\ preTimer \in BOOLEAN /\ power \in BOOLEAN
  /\ flashLock \in Tasks \cup {Nobody}
  /\ op \in [Tasks -> {"idle", "locked", "busy", "unlocked"}]
  /\ sleepMode \in BOOLEAN /\ disabling \in BOOLEAN
  /\ queue \in [Managers -> Queue]
  /\ shut \subseteq Managers

(* After HAL_LpmDev_Register, the registration of the two requests and the *)
(* start of the tasks.                                                     *)
Init ==
  /\ enable = "off"
  /\ usage = [r \in Requests |-> 0]
  /\ timer = TRUE /\ preTimer = FALSE /\ power = TRUE
  /\ flashLock = Nobody
  /\ op = [t \in Tasks |-> "idle"]
  /\ sleepMode \in BOOLEAN /\ disabling = FALSE
  /\ queue = [m \in Managers |-> <<>>]
  /\ shut = {}

-----------------------------------------------------------------------------
(***************************************************************************)
(* Requests: FWK_LpmManager_RuntimeGet, RuntimePut, RuntimeSet.            *)
(***************************************************************************)
Inc8(n) == IF n = 127 THEN -128 ELSE n + 1
Dec8(n) == IF n = -128 THEN 127 ELSE n - 1

(* Seeded bug: releasing a request clears its count. *)
RuntimePutAll(r) == usage' = [usage EXCEPT ![r] = 0]

RuntimeGet(r)    == usage' = [usage EXCEPT ![r] = Inc8(@)]
RuntimePut(r)    == usage' = [usage EXCEPT ![r] = Dec8(@)]
RuntimeSet(r, n) == usage' = [usage EXCEPT ![r] = n]

(* Seeded bug: one idle request is enough. *)
SomeIdle == \E r \in Requests : usage[r] <= 0

Idle == \A r \in Requests : usage[r] <= 0

(* A file operation: _lock of hal_flash_littlefs.c takes the mutex, then   *)
(* counts; _unlock gives the mutex, then uncounts.                         *)
TakeFlash(t) ==
  /\ power /\ op[t] = "idle" /\ flashLock = Nobody
  /\ flashLock' = t
  /\ op' = [op EXCEPT ![t] = "locked"]
  /\ UNCHANGED <<lpm, config, mail>>

CountFlash(t) ==
  /\ power /\ op[t] = "locked"
  /\ RuntimeGet("flash")
  /\ op' = [op EXCEPT ![t] = "busy"]
  /\ UNCHANGED <<enable, timer, preTimer, power, flashLock, config, mail>>

GiveFlash(t) ==
  /\ power /\ op[t] = "busy"
  /\ flashLock' = Nobody
  /\ op' = [op EXCEPT ![t] = "unlocked"]
  /\ UNCHANGED <<lpm, config, mail>>

(* Seeded bug: _unlock does not release the request. *)
NeverUncount(t) ==
  /\ power /\ op[t] = "unlocked"
  /\ op' = [op EXCEPT ![t] = "idle"]
  /\ UNCHANGED <<lpm, flashLock, config, mail>>

UncountFlash(t) ==
  /\ power /\ op[t] = "unlocked"
  /\ RuntimePut("flash")
  /\ op' = [op EXCEPT ![t] = "idle"]
  /\ UNCHANGED <<enable, timer, preTimer, power, flashLock, config, mail>>

(* The QN9090 reports that a phone connected (1), or that it scans (0). *)
BleStatus ==
  /\ power
  /\ \E n \in {0, 1} : usage["ble"] # n /\ RuntimeSet("ble", n)
  /\ UNCHANGED <<enable, timer, preTimer, power, flashLock, op, config, mail>>

-----------------------------------------------------------------------------
(***************************************************************************)
(* Who enables and disables sleep (FWK_LpmManager_EnableSleepMode).        *)
(***************************************************************************)
EnableSleepMode(status) ==
  /\ enable' = status
  /\ UNCHANGED <<usage, timer, preTimer, power>>

(* A long press of the button. *)
ButtonPressed ==
  /\ power
  /\ EnableSleepMode("button")
  /\ UNCHANGED <<flashLock, op, config, mail>>

(* _oasis_timer_result, 2 s after the result of a recognition.  It asks    *)
(* FWK_LpmManager_RequestStatus for the sum of the usage counts.           *)
ResultTimer ==
  /\ power
  /\ sleepMode
  /\ usage["flash"] + usage["ble"] = 0
  /\ EnableSleepMode("timeout")
  /\ UNCHANGED <<flashLock, op, config, mail>>

(* kEventID_SetLPMTrigger in the vision algorithm task. *)
LpmEnable ==
  /\ power /\ ~disabling
  /\ sleepMode' = TRUE
  /\ UNCHANGED <<lpm, flashLock, op, disabling, mail>>

LpmDisable ==
  /\ power /\ ~disabling
  /\ EnableSleepMode("off")
  /\ disabling' = TRUE
  /\ UNCHANGED <<flashLock, op, sleepMode, mail>>

LpmDisableStored ==
  /\ power /\ disabling
  /\ sleepMode' = FALSE
  /\ disabling' = FALSE
  /\ UNCHANGED <<lpm, flashLock, op, mail>>

-----------------------------------------------------------------------------
(***************************************************************************)
(* Going to sleep.                                                         *)
(***************************************************************************)

(* Seeded bug: the length of the queue is not looked at. *)
PutAnyway(q, msg) == Append(q, msg)

(* FWK_Message_Put waits for no room: the message is lost when the queue   *)
(* is full.                                                                *)
Put(q, msg) == IF Len(q) < QueueLength THEN Append(q, msg) ELSE q

(* Seeded bug: the idle check is not stopped. *)
TimerGoesOn ==
  /\ power /\ timer
  /\ enable # "off"
  /\ Idle
  /\ preTimer' = TRUE
  /\ queue' = [m \in Managers |-> Put(queue[m], "preEnterSleep")]
  /\ UNCHANGED <<enable, usage, timer, power, flashLock, op, config, shut>>

(* FWK_LpmManager_TimerCallback and _FWK_LpmManager_PreEnterSleep. *)
TimerCallback ==
  /\ power /\ timer
  /\ enable # "off"
  /\ Idle
  /\ timer' = FALSE
  /\ preTimer' = TRUE
  /\ queue' = [m \in Managers |-> Put(queue[m], "preEnterSleep")]
  /\ UNCHANGED <<enable, usage, power, flashLock, op, config, shut>>

Finished(m) == queue[m] = <<>> /\ (m \in Tasks => op[m] = "idle")

(* _FWK_LpmManager_PreEnterSleepTimerCallback: nothing is checked again. *)
PreEnterSleepTimerCallback ==
  /\ power /\ preTimer
  /\ Prompt => \A m \in Managers : Finished(m)
  /\ power' = FALSE
  /\ UNCHANGED <<enable, usage, timer, preTimer, flashLock, op, config, mail>>

(* The wake-up pin restarts the device; the stored configuration survives. *)
WakeUp ==
  /\ ~power
  /\ enable' = "off"
  /\ usage' = [r \in Requests |-> 0]
  /\ timer' = TRUE /\ preTimer' = FALSE /\ power' = TRUE
  /\ flashLock' = Nobody
  /\ op' = [t \in Tasks |-> "idle"]
  /\ disabling' = FALSE
  /\ queue' = [m \in Managers |-> <<>>]
  /\ shut' = {}
  /\ UNCHANGED sleepMode

-----------------------------------------------------------------------------
(***************************************************************************)
(* The managers' tasks.                                                    *)
(***************************************************************************)
Post(m) ==
  /\ power
  /\ queue' = [queue EXCEPT ![m] = Put(@, "work")]
  /\ UNCHANGED <<lpm, flashLock, op, config, shut>>

MessageHandle(m) ==
  /\ power /\ queue[m] # <<>>
  /\ queue' = [queue EXCEPT ![m] = Tail(@)]
  /\ shut' = IF Head(queue[m]) = "preEnterSleep" THEN shut \cup {m} ELSE shut
  /\ UNCHANGED <<lpm, flashLock, op, config>>

FileOperation(t) == CountFlash(t) \/ GiveFlash(t) \/ UncountFlash(t)
Sleep == TimerCallback \/ PreEnterSleepTimerCallback

Next ==
  \/ \E t \in Tasks : TakeFlash(t) \/ FileOperation(t)
  \/ BleStatus
  \/ ButtonPressed \/ ResultTimer \/ LpmEnable \/ LpmDisable \/ LpmDisableStored
  \/ Sleep \/ WakeUp
  \/ \E m \in Managers : Post(m) \/ MessageHandle(m)

Spec == Init /\ [][Next]_vars

(* The timers expire, and a task in a file operation gets the processor. *)
FairSpec ==
  /\ Spec
  /\ WF_vars(TimerCallback) /\ WF_vars(PreEnterSleepTimerCallback)
  /\ \A t \in Tasks : WF_vars(FileOperation(t))

-----------------------------------------------------------------------------
(***************************************************************************)
(* Properties.                                                             *)
(***************************************************************************)
Counted == {t \in Tasks : op[t] \in {"busy", "unlocked"}}
InFile  == {t \in Tasks : op[t] \in {"locked", "busy"}}

(* The usage count of the file system is the number of tasks between       *)
(* their RuntimeGet and RuntimePut: although the count outlives the mutex, *)
(* so that one task may uncount while another is at work, it never drops   *)
(* to zero under a task that has counted itself.                           *)
UsageCounts == usage["flash"] = Cardinality(Counted)

(* The mutex excludes: the file system is entered by its holder only. *)
OneInFile == \A t \in InFile : flashLock = t

(* The decision to sleep is never taken in the middle of a counted file    *)
(* operation, with a phone connected, or with sleep disabled.              *)
DecidesWhenIdle ==
  [][preTimer' /\ ~preTimer =>
       Counted = {} /\ usage["ble"] = 0 /\ enable # "off"]_vars

(* A manager is told at most once to shut down before each sleep: the      *)
(* second time it would close devices that are closed, and the face        *)
(* database would wait for a mutex that its first save keeps.              *)
ToldOnce ==
  \A m \in Managers :
    LET waiting == {i \in 1 .. Len(queue[m]) : queue[m][i] = "preEnterSleep"}
    IN  Cardinality(waiting) + (IF m \in shut THEN 1 ELSE 0) <= 1

(* A device that is left alone with sleep enabled does not stay awake.     *)
FallsAsleep ==
  ~ (/\ <>[](power /\ enable # "off" /\ usage["ble"] = 0)
     /\ <>[][~ \E t \in Tasks : TakeFlash(t)]_vars)

(* docs/framework/hal-devices/low-power.md: sleep is not entered before    *)
(* all devices are ready.                                                  *)
SleepsWhenIdle == ~power => Idle

(* The same page: components are shut down before sleeping. *)
ShutDownFirst == ~power => shut = Managers

(* fwk_lpm_manager.h: EnableSleepMode(SleepDisable) sets sleep mode off. *)
DisabledStaysAwake == ~power => enable # "off"

(* The shell's help: "lpm disable" disables low power based on timeout.    *)
TimeoutDisabled == ~sleepMode /\ ~disabling => enable # "timeout"
=============================================================================
