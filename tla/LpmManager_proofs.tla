-------------------------- MODULE LpmManager_proofs --------------------------
(***************************************************************************)
(* Proofs about the low power manager: for any number of tasks up to 127,  *)
(* any managers and any queue length, the usage count of the file system   *)
(* is the number of tasks that have counted themselves, the file system's  *)
(* mutex excludes, the decision to sleep is taken only when nobody is      *)
(* counted, and a manager is told at most once to shut down.               *)
(***************************************************************************)
EXTENDS LpmManager, FiniteSetTheorems, TLAPS

(* Sets of tasks are finite and no larger than an int8_t can count. *)
LEMMA TasksFinite ==
  ASSUME NEW S, S \subseteq Tasks
  PROVE  IsFiniteSet(S) /\ Cardinality(S) \in 0 .. 127
<1>1. IsFiniteSet(S) /\ Cardinality(S) <= Cardinality(Tasks)
  BY TasksAssumption, FS_Subset
<1>2. Cardinality(S) \in Nat /\ Cardinality(Tasks) \in Nat
  BY <1>1, TasksAssumption, FS_CardinalityType
<1>3. QED
  BY <1>1, <1>2, TasksAssumption

(* Queues never exceed their length: an empty one is a queue, and sending  *)
(* or handling a message leaves a queue.                                   *)
LEMMA EmptyQueue == <<>> \in Queue
BY LpmOptions DEF Queue

(* A message put on a queue leaves queues. *)
LEMMA PutType ==
  ASSUME NEW q \in Queue, NEW msg \in Messages
  PROVE  Put(q, msg) \in Queue
BY LpmOptions DEF Put, Queue

(* A message taken from a queue leaves a queue. *)
LEMMA TailType ==
  ASSUME NEW q \in Queue, q # <<>>
  PROVE  Tail(q) \in Queue
BY LpmOptions DEF Queue

(* The int8_t counts stay in range, whatever happens to them. *)
LEMMA Int8 ==
  ASSUME NEW n \in -128 .. 127
  PROVE  Inc8(n) \in -128 .. 127 /\ Dec8(n) \in -128 .. 127
BY DEF Inc8, Dec8

(* Every step keeps the types. *)
LEMMA TypeStep == TypeOK /\ [Next]_vars => TypeOK'
<1> SUFFICES ASSUME TypeOK, [Next]_vars PROVE TypeOK'
  OBVIOUS
<1> USE DEF TypeOK, lpm, config, mail
<1>1. ASSUME NEW t \in Tasks, TakeFlash(t) PROVE TypeOK'
  BY <1>1 DEF TakeFlash
<1>2. ASSUME NEW t \in Tasks, CountFlash(t) PROVE TypeOK'
  BY <1>2, Int8 DEF CountFlash, RuntimeGet, Requests
<1>3. ASSUME NEW t \in Tasks, GiveFlash(t) PROVE TypeOK'
  BY <1>3 DEF GiveFlash
<1>4. ASSUME NEW t \in Tasks, UncountFlash(t) PROVE TypeOK'
  BY <1>4, Int8 DEF UncountFlash, RuntimePut, Requests
<1>5. CASE BleStatus
  <2>1. PICK n \in {0, 1} : usage' = [usage EXCEPT !["ble"] = n]
    BY <1>5 DEF BleStatus, RuntimeSet
  <2>2. n \in -128 .. 127
    OBVIOUS
  <2>3. usage' \in [Requests -> -128 .. 127]
    BY <2>1, <2>2 DEF Requests
  <2>4. QED
    BY <1>5, <2>3 DEF BleStatus
<1>6. CASE ButtonPressed
  BY <1>6 DEF ButtonPressed, EnableSleepMode
<1>7. CASE ResultTimer
  BY <1>7 DEF ResultTimer, EnableSleepMode
<1>8. CASE LpmEnable
  BY <1>8 DEF LpmEnable
<1>9. CASE LpmDisable
  BY <1>9 DEF LpmDisable, EnableSleepMode
<1>10. CASE LpmDisableStored
  BY <1>10 DEF LpmDisableStored
<1>11. CASE TimerCallback
  <2>1. queue' \in [Managers -> Queue]
    BY <1>11, PutType DEF TimerCallback, Messages
  <2>2. QED
    BY <1>11, <2>1 DEF TimerCallback
<1>12. CASE PreEnterSleepTimerCallback
  BY <1>12 DEF PreEnterSleepTimerCallback
<1>13. CASE WakeUp
  <2>1. usage' \in [Requests -> -128 .. 127]
    BY <1>13 DEF WakeUp, Requests
  <2>2. queue' \in [Managers -> Queue] /\ shut' \subseteq Managers
    BY <1>13, EmptyQueue DEF WakeUp
  <2>3. op' \in [Tasks -> {"idle", "locked", "busy", "unlocked"}]
    BY <1>13 DEF WakeUp
  <2>4. flashLock' \in Tasks \cup {Nobody} /\ enable' \in {"off", "timeout", "button"}
    BY <1>13 DEF WakeUp
  <2>5. QED
    BY <1>13, <2>1, <2>2, <2>3, <2>4 DEF WakeUp
<1>14. ASSUME NEW m \in Managers, Post(m) PROVE TypeOK'
  <2>1. queue' \in [Managers -> Queue]
    BY <1>14, PutType DEF Post, Messages
  <2>2. QED
    BY <1>14, <2>1 DEF Post
<1>15. ASSUME NEW m \in Managers, MessageHandle(m) PROVE TypeOK'
  <2>1. queue' \in [Managers -> Queue]
    <3>1. Tail(queue[m]) \in Queue
      BY <1>15, TailType DEF MessageHandle
    <3>2. QED
      BY <1>15, <3>1 DEF MessageHandle
  <2>2. QED
    BY <1>15, <2>1 DEF MessageHandle
<1>16. CASE UNCHANGED vars
  BY <1>16 DEF vars
<1>17. QED
  BY <1>1, <1>2, <1>3, <1>4, <1>5, <1>6, <1>7, <1>8, <1>9, <1>10, <1>11, <1>12,
     <1>13, <1>14, <1>15, <1>16 DEF Next, FileOperation, Sleep

(* The variables of the low power manager keep their types. *)
THEOREM LpmTypeCorrect == Spec => []TypeOK
<1>1. ASSUME Init PROVE TypeOK
  <2>1. usage \in [Requests -> -128 .. 127]
    BY <1>1 DEF Init, Requests
  <2>2. queue \in [Managers -> Queue]
    BY <1>1, EmptyQueue DEF Init
  <2>3. op \in [Tasks -> {"idle", "locked", "busy", "unlocked"}]
    BY <1>1 DEF Init
  <2>4. QED
    BY <1>1, <2>1, <2>2, <2>3 DEF Init, TypeOK
<1>2. QED
  BY <1>1, TypeStep, PTL DEF Spec

(***************************************************************************)
(* The counts.  BLE's count is 0 or 1: it is only ever set, never added to.*)
(***************************************************************************)
UsageInv == UsageCounts /\ usage["ble"] \in {0, 1} /\ OneInFile

(* What UsageInv reads. *)
LEMMA SameUsage ==
  ASSUME UsageInv, UNCHANGED <<usage, op, flashLock>>
  PROVE  UsageInv'
BY DEF UsageInv, UsageCounts, OneInFile, Counted, InFile

(* Every step keeps the counts right. *)
LEMMA UsageStep == TypeOK /\ UsageInv /\ [Next]_vars => UsageInv'
<1> SUFFICES ASSUME TypeOK, UsageInv, [Next]_vars PROVE UsageInv'
  OBVIOUS
<1> USE DEF lpm, config, mail
<1>1. ASSUME NEW t \in Tasks, TakeFlash(t) PROVE UsageInv'
  <2>1. Counted' = Counted
    BY <1>1 DEF TakeFlash, Counted, TypeOK
  <2>2. OneInFile'
    BY <1>1, NobodyAssumption DEF TakeFlash, UsageInv, OneInFile, InFile, TypeOK
  <2>3. QED
    BY <1>1, <2>1, <2>2 DEF TakeFlash, UsageInv, UsageCounts
<1>2. ASSUME NEW t \in Tasks, CountFlash(t) PROVE UsageInv'
  <2>1. t \notin Counted /\ Counted' = Counted \cup {t}
    BY <1>2 DEF CountFlash, Counted, TypeOK
  <2>2. Counted \subseteq Tasks /\ Counted \cup {t} \subseteq Tasks
    BY DEF Counted
  <2>3. Cardinality(Counted \cup {t}) = Cardinality(Counted) + 1
    BY <2>1, <2>2, TasksFinite, FS_AddElement
  <2>4. usage'["flash"] = Cardinality(Counted \cup {t})
    <3>1. Cardinality(Counted) \in 0 .. 127 /\ Cardinality(Counted \cup {t}) \in 0 .. 127
      BY <2>2, TasksFinite
    <3>2. usage'["flash"] = Inc8(Cardinality(Counted))
      BY <1>2 DEF CountFlash, RuntimeGet, UsageInv, UsageCounts, TypeOK, Requests
    <3>3. QED
      BY <2>3, <3>1, <3>2 DEF Inc8
  <2>5. usage'["ble"] = usage["ble"]
    BY <1>2 DEF CountFlash, RuntimeGet, TypeOK, Requests
  <2>6. OneInFile'
    BY <1>2 DEF CountFlash, UsageInv, OneInFile, InFile, TypeOK
  <2>7. QED
    BY <2>1, <2>4, <2>5, <2>6 DEF UsageInv, UsageCounts
<1>3. ASSUME NEW t \in Tasks, GiveFlash(t) PROVE UsageInv'
  <2>1. Counted' = Counted
    BY <1>3 DEF GiveFlash, Counted, TypeOK
  <2>2. OneInFile'
    BY <1>3, NobodyAssumption DEF GiveFlash, UsageInv, OneInFile, InFile, TypeOK
  <2>3. QED
    BY <1>3, <2>1, <2>2 DEF GiveFlash, UsageInv, UsageCounts
<1>4. ASSUME NEW t \in Tasks, UncountFlash(t) PROVE UsageInv'
  <2>1. t \in Counted /\ Counted' = Counted \ {t}
    BY <1>4 DEF UncountFlash, Counted, TypeOK
  <2>2. Counted \subseteq Tasks
    BY DEF Counted
  <2>3. Cardinality(Counted \ {t}) = Cardinality(Counted) - 1
    BY <2>1, <2>2, TasksFinite, FS_RemoveElement
  <2>4. usage'["flash"] = Cardinality(Counted \ {t})
    <3>1. Cardinality(Counted) \in 0 .. 127
      BY <2>2, TasksFinite
    <3>2. usage'["flash"] = Dec8(Cardinality(Counted))
      BY <1>4 DEF UncountFlash, RuntimePut, UsageInv, UsageCounts, TypeOK, Requests
    <3>3. QED
      BY <2>3, <3>1, <3>2 DEF Dec8
  <2>5. usage'["ble"] = usage["ble"]
    BY <1>4 DEF UncountFlash, RuntimePut, TypeOK, Requests
  <2>6. OneInFile'
    BY <1>4 DEF UncountFlash, UsageInv, OneInFile, InFile, TypeOK
  <2>7. QED
    BY <2>1, <2>4, <2>5, <2>6 DEF UsageInv, UsageCounts
<1>5. CASE BleStatus
  <2>1. Counted' = Counted /\ OneInFile'
    BY <1>5 DEF BleStatus, Counted, UsageInv, OneInFile, InFile
  <2>2. usage'["flash"] = usage["flash"] /\ usage'["ble"] \in {0, 1}
    BY <1>5 DEF BleStatus, RuntimeSet, TypeOK, Requests
  <2>3. QED
    BY <2>1, <2>2 DEF UsageInv, UsageCounts
<1>6. CASE \/ ButtonPressed \/ ResultTimer \/ LpmEnable \/ LpmDisable
           \/ LpmDisableStored \/ Sleep \/ \E m \in Managers : Post(m) \/ MessageHandle(m)
  <2>1. UNCHANGED <<usage, op, flashLock>>
    BY <1>6 DEF ButtonPressed, ResultTimer, LpmEnable, LpmDisable, LpmDisableStored,
         EnableSleepMode, Sleep, TimerCallback, PreEnterSleepTimerCallback, Post,
         MessageHandle
  <2>2. QED
    BY <2>1, SameUsage
<1>7. CASE WakeUp
  <2>1. Counted' = {} /\ InFile' = {}
    BY <1>7 DEF WakeUp, Counted, InFile
  <2>2. usage'["flash"] = 0 /\ usage'["ble"] = 0
    BY <1>7 DEF WakeUp, Requests
  <2>3. QED
    BY <2>1, <2>2, FS_EmptySet DEF UsageInv, UsageCounts, OneInFile
<1>8. CASE UNCHANGED vars
  BY <1>8, SameUsage DEF vars
<1>9. QED
  BY <1>1, <1>2, <1>3, <1>4, <1>5, <1>6, <1>7, <1>8 DEF Next, FileOperation

(* The usage count of the file system is the number of tasks between their *)
(* RuntimeGet and RuntimePut, without overflow, and the mutex excludes.    *)
THEOREM UsageInvariant == Spec => []UsageInv
<1>1. Init => UsageInv
  <2> SUFFICES ASSUME Init PROVE UsageInv
    OBVIOUS
  <2>1. Counted = {} /\ InFile = {}
    BY DEF Init, Counted, InFile
  <2>2. usage["flash"] = 0 /\ usage["ble"] = 0
    BY DEF Init, Requests
  <2>3. QED
    BY <2>1, <2>2, FS_EmptySet DEF UsageInv, UsageCounts, OneInFile
<1>2. QED
  BY <1>1, UsageStep, LpmTypeCorrect, PTL DEF Spec

(* The usage count of the file system is the number of tasks that have     *)
(* counted themselves, and one task at a time is in a file: the count that *)
(* fwk_lpm_manager.c keeps and the mutex of hal_flash_littlefs.c.          *)
THEOREM UsageIsCounted == Spec => [](UsageCounts /\ OneInFile)
<1>1. UsageInv => UsageCounts /\ OneInFile
  BY DEF UsageInv
<1>2. QED
  BY <1>1, UsageInvariant, PTL

(* The decision to sleep is taken only when no task has counted itself, no *)
(* phone is connected and sleep is enabled.                                *)
THEOREM DecisionIsIdle == Spec => DecidesWhenIdle
<1>1. ASSUME UsageInv, [Next]_vars, preTimer', ~preTimer
      PROVE  Counted = {} /\ usage["ble"] = 0 /\ enable # "off"
  <2>1. TimerCallback
    BY <1>1 DEF Next, vars, lpm, FileOperation, TakeFlash, CountFlash, GiveFlash,
       UncountFlash, BleStatus, ButtonPressed, ResultTimer, LpmEnable, LpmDisable,
       LpmDisableStored, EnableSleepMode, Sleep, PreEnterSleepTimerCallback, WakeUp,
       Post, MessageHandle
  <2>2. usage["flash"] <= 0 /\ usage["ble"] <= 0 /\ enable # "off"
    BY <2>1 DEF TimerCallback, Idle, Requests
  <2>3. Counted = {}
    <3>1. IsFiniteSet(Counted) /\ Cardinality(Counted) \in 0 .. 127
      BY TasksFinite DEF Counted
    <3>2. Cardinality(Counted) = 0
      BY <1>1, <2>2, <3>1 DEF UsageInv, UsageCounts
    <3>3. QED
      BY <3>1, <3>2, FS_EmptySet
  <2>4. usage["ble"] = 0
    BY <1>1, <2>2 DEF UsageInv
  <2>5. QED
    BY <2>2, <2>3, <2>4
<1>2. UsageInv /\ [Next]_vars =>
        [preTimer' /\ ~preTimer =>
           Counted = {} /\ usage["ble"] = 0 /\ enable # "off"]_vars
  BY <1>1
<1>3. QED
  BY <1>2, UsageInvariant, PTL DEF Spec, DecidesWhenIdle

(***************************************************************************)
(* The message to shut down.  While the idle check runs no manager has it; *)
(* the check stops when it sends one to each, and only a restart starts it *)
(* again.                                                                  *)
(***************************************************************************)
Warnings(q) == {i \in 1 .. Len(q) : q[i] = "preEnterSleep"}

ToldRight(m) ==
  /\ timer => Warnings(queue[m]) = {} /\ m \notin shut
  /\ m \in shut => Warnings(queue[m]) = {}
  /\ \A i, j \in Warnings(queue[m]) : i = j

ToldInv == \A m \in Managers : ToldRight(m)

(* Work put on a queue is no warning; a warning put on it is one at most.  *)
LEMMA PutWarns ==
  ASSUME NEW q \in Queue, NEW msg \in Messages
  PROVE  Warnings(Put(q, msg)) \subseteq
           Warnings(q) \cup IF msg = "preEnterSleep" THEN {Len(q) + 1} ELSE {}
BY LpmOptions DEF Warnings, Put, Queue

(* Handling the first message moves the others up.                         *)
LEMMA TailWarns ==
  ASSUME NEW q \in Queue, q # <<>>
  PROVE  Warnings(Tail(q)) = {i \in Nat \ {0} : i + 1 \in Warnings(q)}
BY DEF Warnings, Queue

(* Every step keeps what the managers were told. *)
LEMMA ToldStep == TypeOK /\ ToldInv /\ [Next]_vars => ToldInv'
<1> SUFFICES ASSUME TypeOK, ToldInv, [Next]_vars PROVE ToldInv'
  OBVIOUS
<1> USE DEF lpm, config, mail
<1>1. CASE \/ \E t \in Tasks : TakeFlash(t) \/ FileOperation(t)
           \/ BleStatus \/ ButtonPressed \/ ResultTimer \/ LpmEnable \/ LpmDisable
           \/ LpmDisableStored \/ PreEnterSleepTimerCallback \/ UNCHANGED vars
  <2>1. UNCHANGED <<timer, queue, shut>>
    BY <1>1 DEF FileOperation, TakeFlash, CountFlash, GiveFlash, UncountFlash, BleStatus,
         ButtonPressed, ResultTimer, LpmEnable, LpmDisable, LpmDisableStored,
         EnableSleepMode, PreEnterSleepTimerCallback, vars
  <2>2. QED
    BY <2>1 DEF ToldInv, ToldRight
<1>2. CASE TimerCallback
  <2> SUFFICES ASSUME NEW m \in Managers PROVE ToldRight(m)'
    BY DEF ToldInv
  <2>1. queue[m] \in Queue /\ Warnings(queue[m]) = {} /\ m \notin shut
    BY <1>2 DEF TimerCallback, TypeOK, ToldInv, ToldRight
  <2>2. queue'[m] = Put(queue[m], "preEnterSleep")
    BY <1>2 DEF TimerCallback
  <2>3. Warnings(queue'[m]) \subseteq {Len(queue[m]) + 1}
    BY <2>1, <2>2, PutWarns DEF Messages
  <2>4. QED
    BY <1>2, <2>1, <2>3 DEF TimerCallback, ToldRight
<1>3. CASE WakeUp
  <2>1. \A m \in Managers : Warnings(queue'[m]) = {} /\ m \notin shut'
    BY <1>3 DEF WakeUp, Warnings
  <2>2. QED
    BY <2>1 DEF ToldInv, ToldRight
<1>4. ASSUME NEW n \in Managers, Post(n) PROVE ToldInv'
  <2> SUFFICES ASSUME NEW m \in Managers PROVE ToldRight(m)'
    BY DEF ToldInv
  <2>1. queue[m] \in Queue /\ "work" \in Messages
    BY DEF TypeOK, Messages
  <2>2. queue'[m] = queue[m] \/ queue'[m] = Put(queue[m], "work")
    BY <1>4 DEF Post, TypeOK
  <2>3. Warnings(queue'[m]) \subseteq Warnings(queue[m])
    BY <2>1, <2>2, PutWarns
  <2>4. UNCHANGED <<timer, shut>>
    BY <1>4 DEF Post
  <2>5. QED
    BY <2>3, <2>4 DEF ToldInv, ToldRight
<1>5. ASSUME NEW n \in Managers, MessageHandle(n) PROVE ToldInv'
  <2> SUFFICES ASSUME NEW m \in Managers PROVE ToldRight(m)'
    BY DEF ToldInv
  <2>1. CASE m # n
    BY <1>5, <2>1 DEF MessageHandle, ToldInv, ToldRight, TypeOK
  <2>2. CASE m = n
    <3>1. queue[m] \in Queue /\ queue[m] # <<>> /\ queue'[m] = Tail(queue[m])
      BY <1>5, <2>2 DEF MessageHandle, TypeOK
    <3>2. Warnings(queue'[m]) = {i \in Nat \ {0} : i + 1 \in Warnings(queue[m])}
      BY <3>1, TailWarns
    <3>3. Head(queue[m]) = "preEnterSleep" => 1 \in Warnings(queue[m])
      BY <3>1 DEF Warnings, Queue
    <3>4. /\ timer' = timer
          /\ m \in shut' <=> m \in shut \/ Head(queue[m]) = "preEnterSleep"
      BY <1>5, <2>2 DEF MessageHandle
    <3>5. ToldRight(m) /\ Warnings(queue[m]) \subseteq Nat
      BY DEF ToldInv, Warnings
    <3>6. Warnings(queue'[m]) # {} => ~timer' /\ m \notin shut'
      BY <3>2, <3>3, <3>4, <3>5 DEF ToldRight
    <3>7. \A i, j \in Warnings(queue'[m]) : i = j
      BY <3>2, <3>5 DEF ToldRight
    <3>8. timer' => m \notin shut'
      <4>1. CASE Head(queue[m]) = "preEnterSleep"
        BY <3>3, <3>4, <3>5, <4>1 DEF ToldRight
      <4>2. CASE Head(queue[m]) # "preEnterSleep"
        BY <3>4, <3>5, <4>2 DEF ToldRight
      <4>3. QED
        BY <4>1, <4>2
    <3>9. QED
      BY <3>6, <3>7, <3>8 DEF ToldRight
  <2>3. QED
    BY <2>1, <2>2
<1>6. QED
  BY <1>1, <1>2, <1>3, <1>4, <1>5 DEF Next, Sleep

(* A manager is told at most once to shut down before each sleep, whatever *)
(* its queue holds or loses: FWK_LpmManager_TimerCallback stops the check  *)
(* that sends the message.                                                 *)
THEOREM ToldOnceHolds == Spec => []ToldOnce
<1>1. ASSUME Init PROVE ToldInv
  BY <1>1 DEF Init, ToldInv, ToldRight, Warnings
<1>2. ASSUME ToldInv PROVE ToldOnce
  <2> SUFFICES ASSUME NEW m \in Managers
               PROVE  Cardinality(Warnings(queue[m])) + (IF m \in shut THEN 1 ELSE 0) <= 1
    BY DEF ToldOnce, Warnings
  <2>1. CASE Warnings(queue[m]) = {}
    BY <2>1, FS_EmptySet
  <2>2. CASE Warnings(queue[m]) # {}
    <3>1. PICK i \in Warnings(queue[m]) : Warnings(queue[m]) = {i}
      BY <1>2, <2>2 DEF ToldInv, ToldRight
    <3>2. Cardinality(Warnings(queue[m])) = 1 /\ m \notin shut
      BY <1>2, <2>2, <3>1, FS_Singleton DEF ToldInv, ToldRight
    <3>3. QED
      BY <3>2
  <2>3. QED
    BY <2>1, <2>2
<1>3. QED
  BY <1>1, <1>2, ToldStep, LpmTypeCorrect, PTL DEF Spec
=============================================================================
