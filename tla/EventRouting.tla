------------------------------ MODULE EventRouting ------------------------------
(* The path of an event: from the static buffer of an input device, through    *)
(* the static message the input manager keeps for that device, to a message on *)
(* the heap for every receiver on its list; and the results of the vision      *)
(* algorithm on their way to the output manager.  From fwk_input_manager.c,    *)
(* fwk_vision_algo_manager.c, fwk_output_manager.c, fwk_message.c,             *)
(* hal_input_push_buttons.c, smart_lock_input_shell_commands.c and             *)
(* hal_input_ble_wuart_qn9090.c.                                               *)
(*                                                                             *)
(* Nothing on this path is copied when it is reported: the queue of the input  *)
(* manager holds a pointer to the message, the message a pointer to the buffer *)
(* of the device, and a message for a receiver holds the same pointer unless   *)
(* the device gave a size.                                                     *)
EXTENDS Naturals, Sequences, FiniteSets

CONSTANTS
    Devices,      \* the input devices
    Copied,       \* those that give the size of their event: the shell
    Requests,     \* those that also ask for the components of a manager: the shell
    Remote,       \* those whose registrations carry a block of the heap: BLE
    Hurried,      \* those that report an event before the last one was handled
    Receivers,    \* task ids of the managers that receive events
    VisionAlgo,   \* that of the vision algorithm manager
    Output,       \* that of the output manager
    Lists,        \* the receiver lists each device uses
    QueueLength,  \* mainQUEUE_LENGTH
    MaxEvents,    \* bound: events of the devices together
    MaxPresses,   \* bound: pointers of one device in the queue at a press
    MaxResults    \* bound: results of the vision algorithm

ASSUME RoutingAssumption ==
    /\ Copied \subseteq Devices /\ Requests \subseteq Copied
    /\ Remote \subseteq Devices \ Copied /\ Hurried \subseteq Devices
    /\ Receivers \subseteq Nat /\ {VisionAlgo, Output} \subseteq Receivers
    /\ Lists \in [Devices -> SUBSET SUBSET Receivers]
    /\ \A d \in Remote : Lists[d] = {{VisionAlgo}, {Output}}
    /\ {QueueLength, MaxEvents, MaxPresses, MaxResults} \subseteq Nat
    /\ IsFiniteSet(Devices)

\* The low power manager and the vision algorithm are no input devices.
ASSUME SenderAssumption == {"nobody", "lpm", "algorithm"} \cap Devices = {}

VARIABLES
    event,    \* the static event of each device
    toReport, \* the list of the event a device has written and not yet reported
    msg,      \* s_InputTask.inputData.msgs: the static message of each device
    inQ,      \* queue of the input manager: pointers to messages, as devices
    routing,  \* the message the input manager is forwarding
    outQ,     \* queue of each receiver
    at,       \* what each receiver is handling
    heap,     \* the blocks with registration data that are allocated
    copies,   \* the messages on the heap for each receiver, with their data
    misused,  \* has a block been read or freed that was not allocated?
    asleep,   \* s_SleepModeIsOn
    results,  \* results of the vision algorithm so far
    seen      \* number of the last event each receiver was told of

input == <<event, toReport, msg>>
memory == <<heap, copies, misused>>
vars == <<input, inQ, routing, outQ, at, memory, asleep, results, seen>>

\* The vision algorithm reports results as the devices report events.
Algorithm == "algorithm"
Sources == Devices \cup {Algorithm}

\* An event: its number, what it is, and the pointer to a registration's data.
None == [id |-> 0, kind |-> "none", data |-> 0]
Garbage == MaxEvents + 1
Kinds == {"none", "plain", "register", "update", "result"}

\* A message for a receiver: its source, and either a copy or a pointer.
Entry(s, copied, e) == [from |-> s, copied |-> copied, event |-> e]
Idle == Entry("nobody", FALSE, None)
Sleep == Entry("lpm", FALSE, None)

NotRouting == [from |-> "nobody", kind |-> "event", left |-> {}, event |-> None]

\* Seeded bug: a message is put at the head of the queue.
PutFirst(q, m) == IF Len(q) < QueueLength THEN <<m>> \o q ELSE q

\* FWK_Message_Put: no waiting, and nobody looks at the result.
Put(q, m) == IF Len(q) < QueueLength THEN Append(q, m) ELSE q

\* What a receiver finds in a message.
Contents(m) == IF m.from \in Devices /\ ~m.copied THEN event[m.from] ELSE m.event

Init ==
    /\ event = [d \in Devices |-> None]
    /\ toReport = [d \in Devices |-> {}]
    /\ msg = [d \in Devices |-> [kind |-> "event", to |-> {}, event |-> None]]
    /\ inQ = << >>
    /\ routing = NotRouting
    /\ outQ = [r \in Receivers |-> << >>]
    /\ at = [r \in Receivers |-> Idle]
    /\ heap = {} /\ copies = [r \in Receivers |-> 0] /\ misused = FALSE
    /\ asleep = FALSE
    /\ results = 0
    /\ seen = [r \in Receivers |-> [s \in Sources |-> 0]]

-------------------------------------------------------------------------------
(* The devices.                                                                *)

\* The static message or the static event of the device is still needed.
Underway(d) ==
    \/ d \in {inQ[i] : i \in DOMAIN inQ}
    \/ routing.from = d
    \/ /\ d \notin Copied
       /\ \E r \in Receivers :
              d \in {at[r].from} \cup {outQ[r][i].from : i \in DOMAIN outQ[r]}

\* Bound: the events of all devices together.
EventsLeft ==
    Cardinality({e \in Devices \X (1..MaxEvents) : e[2] <= event[e[1]].id}) < MaxEvents

MayWrite(d) == toReport[d] = {} /\ (d \in Hurried \/ ~Underway(d))

\* A key, a command or a request: the device fills in its static event.
WriteEvent(d) ==
    /\ MayWrite(d) /\ EventsLeft
    /\ event' = [event EXCEPT ![d].id = @ + 1, ![d].kind = "plain"]
    /\ \E list \in Lists[d] \ {{}} : toReport' = [toReport EXCEPT ![d] = list]
    /\ UNCHANGED <<msg, inQ, routing, outQ, at, memory, asleep, results, seen>>

\* REGISTRATION_REQ: the data goes to a block of the heap.
WriteRegistration(d) ==
    /\ d \in Remote /\ MayWrite(d) /\ EventsLeft
    /\ LET n == event[d].id + 1 IN
       /\ event' = [event EXCEPT ![d] = [id |-> n, kind |-> "register", data |-> n]]
       /\ heap' = heap \cup {<<d, n>>}
    /\ toReport' = [toReport EXCEPT ![d] = {VisionAlgo}]
    /\ UNCHANGED <<msg, inQ, routing, outQ, at, copies, misused, asleep, results, seen>>

\* UPDATE_USER_INFO_REQ: it shares a union with the registration, and overwrites
\* the pointer to its data.
WriteUpdate(d) ==
    /\ d \in Remote /\ MayWrite(d) /\ EventsLeft
    /\ event' = [event EXCEPT ![d] =
                    [id |-> @.id + 1, kind |-> "update", data |-> Garbage]]
    /\ toReport' = [toReport EXCEPT ![d] = {VisionAlgo}]
    /\ UNCHANGED <<msg, inQ, routing, outQ, at, memory, asleep, results, seen>>

\* _FWK_InputManager_DeviceCallback with an event: the message of the device is
\* filled in and queued, whether or not it still is in the queue.
Report(d) ==
    /\ toReport[d] # {}
    /\ msg' = [msg EXCEPT ![d] =
                  [kind |-> "event", to |-> toReport[d], event |-> None]]
    /\ inQ' = Put(inQ, d)
    /\ toReport' = [toReport EXCEPT ![d] = {}]
    /\ UNCHANGED <<event, routing, outQ, at, memory, asleep, results, seen>>

\* The same with a request: it is copied into the message.
ReportRequest(d) ==
    /\ d \in Requests
    /\ \E r \in Receivers : toReport[d] = {r}
    /\ msg' = [msg EXCEPT ![d] =
                  [kind |-> "request", to |-> toReport[d], event |-> event[d]]]
    /\ inQ' = Put(inQ, d)
    /\ toReport' = [toReport EXCEPT ![d] = {}]
    /\ UNCHANGED <<event, routing, outQ, at, memory, asleep, results, seen>>

\* A long press of the sleep button is reported as well, to nobody.
ReportToNobody(d) ==
    /\ {} \in Lists[d] /\ MayWrite(d)
    /\ Cardinality({i \in DOMAIN inQ : inQ[i] = d}) < MaxPresses
    /\ msg' = [msg EXCEPT ![d] = [kind |-> "event", to |-> {}, event |-> None]]
    /\ inQ' = Put(inQ, d)
    /\ UNCHANGED <<event, toReport, routing, outQ, at, memory, asleep, results, seen>>

-------------------------------------------------------------------------------
(* The input manager.                                                          *)

\* It takes a pointer from its queue and reads the receivers of that message.
Receive ==
    /\ routing = NotRouting
    /\ inQ # << >>
    /\ LET m == msg[Head(inQ)] IN
       routing' = IF m.to = {} THEN NotRouting
                  ELSE [from |-> Head(inQ), kind |-> m.kind, left |-> m.to,
                        event |-> m.event]
    /\ inQ' = Tail(inQ)
    /\ UNCHANGED <<input, outQ, at, memory, asleep, results, seen>>

\* Seeded bug: every receiver gets the pointer, whatever the size.
ForwardedPointer ==
    IF routing.kind = "request" THEN Entry(routing.from, TRUE, routing.event)
    ELSE Entry(routing.from, FALSE, None)

\* What the next receiver gets: the request, a copy of the event as it is now,
\* or the pointer.
Forwarded ==
    LET d == routing.from IN
    IF routing.kind = "request" THEN Entry(d, TRUE, routing.event)
    ELSE IF d \in Copied THEN Entry(d, TRUE, event[d])
    ELSE Entry(d, FALSE, None)

\* Seeded bug: the loop over the receivers ends with the first of them.
ForwardFirst ==
    /\ routing.left # {}
    /\ \E r \in routing.left :
           /\ \A x \in routing.left : r <= x
           /\ outQ' = [outQ EXCEPT ![r] = Put(@, Forwarded)]
           /\ copies' = [copies EXCEPT ![r] = @ + 1]
    /\ routing' = NotRouting
    /\ UNCHANGED <<input, inQ, at, heap, misused, asleep, results, seen>>

\* kFWKMessageID_InputReceive and kFWKMessageID_InputFrameworkReceived: one
\* receiver after the other gets a message of its own, lowest task id first.
Forward ==
    /\ \E r \in routing.left :
           /\ \A x \in routing.left : r <= x
           /\ outQ' = [outQ EXCEPT ![r] = Put(@, Forwarded)]
           /\ copies' = [copies EXCEPT ![r] = @ + 1]
           /\ routing' = IF routing.left = {r} THEN NotRouting
                         ELSE [routing EXCEPT !.left = @ \ {r}]
    /\ UNCHANGED <<input, inQ, at, heap, misused, asleep, results, seen>>

-------------------------------------------------------------------------------
(* The receivers.                                                              *)

\* _FWK_VisionAlgoManager_DeviceCallback: a result, with a copy.
Result ==
    /\ results < MaxResults
    /\ results' = results + 1
    /\ outQ' = [outQ EXCEPT ![Output] =
                   Put(@, Entry(Algorithm, TRUE,
                                [id |-> results + 1, kind |-> "result", data |-> 0]))]
    /\ copies' = [copies EXCEPT ![Output] = @ + 1]
    /\ UNCHANGED <<input, inQ, routing, at, heap, misused, asleep, seen>>

\* The low power manager announces the shutdown, once.
PreEnterSleep ==
    /\ ~asleep /\ Sleep \notin {at[Output]} \cup {outQ[Output][i] : i \in DOMAIN outQ[Output]}
    /\ outQ' = [outQ EXCEPT ![Output] = Put(@, Sleep)]
    /\ UNCHANGED <<input, inQ, routing, at, memory, asleep, results, seen>>

\* The output manager forwards no result once it was told of the shutdown.
Told(m) == m.from \in Sources /\ ~(m.from = Algorithm /\ asleep)

\* A receiver takes a message; its handlers copy the event first.
Take(r) ==
    /\ at[r] = Idle /\ outQ[r] # << >>
    /\ LET m == Head(outQ[r])
           e == Contents(m)
       IN /\ at' = [at EXCEPT ![r] = Entry(m.from, m.copied, e)]
          /\ seen' = IF Told(m) THEN [seen EXCEPT ![r][m.from] = e.id] ELSE seen
          /\ asleep' = (asleep \/ (r = Output /\ m = Sleep))
    /\ outQ' = [outQ EXCEPT ![r] = Tail(@)]
    /\ UNCHANGED <<input, inQ, routing, memory, results>>

\* kEventFaceRecID_AddUserRemote: its answer frees the data.
Registers(m, r) == r = VisionAlgo /\ m.event.kind = "register"

\* The handler of a registration has read its block; the answer frees whatever
\* block the static event of the device points to by now.
Answer(m) ==
    LET d == m.from
        now == event[d].data
    IN /\ misused' = (misused \/ <<d, m.event.data>> \notin heap
                              \/ (now # 0 /\ <<d, now>> \notin heap))
       /\ heap' = heap \ {<<d, now>>}
       /\ event' = [event EXCEPT ![d].data = 0]

\* Seeded bug: a result is not freed when it is not forwarded.
FreesForwarded(m) == Told(m)

\* Seeded bug: messages that are not on the heap are freed as well.
FreesAll(m) == m # Idle

\* The message and the copy it holds are freed after the handler: those the
\* input manager forwarded, and the results.
Frees(m) == m.from \in Sources

\* The handler returns to the loop of the task.
Handled(r) ==
    /\ at[r] # Idle
    /\ IF Registers(at[r], r) THEN Answer(at[r])
       ELSE UNCHANGED <<misused, heap, event>>
    /\ copies' = IF Frees(at[r]) THEN [copies EXCEPT ![r] = @ - 1] ELSE copies
    /\ at' = [at EXCEPT ![r] = Idle]
    /\ UNCHANGED <<toReport, msg, inQ, routing, outQ, asleep, results, seen>>

Next ==
    \/ \E d \in Devices :
           \/ WriteEvent(d) \/ WriteRegistration(d) \/ WriteUpdate(d)
           \/ Report(d) \/ ReportRequest(d) \/ ReportToNobody(d)
    \/ Receive \/ Forward \/ Result \/ PreEnterSleep
    \/ \E r \in Receivers : Take(r) \/ Handled(r)

Spec == Init /\ [][Next]_vars

\* The tasks of the framework run: the input manager and every receiver, and a
\* device that has written its event reports it.
Fairness ==
    /\ WF_vars(Receive) /\ WF_vars(Forward)
    /\ \A r \in Receivers : WF_vars(Take(r)) /\ WF_vars(Handled(r))
    /\ \A d \in Devices : WF_vars(Report(d) \/ ReportRequest(d))

FairSpec == Spec /\ Fairness

-------------------------------------------------------------------------------
(* Properties.                                                                 *)

Event == [id : 0..MaxEvents \cup 0..MaxResults, kind : Kinds, data : 0..Garbage]
Message == [from : Sources \cup {"nobody", "lpm"}, copied : BOOLEAN,
            event : Event]

\* Type invariant: queues keep their length, and no receiver frees more than was
\* allocated for it.
TypeOK ==
    /\ event \in [Devices -> Event]
    /\ toReport \in [Devices -> SUBSET Receivers]
    /\ msg \in [Devices -> [kind : {"event", "request"}, to : SUBSET Receivers,
                            event : Event]]
    /\ inQ \in Seq(Devices) /\ Len(inQ) <= QueueLength
    /\ routing \in [from : Devices \cup {"nobody"}, kind : {"event", "request"},
                    left : SUBSET Receivers, event : Event]
    /\ outQ \in [Receivers -> Seq(Message)]
    /\ \A r \in Receivers : Len(outQ[r]) <= QueueLength
    /\ at \in [Receivers -> Message]
    /\ heap \subseteq Remote \X (1..MaxEvents)
    /\ copies \in [Receivers -> Nat]
    /\ misused \in BOOLEAN /\ asleep \in BOOLEAN
    /\ results \in 0..MaxResults
    /\ seen \in [Receivers -> [Sources -> 0..MaxEvents \cup 0..MaxResults]]

\* The data of a registration is not read after it was freed, and the answer
\* frees the block of the registration it answers.
NoBadFree == ~misused

\* Every message on the heap is in the queue of its receiver or being handled,
\* and every block with data is the one its device points to.
NoLeak ==
    /\ \A r \in Receivers :
           copies[r] = Cardinality({i \in DOMAIN outQ[r] : outQ[r][i].from \in Sources})
                       + (IF at[r].from \in Sources THEN 1 ELSE 0)
    /\ \A block \in heap : event[block[1]].data = block[2]

\* Whatever is allocated on the way is freed once: by the receiver, or by the
\* answer to the registration it was allocated for.
FreedOnce == NoBadFree /\ NoLeak

\* A receiver is never told of an older event of a source after a newer one,
\* even when a device overwrites the event it has reported.
NeverBackwards ==
    [][\A r \in Receivers, s \in Sources : seen'[r][s] >= seen[r][s]]_seen

\* A receiver on the list of the device's last event has not been told of it.
Owed(d, r) == toReport[d] = {} /\ r \in msg[d].to /\ seen[r][d] < event[d].id

\* An event reaches every receiver on its list, unless the device replaces it,
\* or its list, in the meantime.
LatestArrives == \A d \in Devices, r \in Receivers : Owed(d, r) ~> ~Owed(d, r)

\* To the devices that wait until their event was handled, the path looks like a
\* bus that copies every event when it is reported.
Patient == Devices \ Hurried
Reported(d) == IF toReport[d] = {} THEN event[d].id ELSE event[d].id - 1
Queued(d) == IF msg[d].kind = "request" THEN msg[d].event.id ELSE event[d].id

Undelivered(r) ==
    {<<d, Queued(d)>> : d \in {x \in Patient : /\ x \in {inQ[i] : i \in DOMAIN inQ}
                                               /\ r \in msg[x].to}}
    \cup {<<d, Forwarded.event.id>> :
             d \in {x \in {routing.from} \cap Patient :
                        r \in routing.left /\ Forwarded.copied}}
    \cup {<<d, event[d].id>> :
             d \in {x \in {routing.from} \cap Patient :
                        r \in routing.left /\ ~Forwarded.copied}}
    \cup {<<m.from, Contents(m).id>> :
             m \in {outQ[r][i] : i \in {j \in DOMAIN outQ[r] : outQ[r][j].from \in Patient}}}

Bus == INSTANCE EventBus WITH
    Devices <- Patient,
    last <- [d \in Patient |-> Reported(d)],
    pending <- [r \in Receivers |-> Undelivered(r)]

ImplementsBus == Bus!Spec

================================================================================
