-------------------------- MODULE EventRouting_proofs --------------------------
(* Proofs about the path of an event, for any devices, receivers and lengths of *)
(* the queues: no receiver is told of an older event after a newer one; as long *)
(* as no queue is full, whatever is allocated is freed once, and the devices    *)
(* that wait for their event to be handled see the bus of EventBus.             *)
EXTENDS EventRouting, FiniteSetTheorems, TLAPS

-------------------------------------------------------------------------------
(* The invariant.                                                              *)

\* The messages of a queue that lie on the heap.
OnHeap(q) == {i \in DOMAIN q : q[i].from \in Sources}
Owned(r) == Cardinality(OnHeap(outQ[r])) + (IF at[r].from \in Sources THEN 1 ELSE 0)

\* Types, with what they need: a device counts its events only, and no message
\* is freed that was not allocated.
TypeInv ==
    /\ TypeOK
    /\ \A d \in Devices : event[d].id \in 0..MaxEvents
    /\ \A r \in Receivers : Owned(r) <= copies[r]

\* Where an event of a device is on its way.
InQueue(d) == d \in {inQ[i] : i \in DOMAIN inQ}
Holds(r, d) == \E i \in DOMAIN outQ[r] : outQ[r][i].from = d
Pointed(r, d) == at[r].from = d \/ Holds(r, d)
RoutedTo(r, d) == routing.from = d /\ r \in routing.left
Promised(r, d) == (InQueue(d) /\ r \in msg[d].to) \/ RoutedTo(r, d)

\* Which messages are copies: those of the vision algorithm and of the devices
\* that give a size, and the requests.
EntryRight(m) ==
    /\ m.from \in Devices => (m.copied <=> m.from \in Copied)
    /\ m.from = Algorithm => m.copied

Shapes ==
    /\ \A d \in Devices : msg[d].kind = "request" => d \in Requests
    /\ routing.kind = "request" => routing.from \in Requests
    /\ routing.from = "nobody" <=> routing.left = {}
    /\ \A r \in Receivers : \A i \in DOMAIN outQ[r] : EntryRight(outQ[r][i])

\* A device that waits does not write its event while a request is under way.
RequestCurrent(d) ==
    /\ InQueue(d) /\ msg[d].kind = "request" => msg[d].event.id = event[d].id
    /\ routing.from = d /\ routing.kind = "request" => routing.event.id = event[d].id

\* There is one pointer to the message of a device that waits.
OneMessage(d) ==
    /\ \A i, j \in DOMAIN inQ : inQ[i] = d /\ inQ[j] = d => i = j
    /\ InQueue(d) => routing.from # d
    /\ toReport[d] # {} => ~InQueue(d) /\ routing.from # d

\* And each receiver has one pointer to its event, if it is not copied.
OnePointer(d, r) ==
    /\ toReport[d] # {} \/ InQueue(d) \/ RoutedTo(r, d) => ~Pointed(r, d)
    /\ at[r].from = d => ~Holds(r, d)
    /\ \A i, j \in DOMAIN outQ[r] : outQ[r][i].from = d /\ outQ[r][j].from = d => i = j

\* Copies of the events of a device that waits are those before the one that is
\* under way, in order.
CopiesInOrder(d, r) ==
    \A i \in DOMAIN outQ[r] : outQ[r][i].from = d =>
        /\ outQ[r][i].event.id <= event[d].id
        /\ toReport[d] # {} \/ Promised(r, d) => outQ[r][i].event.id < event[d].id
        /\ \A j \in DOMAIN outQ[r] :
               outQ[r][j].from = d /\ i < j => outQ[r][i].event.id < outQ[r][j].event.id

PathInv ==
    /\ Shapes
    /\ \A d \in Patient : RequestCurrent(d) /\ OneMessage(d)
    /\ \A d \in Patient \ Copied, r \in Receivers : OnePointer(d, r)
    /\ \A d \in Patient \cap Copied, r \in Receivers : CopiesInOrder(d, r)

\* The number of the last event of a source.
Latest(s) == IF s = Algorithm THEN results ELSE event[s].id

\* What a receiver has still to be told of is no older than what it was told.
InOrder(r, s) ==
    /\ seen[r][s] <= Latest(s)
    /\ \A i \in DOMAIN outQ[r] : outQ[r][i].from = s /\ outQ[r][i].copied =>
           /\ seen[r][s] <= outQ[r][i].event.id
           /\ outQ[r][i].event.id <= Latest(s)
           /\ \A j \in DOMAIN outQ[r] :
                  outQ[r][j].from = s /\ outQ[r][j].copied /\ i <= j =>
                      outQ[r][i].event.id <= outQ[r][j].event.id

SeenInOrder == \A r \in Receivers, s \in Sources : InOrder(r, s)

\* The devices that ask for the components of a manager wait for the answer: the
\* shell does.
RequestsWait == Requests \cap Hurried = {}

\* No message holds a registration: it is in the static event of a remote device.
KindsRight ==
    /\ \A d \in Devices \ Remote : event[d].kind # "register"
    /\ \A d \in Devices : msg[d].event.kind # "register"
    /\ routing.event.kind # "register"
    /\ \A r \in Receivers :
           /\ \A i \in DOMAIN outQ[r] : outQ[r][i].event.kind # "register"
           /\ at[r].event.kind = "register" => at[r].from \in Remote

\* A remote device has one receiver at a time.
One == {{VisionAlgo}, {Output}}
OneOnList(d) ==
    /\ toReport[d] \in One \cup {{}}
    /\ InQueue(d) => msg[d].to \in One
    /\ routing.from = d => routing.left \in One

\* Its event is with that receiver, as it was written.
OneHandler(d) ==
    /\ routing.from = d => \A r \in Receivers : ~Pointed(r, d)
    /\ \A r, x \in Receivers : Pointed(r, d) /\ Pointed(x, d) => r = x
    /\ \A r \in Receivers : at[r].from = d => at[r].event = event[d]

\* An event is on its way, or being handled; on its way to the vision algorithm,
\* or with it.
Busy(d) ==
    \/ toReport[d] # {} \/ InQueue(d) \/ routing.from = d
    \/ \E r \in Receivers : Pointed(r, d)
Registering(d) ==
    \/ toReport[d] = {VisionAlgo}
    \/ InQueue(d) /\ msg[d].to = {VisionAlgo}
    \/ routing.from = d /\ routing.left = {VisionAlgo}
    \/ Pointed(VisionAlgo, d)

\* The block of a registration is allocated while the registration is under way,
\* and only then.
BlockInUse(d) ==
    /\ \A n \in 1..MaxEvents : <<d, n>> \in heap =>
           event[d].kind = "register" /\ event[d].data = n /\ Registering(d)
    /\ event[d].kind = "register" /\ Busy(d) =>
           <<d, event[d].data>> \in heap /\ event[d].data \in 1..MaxEvents /\ Registering(d)

MemoryInv ==
    /\ KindsRight
    /\ \A d \in Remote : OneOnList(d) /\ OneHandler(d) /\ BlockInUse(d)
    /\ ~misused
    /\ \A r \in Receivers : copies[r] = Owned(r)

\* The phone waits for the answer to its last request.
PhoneWaits == Remote \cap Hurried = {}

\* What a receiver has still to be told of: the event of a device that is on its
\* way to it, and those its queue holds.
Number(m) == IF m.copied THEN m.event.id ELSE event[m.from].id
Mailed(r, d, n) == \E i \in DOMAIN outQ[r] : outQ[r][i].from = d /\ n = Number(outQ[r][i])
Due(r, d, n) == (Promised(r, d) /\ n = event[d].id) \/ Mailed(r, d, n)
UndeliveredIsDue ==
    \A r \in Receivers : Undelivered(r) = {e \in Patient \X Nat : Due(r, e[1], e[2])}

\* No queue is full: the next message is not dropped.
Room == Len(inQ) < QueueLength /\ \A r \in Receivers : Len(outQ[r]) < QueueLength

-------------------------------------------------------------------------------
(* Lemmas on constants, counts and queues.                                     *)

\* The names of the senders that are no device, and who answers a registration.
LEMMA Names ==
    /\ "nobody" \notin Devices /\ "lpm" \notin Devices /\ Algorithm \notin Devices
    /\ "nobody" \notin Sources /\ "lpm" \notin Sources
    /\ VisionAlgo \in Receivers /\ Output \in Receivers
BY RoutingAssumption, SenderAssumption DEF Algorithm, Sources

\* The bounds are natural numbers.
LEMMA Bounds ==
    /\ QueueLength \in Nat /\ MaxEvents \in Nat /\ MaxResults \in Nat
    /\ Receivers \subseteq Nat /\ IsFiniteSet(Devices)
BY RoutingAssumption

\* The sets of devices.
LEMMA Sets ==
    /\ Copied \subseteq Devices /\ Requests \subseteq Copied
    /\ Remote \subseteq Devices \ Copied
    /\ Lists \in [Devices -> SUBSET SUBSET Receivers]
    /\ \A d \in Remote : Lists[d] = {{VisionAlgo}, {Output}}
BY RoutingAssumption

\* As long as events are left, no device has written all of them.
LEMMA EventsBound ==
    ASSUME NEW d \in Devices, event[d].id \in 0..MaxEvents, EventsLeft
    PROVE  event[d].id + 1 \in 1..MaxEvents
<1> DEFINE written == {e \in Devices \X (1..MaxEvents) : e[2] <= event[e[1]].id}
<1>1. IsFiniteSet(written)
    <2>1. IsFiniteSet(1..MaxEvents)
        BY Bounds, FS_Interval
    <2>2. IsFiniteSet(Devices \X (1..MaxEvents))
        BY <2>1, Bounds, FS_Product
    <2>3. QED
        BY <2>2, FS_Subset
<1>2. ASSUME event[d].id = MaxEvents PROVE FALSE
    <2> DEFINE f == [n \in 1..MaxEvents |-> <<d, n>>]
    <2>1. \A n \in 1..MaxEvents : <<d, n>> \in written
        BY <1>2, Bounds
    <2>2. f \in Injection(1..MaxEvents, written)
        BY <2>1 DEF Injection, IsInjective
    <2>3. Cardinality(1..MaxEvents) <= Cardinality(written)
        BY <1>1, <2>2, FS_Injection
    <2>4. Cardinality(1..MaxEvents) = MaxEvents
        BY Bounds, FS_Interval
    <2>5. Cardinality(written) \in Nat
        BY <1>1, FS_CardinalityType
    <2>6. QED
        BY <2>3, <2>4, <2>5, Bounds DEF EventsLeft
<1>3. QED
    BY <1>2, Bounds

\* A message put on a queue: it comes last, or is dropped.
LEMMA PutQueue ==
    ASSUME NEW S, NEW q \in Seq(S), Len(q) <= QueueLength, NEW m \in S
    PROVE  /\ Put(q, m) \in Seq(S) /\ Len(Put(q, m)) <= QueueLength
           /\ Put(q, m) = q \/ Put(q, m) = Append(q, m)
           /\ Len(q) < QueueLength => Put(q, m) = Append(q, m)
BY Bounds DEF Put

\* What is at each place of the longer queue.
LEMMA AppendAt ==
    ASSUME NEW S, NEW q \in Seq(S), NEW m \in S
    PROVE  /\ DOMAIN Append(q, m) = DOMAIN q \cup {Len(q) + 1}
           /\ \A i \in DOMAIN q : Append(q, m)[i] = q[i] /\ i < Len(q) + 1 /\ i \in Nat
           /\ Append(q, m)[Len(q) + 1] = m
           /\ Len(q) + 1 \notin DOMAIN q
OBVIOUS

\* The message that is taken from a queue, and those that stay.
LEMMA TailAt ==
    ASSUME NEW S, NEW q \in Seq(S), q # << >>
    PROVE  /\ Tail(q) \in Seq(S) /\ Len(Tail(q)) <= Len(q) /\ Head(q) \in S
           /\ 1 \in DOMAIN q /\ Head(q) = q[1]
           /\ \A i \in DOMAIN Tail(q) :
                  i \in Nat \ {0} /\ i + 1 \in DOMAIN q /\ i + 1 # 1 /\ Tail(q)[i] = q[i + 1]
           /\ \A i \in DOMAIN q : i = 1 \/ (i - 1 \in DOMAIN Tail(q) /\ Tail(q)[i - 1] = q[i])
OBVIOUS

\* The messages on the heap are counted by a natural number.
LEMMA HeapFinite ==
    ASSUME NEW S, NEW q \in Seq(S)
    PROVE  IsFiniteSet(OnHeap(q)) /\ Cardinality(OnHeap(q)) \in Nat
<1>1. IsFiniteSet(1..Len(q))
    BY FS_Interval
<1>2. OnHeap(q) \subseteq 1..Len(q)
    BY DEF OnHeap
<1>3. QED
    BY <1>1, <1>2, FS_Subset, FS_CardinalityType

\* One message more on the heap, if its sender allocates it.
LEMMA HeapAppend ==
    ASSUME NEW S, NEW q \in Seq(S), NEW m \in S
    PROVE  Cardinality(OnHeap(Append(q, m))) =
               Cardinality(OnHeap(q)) + (IF m.from \in Sources THEN 1 ELSE 0)
<1>1. OnHeap(Append(q, m)) =
          OnHeap(q) \cup (IF m.from \in Sources THEN {Len(q) + 1} ELSE {})
    BY AppendAt DEF OnHeap
<1>2. Len(q) + 1 \notin OnHeap(q)
    BY DEF OnHeap
<1>3. IsFiniteSet(OnHeap(q)) /\ Cardinality(OnHeap(q)) \in Nat
    BY HeapFinite
<1>4. CASE m.from \in Sources
    BY <1>1, <1>2, <1>3, <1>4, FS_AddElement
<1>5. CASE m.from \notin Sources
    BY <1>1, <1>3, <1>5
<1>6. QED
    BY <1>4, <1>5

\* One message less.
LEMMA HeapTail ==
    ASSUME NEW S, NEW q \in Seq(S), q # << >>
    PROVE  Cardinality(OnHeap(q)) =
               Cardinality(OnHeap(Tail(q))) + (IF Head(q).from \in Sources THEN 1 ELSE 0)
<1> DEFINE T == OnHeap(Tail(q))
           rest == OnHeap(q) \ {1}
           f == [i \in T |-> i + 1]
<1>1. \A i \in T : i \in Nat /\ i + 1 \in rest
    BY TailAt DEF OnHeap
<1>2. \A j \in rest : j \in Int /\ j - 1 \in T
    BY TailAt DEF OnHeap
<1>3. f \in Bijection(T, rest)
    <2>1. f \in [T -> rest]
        BY <1>1
    <2>2. \A i, j \in T : f[i] = f[j] => i = j
        BY <1>1
    <2>3. \A j \in rest : \E i \in T : f[i] = j
        <3> TAKE j \in rest
        <3>1. f[j - 1] = j
            BY <1>2
        <3>2. QED
            BY <1>2, <3>1
    <2>4. QED
        BY <2>1, <2>2, <2>3 DEF Bijection, Injection, IsInjective, Surjection
<1>4. IsFiniteSet(T) /\ Cardinality(T) \in Nat
    BY TailAt, HeapFinite
<1>5. Cardinality(rest) = Cardinality(T)
    BY <1>3, <1>4, FS_Bijection DEF ExistsBijection
<1>6. IsFiniteSet(OnHeap(q)) /\ Cardinality(OnHeap(q)) \in Nat
    BY HeapFinite
<1>7. 1 \in OnHeap(q) <=> Head(q).from \in Sources
    BY TailAt DEF OnHeap
<1>8. Cardinality(rest) =
          IF 1 \in OnHeap(q) THEN Cardinality(OnHeap(q)) - 1 ELSE Cardinality(OnHeap(q))
    BY <1>6, FS_RemoveElement
<1> HIDE DEF T, rest, f
<1>9. Cardinality(OnHeap(Tail(q))) = Cardinality(rest)
    BY <1>5 DEF T
<1>10. QED
    BY <1>6, <1>7, <1>8, <1>9

-------------------------------------------------------------------------------
(* What the actions change.                                                    *)

Writes(d) == WriteEvent(d) \/ WriteRegistration(d) \/ WriteUpdate(d)
Reports(d) == Report(d) \/ ReportRequest(d)

\* A message is put on the queue of a receiver, or taken from it.
Sent(r, m) == outQ' = [outQ EXCEPT ![r] = Put(@, m)]
Taken(r) == outQ' = [outQ EXCEPT ![r] = Tail(@)]

\* No event, and no message.
LEMMA NoneType ==
    /\ None \in Event /\ Idle \in Message /\ Sleep \in Message
    /\ NotRouting \in [from : Devices \cup {"nobody"}, kind : {"event", "request"},
                       left : SUBSET Receivers, event : Event]
BY Bounds DEF None, Event, Kinds, Garbage, Idle, Sleep, Entry, Message, NotRouting

\* A device writes its next event.
LEMMA WriteEffect ==
    ASSUME TypeInv, NEW d \in Devices, Writes(d)
    PROVE  /\ event' \in [Devices -> Event]
           /\ event'[d].id = event[d].id + 1 /\ event'[d].id \in 1..MaxEvents
           /\ \A x \in Devices \ {d} : event'[x] = event[x]
           /\ toReport' \in [Devices -> SUBSET Receivers] /\ toReport'[d] # {}
           /\ \A x \in Devices \ {d} : toReport'[x] = toReport[x]
           /\ d \in Remote => toReport'[d] \in One
           /\ MayWrite(d)
           /\ heap' \subseteq Remote \X (1..MaxEvents)
           /\ UNCHANGED <<msg, inQ, routing, outQ, at, copies, misused, asleep, results, seen>>
<1>1. event[d].id + 1 \in 1..MaxEvents
    BY EventsBound DEF Writes, WriteEvent, WriteRegistration, WriteUpdate, TypeInv
<1>2. event[d] \in Event /\ event[d].id + 1 \in 0..MaxEvents
    BY <1>1 DEF TypeInv, TypeOK
<1>3. CASE WriteEvent(d)
    <2>1. event'[d] = [event[d] EXCEPT !.id = @ + 1, !.kind = "plain"]
        BY <1>3 DEF WriteEvent, TypeInv, TypeOK
    <2>2. event'[d].id = event[d].id + 1 /\ event'[d] \in Event
        BY <1>2, <2>1 DEF Event, Kinds
    <2>3. PICK list \in Lists[d] \ {{}} : toReport' = [toReport EXCEPT ![d] = list]
        BY <1>3 DEF WriteEvent
    <2>4. list \subseteq Receivers /\ (d \in Remote => list \in One)
        BY Sets DEF One
    <2>5. event' \in [Devices -> Event] /\ \A x \in Devices \ {d} : event'[x] = event[x]
        BY <1>3, <2>2 DEF WriteEvent, TypeInv, TypeOK
    <2>6. QED
        BY <1>1, <1>3, <2>2, <2>3, <2>4, <2>5 DEF WriteEvent, TypeInv, TypeOK, memory
<1>4. CASE WriteRegistration(d)
    <2>1. event'[d] = [id |-> event[d].id + 1, kind |-> "register", data |-> event[d].id + 1]
        BY <1>4 DEF WriteRegistration, TypeInv, TypeOK
    <2>2. event'[d].id = event[d].id + 1 /\ event'[d] \in Event
        BY <1>1, <1>2, <2>1, Bounds DEF Event, Kinds, Garbage
    <2>3. heap' = heap \cup {<<d, event[d].id + 1>>} /\ d \in Remote
        BY <1>4 DEF WriteRegistration
    <2>4. QED
        BY <1>1, <1>4, <2>2, <2>3, Names DEF WriteRegistration, TypeInv, TypeOK, One
<1>5. CASE WriteUpdate(d)
    <2>1. event'[d] = [id |-> event[d].id + 1, kind |-> "update", data |-> Garbage]
        BY <1>5 DEF WriteUpdate, TypeInv, TypeOK
    <2>2. event'[d].id = event[d].id + 1 /\ event'[d] \in Event
        BY <1>1, <1>2, <2>1, Bounds DEF Event, Kinds, Garbage
    <2>3. QED
        BY <1>1, <1>5, <2>2, Names DEF WriteUpdate, TypeInv, TypeOK, One, memory
<1>6. QED
    BY <1>3, <1>4, <1>5 DEF Writes

\* A device reports its event.
LEMMA ReportEffect ==
    ASSUME TypeInv, NEW d \in Devices, Reports(d)
    PROVE  /\ toReport[d] # {} /\ toReport' = [toReport EXCEPT ![d] = {}]
           /\ msg' \in [Devices -> [kind : {"event", "request"}, to : SUBSET Receivers,
                                    event : Event]]
           /\ msg'[d].to = toReport[d]
           /\ msg'[d].event = None \/ (d \in Requests /\ msg'[d].event = event[d])
           /\ msg'[d].kind = "request" => d \in Requests /\ msg'[d].event = event[d]
           /\ \A x \in Devices \ {d} : msg'[x] = msg[x]
           /\ inQ' = Put(inQ, d)
           /\ UNCHANGED <<event, routing, outQ, at, memory, asleep, results, seen>>
<1>1. event[d] \in Event /\ toReport[d] \in SUBSET Receivers
    BY DEF TypeInv, TypeOK
<1>2. CASE Report(d)
    <2>1. msg'[d] = [kind |-> "event", to |-> toReport[d], event |-> None]
        BY <1>2 DEF Report, TypeInv, TypeOK
    <2>2. msg' \in [Devices -> [kind : {"event", "request"}, to : SUBSET Receivers,
                                event : Event]]
        BY <1>1, <1>2, NoneType DEF Report, TypeInv, TypeOK
    <2>3. QED
        BY <1>2, <2>1, <2>2 DEF Report, TypeInv, TypeOK
<1>3. CASE ReportRequest(d)
    <2>1. msg'[d] = [kind |-> "request", to |-> toReport[d], event |-> event[d]]
        BY <1>3 DEF ReportRequest, TypeInv, TypeOK
    <2>2. msg' \in [Devices -> [kind : {"event", "request"}, to : SUBSET Receivers,
                                event : Event]]
        BY <1>1, <1>3 DEF ReportRequest, TypeInv, TypeOK
    <2>3. QED
        BY <1>3, <2>1, <2>2 DEF ReportRequest, TypeInv, TypeOK
<1>4. QED
    BY <1>2, <1>3 DEF Reports

\* A long press.
LEMMA PressEffect ==
    ASSUME TypeInv, NEW d \in Devices, ReportToNobody(d)
    PROVE  /\ MayWrite(d) /\ {} \in Lists[d]
           /\ msg' \in [Devices -> [kind : {"event", "request"}, to : SUBSET Receivers,
                                    event : Event]]
           /\ msg'[d].to = {} /\ msg'[d].event = None /\ msg'[d].kind = "event"
           /\ \A x \in Devices \ {d} : msg'[x] = msg[x]
           /\ inQ' = Put(inQ, d)
           /\ UNCHANGED <<event, toReport, routing, outQ, at, memory, asleep, results, seen>>
BY NoneType DEF ReportToNobody, TypeInv, TypeOK

\* The input manager takes a message.
LEMMA ReceiveEffect ==
    ASSUME TypeInv, Receive
    PROVE  /\ routing = NotRouting /\ inQ # << >> /\ Head(inQ) \in Devices
           /\ inQ' = Tail(inQ)
           /\ msg[Head(inQ)].to = {} => routing' = NotRouting
           /\ msg[Head(inQ)].to # {} =>
                  routing' = [from |-> Head(inQ), kind |-> msg[Head(inQ)].kind,
                              left |-> msg[Head(inQ)].to, event |-> msg[Head(inQ)].event]
           /\ routing' \in [from : Devices \cup {"nobody"}, kind : {"event", "request"},
                            left : SUBSET Receivers, event : Event]
           /\ UNCHANGED <<input, outQ, at, memory, asleep, results, seen>>
<1>1. Head(inQ) \in Devices
    BY TailAt DEF Receive, TypeInv, TypeOK
<1>2. QED
    BY <1>1, NoneType DEF Receive, TypeInv, TypeOK

\* It forwards the message to the next receiver.
LEMMA ForwardEffect ==
    ASSUME TypeInv, Shapes, Forward
    PROVE  /\ routing.from \in Devices /\ Forwarded \in Message
           /\ Forwarded.from = routing.from
           /\ \E r \in routing.left :
                  /\ r \in Receivers
                  /\ Sent(r, Forwarded)
                  /\ copies' = [copies EXCEPT ![r] = @ + 1]
                  /\ routing' = IF routing.left = {r} THEN NotRouting
                                ELSE [routing EXCEPT !.left = @ \ {r}]
           /\ UNCHANGED <<input, inQ, at, heap, misused, asleep, results, seen>>
<1>1. routing.left # {} /\ routing.left \subseteq Receivers
    BY DEF Forward, TypeInv, TypeOK
<1>2. routing.from \in Devices
    BY <1>1 DEF Shapes, TypeInv, TypeOK
<1>3. Forwarded \in Message /\ Forwarded.from = routing.from
    BY <1>2, NoneType DEF Forwarded, Entry, Message, Sources, TypeInv, TypeOK
<1>4. QED
    BY <1>1, <1>2, <1>3 DEF Forward, Sent

\* A receiver takes a message.
LEMMA TakeEffect ==
    ASSUME TypeInv, NEW r \in Receivers, Take(r)
    PROVE  LET m == Head(outQ[r])
               e == Contents(m)
           IN  /\ at[r] = Idle /\ outQ[r] # << >> /\ m \in Message /\ e \in Event
               /\ Taken(r)
               /\ at' = [at EXCEPT ![r] = Entry(m.from, m.copied, e)]
               /\ seen' = IF Told(m) THEN [seen EXCEPT ![r][m.from] = e.id] ELSE seen
               /\ asleep' \in BOOLEAN
               /\ UNCHANGED <<input, inQ, routing, memory, results>>
<1>1. Head(outQ[r]) \in Message
    BY TailAt DEF Take, TypeInv, TypeOK
<1>2. Contents(Head(outQ[r])) \in Event
    BY <1>1 DEF Contents, Message, TypeInv, TypeOK
<1>3. QED
    BY <1>1, <1>2 DEF Take, Taken, TypeInv, TypeOK

\* It is done with the message.
LEMMA HandledEffect ==
    ASSUME TypeInv, NEW r \in Receivers, Handled(r)
    PROVE  /\ at[r] # Idle /\ at' = [at EXCEPT ![r] = Idle]
           /\ event' \in [Devices -> Event]
           /\ \A x \in Devices : event'[x].id = event[x].id /\ event'[x].kind = event[x].kind
           /\ \A x \in Devices : x # at[r].from => event'[x] = event[x]
           /\ ~Registers(at[r], r) => event' = event /\ heap' = heap /\ misused' = misused
           /\ heap' \subseteq heap /\ misused' \in BOOLEAN
           /\ copies' = IF at[r].from \in Sources THEN [copies EXCEPT ![r] = @ - 1] ELSE copies
           /\ UNCHANGED <<toReport, msg, inQ, routing, outQ, asleep, results, seen>>
<1> DEFINE d == at[r].from
<1>1. CASE Registers(at[r], r)
    <2>1. /\ event' = [event EXCEPT ![d].data = 0]
          /\ heap' = heap \ {<<d, event[d].data>>}
          /\ misused' \in BOOLEAN
        BY <1>1 DEF Handled, Answer, TypeInv, TypeOK
    <2>2. \A x \in Devices : /\ event'[x] \in Event
                             /\ event'[x].id = event[x].id /\ event'[x].kind = event[x].kind
                             /\ x # d => event'[x] = event[x]
        <3> TAKE x \in Devices
        <3>1. event[x] \in Event
            BY DEF TypeInv, TypeOK
        <3>2. CASE x = d
            <4>1. event'[x] = [event[x] EXCEPT !.data = 0]
                BY <2>1, <3>2 DEF TypeInv, TypeOK
            <4>2. QED
                BY <3>1, <3>2, <4>1, Bounds DEF Event, Garbage
        <3>3. CASE x # d
            BY <2>1, <3>1, <3>3 DEF TypeInv, TypeOK
        <3>4. QED
            BY <3>2, <3>3
    <2>3. event' \in [Devices -> Event]
        BY <2>1, <2>2 DEF TypeInv, TypeOK
    <2>4. QED
        BY <1>1, <2>1, <2>2, <2>3 DEF Handled, Frees
<1>2. CASE ~Registers(at[r], r)
    BY <1>2 DEF Handled, Frees, TypeInv, TypeOK
<1>3. QED
    BY <1>1, <1>2


\* The vision algorithm reports a result.
LEMMA ResultEffect ==
    ASSUME TypeInv, Result
    PROVE  \E m \in Message :
               /\ m = Entry(Algorithm, TRUE, [id |-> results + 1, kind |-> "result", data |-> 0])
               /\ results' = results + 1 /\ results' \in 0..MaxResults
               /\ Sent(Output, m)
               /\ copies' = [copies EXCEPT ![Output] = @ + 1]
               /\ UNCHANGED <<input, inQ, routing, at, heap, misused, asleep, seen>>
<1>1. results + 1 \in 0..MaxResults
    BY Bounds DEF Result, TypeInv, TypeOK
<1>2. [id |-> results + 1, kind |-> "result", data |-> 0] \in Event
    BY <1>1, Bounds DEF Event, Kinds, Garbage
<1>3. Entry(Algorithm, TRUE, [id |-> results + 1, kind |-> "result", data |-> 0]) \in Message
    BY <1>2 DEF Entry, Message, Sources
<1>4. QED
    BY <1>1, <1>3 DEF Result, Sent

\* A message for a receiver is put on its queue.
LEMMA SendEffect ==
    ASSUME TypeInv, NEW r \in Receivers, NEW m \in Message,
           Sent(r, m)
    PROVE  /\ outQ' \in [Receivers -> Seq(Message)]
           /\ \A x \in Receivers : Len(outQ'[x]) <= QueueLength
           /\ outQ'[r] = outQ[r] \/ outQ'[r] = Append(outQ[r], m)
           /\ Room => outQ'[r] = Append(outQ[r], m)
           /\ \A x \in Receivers \ {r} : outQ'[x] = outQ[x]
<1>1. outQ \in [Receivers -> Seq(Message)] /\ \A x \in Receivers : Len(outQ[x]) <= QueueLength
    BY DEF TypeInv, TypeOK
<1>2. /\ outQ'[r] = Put(outQ[r], m)
      /\ \A x \in Receivers \ {r} : outQ'[x] = outQ[x]
    BY <1>1 DEF Sent
<1>3. /\ Put(outQ[r], m) \in Seq(Message) /\ Len(Put(outQ[r], m)) <= QueueLength
      /\ Put(outQ[r], m) = outQ[r] \/ Put(outQ[r], m) = Append(outQ[r], m)
      /\ Len(outQ[r]) < QueueLength => Put(outQ[r], m) = Append(outQ[r], m)
    BY <1>1, PutQueue
<1>4. outQ' = [outQ EXCEPT ![r] = Put(outQ[r], m)]
    BY DEF Sent
<1>5. outQ' \in [Receivers -> Seq(Message)] /\ \A x \in Receivers : Len(outQ'[x]) <= QueueLength
    BY <1>1, <1>2, <1>3, <1>4
<1>6. QED
    BY <1>2, <1>3, <1>5 DEF Room

\* A message is taken from the queue of a receiver.
LEMMA TakenEffect ==
    ASSUME TypeInv, NEW r \in Receivers, outQ[r] # << >>,
           Taken(r)
    PROVE  /\ outQ' \in [Receivers -> Seq(Message)]
           /\ \A x \in Receivers : Len(outQ'[x]) <= QueueLength
           /\ outQ'[r] = Tail(outQ[r])
           /\ \A x \in Receivers \ {r} : outQ'[x] = outQ[x]
<1>1. outQ \in [Receivers -> Seq(Message)] /\ \A x \in Receivers : Len(outQ[x]) <= QueueLength
    BY DEF TypeInv, TypeOK
<1>2. Tail(outQ[r]) \in Seq(Message) /\ Len(Tail(outQ[r])) <= Len(outQ[r])
    BY <1>1, TailAt
<1>3. QED
    BY <1>1, <1>2, Bounds DEF Taken

\* A pointer to the message of a device is put on the queue of the input manager.
LEMMA QueueEffect ==
    ASSUME TypeInv, NEW d \in Devices, inQ' = Put(inQ, d)
    PROVE  /\ inQ' \in Seq(Devices) /\ Len(inQ') <= QueueLength
           /\ inQ' = inQ \/ inQ' = Append(inQ, d)
           /\ Room => inQ' = Append(inQ, d)
<1>1. inQ \in Seq(Devices) /\ Len(inQ) <= QueueLength
    BY DEF TypeInv, TypeOK
<1>2. QED
    BY <1>1, PutQueue DEF Room

\* The steps of the specification, grouped.
LEMMA Steps ==
    ASSUME [Next]_vars
    PROVE  \/ \E d \in Devices : Writes(d) \/ Reports(d) \/ ReportToNobody(d)
           \/ Receive \/ Forward \/ Result \/ PreEnterSleep
           \/ \E r \in Receivers : Take(r) \/ Handled(r)
           \/ UNCHANGED vars
BY DEF Next, Writes, Reports

-------------------------------------------------------------------------------
(* Types.                                                                      *)

\* A receiver owns a number of messages.
LEMMA OwnedType ==
    ASSUME TypeInv, NEW r \in Receivers
    PROVE  Owned(r) \in Nat /\ (at[r].from \in Sources => Owned(r) >= 1)
<1>1. Cardinality(OnHeap(outQ[r])) \in Nat
    BY HeapFinite DEF TypeInv, TypeOK
<1>2. QED
    BY <1>1 DEF Owned

\* What is allocated for a receiver grows with what is on its way to it, and by
\* no more, unless a message is dropped.
LEMMA OwnedStep ==
    ASSUME TypeInv, Shapes, [Next]_vars, NEW x \in Receivers
    PROVE  /\ copies' \in [Receivers -> Nat]
           /\ copies[x] + Owned(x)' <= copies'[x] + Owned(x)
           /\ Room => copies[x] + Owned(x)' = copies'[x] + Owned(x)
<1> DEFINE C == Cardinality(OnHeap(outQ[x]))
           D == Cardinality(OnHeap(outQ'[x]))
           A == IF at[x].from \in Sources THEN 1 ELSE 0
           B == IF at'[x].from \in Sources THEN 1 ELSE 0
<1>t. /\ copies \in [Receivers -> Nat] /\ outQ \in [Receivers -> Seq(Message)]
      /\ at \in [Receivers -> Message] /\ outQ[x] \in Seq(Message)
    BY DEF TypeInv, TypeOK
<1>c. C \in Nat /\ A \in {0, 1} /\ B \in {0, 1} /\ copies[x] \in Nat
    BY <1>t, HeapFinite
<1>o. Owned(x) = C + A /\ Owned(x)' = D + B
    BY DEF Owned
<1> HIDE DEF C, D, A, B
<1>s. ASSUME NEW r \in Receivers, NEW m \in Message,
             Sent(r, m),
             copies' = IF m.from \in Sources THEN [copies EXCEPT ![r] = @ + 1] ELSE copies,
             at' = at
      PROVE  /\ copies' \in [Receivers -> Nat]
             /\ copies[x] + Owned(x)' <= copies'[x] + Owned(x)
             /\ Room => copies[x] + Owned(x)' = copies'[x] + Owned(x)
    <2>1. /\ outQ'[r] = outQ[r] \/ outQ'[r] = Append(outQ[r], m)
          /\ Room => outQ'[r] = Append(outQ[r], m)
          /\ \A y \in Receivers \ {r} : outQ'[y] = outQ[y]
        BY <1>s, SendEffect
    <2>2. copies' \in [Receivers -> Nat]
        BY <1>s, <1>t
    <2>3. CASE x # r
        <3>1. D = C /\ copies'[x] = copies[x] /\ A = B
            BY <1>s, <1>t, <2>1, <2>3 DEF C, D, A, B
        <3>2. QED
            BY <1>o, <1>c, <1>t, <2>2, <3>1
    <2>4. CASE x = r
        <3> DEFINE one == IF m.from \in Sources THEN 1 ELSE 0
        <3>1. Cardinality(OnHeap(Append(outQ[r], m))) = Cardinality(OnHeap(outQ[r])) + one
            BY <1>t, HeapAppend
        <3>2. D = C \/ D = C + one
            BY <2>1, <2>4, <3>1 DEF C, D
        <3>3. Room => D = C + one
            BY <2>1, <2>4, <3>1 DEF C, D
        <3>4. copies'[x] = copies[x] + one /\ A = B /\ one \in {0, 1}
            BY <1>s, <1>t, <2>4 DEF A, B
        <3> HIDE DEF one
        <3>5. QED
            BY <1>o, <1>c, <2>2, <3>2, <3>3, <3>4
    <2>5. QED
        BY <2>3, <2>4
<1>q. ASSUME outQ' = outQ, at' = at, copies' = copies
      PROVE  /\ copies' \in [Receivers -> Nat]
             /\ copies[x] + Owned(x)' <= copies'[x] + Owned(x)
             /\ Room => copies[x] + Owned(x)' = copies'[x] + Owned(x)
    <2>1. D = C /\ A = B
        BY <1>q DEF C, D, A, B
    <2>2. QED
        BY <1>o, <1>c, <1>t, <1>q, <2>1
<1>1. ASSUME NEW d \in Devices, Writes(d) PROVE outQ' = outQ /\ at' = at /\ copies' = copies
    BY <1>1, WriteEffect
<1>2. ASSUME NEW d \in Devices, Reports(d) \/ ReportToNobody(d)
      PROVE  outQ' = outQ /\ at' = at /\ copies' = copies
    BY <1>2 DEF Reports, Report, ReportRequest, ReportToNobody, memory
<1>3. CASE Receive
    BY <1>3, <1>q DEF Receive, memory
<1>4. CASE Forward
    <2>1. PICK r \in routing.left :
              /\ r \in Receivers /\ Sent(r, Forwarded)
              /\ copies' = [copies EXCEPT ![r] = @ + 1]
        BY <1>4, ForwardEffect
    <2>2. Forwarded \in Message /\ Forwarded.from \in Sources /\ at' = at
        BY <1>4, ForwardEffect DEF Sources
    <2>3. QED
        BY <2>1, <2>2, <1>s
<1>5. CASE Result
    <2>1. PICK m \in Message :
              /\ m = Entry(Algorithm, TRUE, [id |-> results + 1, kind |-> "result", data |-> 0])
              /\ Sent(Output, m)
              /\ copies' = [copies EXCEPT ![Output] = @ + 1]
              /\ at' = at
        BY <1>5, ResultEffect
    <2>2. m.from \in Sources
        BY <2>1 DEF Entry, Sources
    <2>3. QED
        BY <2>1, <2>2, <1>s, Names
<1>6. CASE PreEnterSleep
    <2>1. Sleep \in Message /\ Sleep.from \notin Sources
        BY NoneType, Names DEF Sleep, Entry
    <2>2. Sent(Output, Sleep) /\ copies' = copies /\ at' = at
        BY <1>6 DEF PreEnterSleep, Sent, memory
    <2>3. QED
        BY <2>1, <2>2, <1>s, Names
<1>7. ASSUME NEW r \in Receivers, Take(r)
      PROVE  /\ copies' \in [Receivers -> Nat]
             /\ copies[x] + Owned(x)' <= copies'[x] + Owned(x)
             /\ Room => copies[x] + Owned(x)' = copies'[x] + Owned(x)
    <2>1. /\ at[r] = Idle /\ outQ[r] # << >> /\ Taken(r)
          /\ at' = [at EXCEPT ![r] = Entry(Head(outQ[r]).from, Head(outQ[r]).copied,
                                           Contents(Head(outQ[r])))]
          /\ copies' = copies
        BY <1>7, TakeEffect DEF memory
    <2>2. CASE x # r
        <3>1. D = C /\ A = B
            BY <1>t, <2>1, <2>2 DEF C, D, A, B, Taken
        <3>2. QED
            BY <1>o, <1>c, <1>t, <2>1, <3>1
    <2>3. CASE x = r
        <3>1. Cardinality(OnHeap(outQ[r])) =
                  Cardinality(OnHeap(Tail(outQ[r]))) + (IF Head(outQ[r]).from \in Sources THEN 1 ELSE 0)
            BY <1>t, <2>1, HeapTail
        <3>2. outQ'[r] = Tail(outQ[r]) /\ at'[r].from = Head(outQ[r]).from
            BY <1>t, <2>1 DEF Entry, Taken
        <3>3. A = 0 /\ C = D + B
            BY <2>1, <2>3, <3>1, <3>2, Names DEF C, D, A, B, Idle, Entry
        <3>4. Tail(outQ[r]) \in Seq(Message)
            BY <1>t, <2>1, TailAt
        <3>5. D \in Nat
            BY <2>3, <3>2, <3>4, HeapFinite DEF D
        <3>6. QED
            BY <1>o, <1>c, <1>t, <2>1, <3>3, <3>5
    <2>4. QED
        BY <2>2, <2>3
<1>8. ASSUME NEW r \in Receivers, Handled(r)
      PROVE  /\ copies' \in [Receivers -> Nat]
             /\ copies[x] + Owned(x)' <= copies'[x] + Owned(x)
             /\ Room => copies[x] + Owned(x)' = copies'[x] + Owned(x)
    <2>1. /\ at' = [at EXCEPT ![r] = Idle] /\ outQ' = outQ
          /\ copies' = IF at[r].from \in Sources THEN [copies EXCEPT ![r] = @ - 1] ELSE copies
        BY <1>8, HandledEffect
    <2>2. D = C
        BY <2>1 DEF C, D
    <2>3. at[r].from \in Sources => copies[r] >= 1
        BY OwnedType, <1>t DEF TypeInv
    <2>4. copies' \in [Receivers -> Nat]
        BY <1>t, <2>1, <2>3
    <2>5. CASE x # r
        <3>1. A = B /\ copies'[x] = copies[x]
            BY <1>t, <2>1, <2>5 DEF A, B
        <3>2. QED
            BY <1>o, <1>c, <1>t, <2>2, <2>4, <3>1
    <2>6. CASE x = r
        <3>1. B = 0 /\ copies[x] = copies'[x] + A
            BY <1>t, <2>1, <2>6, Names DEF A, B, Idle, Entry
        <3>2. copies'[x] \in Nat
            BY <2>4
        <3>3. Owned(x) = C + A /\ Owned(x)' = C
            BY <1>o, <1>c, <2>2, <3>1
        <3>4. copies[x] + Owned(x)' = copies'[x] + Owned(x)
            BY <1>c, <3>1, <3>2, <3>3
        <3>5. Owned(x)' \in Nat /\ Owned(x) \in Nat
            BY <1>c, <3>3
        <3>6. QED
            BY <1>c, <2>4, <3>2, <3>4, <3>5
    <2>7. QED
        BY <2>5, <2>6
<1>9. CASE UNCHANGED vars
    BY <1>9, <1>q DEF vars, memory
<1>10. QED
    BY Steps, <1>q, <1>1, <1>2, <1>3, <1>4, <1>5, <1>6, <1>7, <1>8, <1>9

\* Every step keeps the types, and the numbers of the events.
LEMMA TypeStep ==
    ASSUME TypeInv, Shapes, [Next]_vars
    PROVE  TypeInv'
<1> DEFINE Numbered == \A d \in Devices : event[d].id \in 0..MaxEvents
<1>t. TypeOK /\ Numbered
    BY DEF TypeInv
<1>c. copies' \in [Receivers -> Nat]
    <2>1. CASE Receivers # {}
        BY <2>1, OwnedStep
    <2>2. QED
        BY <2>1, Names
<1>n. event' = event => Numbered'
    BY <1>t
<1>d. Numbered' <=> \A d \in Devices : event'[d].id \in 0..MaxEvents
    OBVIOUS
<1> HIDE DEF Numbered
<1>1. ASSUME NEW d \in Devices, Writes(d) PROVE TypeOK' /\ Numbered'
    <2>1. Numbered'
        <3> SUFFICES ASSUME NEW x \in Devices PROVE event'[x].id \in 0..MaxEvents
            BY <1>d
        <3>1. QED
            BY <1>1, <1>t, WriteEffect DEF Numbered
    <2>2. TypeOK'
        BY <1>1, <1>t, <1>c, WriteEffect DEF TypeOK
    <2>3. QED
        BY <2>1, <2>2
<1>2. ASSUME NEW d \in Devices, Reports(d) PROVE TypeOK' /\ Numbered'
    <2>1. inQ' \in Seq(Devices) /\ Len(inQ') <= QueueLength
        BY <1>2, ReportEffect, QueueEffect
    <2>2. toReport' \in [Devices -> SUBSET Receivers]
        BY <1>2, <1>t, ReportEffect DEF TypeOK
    <2>3. QED
        BY <1>2, <1>t, <1>n, <1>c, <2>1, <2>2, ReportEffect DEF TypeOK, memory
<1>3. ASSUME NEW d \in Devices, ReportToNobody(d) PROVE TypeOK' /\ Numbered'
    <2>1. inQ' \in Seq(Devices) /\ Len(inQ') <= QueueLength
        BY <1>3, PressEffect, QueueEffect
    <2>2. QED
        BY <1>3, <1>t, <1>n, <1>c, <2>1, PressEffect DEF TypeOK, memory
<1>4. ASSUME Receive PROVE TypeOK' /\ Numbered'
    <2>1. inQ' \in Seq(Devices) /\ Len(inQ') <= QueueLength
        <3>1. inQ \in Seq(Devices) /\ Len(inQ) <= QueueLength /\ inQ # << >>
            BY <1>4, <1>t DEF TypeOK, Receive
        <3>2. QED
            BY <1>4, <3>1, TailAt, Bounds DEF Receive
    <2>2. UNCHANGED <<event, toReport, msg, outQ, at, heap, copies, misused, asleep, results, seen>>
        BY <1>4 DEF Receive, input, memory
    <2>3. TypeOK'
        BY <1>4, <1>t, <2>1, <2>2, ReceiveEffect DEF TypeOK
    <2>4. QED
        BY <2>2, <2>3, <1>n
<1>5. ASSUME Forward PROVE TypeOK' /\ Numbered'
    <2>1. PICK r \in routing.left :
              /\ r \in Receivers /\ Sent(r, Forwarded)
              /\ routing' = IF routing.left = {r} THEN NotRouting
                            ELSE [routing EXCEPT !.left = @ \ {r}]
        BY <1>5, ForwardEffect
    <2>2. outQ' \in [Receivers -> Seq(Message)] /\ \A x \in Receivers : Len(outQ'[x]) <= QueueLength
        BY <1>5, <2>1, ForwardEffect, SendEffect
    <2>3. routing' \in [from : Devices \cup {"nobody"}, kind : {"event", "request"},
                        left : SUBSET Receivers, event : Event]
        BY <1>t, <2>1, NoneType DEF TypeOK
    <2>4. UNCHANGED <<event, toReport, msg, inQ, at, heap, misused, asleep, results, seen>>
        BY <1>5, ForwardEffect DEF input
    <2>5. TypeOK'
        BY <1>t, <1>c, <2>2, <2>3, <2>4 DEF TypeOK
    <2>6. QED
        BY <2>4, <2>5, <1>n
<1>6. ASSUME Result PROVE TypeOK' /\ Numbered'
    <2>1. PICK m \in Message :
              /\ Sent(Output, m) /\ results' \in 0..MaxResults
              /\ UNCHANGED <<input, inQ, routing, at, heap, misused, asleep, seen>>
        BY <1>6, ResultEffect
    <2>2. outQ' \in [Receivers -> Seq(Message)] /\ \A x \in Receivers : Len(outQ'[x]) <= QueueLength
        BY <2>1, SendEffect, Names
    <2>3. event' = event /\ TypeOK'
        BY <1>t, <1>c, <2>1, <2>2 DEF TypeOK, input
    <2>4. QED
        BY <2>3, <1>n
<1>7. ASSUME PreEnterSleep PROVE TypeOK' /\ Numbered'
    <2>1. outQ' \in [Receivers -> Seq(Message)] /\ \A x \in Receivers : Len(outQ'[x]) <= QueueLength
        BY <1>7, NoneType, SendEffect, Names DEF PreEnterSleep, Sent
    <2>2. UNCHANGED <<event, toReport, msg, inQ, routing, at, heap, copies, misused, asleep, results, seen>>
        BY <1>7 DEF PreEnterSleep, input, memory
    <2>3. TypeOK'
        BY <1>t, <2>1, <2>2 DEF TypeOK
    <2>4. QED
        BY <2>2, <2>3, <1>n
<1>8. ASSUME NEW r \in Receivers, Take(r) PROVE TypeOK' /\ Numbered'
    <2> DEFINE m == Head(outQ[r])
    <2>1. outQ' \in [Receivers -> Seq(Message)] /\ \A x \in Receivers : Len(outQ'[x]) <= QueueLength
        BY <1>8, TakeEffect, TakenEffect
    <2>2. m \in Message /\ Contents(m) \in Event
        BY <1>8, TakeEffect
    <2>e. /\ at' = [at EXCEPT ![r] = Entry(m.from, m.copied, Contents(m))]
          /\ seen' = IF Told(m) THEN [seen EXCEPT ![r][m.from] = Contents(m).id] ELSE seen
        BY <1>8, TakeEffect
    <2>u. UNCHANGED <<event, toReport, msg, inQ, routing, heap, copies, misused, results>> /\ asleep' \in BOOLEAN
        BY <1>8, TakeEffect DEF input, memory
    <2> HIDE DEF m
    <2>3. at' \in [Receivers -> Message]
        <3>1. Entry(m.from, m.copied, Contents(m)) \in Message
            BY <2>2 DEF Entry, Message
        <3>2. QED
            BY <1>t, <2>e, <3>1 DEF TypeOK
    <2>4. seen' \in [Receivers -> [Sources -> 0..MaxEvents \cup 0..MaxResults]]
        <3>1. Told(m) => m.from \in Sources
            BY DEF Told
        <3>2. Contents(m).id \in 0..MaxEvents \cup 0..MaxResults
            BY <2>2 DEF Event
        <3>3. CASE Told(m)
            <4>1. seen \in [Receivers -> [Sources -> 0..MaxEvents \cup 0..MaxResults]]
                BY <1>t DEF TypeOK
            <4>2. seen' = [seen EXCEPT ![r] = [seen[r] EXCEPT ![m.from] = Contents(m).id]]
                BY <2>e, <3>3
            <4>3. [seen[r] EXCEPT ![m.from] = Contents(m).id] \in
                      [Sources -> 0..MaxEvents \cup 0..MaxResults]
                BY <3>1, <3>2, <3>3, <4>1
            <4>4. QED
                BY <4>1, <4>2, <4>3
        <3>4. CASE ~Told(m)
            BY <1>t, <2>e, <3>4 DEF TypeOK
        <3>5. QED
            BY <3>3, <3>4
    <2>5. QED
        BY <1>t, <1>n, <2>1, <2>3, <2>4, <2>u DEF TypeOK
<1>9. ASSUME NEW r \in Receivers, Handled(r) PROVE TypeOK' /\ Numbered'
    <2>1. Numbered'
        BY <1>9, <1>t, <1>d, HandledEffect DEF Numbered
    <2>2. at' \in [Receivers -> Message]
        BY <1>9, <1>t, NoneType, HandledEffect DEF TypeOK
    <2>3. heap' \subseteq Remote \X (1..MaxEvents)
        BY <1>9, <1>t, HandledEffect DEF TypeOK
    <2>4. QED
        BY <1>9, <1>t, <1>c, <2>1, <2>2, <2>3, HandledEffect DEF TypeOK
<1>10. ASSUME UNCHANGED vars PROVE TypeOK' /\ Numbered'
    <2>1. UNCHANGED <<event, toReport, msg, inQ, routing, outQ, at, heap, copies, misused, asleep, results, seen>>
        BY <1>10 DEF vars, input, memory
    <2>2. TypeOK'
        BY <1>t, <2>1 DEF TypeOK
    <2>3. QED
        BY <2>1, <2>2, <1>n
<1>11. TypeOK' /\ Numbered'
    BY Steps, <1>1, <1>2, <1>3, <1>4, <1>5, <1>6, <1>7, <1>8, <1>9, <1>10
<1>12. ASSUME NEW r \in Receivers PROVE Owned(r)' <= copies'[r]
    <2>1. copies[r] + Owned(r)' <= copies'[r] + Owned(r) /\ Owned(r) <= copies[r]
        BY OwnedStep DEF TypeInv
    <2>2. copies[r] \in Nat /\ copies'[r] \in Nat /\ Owned(r) \in Nat
        BY <1>t, <1>c, OwnedType DEF TypeOK
    <2>3. Owned(r)' \in Nat
        <3>1. Cardinality(OnHeap(outQ'[r])) \in Nat
            BY <1>11, HeapFinite DEF TypeOK
        <3>2. QED
            BY <3>1 DEF Owned
    <2> HIDE DEF Owned
    <2>4. QED
        BY <2>1, <2>2, <2>3
<1>13. QED
    BY <1>11, <1>12 DEF TypeInv, Numbered

-------------------------------------------------------------------------------
(* The invariant of the path, one part after the other.                        *)

\* Where the messages of a queue are after one was put on it.
LEMMA SendAt ==
    ASSUME TypeInv, NEW r \in Receivers, NEW m \in Message,
           Sent(r, m), NEW x \in Receivers
    PROVE  /\ \A i \in DOMAIN outQ'[x] :
                  \/ i \in DOMAIN outQ[x] /\ outQ'[x][i] = outQ[x][i]
                  \/ x = r /\ i = Len(outQ[r]) + 1 /\ outQ'[x][i] = m
           /\ \A i \in DOMAIN outQ[x] : /\ i \in Nat /\ i < Len(outQ[x]) + 1
                                        /\ i \in DOMAIN outQ'[x] /\ outQ'[x][i] = outQ[x][i]
           /\ Len(outQ[r]) + 1 \notin DOMAIN outQ[r]
           /\ Room => Len(outQ[r]) + 1 \in DOMAIN outQ'[r] /\ outQ'[r][Len(outQ[r]) + 1] = m
<1>1. /\ outQ'[r] = outQ[r] \/ outQ'[r] = Append(outQ[r], m)
      /\ Room => outQ'[r] = Append(outQ[r], m)
      /\ \A y \in Receivers \ {r} : outQ'[y] = outQ[y]
    BY SendEffect
<1>2. outQ[x] \in Seq(Message) /\ outQ[r] \in Seq(Message)
    BY DEF TypeInv, TypeOK
<1>3. /\ DOMAIN Append(outQ[r], m) = DOMAIN outQ[r] \cup {Len(outQ[r]) + 1}
      /\ \A i \in DOMAIN outQ[r] : Append(outQ[r], m)[i] = outQ[r][i]
      /\ Append(outQ[r], m)[Len(outQ[r]) + 1] = m
      /\ Len(outQ[r]) + 1 \notin DOMAIN outQ[r]
    BY <1>2, AppendAt
<1>4. \A i \in DOMAIN outQ[x] : i \in Nat /\ i < Len(outQ[x]) + 1
    BY <1>2
<1>5. CASE x = r
    BY <1>1, <1>3, <1>4, <1>5
<1>6. CASE x # r
    BY <1>1, <1>3, <1>4, <1>6
<1>7. QED
    BY <1>5, <1>6

\* And after the first of them was taken.
LEMMA TakenAt ==
    ASSUME TypeInv, NEW r \in Receivers, outQ[r] # << >>,
           Taken(r)
    PROVE  /\ \A x \in Receivers \ {r} : outQ'[x] = outQ[x]
           /\ 1 \in DOMAIN outQ[r] /\ Head(outQ[r]) = outQ[r][1]
           /\ \A i \in DOMAIN outQ'[r] :
                  i \in Nat \ {0} /\ i + 1 \in DOMAIN outQ[r] /\ outQ'[r][i] = outQ[r][i + 1]
           /\ \A i \in DOMAIN outQ[r] :
                  i = 1 \/ (i - 1 \in DOMAIN outQ'[r] /\ outQ'[r][i - 1] = outQ[r][i])
<1>1. outQ[r] \in Seq(Message)
    BY DEF TypeInv, TypeOK
<1>2. outQ'[r] = Tail(outQ[r]) /\ \A x \in Receivers \ {r} : outQ'[x] = outQ[x]
    BY TakenEffect
<1>3. /\ 1 \in DOMAIN outQ[r] /\ Head(outQ[r]) = outQ[r][1]
      /\ \A i \in DOMAIN Tail(outQ[r]) :
             i \in Nat \ {0} /\ i + 1 \in DOMAIN outQ[r] /\ Tail(outQ[r])[i] = outQ[r][i + 1]
      /\ \A i \in DOMAIN outQ[r] :
             i = 1 \/ (i - 1 \in DOMAIN Tail(outQ[r]) /\ Tail(outQ[r])[i - 1] = outQ[r][i])
    BY <1>1, TailAt
<1>4. QED
    BY <1>2, <1>3

\* The queue of the input manager after a pointer was put on it.
LEMMA QueueAt ==
    ASSUME TypeInv, NEW d \in Devices, inQ' = Put(inQ, d)
    PROVE  /\ \A i \in DOMAIN inQ' :
                  \/ i \in DOMAIN inQ /\ inQ'[i] = inQ[i]
                  \/ i = Len(inQ) + 1 /\ inQ'[i] = d
           /\ \A x \in Devices : InQueue(x) => InQueue(x)'
           /\ \A x \in Devices \ {d} : InQueue(x)' => InQueue(x)
           /\ Room => InQueue(d)'
<1>1. inQ \in Seq(Devices)
    BY DEF TypeInv, TypeOK
<1>2. /\ inQ' = inQ \/ inQ' = Append(inQ, d)
      /\ Room => inQ' = Append(inQ, d)
    BY QueueEffect
<1>3. CASE inQ' = inQ
    BY <1>2, <1>3, <1>1, AppendAt DEF InQueue
<1>4. CASE inQ' = Append(inQ, d)
    BY <1>1, <1>4, AppendAt DEF InQueue
<1>5. QED
    BY <1>2, <1>3, <1>4

\* And after the input manager took one.
LEMMA DequeueAt ==
    ASSUME TypeInv, inQ # << >>, inQ' = Tail(inQ)
    PROVE  /\ 1 \in DOMAIN inQ /\ Head(inQ) = inQ[1] /\ InQueue(Head(inQ))
           /\ \A i \in DOMAIN inQ' :
                  i \in Nat \ {0} /\ i + 1 \in DOMAIN inQ /\ inQ'[i] = inQ[i + 1]
           /\ \A x \in Devices : InQueue(x)' => InQueue(x)
           /\ \A x \in Devices : InQueue(x) => x = Head(inQ) \/ InQueue(x)'
<1>1. inQ \in Seq(Devices)
    BY DEF TypeInv, TypeOK
<1>2. /\ 1 \in DOMAIN inQ /\ Head(inQ) = inQ[1]
      /\ \A i \in DOMAIN inQ' :
             i \in Nat \ {0} /\ i + 1 \in DOMAIN inQ /\ inQ'[i] = inQ[i + 1]
      /\ \A i \in DOMAIN inQ : i = 1 \/ (i - 1 \in DOMAIN inQ' /\ inQ'[i - 1] = inQ[i])
    BY <1>1, TailAt
<1>3. InQueue(Head(inQ))
    BY <1>2 DEF InQueue
<1>4. \A x \in Devices : InQueue(x)' => InQueue(x)
    BY <1>2 DEF InQueue
<1>5. \A x \in Devices : InQueue(x) => x = Head(inQ) \/ InQueue(x)'
    BY <1>2 DEF InQueue
<1>6. QED
    BY <1>2, <1>3, <1>4, <1>5

\* What is put on the queue of a receiver is a copy when it has to be one.
LEMMA EntriesRight ==
    /\ \A e : EntryRight(Entry(Algorithm, TRUE, e))
    /\ EntryRight(Sleep)
<1>1. ASSUME NEW e PROVE EntryRight(Entry(Algorithm, TRUE, e))
    BY Names DEF EntryRight, Entry
<1>2. "lpm" # Algorithm /\ Sleep.from = "lpm"
    BY DEF Algorithm, Sleep, Entry
<1>3. EntryRight(Sleep)
    BY <1>2, Names DEF EntryRight
<1>4. QED
    BY <1>1, <1>3

\* What the input manager puts on a queue is marked as a copy if it is one.
LEMMA ForwardedRight ==
    ASSUME TypeInv, Shapes, routing.from \in Devices
    PROVE  EntryRight(Forwarded)
BY Names, Sets DEF Shapes, EntryRight, Forwarded, Entry

\* A message on its way to a receiver is a copy when it has to be one.
LEMMA ShapesStep ==
    ASSUME TypeInv, Shapes, [Next]_vars
    PROVE  Shapes'
<1> DEFINE MsgRight == \A d \in Devices : msg[d].kind = "request" => d \in Requests
           RoutingRight == /\ routing.kind = "request" => routing.from \in Requests
                           /\ routing.from = "nobody" <=> routing.left = {}
           QueueRight(r) == \A i \in DOMAIN outQ[r] : EntryRight(outQ[r][i])
<1>s. /\ MsgRight /\ RoutingRight /\ \A r \in Receivers : QueueRight(r)
    BY DEF Shapes
<1>e. SUFFICES MsgRight' /\ RoutingRight' /\ \A r \in Receivers : QueueRight(r)'
    BY DEF Shapes
<1>m. msg' = msg => MsgRight'
    BY <1>s
<1>r. routing' = routing => RoutingRight'
    BY <1>s
<1>q. outQ' = outQ => \A r \in Receivers : QueueRight(r)'
    BY <1>s DEF EntryRight
<1>a. ASSUME NEW r \in Receivers, NEW m \in Message, EntryRight(m),
             Sent(r, m)
      PROVE  \A x \in Receivers : QueueRight(x)'
    <2> SUFFICES ASSUME NEW x \in Receivers, NEW i \in DOMAIN outQ'[x]
                 PROVE  EntryRight(outQ'[x][i])
        BY DEF EntryRight
    <2>a. \A j \in DOMAIN outQ'[x] : \/ j \in DOMAIN outQ[x] /\ outQ'[x][j] = outQ[x][j]
                                     \/ outQ'[x][j] = m
        BY <1>a, SendAt
    <2>1. (i \in DOMAIN outQ[x] /\ outQ'[x][i] = outQ[x][i]) \/ outQ'[x][i] = m
        BY <2>a
    <2>2. QED
        BY <1>a, <1>s, <2>1
<1>1. ASSUME NEW d \in Devices, Writes(d) PROVE msg' = msg /\ routing' = routing /\ outQ' = outQ
    BY <1>1, WriteEffect
<1>2. ASSUME NEW d \in Devices, Reports(d) \/ ReportToNobody(d)
      PROVE  MsgRight' /\ routing' = routing /\ outQ' = outQ
    <2>1. MsgRight'
        <3> SUFFICES ASSUME NEW x \in Devices, msg'[x].kind = "request" PROVE x \in Requests
            OBVIOUS
        <3>1. QED
            BY <1>2, <1>s, ReportEffect, PressEffect
    <2>2. QED
        BY <1>2, <2>1, ReportEffect, PressEffect
<1>3. ASSUME Receive PROVE msg' = msg /\ outQ' = outQ /\ RoutingRight'
    <2>1. msg' = msg /\ outQ' = outQ
        BY <1>3, ReceiveEffect DEF input
    <2>2. Head(inQ) \in Devices
        BY <1>3, ReceiveEffect
    <2>3. CASE msg[Head(inQ)].to = {}
        BY <1>3, <2>1, <2>3, ReceiveEffect DEF NotRouting
    <2>4. CASE msg[Head(inQ)].to # {}
        <3>1. routing' = [from |-> Head(inQ), kind |-> msg[Head(inQ)].kind,
                          left |-> msg[Head(inQ)].to, event |-> msg[Head(inQ)].event]
            BY <1>3, <2>4, ReceiveEffect
        <3>2. /\ routing'.from = Head(inQ) /\ routing'.kind = msg[Head(inQ)].kind
              /\ routing'.left = msg[Head(inQ)].to
            BY <3>1
        <3>3. QED
            BY <1>s, <2>1, <2>2, <2>4, <3>2, Names
    <2>5. QED
        BY <2>1, <2>3, <2>4
<1>4. ASSUME Forward
      PROVE  msg' = msg /\ RoutingRight' /\ \A r \in Receivers : QueueRight(r)'
    <2>1. PICK r \in routing.left :
              /\ r \in Receivers /\ Sent(r, Forwarded)
              /\ routing' = IF routing.left = {r} THEN NotRouting
                            ELSE [routing EXCEPT !.left = @ \ {r}]
        BY <1>4, ForwardEffect
    <2>2. routing.from \in Devices /\ Forwarded \in Message /\ msg' = msg
        BY <1>4, ForwardEffect DEF input
    <2>3. \A x \in Receivers : QueueRight(x)'
        BY <2>1, <2>2, <1>a, ForwardedRight
    <2>4. CASE routing.left = {r}
        BY <2>1, <2>2, <2>3, <2>4 DEF NotRouting
    <2>5. CASE routing.left # {r}
        <3>1. routing \in [from : Devices \cup {"nobody"}, kind : {"event", "request"},
                           left : SUBSET Receivers, event : Event]
            BY DEF TypeInv, TypeOK
        <3>2. /\ routing'.kind = routing.kind /\ routing'.from = routing.from
              /\ routing'.left # {}
            BY <2>1, <2>5, <3>1
        <3>3. QED
            BY <1>s, <2>2, <2>3, <3>2, Names
    <2>6. QED
        BY <2>4, <2>5
<1>5. ASSUME Result
      PROVE  msg' = msg /\ routing' = routing /\ \A r \in Receivers : QueueRight(r)'
    <2>1. PICK m \in Message :
              /\ m = Entry(Algorithm, TRUE, [id |-> results + 1, kind |-> "result", data |-> 0])
              /\ Sent(Output, m)
              /\ UNCHANGED <<input, inQ, routing, at, heap, misused, asleep, seen>>
        BY <1>5, ResultEffect
    <2>2. QED
        BY <2>1, <1>a, EntriesRight, Names DEF input
<1>6. ASSUME PreEnterSleep
      PROVE  msg' = msg /\ routing' = routing /\ \A r \in Receivers : QueueRight(r)'
    BY <1>6, <1>a, NoneType, EntriesRight, Names DEF PreEnterSleep, Sent, input
<1>7. ASSUME NEW r \in Receivers, Take(r)
      PROVE  msg' = msg /\ routing' = routing /\ \A x \in Receivers : QueueRight(x)'
    <2>1. outQ[r] # << >> /\ Taken(r) /\ msg' = msg /\ routing' = routing
        BY <1>7, TakeEffect DEF input
    <2>2. ASSUME NEW x \in Receivers, NEW i \in DOMAIN outQ'[x] PROVE EntryRight(outQ'[x][i])
        <3>1. CASE x = r
            <4>1. i + 1 \in DOMAIN outQ[r] /\ outQ'[r][i] = outQ[r][i + 1]
                BY <2>1, <2>2, <3>1, TakenAt
            <4>2. QED
                BY <1>s, <3>1, <4>1
        <3>2. CASE x # r
            <4>1. outQ'[x] = outQ[x]
                BY <2>1, <3>2, TakenAt
            <4>2. QED
                BY <1>s, <2>2, <4>1
        <3>3. QED
            BY <3>1, <3>2
    <2>3. QED
        BY <2>1, <2>2 DEF EntryRight
<1>8. ASSUME NEW r \in Receivers, Handled(r) PROVE msg' = msg /\ routing' = routing /\ outQ' = outQ
    BY <1>8, HandledEffect
<1>9. ASSUME UNCHANGED vars PROVE msg' = msg /\ routing' = routing /\ outQ' = outQ
    BY <1>9 DEF vars, input
<1> HIDE DEF MsgRight, RoutingRight, QueueRight
<1>10. QED
    BY Steps, <1>m, <1>r, <1>q, <1>1, <1>2, <1>3, <1>4, <1>5, <1>6, <1>7, <1>8, <1>9

\* The types and the shapes of the messages hold from the beginning.
LEMMA InitType == Init => TypeInv /\ Shapes
<1> SUFFICES ASSUME Init PROVE TypeInv /\ Shapes
    OBVIOUS
<1>1. TypeOK
    <2>1. /\ event \in [Devices -> Event] /\ toReport \in [Devices -> SUBSET Receivers]
          /\ msg \in [Devices -> [kind : {"event", "request"}, to : SUBSET Receivers,
                                  event : Event]]
        BY NoneType DEF Init
    <2>2. /\ outQ \in [Receivers -> Seq(Message)] /\ \A r \in Receivers : Len(outQ[r]) <= QueueLength
          /\ at \in [Receivers -> Message] /\ inQ \in Seq(Devices) /\ Len(inQ) <= QueueLength
          /\ routing \in [from : Devices \cup {"nobody"}, kind : {"event", "request"},
                          left : SUBSET Receivers, event : Event]
        BY NoneType, Bounds DEF Init
    <2>3. /\ copies \in [Receivers -> Nat] /\ results \in 0..MaxResults
          /\ heap \subseteq Remote \X (1..MaxEvents)
        BY Bounds DEF Init
    <2>4. seen \in [Receivers -> [Sources -> 0..MaxEvents \cup 0..MaxResults]]
        BY Bounds DEF Init
    <2>5. misused \in BOOLEAN /\ asleep \in BOOLEAN
        BY DEF Init
    <2>6. QED
        BY <2>1, <2>2, <2>3, <2>4, <2>5 DEF TypeOK
<1>2. \A d \in Devices : event[d].id \in 0..MaxEvents
    BY Bounds DEF Init, None
<1>3. ASSUME NEW r \in Receivers PROVE Owned(r) <= copies[r]
    <2>1. OnHeap(outQ[r]) = {} /\ at[r].from \notin Sources /\ copies[r] = 0
        BY <1>3, Names DEF Init, OnHeap, Idle, Entry
    <2>2. QED
        BY <2>1, FS_EmptySet DEF Owned
<1>4. Shapes
    BY DEF Init, Shapes, NotRouting
<1>5. QED
    BY <1>1, <1>2, <1>3, <1>4 DEF TypeInv

\* The variables keep their types: queues never grow beyond their length, and
\* no receiver frees a message that was not allocated for it.
THEOREM RoutingTypeCorrect == Spec => []TypeOK
<1>1. TypeInv /\ Shapes /\ [Next]_vars => TypeInv' /\ Shapes'
    BY TypeStep, ShapesStep
<1>2. TypeInv /\ Shapes => TypeOK
    BY DEF TypeInv
<1>3. QED
    BY <1>1, <1>2, InitType, PTL DEF Spec

\* Parts of the path that a step leaves alone.
LEMMA SamePath ==
    /\ inQ' = inQ => \A d : InQueue(d)' <=> InQueue(d)
    /\ routing' = routing => \A r, d : RoutedTo(r, d)' <=> RoutedTo(r, d)
    /\ outQ' = outQ => \A r, d : Holds(r, d)' <=> Holds(r, d)
    /\ outQ' = outQ /\ at' = at => \A r, d : Pointed(r, d)' <=> Pointed(r, d)
BY DEF InQueue, RoutedTo, Holds, Pointed

\* A device that waits writes when nothing of its last event is under way.
LEMMA WriteWaits ==
    ASSUME NEW d \in Patient, MayWrite(d)
    PROVE  /\ toReport[d] = {} /\ ~InQueue(d) /\ routing.from # d
           /\ d \notin Copied => \A r \in Receivers : ~Pointed(r, d)
<1>1. toReport[d] = {} /\ ~Underway(d)
    BY DEF MayWrite, Patient
<1>2. ~InQueue(d) /\ routing.from # d
    BY <1>1 DEF Underway, InQueue
<1>3. ASSUME d \notin Copied, NEW r \in Receivers PROVE ~Pointed(r, d)
    <2>1. d \notin {at[r].from} \cup {outQ[r][i].from : i \in DOMAIN outQ[r]}
        BY <1>1, <1>3 DEF Underway
    <2>2. QED
        BY <2>1 DEF Pointed, Holds
<1>4. QED
    BY <1>1, <1>2, <1>3

\* Who has a message of a sender after one was put on a queue.
LEMMA SentHolds ==
    ASSUME TypeInv, NEW r \in Receivers, NEW m \in Message, Sent(r, m),
           NEW x \in Receivers, NEW d
    PROVE  /\ Holds(x, d)' => Holds(x, d) \/ (x = r /\ m.from = d)
           /\ Holds(x, d) => Holds(x, d)'
           /\ Room /\ x = r /\ m.from = d => Holds(x, d)'
<1>1. /\ \A i \in DOMAIN outQ'[x] :
             \/ i \in DOMAIN outQ[x] /\ outQ'[x][i] = outQ[x][i]
             \/ x = r /\ i = Len(outQ[r]) + 1 /\ outQ'[x][i] = m
      /\ \A i \in DOMAIN outQ[x] : i \in DOMAIN outQ'[x] /\ outQ'[x][i] = outQ[x][i]
      /\ Room => Len(outQ[r]) + 1 \in DOMAIN outQ'[r] /\ outQ'[r][Len(outQ[r]) + 1] = m
    BY SendAt
<1>2. QED
    BY <1>1 DEF Holds

\* And after one was taken.
LEMMA TakenHolds ==
    ASSUME TypeInv, NEW r \in Receivers, outQ[r] # << >>, Taken(r),
           NEW x \in Receivers, NEW d
    PROVE  /\ Holds(x, d)' => Holds(x, d)
           /\ Holds(x, d) => Holds(x, d)' \/ (x = r /\ Head(outQ[r]).from = d)
           /\ x = r /\ Head(outQ[r]).from = d => Holds(x, d)
<1>1. CASE x # r
    BY <1>1, TakenAt DEF Holds
<1>2. CASE x = r
    <2>1. /\ 1 \in DOMAIN outQ[r] /\ Head(outQ[r]) = outQ[r][1]
          /\ \A i \in DOMAIN outQ'[r] : i + 1 \in DOMAIN outQ[r] /\ outQ'[r][i] = outQ[r][i + 1]
          /\ \A i \in DOMAIN outQ[r] :
                 i = 1 \/ (i - 1 \in DOMAIN outQ'[r] /\ outQ'[r][i - 1] = outQ[r][i])
        BY TakenAt
    <2>2. Holds(r, d)' => Holds(r, d)
        BY <2>1 DEF Holds
    <2>3. Holds(r, d) => Holds(r, d)' \/ Head(outQ[r]).from = d
        BY <2>1 DEF Holds
    <2>4. Head(outQ[r]).from = d => Holds(r, d)
        BY <2>1 DEF Holds
    <2>5. QED
        BY <1>2, <2>2, <2>3, <2>4
<1>3. QED
    BY <1>1, <1>2

\* What the input manager does to the routing.
LEMMA ReceivePath ==
    ASSUME TypeInv, Receive, NEW d \in Devices
    PROVE  LET h == Head(inQ) IN
           /\ routing.from # d
           /\ routing'.from = d => d = h /\ routing'.left = msg[h].to
                                   /\ routing'.kind = msg[h].kind /\ routing'.event = msg[h].event
           /\ \A r : RoutedTo(r, d)' <=> (d = h /\ r \in msg[h].to)
           /\ InQueue(h) /\ (InQueue(d)' => InQueue(d)) /\ (InQueue(d) => d = h \/ InQueue(d)')
           /\ ~\E r : RoutedTo(r, d)
<1>1. /\ routing = NotRouting /\ inQ # << >> /\ inQ' = Tail(inQ) /\ Head(inQ) \in Devices
      /\ msg[Head(inQ)].to = {} => routing' = NotRouting
      /\ msg[Head(inQ)].to # {} =>
             routing' = [from |-> Head(inQ), kind |-> msg[Head(inQ)].kind,
                         left |-> msg[Head(inQ)].to, event |-> msg[Head(inQ)].event]
    BY ReceiveEffect
<1>2. routing.from # d /\ NotRouting.from # d /\ NotRouting.left = {}
    BY <1>1, Names DEF NotRouting
<1>3. InQueue(Head(inQ)) /\ (InQueue(d)' => InQueue(d)) /\ (InQueue(d) => d = Head(inQ) \/ InQueue(d)')
    BY <1>1, DequeueAt
<1>4. CASE msg[Head(inQ)].to = {}
    BY <1>1, <1>2, <1>3, <1>4 DEF RoutedTo
<1>5. CASE msg[Head(inQ)].to # {}
    <2>1. /\ routing'.from = Head(inQ) /\ routing'.left = msg[Head(inQ)].to
          /\ routing'.kind = msg[Head(inQ)].kind /\ routing'.event = msg[Head(inQ)].event
        BY <1>1, <1>5
    <2>2. QED
        BY <1>2, <1>3, <2>1 DEF RoutedTo
<1>6. QED
    BY <1>4, <1>5

\* One receiver less is left.
LEMMA ForwardPath ==
    ASSUME TypeInv, Shapes, Forward
    PROVE  \E r \in Receivers :
               /\ Sent(r, Forwarded) /\ copies' = [copies EXCEPT ![r] = @ + 1]
               /\ RoutedTo(r, routing.from)
               /\ \A x, d : d \in Devices =>
                      (RoutedTo(x, d)' <=> RoutedTo(x, d) /\ x # r)
               /\ \A d \in Devices : routing'.from = d =>
                      routing.from = d /\ routing'.kind = routing.kind
                      /\ routing'.event = routing.event /\ routing'.left = routing.left \ {r}
                      /\ routing.left # {r}
               /\ routing'.event \in {None, routing.event}
<1>1. PICK r \in routing.left :
          /\ r \in Receivers
          /\ Sent(r, Forwarded) /\ copies' = [copies EXCEPT ![r] = @ + 1]
          /\ routing' = IF routing.left = {r} THEN NotRouting
                        ELSE [routing EXCEPT !.left = @ \ {r}]
    BY ForwardEffect
<1>2. routing \in [from : Devices \cup {"nobody"}, kind : {"event", "request"},
                   left : SUBSET Receivers, event : Event]
    BY DEF TypeInv, TypeOK
<1>3. RoutedTo(r, routing.from)
    BY <1>1 DEF RoutedTo
<1>4. CASE routing.left = {r}
    <2>1. routing' = NotRouting /\ routing'.from = "nobody" /\ routing'.event = None
        BY <1>1, <1>4 DEF NotRouting
    <2>2. \A x, d : d \in Devices => (RoutedTo(x, d)' <=> RoutedTo(x, d) /\ x # r)
        BY <1>4, <2>1, Names DEF RoutedTo
    <2>3. QED
        BY <1>1, <1>3, <2>1, <2>2, Names
<1>5. CASE routing.left # {r}
    <2>1. /\ routing'.from = routing.from /\ routing'.kind = routing.kind
          /\ routing'.event = routing.event /\ routing'.left = routing.left \ {r}
        BY <1>1, <1>2, <1>5
    <2>2. \A x, d : d \in Devices => (RoutedTo(x, d)' <=> RoutedTo(x, d) /\ x # r)
        BY <2>1 DEF RoutedTo
    <2>3. QED
        BY <1>1, <1>3, <1>5, <2>1, <2>2
<1>6. QED
    BY <1>4, <1>5

\* The request of a device that waits stays the one under way.
LEMMA RequestStep ==
    ASSUME TypeInv, PathInv, [Next]_vars, NEW d \in Patient
    PROVE  RequestCurrent(d)'
<1>d. d \in Devices
    BY DEF Patient
<1>i. RequestCurrent(d) /\ OneMessage(d) /\ Shapes
    BY DEF PathInv
<1>same. ASSUME inQ' = inQ, msg' = msg, routing' = routing, event'[d].id = event[d].id
         PROVE  RequestCurrent(d)'
    BY <1>same, <1>i DEF RequestCurrent, InQueue
<1>1. ASSUME NEW e \in Devices, Writes(e) PROVE RequestCurrent(d)'
    <2>1. inQ' = inQ /\ msg' = msg /\ routing' = routing /\ MayWrite(e)
        BY <1>1, WriteEffect
    <2>2. CASE e = d
        BY <2>1, <2>2, WriteWaits DEF RequestCurrent, InQueue
    <2>3. CASE e # d
        BY <1>1, <1>d, <1>same, <2>1, <2>3, WriteEffect
    <2>4. QED
        BY <2>2, <2>3
<1>2. ASSUME NEW e \in Devices, Reports(e) \/ ReportToNobody(e) PROVE RequestCurrent(d)'
    <2>1. /\ inQ' = Put(inQ, e) /\ routing' = routing /\ event' = event
          /\ e # d => msg'[d] = msg[d]
          /\ e = d => (msg'[d].kind = "request" => msg'[d].event = event[d])
        BY <1>2, <1>d, ReportEffect, PressEffect
    <2>2. e # d => (InQueue(d)' => InQueue(d))
        BY <2>1, <1>d, QueueAt
    <2>3. QED
        BY <1>i, <2>1, <2>2 DEF RequestCurrent
<1>3. ASSUME Receive PROVE RequestCurrent(d)'
    <2>1. msg' = msg /\ event' = event
        BY <1>3, ReceiveEffect DEF input
    <2>2. InQueue(d)' => InQueue(d)
        BY <1>3, <1>d, ReceivePath
    <2>3. routing'.from = d => InQueue(d) /\ routing'.kind = msg[d].kind /\ routing'.event = msg[d].event
        BY <1>3, <1>d, ReceivePath
    <2>4. QED
        BY <1>i, <2>1, <2>2, <2>3 DEF RequestCurrent
<1>4. ASSUME Forward PROVE RequestCurrent(d)'
    <2>1. msg' = msg /\ event' = event /\ inQ' = inQ
        BY <1>4, <1>i, ForwardEffect DEF input
    <2>2. routing'.from = d => routing.from = d /\ routing'.kind = routing.kind
                                                /\ routing'.event = routing.event
        BY <1>4, <1>i, <1>d, ForwardPath
    <2>3. InQueue(d)' <=> InQueue(d)
        BY <2>1, SamePath
    <2>4. QED
        BY <1>i, <2>1, <2>2, <2>3 DEF RequestCurrent
<1>5. ASSUME Result \/ PreEnterSleep \/ (\E r \in Receivers : Take(r))
      PROVE  inQ' = inQ /\ msg' = msg /\ routing' = routing /\ event' = event
    BY <1>5 DEF Result, PreEnterSleep, Take, input
<1>6. ASSUME NEW r \in Receivers, Handled(r) PROVE RequestCurrent(d)'
    BY <1>6, <1>d, <1>same, HandledEffect
<1>7. ASSUME UNCHANGED vars PROVE inQ' = inQ /\ msg' = msg /\ routing' = routing /\ event' = event
    BY <1>7 DEF vars, input
<1>8. QED
    BY Steps, <1>same, <1>1, <1>2, <1>3, <1>4, <1>5, <1>6, <1>7

\* The pointer to the message of a device that waits stays the only one.
LEMMA MessageStep ==
    ASSUME TypeInv, PathInv, [Next]_vars, NEW d \in Patient
    PROVE  OneMessage(d)'
<1>d. d \in Devices
    BY DEF Patient
<1>i. OneMessage(d) /\ Shapes
    BY DEF PathInv
<1>same. ASSUME inQ' = inQ, routing' = routing, toReport' = toReport PROVE OneMessage(d)'
    BY <1>same, <1>i DEF OneMessage, InQueue
<1>put. ASSUME NEW e \in Devices, inQ' = Put(inQ, e), routing' = routing,
               e = d => ~InQueue(d) /\ routing.from # d /\ toReport'[d] = {},
               e # d => toReport'[d] = toReport[d]
        PROVE  OneMessage(d)'
    <2>1. \A i \in DOMAIN inQ' : \/ i \in DOMAIN inQ /\ inQ'[i] = inQ[i]
                                 \/ i = Len(inQ) + 1 /\ inQ'[i] = e
        BY <1>put, QueueAt
    <2>2. e # d => (InQueue(d)' => InQueue(d))
        BY <1>put, <1>d, QueueAt
    <2>3. \A i, j \in DOMAIN inQ' : inQ'[i] = d /\ inQ'[j] = d => i = j
        <3>1. CASE e = d
            <4>1. \A i \in DOMAIN inQ : inQ[i] # d
                BY <1>put, <3>1 DEF InQueue
            <4>2. QED
                BY <2>1, <4>1
        <3>2. CASE e # d
            BY <2>1, <3>2, <1>i DEF OneMessage
        <3>3. QED
            BY <3>1, <3>2
    <2>4. QED
        BY <1>put, <1>i, <2>2, <2>3 DEF OneMessage
<1>1. ASSUME NEW e \in Devices, Writes(e) PROVE OneMessage(d)'
    <2>1. inQ' = inQ /\ routing' = routing /\ MayWrite(e)
        BY <1>1, WriteEffect
    <2>2. CASE e = d
        BY <2>1, <2>2, <1>i, WriteWaits DEF OneMessage, InQueue
    <2>3. CASE e # d
        <3>1. toReport'[d] = toReport[d]
            BY <1>1, <1>d, <2>3, WriteEffect
        <3>2. QED
            BY <2>1, <3>1, <1>i DEF OneMessage, InQueue
    <2>4. QED
        BY <2>2, <2>3
<1>2. ASSUME NEW e \in Devices, Reports(e) PROVE OneMessage(d)'
    <2>1. /\ toReport[e] # {} /\ toReport' = [toReport EXCEPT ![e] = {}]
          /\ inQ' = Put(inQ, e) /\ routing' = routing
        BY <1>2, ReportEffect
    <2>2. toReport \in [Devices -> SUBSET Receivers]
        BY DEF TypeInv, TypeOK
    <2>3. (e = d => toReport'[d] = {}) /\ (e # d => toReport'[d] = toReport[d])
        BY <2>1, <2>2, <1>d
    <2>4. e = d => ~InQueue(d) /\ routing.from # d
        BY <2>1, <1>i DEF OneMessage
    <2>5. QED
        BY <1>put, <2>1, <2>3, <2>4
<1>3. ASSUME NEW e \in Devices, ReportToNobody(e) PROVE OneMessage(d)'
    <2>1. MayWrite(e) /\ toReport' = toReport /\ inQ' = Put(inQ, e) /\ routing' = routing
        BY <1>3, PressEffect
    <2>2. e = d => ~InQueue(d) /\ routing.from # d /\ toReport[d] = {}
        BY <2>1, WriteWaits
    <2>3. QED
        BY <1>put, <2>1, <2>2
<1>4. ASSUME Receive PROVE OneMessage(d)'
    <2>1. inQ # << >> /\ inQ' = Tail(inQ) /\ toReport' = toReport
        BY <1>4, ReceiveEffect DEF input
    <2>2. /\ 1 \in DOMAIN inQ /\ Head(inQ) = inQ[1]
          /\ \A i \in DOMAIN inQ' :
                 i \in Nat \ {0} /\ i + 1 \in DOMAIN inQ /\ inQ'[i] = inQ[i + 1]
        BY <2>1, DequeueAt
    <2>3. \A i, j \in DOMAIN inQ' : inQ'[i] = d /\ inQ'[j] = d => i = j
        <3>1. \A i, j \in DOMAIN inQ : inQ[i] = d /\ inQ[j] = d => i = j
            BY <1>i DEF OneMessage
        <3> SUFFICES ASSUME NEW i \in DOMAIN inQ', NEW j \in DOMAIN inQ', inQ'[i] = d, inQ'[j] = d
                     PROVE  i = j
            OBVIOUS
        <3>2. i + 1 = j + 1 /\ i \in Nat /\ j \in Nat
            BY <2>2, <3>1
        <3>3. QED
            BY <3>2
    <2>4. d = Head(inQ) => ~InQueue(d)'
        <3> SUFFICES ASSUME d = inQ[1], NEW i \in DOMAIN inQ', inQ'[i] = d PROVE FALSE
            BY <2>2 DEF InQueue
        <3>1. i \in Nat \ {0} /\ i + 1 \in DOMAIN inQ /\ inQ[i + 1] = d
            BY <2>2
        <3>2. i + 1 = 1
            BY <2>2, <3>1, <1>i DEF OneMessage
        <3>3. QED
            BY <3>1, <3>2
    <2>5. /\ routing'.from = d => d = Head(inQ) /\ InQueue(d)
          /\ InQueue(d)' => InQueue(d)
        BY <1>4, <1>d, ReceivePath
    <2>6. QED
        BY <1>i, <2>1, <2>3, <2>4, <2>5 DEF OneMessage
<1>5. ASSUME Forward PROVE OneMessage(d)'
    <2>1. inQ' = inQ /\ toReport' = toReport
        BY <1>5, <1>i, ForwardEffect DEF input
    <2>2. routing'.from = d => routing.from = d
        BY <1>5, <1>i, <1>d, ForwardPath
    <2>3. QED
        BY <1>i, <2>1, <2>2 DEF OneMessage, InQueue
<1>6. ASSUME Result \/ PreEnterSleep \/ (\E r \in Receivers : Take(r) \/ Handled(r)) \/ UNCHANGED vars
      PROVE  inQ' = inQ /\ routing' = routing /\ toReport' = toReport
    BY <1>6 DEF Result, PreEnterSleep, Take, Handled, input, vars
<1>7. QED
    BY Steps, <1>same, <1>1, <1>2, <1>3, <1>4, <1>5, <1>6

\* The pointer of a receiver to the event of a device that waits stays the only
\* one.
LEMMA PointerStep ==
    ASSUME TypeInv, PathInv, [Next]_vars, NEW d \in Patient \ Copied, NEW x \in Receivers
    PROVE  OnePointer(d, x)'
<1>d. d \in Devices /\ d \in Patient /\ d \notin Copied
    BY DEF Patient
<1>i. OnePointer(d, x) /\ OneMessage(d) /\ Shapes
    BY DEF PathInv
<1>path. ASSUME outQ' = outQ, at' = at,
                toReport'[d] # {} \/ InQueue(d)' \/ RoutedTo(x, d)' => ~Pointed(x, d)
         PROVE  OnePointer(d, x)'
    <2>1. Pointed(x, d)' <=> Pointed(x, d)
        BY <1>path, SamePath
    <2>2. Holds(x, d)' <=> Holds(x, d)
        BY <1>path, SamePath
    <2>3. QED
        BY <1>i, <1>path, <2>1, <2>2 DEF OnePointer
<1>sent. ASSUME NEW r \in Receivers, NEW m \in Message, Sent(r, m), at' = at,
                inQ' = inQ, toReport' = toReport,
                RoutedTo(x, d)' => RoutedTo(x, d),
                x = r /\ m.from = d =>
                    /\ RoutedTo(x, d) /\ toReport[d] = {} /\ ~InQueue(d) /\ ~RoutedTo(x, d)'
         PROVE  OnePointer(d, x)'
    <2>1. \A i \in DOMAIN outQ'[x] :
              \/ i \in DOMAIN outQ[x] /\ outQ'[x][i] = outQ[x][i]
              \/ x = r /\ i = Len(outQ[r]) + 1 /\ outQ'[x][i] = m
        BY <1>sent, SendAt
    <2>2. InQueue(d)' <=> InQueue(d)
        BY <1>sent, SamePath
    <2>3. CASE x = r /\ m.from = d
        <3>1. ~Pointed(x, d)
            BY <1>sent, <1>i, <2>3 DEF OnePointer
        <3>2. at[x].from # d /\ \A i \in DOMAIN outQ[x] : outQ[x][i].from # d
            BY <3>1 DEF Pointed, Holds
        <3>3. \A i, j \in DOMAIN outQ'[x] : outQ'[x][i].from = d /\ outQ'[x][j].from = d => i = j
            BY <2>1, <3>2
        <3>4. QED
            BY <1>sent, <2>2, <2>3, <3>2, <3>3 DEF OnePointer
    <2>4. CASE ~(x = r /\ m.from = d)
        <3>1. \A i \in DOMAIN outQ'[x] : outQ'[x][i].from = d =>
                  i \in DOMAIN outQ[x] /\ outQ'[x][i] = outQ[x][i]
            BY <2>1, <2>4
        <3>2. Holds(x, d)' => Holds(x, d)
            BY <3>1 DEF Holds
        <3>3. Pointed(x, d)' => Pointed(x, d)
            BY <1>sent, <3>2 DEF Pointed
        <3>4. \A i, j \in DOMAIN outQ'[x] : outQ'[x][i].from = d /\ outQ'[x][j].from = d => i = j
            BY <3>1, <1>i DEF OnePointer
        <3>5. QED
            BY <1>i, <1>sent, <2>2, <3>2, <3>3, <3>4 DEF OnePointer
    <2>5. QED
        BY <2>3, <2>4
<1>1. ASSUME NEW e \in Devices, Writes(e) PROVE OnePointer(d, x)'
    <2>1. inQ' = inQ /\ routing' = routing /\ outQ' = outQ /\ at' = at /\ MayWrite(e)
        BY <1>1, WriteEffect
    <2>2. e # d => toReport'[d] = toReport[d]
        BY <1>1, <1>d, WriteEffect
    <2>3. e = d => ~Pointed(x, d)
        BY <1>d, <2>1, WriteWaits
    <2>4. (InQueue(d)' <=> InQueue(d)) /\ (RoutedTo(x, d)' <=> RoutedTo(x, d))
        BY <2>1, SamePath
    <2>5. QED
        BY <1>path, <1>i, <2>1, <2>2, <2>3, <2>4 DEF OnePointer
<1>2. ASSUME NEW e \in Devices, Reports(e) \/ ReportToNobody(e) PROVE OnePointer(d, x)'
    <2>1. routing' = routing /\ outQ' = outQ /\ at' = at /\ inQ' = Put(inQ, e)
        BY <1>2, ReportEffect, PressEffect
    <2>2. e # d => toReport'[d] = toReport[d] /\ (InQueue(d)' => InQueue(d))
        <3>1. toReport' = [toReport EXCEPT ![e] = {}] \/ toReport' = toReport
            BY <1>2, ReportEffect, PressEffect
        <3>2. toReport \in [Devices -> SUBSET Receivers]
            BY DEF TypeInv, TypeOK
        <3>3. QED
            BY <1>d, <2>1, <3>1, <3>2, QueueAt
    <2>3. e = d => ~Pointed(x, d)
        <3>1. CASE Reports(e)
            BY <1>i, <3>1, ReportEffect DEF OnePointer
        <3>2. CASE ReportToNobody(e)
            BY <1>d, <3>2, PressEffect, WriteWaits
        <3>3. QED
            BY <1>2, <3>1, <3>2
    <2>4. RoutedTo(x, d)' <=> RoutedTo(x, d)
        BY <2>1, SamePath
    <2>5. QED
        BY <1>path, <1>i, <2>1, <2>2, <2>3, <2>4 DEF OnePointer
<1>3. ASSUME Receive PROVE OnePointer(d, x)'
    <2>1. outQ' = outQ /\ at' = at /\ toReport' = toReport
        BY <1>3, ReceiveEffect DEF input
    <2>2. (InQueue(d)' => InQueue(d)) /\ (RoutedTo(x, d)' => InQueue(d))
        BY <1>3, <1>d, ReceivePath
    <2>3. QED
        BY <1>path, <1>i, <2>1, <2>2 DEF OnePointer
<1>4. ASSUME Forward PROVE OnePointer(d, x)'
    <2>1. PICK r \in Receivers :
              /\ Sent(r, Forwarded) /\ RoutedTo(r, routing.from)
              /\ RoutedTo(x, d)' <=> RoutedTo(x, d) /\ x # r
        BY <1>4, <1>i, <1>d, ForwardPath
    <2>2. /\ Forwarded \in Message /\ Forwarded.from = routing.from
          /\ at' = at /\ inQ' = inQ /\ toReport' = toReport
        BY <1>4, <1>i, ForwardEffect DEF input
    <2>3. Forwarded.from = d => toReport[d] = {} /\ ~InQueue(d)
        BY <2>2, <1>i DEF OneMessage
    <2>4. QED
        BY <1>sent, <2>1, <2>2, <2>3
<1>5. ASSUME Result PROVE OnePointer(d, x)'
    <2>1. PICK m \in Message :
              /\ m = Entry(Algorithm, TRUE, [id |-> results + 1, kind |-> "result", data |-> 0])
              /\ Sent(Output, m)
              /\ UNCHANGED <<input, inQ, routing, at, heap, misused, asleep, seen>>
        BY <1>5, ResultEffect
    <2>2. m.from # d
        BY <1>d, <2>1, Names DEF Entry
    <2>3. RoutedTo(x, d)' <=> RoutedTo(x, d)
        BY <2>1, SamePath
    <2>4. QED
        BY <1>sent, <2>1, <2>2, <2>3, Names DEF input
<1>6. ASSUME PreEnterSleep PROVE OnePointer(d, x)'
    <2>1. /\ Sent(Output, Sleep) /\ at' = at /\ inQ' = inQ /\ toReport' = toReport
          /\ routing' = routing /\ Sleep \in Message /\ Sleep.from # d
        BY <1>6, <1>d, NoneType, Names DEF PreEnterSleep, Sent, input, Sleep, Entry
    <2>2. RoutedTo(x, d)' <=> RoutedTo(x, d)
        BY <2>1, SamePath
    <2>3. QED
        BY <1>sent, <2>1, <2>2, Names
<1>7. ASSUME NEW r \in Receivers, Take(r) PROVE OnePointer(d, x)'
    <2>1. /\ at[r] = Idle /\ outQ[r] # << >> /\ Taken(r)
          /\ at' = [at EXCEPT ![r] = Entry(Head(outQ[r]).from, Head(outQ[r]).copied,
                                           Contents(Head(outQ[r])))]
          /\ toReport' = toReport /\ inQ' = inQ /\ routing' = routing
        BY <1>7, TakeEffect DEF input
    <2>2. (InQueue(d)' <=> InQueue(d)) /\ (RoutedTo(x, d)' <=> RoutedTo(x, d))
        BY <2>1, SamePath
    <2>a. at \in [Receivers -> Message]
        BY DEF TypeInv, TypeOK
    <2>3. CASE x # r
        <3>1. outQ'[x] = outQ[x] /\ at'[x] = at[x]
            BY <2>1, <2>3, <2>a, TakenAt
        <3>2. QED
            BY <1>i, <2>1, <2>2, <3>1 DEF OnePointer, Pointed, Holds
    <2>4. CASE x = r
        <3>1. /\ 1 \in DOMAIN outQ[r] /\ Head(outQ[r]) = outQ[r][1]
              /\ \A i \in DOMAIN outQ'[r] :
                     i \in Nat \ {0} /\ i + 1 \in DOMAIN outQ[r] /\ outQ'[r][i] = outQ[r][i + 1]
            BY <2>1, TakenAt
        <3>2. \A i, j \in DOMAIN outQ[r] : outQ[r][i].from = d /\ outQ[r][j].from = d => i = j
            BY <1>i, <2>4 DEF OnePointer
        <3>3. \A i, j \in DOMAIN outQ'[r] : outQ'[r][i].from = d /\ outQ'[r][j].from = d => i = j
            <4> SUFFICES ASSUME NEW i \in DOMAIN outQ'[r], NEW j \in DOMAIN outQ'[r],
                                outQ'[r][i].from = d, outQ'[r][j].from = d
                         PROVE  i = j
                OBVIOUS
            <4>1. i + 1 = j + 1 /\ i \in Nat /\ j \in Nat
                BY <3>1, <3>2
            <4>2. QED
                BY <4>1
        <3>4. at'[r].from = Head(outQ[r]).from
            BY <2>1, <2>a DEF Entry
        <3>5. at'[r].from = d => ~Holds(r, d)'
            <4> SUFFICES ASSUME outQ[r][1].from = d, NEW i \in DOMAIN outQ'[r], outQ'[r][i].from = d
                         PROVE  FALSE
                BY <3>1, <3>4 DEF Holds
            <4>1. i \in Nat \ {0} /\ i + 1 \in DOMAIN outQ[r] /\ outQ[r][i + 1].from = d
                BY <3>1
            <4>2. i + 1 = 1
                BY <3>1, <3>2, <4>1
            <4>3. QED
                BY <4>1, <4>2
        <3>6. Pointed(r, d)' => Pointed(r, d)
            <4>1. (Holds(r, d)' => Holds(r, d)) /\ (Head(outQ[r]).from = d => Holds(r, d))
                BY <2>1, TakenHolds
            <4>2. QED
                BY <3>4, <4>1 DEF Pointed
        <3>7. QED
            BY <1>i, <2>1, <2>2, <2>4, <3>3, <3>5, <3>6 DEF OnePointer
    <2>5. QED
        BY <2>3, <2>4
<1>8. ASSUME NEW r \in Receivers, Handled(r) PROVE OnePointer(d, x)'
    <2>1. /\ at' = [at EXCEPT ![r] = Idle] /\ toReport' = toReport /\ inQ' = inQ
          /\ routing' = routing /\ outQ' = outQ
        BY <1>8, HandledEffect
    <2>2. /\ InQueue(d)' <=> InQueue(d)
          /\ RoutedTo(x, d)' <=> RoutedTo(x, d)
          /\ Holds(x, d)' <=> Holds(x, d)
        BY <2>1, SamePath
    <2>3. at'[x].from = d => at[x].from = d
        <3>1. at \in [Receivers -> Message] /\ Idle.from # d
            BY <1>d, Names DEF TypeInv, TypeOK, Idle, Entry
        <3>2. QED
            BY <2>1, <3>1
    <2>4. Pointed(x, d)' => Pointed(x, d)
        BY <2>2, <2>3 DEF Pointed
    <2>5. QED
        BY <1>i, <2>1, <2>2, <2>3, <2>4 DEF OnePointer
<1>9. ASSUME UNCHANGED vars PROVE OnePointer(d, x)'
    <2>1. toReport' = toReport /\ inQ' = inQ /\ routing' = routing /\ outQ' = outQ /\ at' = at
        BY <1>9 DEF vars, input
    <2>2. (InQueue(d)' <=> InQueue(d)) /\ (RoutedTo(x, d)' <=> RoutedTo(x, d))
        BY <2>1, SamePath
    <2>3. QED
        BY <1>path, <1>i, <2>1, <2>2 DEF OnePointer
<1>10. QED
    BY Steps, <1>1, <1>2, <1>3, <1>4, <1>5, <1>6, <1>7, <1>8, <1>9

\* The copies on their way to a receiver stay in the order of the events.
LEMMA CopiesStep ==
    ASSUME TypeInv, PathInv, [Next]_vars, NEW d \in Patient \cap Copied, NEW x \in Receivers
    PROVE  CopiesInOrder(d, x)'
<1>d. d \in Devices /\ d \in Patient /\ d \in Copied /\ event[d].id \in Nat
    BY Bounds DEF Patient, TypeInv
<1>i. CopiesInOrder(d, x) /\ OneMessage(d) /\ Shapes /\ RequestCurrent(d)
    BY DEF PathInv
<1>n. \A i \in DOMAIN outQ[x] : i \in Nat /\ outQ[x][i].event.id \in Nat
    <2>1. outQ[x] \in Seq(Message)
        BY DEF TypeInv, TypeOK
    <2>2. \A m \in Message : m.event.id \in Nat
        BY Bounds DEF Message, Event
    <2>3. QED
        BY <2>1, <2>2
<1>same. ASSUME outQ' = outQ, event'[d].id = event[d].id,
                toReport'[d] # {} \/ Promised(x, d)' => toReport[d] # {} \/ Promised(x, d)
         PROVE  CopiesInOrder(d, x)'
    BY <1>same, <1>i DEF CopiesInOrder
<1>sent. ASSUME NEW r \in Receivers, NEW m \in Message, Sent(r, m), inQ' = inQ,
                toReport' = toReport, event' = event, msg' = msg,
                RoutedTo(x, d)' => RoutedTo(x, d),
                x = r /\ m.from = d =>
                    /\ RoutedTo(x, d) /\ toReport[d] = {} /\ ~InQueue(d) /\ ~RoutedTo(x, d)'
                    /\ m.event.id = event[d].id
         PROVE  CopiesInOrder(d, x)'
    <2>1. /\ \A i \in DOMAIN outQ'[x] :
                 \/ i \in DOMAIN outQ[x] /\ outQ'[x][i] = outQ[x][i]
                 \/ x = r /\ i = Len(outQ[r]) + 1 /\ outQ'[x][i] = m
          /\ \A i \in DOMAIN outQ[x] : i < Len(outQ[x]) + 1
        BY <1>sent, SendAt
    <2>2. InQueue(d)' <=> InQueue(d)
        BY <1>sent, SamePath
    <2>3. CASE x = r /\ m.from = d
        <3>1. \A i \in DOMAIN outQ[x] : outQ[x][i].from = d => outQ[x][i].event.id < event[d].id
            BY <1>sent, <1>i, <2>3 DEF CopiesInOrder, Promised
        <3>2. ~Promised(x, d)' /\ toReport'[d] = {}
            BY <1>sent, <2>2, <2>3 DEF Promised
        <3>3. \A i \in DOMAIN outQ'[x] : outQ'[x][i].from = d =>
                  /\ outQ'[x][i].event.id <= event'[d].id
                  /\ \A j \in DOMAIN outQ'[x] :
                         outQ'[x][j].from = d /\ i < j =>
                             outQ'[x][i].event.id < outQ'[x][j].event.id
            <4> SUFFICES ASSUME NEW i \in DOMAIN outQ'[x], outQ'[x][i].from = d
                         PROVE  /\ outQ'[x][i].event.id <= event'[d].id
                                /\ \A j \in DOMAIN outQ'[x] :
                                       outQ'[x][j].from = d /\ i < j =>
                                           outQ'[x][i].event.id < outQ'[x][j].event.id
                OBVIOUS
            <4>1. outQ'[x][i].event.id <= event'[d].id
                BY <1>sent, <1>d, <1>n, <2>1, <2>3, <3>1
            <4>2. ASSUME NEW j \in DOMAIN outQ'[x], outQ'[x][j].from = d, i < j
                  PROVE  outQ'[x][i].event.id < outQ'[x][j].event.id
                <5>1. CASE i \in DOMAIN outQ[x] /\ outQ'[x][i] = outQ[x][i]
                    <6>1. outQ[x][i].event.id < event[d].id
                        BY <3>1, <5>1
                    <6>2. CASE j \in DOMAIN outQ[x] /\ outQ'[x][j] = outQ[x][j]
                        BY <1>i, <4>2, <5>1, <6>2 DEF CopiesInOrder
                    <6>3. CASE outQ'[x][j] = m
                        BY <1>sent, <2>3, <5>1, <6>1, <6>3
                    <6>4. QED
                        BY <2>1, <6>2, <6>3
                <5>2. CASE i = Len(outQ[x]) + 1
                    <6>1. Len(outQ[x]) \in Nat
                        BY DEF TypeInv, TypeOK
                    <6>2. j = i \/ (j \in Nat /\ j < i)
                        BY <1>n, <2>1, <2>3, <5>2
                    <6>3. QED
                        BY <4>2, <5>2, <6>1, <6>2
                <5>3. QED
                    BY <2>1, <2>3, <5>1, <5>2
            <4>3. QED
                BY <4>1, <4>2
        <3>4. QED
            BY <3>2, <3>3 DEF CopiesInOrder
    <2>4. CASE ~(x = r /\ m.from = d)
        <3>1. \A i \in DOMAIN outQ'[x] : outQ'[x][i].from = d =>
                  i \in DOMAIN outQ[x] /\ outQ'[x][i] = outQ[x][i]
            BY <2>1, <2>4
        <3>2. Promised(x, d)' => Promised(x, d)
            BY <1>sent, <2>2 DEF Promised
        <3>3. QED
            BY <1>i, <1>sent, <3>1, <3>2 DEF CopiesInOrder
    <2>5. QED
        BY <2>3, <2>4
<1>1. ASSUME NEW e \in Devices, Writes(e) PROVE CopiesInOrder(d, x)'
    <2>1. inQ' = inQ /\ routing' = routing /\ outQ' = outQ /\ msg' = msg
        BY <1>1, WriteEffect
    <2>2. CASE e = d
        <3>1. event'[d].id = event[d].id + 1
            BY <1>1, <2>2, WriteEffect
        <3>2. \A i \in DOMAIN outQ[x] : outQ[x][i].from = d => outQ[x][i].event.id < event'[d].id
            BY <1>d, <1>i, <1>n, <3>1 DEF CopiesInOrder
        <3>3. \A i \in DOMAIN outQ[x] : outQ[x][i].from = d => outQ[x][i].event.id <= event'[d].id
            BY <1>d, <1>n, <3>1, <3>2
        <3>4. QED
            BY <1>i, <2>1, <3>2, <3>3 DEF CopiesInOrder
    <2>3. CASE e # d
        <3>1. toReport'[d] = toReport[d] /\ event'[d] = event[d]
            BY <1>1, <1>d, <2>3, WriteEffect
        <3>2. Promised(x, d)' => Promised(x, d)
            BY <2>1, SamePath DEF Promised
        <3>3. QED
            BY <1>same, <2>1, <3>1, <3>2
    <2>4. QED
        BY <2>2, <2>3
<1>2. ASSUME NEW e \in Devices, Reports(e) \/ ReportToNobody(e) PROVE CopiesInOrder(d, x)'
    <2>1. routing' = routing /\ outQ' = outQ /\ event' = event /\ inQ' = Put(inQ, e)
        BY <1>2, ReportEffect, PressEffect
    <2>2. RoutedTo(x, d)' <=> RoutedTo(x, d)
        BY <2>1, SamePath
    <2>3. CASE e # d
        <3>1. toReport' = [toReport EXCEPT ![e] = {}] \/ toReport' = toReport
            BY <1>2, ReportEffect, PressEffect
        <3>2. toReport \in [Devices -> SUBSET Receivers]
            BY DEF TypeInv, TypeOK
        <3>3. msg'[d] = msg[d] /\ (InQueue(d)' => InQueue(d))
            BY <1>2, <1>d, <2>1, <2>3, QueueAt, ReportEffect, PressEffect
        <3>4. toReport'[d] = toReport[d] /\ (Promised(x, d)' => Promised(x, d))
            BY <1>d, <2>2, <2>3, <3>1, <3>2, <3>3 DEF Promised
        <3>5. QED
            BY <1>same, <2>1, <3>4
    <2>4. CASE e = d
        <3>1. CASE Reports(e)
            BY <1>same, <2>1, <2>4, <3>1, ReportEffect
        <3>2. CASE ReportToNobody(e)
            <4>1. msg'[d].to = {} /\ toReport' = toReport /\ MayWrite(d)
                BY <2>4, <3>2, PressEffect
            <4>2. ~RoutedTo(x, d)
                BY <1>d, <4>1, WriteWaits DEF RoutedTo
            <4>3. ~Promised(x, d)'
                BY <2>2, <4>1, <4>2 DEF Promised
            <4>4. QED
                BY <1>same, <2>1, <4>1, <4>3
        <3>3. QED
            BY <1>2, <3>1, <3>2
    <2>5. QED
        BY <2>3, <2>4
<1>3. ASSUME Receive PROVE CopiesInOrder(d, x)'
    <2>1. outQ' = outQ /\ event' = event /\ toReport' = toReport /\ msg' = msg
        BY <1>3, ReceiveEffect DEF input
    <2>2. (InQueue(d)' => InQueue(d)) /\ (RoutedTo(x, d)' => InQueue(d) /\ x \in msg[d].to)
        BY <1>3, <1>d, ReceivePath
    <2>3. Promised(x, d)' => Promised(x, d)
        BY <2>1, <2>2 DEF Promised
    <2>4. QED
        BY <1>same, <2>1, <2>3
<1>4. ASSUME Forward PROVE CopiesInOrder(d, x)'
    <2>1. PICK r \in Receivers :
              /\ Sent(r, Forwarded) /\ RoutedTo(r, routing.from)
              /\ RoutedTo(x, d)' <=> RoutedTo(x, d) /\ x # r
        BY <1>4, <1>i, <1>d, ForwardPath
    <2>2. /\ Forwarded \in Message /\ Forwarded.from = routing.from
          /\ inQ' = inQ /\ toReport' = toReport /\ event' = event /\ msg' = msg
        BY <1>4, <1>i, ForwardEffect DEF input
    <2>3. Forwarded.from = d => toReport[d] = {} /\ ~InQueue(d)
        BY <2>2, <1>i DEF OneMessage
    <2>4. Forwarded.from = d => Forwarded.event.id = event[d].id
        BY <1>d, <1>i, <2>2 DEF Forwarded, Entry, RequestCurrent
    <2>5. QED
        BY <1>sent, <2>1, <2>2, <2>3, <2>4
<1>5. ASSUME Result PROVE CopiesInOrder(d, x)'
    <2>1. PICK m \in Message :
              /\ m = Entry(Algorithm, TRUE, [id |-> results + 1, kind |-> "result", data |-> 0])
              /\ Sent(Output, m)
              /\ UNCHANGED <<input, inQ, routing, at, heap, misused, asleep, seen>>
        BY <1>5, ResultEffect
    <2>2. m.from # d
        BY <1>d, <2>1, Names DEF Entry
    <2>3. RoutedTo(x, d)' <=> RoutedTo(x, d)
        BY <2>1, SamePath
    <2>4. QED
        BY <1>sent, <2>1, <2>2, <2>3, Names DEF input
<1>6. ASSUME PreEnterSleep PROVE CopiesInOrder(d, x)'
    <2>1. /\ Sent(Output, Sleep) /\ inQ' = inQ /\ toReport' = toReport /\ event' = event
          /\ msg' = msg /\ routing' = routing /\ Sleep \in Message /\ Sleep.from # d
        BY <1>6, <1>d, NoneType, Names DEF PreEnterSleep, Sent, input, Sleep, Entry
    <2>2. RoutedTo(x, d)' <=> RoutedTo(x, d)
        BY <2>1, SamePath
    <2>3. QED
        BY <1>sent, <2>1, <2>2, Names
<1>7. ASSUME NEW r \in Receivers, Take(r) PROVE CopiesInOrder(d, x)'
    <2>1. /\ outQ[r] # << >> /\ Taken(r)
          /\ toReport' = toReport /\ inQ' = inQ /\ routing' = routing /\ event' = event /\ msg' = msg
        BY <1>7, TakeEffect DEF input
    <2>2. Promised(x, d)' <=> Promised(x, d)
        BY <2>1, SamePath DEF Promised
    <2>3. CASE x # r
        <3>1. outQ'[x] = outQ[x]
            BY <2>1, <2>3, TakenAt
        <3>2. QED
            BY <1>i, <2>1, <2>2, <3>1 DEF CopiesInOrder
    <2>4. CASE x = r
        <3>1. \A i \in DOMAIN outQ'[x] :
                  i \in Nat \ {0} /\ i + 1 \in DOMAIN outQ[x] /\ outQ'[x][i] = outQ[x][i + 1]
            BY <2>1, <2>4, TakenAt
        <3>2. \A i, j \in DOMAIN outQ'[x] : i < j => i + 1 < j + 1
            BY <3>1
        <3>3. QED
            BY <1>i, <2>1, <2>2, <3>1, <3>2 DEF CopiesInOrder
    <2>5. QED
        BY <2>3, <2>4
<1>8. ASSUME NEW r \in Receivers, Handled(r) PROVE CopiesInOrder(d, x)'
    <2>1. /\ toReport' = toReport /\ inQ' = inQ /\ msg' = msg
          /\ routing' = routing /\ outQ' = outQ /\ event'[d].id = event[d].id
        BY <1>8, <1>d, HandledEffect
    <2>2. Promised(x, d)' <=> Promised(x, d)
        BY <2>1, SamePath DEF Promised
    <2>3. QED
        BY <1>same, <2>1, <2>2
<1>9. ASSUME UNCHANGED vars PROVE CopiesInOrder(d, x)'
    <2>1. /\ toReport' = toReport /\ inQ' = inQ /\ msg' = msg
          /\ routing' = routing /\ outQ' = outQ /\ event' = event
        BY <1>9 DEF vars, input
    <2>2. Promised(x, d)' <=> Promised(x, d)
        BY <2>1, SamePath DEF Promised
    <2>3. QED
        BY <1>same, <2>1, <2>2
<1>10. QED
    BY Steps, <1>1, <1>2, <1>3, <1>4, <1>5, <1>6, <1>7, <1>8, <1>9

\* The invariant of the path holds from the beginning and in every step.
LEMMA PathInit == Init => PathInv
<1> SUFFICES ASSUME Init PROVE PathInv
    OBVIOUS
<1>1. Shapes
    BY InitType
<1>2. /\ inQ = << >> /\ routing.from = "nobody"
      /\ \A d \in Devices : toReport[d] = {}
      /\ \A r \in Receivers : outQ[r] = << >> /\ at[r].from = "nobody"
    BY DEF Init, NotRouting, Idle, Entry
<1>3. \A d \in Patient : RequestCurrent(d) /\ OneMessage(d)
    BY <1>2, Names DEF RequestCurrent, OneMessage, InQueue, Patient
<1>4. \A d \in Patient \ Copied, r \in Receivers : OnePointer(d, r)
    BY <1>2, Names DEF OnePointer, Pointed, Holds, Patient
<1>5. \A d \in Patient \cap Copied, r \in Receivers : CopiesInOrder(d, r)
    BY <1>2 DEF CopiesInOrder
<1>6. QED
    BY <1>1, <1>3, <1>4, <1>5 DEF PathInv

\* Every step keeps the way of the events.
LEMMA PathStep ==
    ASSUME TypeInv, PathInv, [Next]_vars
    PROVE  PathInv'
<1>1. Shapes'
    BY ShapesStep DEF PathInv
<1>2. \A d \in Patient : RequestCurrent(d)' /\ OneMessage(d)'
    BY RequestStep, MessageStep
<1>3. \A d \in Patient \ Copied, r \in Receivers : OnePointer(d, r)'
    BY PointerStep
<1>4. \A d \in Patient \cap Copied, r \in Receivers : CopiesInOrder(d, r)'
    BY CopiesStep
<1>5. QED
    BY <1>1, <1>2, <1>3, <1>4 DEF PathInv

-------------------------------------------------------------------------------
(* No receiver is told of an older event after a newer one.                    *)

\* Numbers of events.
LEMMA NumberTypes ==
    ASSUME TypeInv, NEW r \in Receivers, NEW s \in Sources
    PROVE  /\ seen[r][s] \in Nat /\ Latest(s) \in Nat
           /\ \A i \in DOMAIN outQ[r] : i \in Nat /\ outQ[r][i] \in Message
                                        /\ outQ[r][i].event.id \in Nat
<1>1. outQ[r] \in Seq(Message) /\ seen \in [Receivers -> [Sources -> 0..MaxEvents \cup 0..MaxResults]]
    BY DEF TypeInv, TypeOK
<1>2. \A m \in Message : m.event.id \in Nat
    BY Bounds DEF Message, Event
<1>3. seen[r][s] \in Nat
    BY <1>1, Bounds
<1>4. Latest(s) \in Nat
    BY Bounds DEF Latest, TypeInv, TypeOK, Sources
<1>5. QED
    BY <1>1, <1>2, <1>3, <1>4

\* A receiver is not told of an older event than the last, and what it still has
\* to be told of stays in order.
LEMMA InOrderStep ==
    ASSUME RequestsWait, TypeInv, PathInv, SeenInOrder, [Next]_vars,
           NEW x \in Receivers, NEW s \in Sources
    PROVE  InOrder(x, s)' /\ seen'[x][s] >= seen[x][s]
<1>i. InOrder(x, s) /\ Shapes
    BY DEF SeenInOrder, PathInv
<1>n. /\ seen[x][s] \in Nat /\ Latest(s) \in Nat
      /\ \A i \in DOMAIN outQ[x] : i \in Nat /\ outQ[x][i] \in Message
                                   /\ outQ[x][i].event.id \in Nat
    BY NumberTypes
<1>grow. ASSUME outQ' = outQ, seen' = seen, Latest(s)' \in Nat, Latest(s) <= Latest(s)'
         PROVE  InOrder(x, s)' /\ seen'[x][s] >= seen[x][s]
    <2>1. seen'[x][s] = seen[x][s] /\ seen[x][s] <= Latest(s)'
        BY <1>grow, <1>i, <1>n DEF InOrder
    <2>2. \A i \in DOMAIN outQ[x] : outQ[x][i].from = s /\ outQ[x][i].copied =>
              outQ[x][i].event.id <= Latest(s)'
        BY <1>grow, <1>i, <1>n DEF InOrder
    <2> HIDE DEF Latest
    <2>3. QED
        BY <1>i, <1>n, <1>grow, <2>1, <2>2 DEF InOrder
<1>same. ASSUME event' = event, results' = results PROVE Latest(s)' = Latest(s)
    BY <1>same DEF Latest
<1>sent. ASSUME NEW r \in Receivers, NEW m \in Message, Sent(r, m), seen' = seen,
                Latest(s)' \in Nat, Latest(s) <= Latest(s)',
                m.from = s /\ m.copied => m.event.id = Latest(s)'
         PROVE  InOrder(x, s)' /\ seen'[x][s] >= seen[x][s]
    <2>1. /\ \A i \in DOMAIN outQ'[x] :
                 \/ i \in DOMAIN outQ[x] /\ outQ'[x][i] = outQ[x][i]
                 \/ x = r /\ i = Len(outQ[x]) + 1 /\ outQ'[x][i] = m
          /\ \A i \in DOMAIN outQ[x] : i < Len(outQ[x]) + 1
        BY <1>sent, SendAt
    <2>2. seen'[x][s] = seen[x][s] /\ seen[x][s] <= Latest(s)'
        BY <1>sent, <1>i, <1>n DEF InOrder
    <2>3. \A i \in DOMAIN outQ[x] : outQ[x][i].from = s /\ outQ[x][i].copied =>
              outQ[x][i].event.id <= Latest(s)' /\ seen[x][s] <= outQ[x][i].event.id
        BY <1>sent, <1>i, <1>n DEF InOrder
    <2>l. Len(outQ[x]) \in Nat
        BY DEF TypeInv, TypeOK
    <2> HIDE DEF Latest
    <2>4. ASSUME NEW i \in DOMAIN outQ'[x], outQ'[x][i].from = s, outQ'[x][i].copied
          PROVE  /\ seen'[x][s] <= outQ'[x][i].event.id
                 /\ outQ'[x][i].event.id <= Latest(s)'
                 /\ \A j \in DOMAIN outQ'[x] :
                        outQ'[x][j].from = s /\ outQ'[x][j].copied /\ i <= j =>
                            outQ'[x][i].event.id <= outQ'[x][j].event.id
        <3>1. CASE i \in DOMAIN outQ[x] /\ outQ'[x][i] = outQ[x][i]
            <4>1. ASSUME NEW j \in DOMAIN outQ'[x], outQ'[x][j].from = s, outQ'[x][j].copied, i <= j
                  PROVE  outQ'[x][i].event.id <= outQ'[x][j].event.id
                <5>1. CASE j \in DOMAIN outQ[x] /\ outQ'[x][j] = outQ[x][j]
                    BY <1>i, <2>4, <3>1, <4>1, <5>1 DEF InOrder
                <5>2. CASE outQ'[x][j] = m
                    BY <1>sent, <2>3, <2>4, <3>1, <4>1, <5>2
                <5>3. QED
                    BY <2>1, <5>1, <5>2
            <4>2. QED
                BY <2>2, <2>3, <2>4, <3>1, <4>1
        <3>2. CASE i = Len(outQ[x]) + 1 /\ outQ'[x][i] = m
            <4>1. \A j \in DOMAIN outQ'[x] : i <= j => j = i
                BY <1>n, <2>1, <2>l, <3>2
            <4>2. m.event.id = Latest(s)'
                BY <1>sent, <2>4, <3>2
            <4>3. QED
                BY <1>n, <1>sent, <2>2, <3>2, <4>1, <4>2
        <3>3. QED
            BY <2>1, <3>1, <3>2, <2>4
    <2>5. InOrder(x, s)'
        BY <2>2, <2>4 DEF InOrder
    <2>6. QED
        BY <1>n, <2>2, <2>5
<1>1. ASSUME NEW e \in Devices, Writes(e)
      PROVE  InOrder(x, s)' /\ seen'[x][s] >= seen[x][s]
    <2>1. /\ outQ' = outQ /\ seen' = seen /\ results' = results
          /\ event'[e].id = event[e].id + 1
          /\ \A d \in Devices \ {e} : event'[d] = event[d]
        BY <1>1, WriteEffect
    <2>2. Latest(s)' \in Nat /\ Latest(s) <= Latest(s)'
        <3>1. CASE s = Algorithm
            BY <1>n, <2>1, <3>1 DEF Latest
        <3>2. CASE s = e
            <4>1. s # Algorithm
                BY <3>2, Names
            <4>2. Latest(s) = event[e].id /\ Latest(s)' = event[e].id + 1
                BY <2>1, <3>2, <4>1 DEF Latest
            <4>3. QED
                BY <1>n, <4>2
        <3>3. CASE s # Algorithm /\ s # e
            <4>1. s \in Devices \ {e}
                BY <3>3 DEF Sources
            <4>2. Latest(s)' = Latest(s)
                BY <2>1, <3>3, <4>1 DEF Latest
            <4>3. QED
                BY <1>n, <4>2
        <3>4. QED
            BY <3>1, <3>2, <3>3
    <2>3. QED
        BY <1>grow, <2>1, <2>2
<1>2. ASSUME NEW e \in Devices, Reports(e) \/ ReportToNobody(e)
      PROVE  outQ' = outQ /\ seen' = seen /\ event' = event /\ results' = results
    BY <1>2, ReportEffect, PressEffect
<1>3. ASSUME Receive
      PROVE  outQ' = outQ /\ seen' = seen /\ event' = event /\ results' = results
    BY <1>3 DEF Receive, input
<1>4. ASSUME Forward PROVE InOrder(x, s)' /\ seen'[x][s] >= seen[x][s]
    <2>1. PICK r \in Receivers : Sent(r, Forwarded)
        BY <1>4, <1>i, ForwardPath
    <2>2. /\ Forwarded \in Message /\ Forwarded.from = routing.from /\ routing.from \in Devices
          /\ seen' = seen /\ event' = event /\ results' = results
        BY <1>4, <1>i, ForwardEffect DEF input
    <2>3. Latest(s)' = Latest(s)
        BY <1>same, <2>2
    <2>4. ASSUME Forwarded.from = s, Forwarded.copied PROVE Forwarded.event.id = Latest(s)
        <3>1. Latest(s) = event[s].id
            BY <2>2, <2>4, Names DEF Latest
        <3>2. CASE routing.kind = "request"
            <4>1. s \in Patient
                BY <1>i, <2>2, <2>4, <3>2, Sets DEF Shapes, Patient, RequestsWait
            <4>2. RequestCurrent(s)
                BY <4>1 DEF PathInv
            <4>3. Forwarded.event.id = routing.event.id
                BY <3>2 DEF Forwarded, Entry
            <4>4. QED
                BY <2>2, <2>4, <3>1, <3>2, <4>2, <4>3 DEF RequestCurrent
        <3>3. CASE routing.kind # "request"
            BY <2>2, <2>4, <3>1, <3>3 DEF Forwarded, Entry
        <3>4. QED
            BY <3>2, <3>3
    <2>5. QED
        BY <1>n, <1>sent, <2>1, <2>2, <2>3, <2>4
<1>5. ASSUME Result PROVE InOrder(x, s)' /\ seen'[x][s] >= seen[x][s]
    <2>1. PICK m \in Message :
              /\ m = Entry(Algorithm, TRUE, [id |-> results + 1, kind |-> "result", data |-> 0])
              /\ results' = results + 1
              /\ Sent(Output, m)
              /\ UNCHANGED <<input, inQ, routing, at, heap, misused, asleep, seen>>
        BY <1>5, ResultEffect
    <2>2. m.from = Algorithm /\ m.event.id = results' /\ event' = event /\ seen' = seen
        BY <2>1 DEF Entry, input
    <2>3. /\ Latest(s)' \in Nat /\ Latest(s) <= Latest(s)'
          /\ m.from = s => m.event.id = Latest(s)'
        <3>1. CASE s = Algorithm
            <4>1. Latest(s) = results /\ Latest(s)' = results + 1
                BY <2>1, <3>1 DEF Latest
            <4>2. results \in Nat
                BY <1>n, <4>1
            <4>3. Latest(s)' \in Nat /\ Latest(s) <= Latest(s)'
                BY <4>1, <4>2
            <4>4. m.event.id = Latest(s)'
                BY <2>1, <2>2, <4>1
            <4>5. QED
                BY <4>3, <4>4
        <3>2. CASE s # Algorithm
            BY <1>n, <2>2, <3>2 DEF Latest
        <3>3. QED
            BY <3>1, <3>2
    <2>4. QED
        BY <1>sent, <2>1, <2>2, <2>3, Names
<1>6. ASSUME PreEnterSleep PROVE InOrder(x, s)' /\ seen'[x][s] >= seen[x][s]
    <2>1. /\ Sent(Output, Sleep) /\ Sleep \in Message /\ Sleep.from # s
          /\ seen' = seen /\ event' = event /\ results' = results
        BY <1>6, NoneType, Names DEF PreEnterSleep, Sent, input, Sleep, Entry
    <2>2. QED
        BY <1>n, <1>same, <1>sent, <2>1, Names
<1>7. ASSUME NEW r \in Receivers, Take(r)
      PROVE  InOrder(x, s)' /\ seen'[x][s] >= seen[x][s]
    <2> DEFINE m == Head(outQ[r])
    <2>1. /\ outQ[r] # << >> /\ Taken(r) /\ m \in Message
          /\ seen' = IF Told(m) THEN [seen EXCEPT ![r][m.from] = Contents(m).id] ELSE seen
          /\ event' = event /\ results' = results
        BY <1>7, TakeEffect DEF input
    <2>2. Latest(s)' = Latest(s)
        BY <1>same, <2>1
    <2>3. \A y \in Receivers \ {r} : outQ'[y] = outQ[y]
        BY <2>1, TakenAt
    <2>4. /\ 1 \in DOMAIN outQ[r] /\ m = outQ[r][1]
          /\ \A i \in DOMAIN outQ'[r] :
                 i \in Nat \ {0} /\ i + 1 \in DOMAIN outQ[r] /\ outQ'[r][i] = outQ[r][i + 1]
        BY <2>1, TakenAt
    <2>s. seen \in [Receivers -> [Sources -> 0..MaxEvents \cup 0..MaxResults]]
        BY DEF TypeInv, TypeOK
    <2>f. Told(m) => m.from \in Sources
        BY DEF Told
    <2> HIDE DEF m
    <2>5. CASE x # r
        <3>1. seen'[x] = seen[x]
            BY <2>1, <2>s, <2>5
        <3>2. outQ'[x] = outQ[x]
            BY <2>3, <2>5
        <3>3. QED
            BY <1>i, <1>n, <2>2, <3>1, <3>2 DEF InOrder
    <2>6. CASE x = r /\ (~Told(m) \/ m.from # s)
        <3>1. seen'[x][s] = seen[x][s]
            BY <2>1, <2>s, <2>f, <2>6
        <3>2. QED
            BY <1>i, <1>n, <2>2, <2>4, <2>6, <3>1 DEF InOrder
    <2>7. CASE x = r /\ Told(m) /\ m.from = s
        <3>1. seen'[x][s] = Contents(m).id
            BY <2>1, <2>s, <2>7
        <3>2. \A i \in DOMAIN outQ[x] : EntryRight(outQ[x][i])
            BY <1>i DEF Shapes
        <3>3. CASE m.copied
            <4>1. Contents(m) = m.event
                BY <3>3 DEF Contents
            <4>2. /\ seen[x][s] <= m.event.id /\ m.event.id <= Latest(s)
                  /\ \A j \in DOMAIN outQ[x] :
                         outQ[x][j].from = s /\ outQ[x][j].copied /\ 1 <= j =>
                             m.event.id <= outQ[x][j].event.id
                BY <1>i, <2>4, <2>7, <3>3 DEF InOrder
            <4>3. QED
                BY <1>i, <1>n, <2>2, <2>4, <2>7, <3>1, <4>1, <4>2 DEF InOrder
        <3>4. CASE ~m.copied
            <4>1. s # Algorithm /\ s \notin Copied
                BY <2>4, <2>7, <3>2, <3>4, Sets DEF EntryRight, Sources
            <4>2. s \in Devices /\ Contents(m).id = Latest(s)
                BY <2>7, <3>4, <4>1 DEF Contents, Latest, Sources
            <4>3. \A i \in DOMAIN outQ[x] : outQ[x][i].from = s => ~outQ[x][i].copied
                BY <3>2, <4>1, <4>2 DEF EntryRight
            <4>4. seen[x][s] <= Latest(s)
                BY <1>i DEF InOrder
            <4>5. QED
                BY <1>n, <2>2, <2>4, <2>7, <3>1, <4>2, <4>3, <4>4 DEF InOrder
        <3>5. QED
            BY <3>3, <3>4
    <2>8. QED
        BY <2>5, <2>6, <2>7
<1>8. ASSUME NEW r \in Receivers, Handled(r) PROVE InOrder(x, s)' /\ seen'[x][s] >= seen[x][s]
    <2>1. /\ outQ' = outQ /\ seen' = seen /\ results' = results
          /\ \A d \in Devices : event'[d].id = event[d].id
        BY <1>8, HandledEffect
    <2>2. Latest(s)' = Latest(s)
        BY <2>1 DEF Latest, Sources
    <2>3. QED
        BY <1>n, <1>grow, <2>1, <2>2
<1>9. ASSUME UNCHANGED vars
      PROVE  outQ' = outQ /\ seen' = seen /\ event' = event /\ results' = results
    BY <1>9 DEF vars, input
<1>10. ASSUME outQ' = outQ, seen' = seen, event' = event, results' = results
       PROVE  InOrder(x, s)' /\ seen'[x][s] >= seen[x][s]
    BY <1>10, <1>grow, <1>same, <1>n
<1>11. QED
    BY Steps, <1>1, <1>2, <1>3, <1>4, <1>5, <1>6, <1>7, <1>8, <1>9, <1>10

\* If the requests wait, no receiver is told of an older event of a source after
\* a newer one, however often a device overwrites an event that was not handled.
THEOREM NeverBackwardsHolds ==
    ASSUME RequestsWait
    PROVE  Spec => NeverBackwards
<1> DEFINE Inv == TypeInv /\ PathInv /\ SeenInOrder
<1>1. Init => Inv
    <2> SUFFICES ASSUME Init PROVE Inv
        OBVIOUS
    <2>1. TypeInv /\ PathInv
        BY InitType, PathInit
    <2>2. ASSUME NEW r \in Receivers, NEW s \in Sources PROVE InOrder(r, s)
        <3>1. seen[r][s] = 0 /\ outQ[r] = << >> /\ Latest(s) \in Nat
            BY <2>1, NumberTypes DEF Init
        <3>2. QED
            BY <3>1 DEF InOrder
    <2>3. QED
        BY <2>1, <2>2 DEF SeenInOrder
<1>2. Inv /\ [Next]_vars => Inv'
    BY TypeStep, PathStep, InOrderStep DEF SeenInOrder, PathInv
<1>3. Inv /\ [Next]_vars => [\A r \in Receivers, s \in Sources : seen'[r][s] >= seen[r][s]]_seen
    BY InOrderStep
<1>4. QED
    BY <1>1, <1>2, <1>3, PTL DEF Spec, NeverBackwards

-------------------------------------------------------------------------------
(* As long as no queue is full, what is allocated is freed once.               *)

\* Only a registration allocates a block.
LEMMA WriteKind ==
    ASSUME TypeInv, NEW d \in Devices, Writes(d)
    PROVE  /\ event'[d].kind = "register" =>
                  /\ d \in Remote /\ toReport'[d] = {VisionAlgo}
                  /\ heap' = heap \cup {<<d, event'[d].data>>}
                  /\ event'[d].data \in 1..MaxEvents
           /\ event'[d].kind # "register" => heap' = heap
<1>t. event \in [Devices -> Event] /\ toReport \in [Devices -> SUBSET Receivers]
    BY DEF TypeInv, TypeOK
<1>1. CASE WriteEvent(d)
    <2>1. event' = [event EXCEPT ![d] = [event[d] EXCEPT !.id = event[d].id + 1, !.kind = "plain"]]
        BY <1>1 DEF WriteEvent
    <2>2. event'[d].kind = "plain" /\ heap' = heap
        BY <1>1, <1>t, <2>1 DEF WriteEvent, memory, Event
    <2>3. QED
        BY <2>2
<1>2. CASE WriteRegistration(d)
    <2>1. event'[d] = [id |-> event[d].id + 1, kind |-> "register", data |-> event[d].id + 1]
        BY <1>2, <1>t DEF WriteRegistration
    <2>2. event'[d].id = event'[d].data /\ event'[d].id = event[d].id + 1
        BY <2>1
    <2>3. event'[d].data \in 1..MaxEvents
        BY <2>2, WriteEffect
    <2>4. /\ d \in Remote /\ toReport'[d] = {VisionAlgo}
          /\ heap' = heap \cup {<<d, event'[d].data>>}
        BY <1>2, <1>t, <2>1 DEF WriteRegistration
    <2>5. QED
        BY <2>1, <2>3, <2>4
<1>3. CASE WriteUpdate(d)
    <2>1. event'[d] = [id |-> event[d].id + 1, kind |-> "update", data |-> Garbage]
        BY <1>3, <1>t DEF WriteUpdate
    <2>2. event'[d].kind = "update" /\ heap' = heap
        BY <1>3, <2>1 DEF WriteUpdate, memory
    <2>3. QED
        BY <2>2
<1>4. QED
    BY <1>1, <1>2, <1>3 DEF Writes

\* No message holds a registration.
LEMMA KindsStep ==
    ASSUME TypeInv, PathInv, KindsRight, [Next]_vars
    PROVE  KindsRight'
<1> DEFINE OfQueue(r) == \A i \in DOMAIN outQ[r] : outQ[r][i].event.kind # "register"
           OfEvents == \A d \in Devices \ Remote : event[d].kind # "register"
           OfMsgs == \A d \in Devices : msg[d].event.kind # "register"
           OfRouting == routing.event.kind # "register"
           OfAt(r) == at[r].event.kind = "register" => at[r].from \in Remote
<1>i. /\ OfEvents /\ OfMsgs /\ OfRouting /\ \A r \in Receivers : OfQueue(r) /\ OfAt(r)
      /\ Shapes
    BY DEF KindsRight, PathInv
<1>e. SUFFICES OfEvents' /\ OfMsgs' /\ OfRouting' /\ \A r \in Receivers : OfQueue(r)' /\ OfAt(r)'
    BY DEF KindsRight
<1>ev. event' = event => OfEvents'
    BY <1>i
<1>ms. msg' = msg => OfMsgs'
    BY <1>i
<1>ro. routing' = routing => OfRouting'
    BY <1>i
<1>qu. outQ' = outQ => \A r \in Receivers : OfQueue(r)'
    BY <1>i
<1>at. at' = at => \A r \in Receivers : OfAt(r)'
    BY <1>i
<1>sent. ASSUME NEW r \in Receivers, NEW m \in Message, Sent(r, m), m.event.kind # "register"
         PROVE  \A x \in Receivers : OfQueue(x)'
    <2> SUFFICES ASSUME NEW x \in Receivers, NEW i \in DOMAIN outQ'[x]
                 PROVE  outQ'[x][i].event.kind # "register"
        OBVIOUS
    <2>1. (i \in DOMAIN outQ[x] /\ outQ'[x][i] = outQ[x][i]) \/ outQ'[x][i] = m
        BY <1>sent, SendAt
    <2>2. QED
        BY <1>sent, <1>i, <2>1
<1>none. None.kind # "register"
    BY DEF None
<1>1. ASSUME NEW e \in Devices, Writes(e)
      PROVE  OfEvents' /\ msg' = msg /\ routing' = routing /\ outQ' = outQ /\ at' = at
    <2>1. msg' = msg /\ routing' = routing /\ outQ' = outQ /\ at' = at
        BY <1>1, WriteEffect
    <2>2. ASSUME NEW d \in Devices \ Remote PROVE event'[d].kind # "register"
        <3>1. CASE d = e
            BY <1>1, <3>1, WriteKind
        <3>2. CASE d # e
            BY <1>1, <1>i, <3>2, WriteEffect
        <3>3. QED
            BY <3>1, <3>2
    <2>3. QED
        BY <2>1, <2>2
<1>2. ASSUME NEW e \in Devices, Reports(e) \/ ReportToNobody(e)
      PROVE  OfMsgs' /\ event' = event /\ routing' = routing /\ outQ' = outQ /\ at' = at
    <2>1. event' = event /\ routing' = routing /\ outQ' = outQ /\ at' = at
        BY <1>2, ReportEffect, PressEffect
    <2>2. ASSUME NEW d \in Devices PROVE msg'[d].event.kind # "register"
        <3>1. CASE d = e
            <4>1. msg'[d].event = None \/ (d \in Devices \ Remote /\ msg'[d].event = event[d])
                BY <1>2, <3>1, ReportEffect, PressEffect, Sets
            <4>2. QED
                BY <1>i, <1>none, <4>1
        <3>2. CASE d # e
            BY <1>2, <1>i, <3>2, ReportEffect, PressEffect
        <3>3. QED
            BY <3>1, <3>2
    <2>3. QED
        BY <2>1, <2>2
<1>3. ASSUME Receive PROVE OfRouting' /\ event' = event /\ msg' = msg /\ outQ' = outQ /\ at' = at
    <2>1. event' = event /\ msg' = msg /\ outQ' = outQ /\ at' = at
        BY <1>3 DEF Receive, input
    <2>2. routing'.event \in {None, msg[Head(inQ)].event} /\ Head(inQ) \in Devices
        BY <1>3, ReceiveEffect DEF NotRouting
    <2>3. QED
        BY <1>i, <1>none, <2>1, <2>2
<1>4. ASSUME Forward
      PROVE  OfRouting' /\ event' = event /\ msg' = msg /\ at' = at
             /\ \A r \in Receivers : OfQueue(r)'
    <2>1. PICK r \in Receivers : Sent(r, Forwarded) /\ routing'.event \in {None, routing.event}
        BY <1>4, <1>i, ForwardPath
    <2>2. /\ Forwarded \in Message /\ routing.from \in Devices
          /\ event' = event /\ msg' = msg /\ at' = at
        BY <1>4, <1>i, ForwardEffect DEF input
    <2>3. Forwarded.event \in {None, routing.event} \/
              (routing.from \in Copied /\ Forwarded.event = event[routing.from])
        BY DEF Forwarded, Entry
    <2>4. Forwarded.event.kind # "register"
        BY <1>i, <1>none, <2>2, <2>3, Sets
    <2>5. \A x \in Receivers : OfQueue(x)'
        BY <1>sent, <2>1, <2>2, <2>4
    <2>6. OfRouting'
        BY <1>i, <1>none, <2>1
    <2>7. QED
        BY <2>2, <2>5, <2>6
<1>5. ASSUME Result
      PROVE  event' = event /\ msg' = msg /\ at' = at /\ routing' = routing
             /\ \A r \in Receivers : OfQueue(r)'
    <2>1. PICK m \in Message :
              /\ m = Entry(Algorithm, TRUE, [id |-> results + 1, kind |-> "result", data |-> 0])
              /\ Sent(Output, m)
              /\ UNCHANGED <<input, inQ, routing, at, heap, misused, asleep, seen>>
        BY <1>5, ResultEffect
    <2>2. m.event.kind # "register"
        BY <2>1 DEF Entry
    <2>3. QED
        BY <1>sent, <2>1, <2>2, Names DEF input
<1>6. ASSUME PreEnterSleep
      PROVE  event' = event /\ msg' = msg /\ at' = at /\ routing' = routing
             /\ \A r \in Receivers : OfQueue(r)'
    <2>1. /\ Sent(Output, Sleep) /\ Sleep \in Message /\ Sleep.event.kind # "register"
          /\ event' = event /\ msg' = msg /\ at' = at /\ routing' = routing
        BY <1>6, <1>none, NoneType DEF PreEnterSleep, Sent, Sleep, Entry, input
    <2>2. QED
        BY <1>sent, <2>1, Names
<1>7. ASSUME NEW r \in Receivers, Take(r)
      PROVE  event' = event /\ msg' = msg /\ routing' = routing
             /\ \A x \in Receivers : OfQueue(x)' /\ OfAt(x)'
    <2> DEFINE m == Head(outQ[r])
    <2>1. /\ outQ[r] # << >> /\ Taken(r) /\ m \in Message
          /\ at' = [at EXCEPT ![r] = Entry(m.from, m.copied, Contents(m))]
          /\ event' = event /\ msg' = msg /\ routing' = routing
        BY <1>7, TakeEffect DEF input
    <2>2. /\ \A y \in Receivers \ {r} : outQ'[y] = outQ[y]
          /\ 1 \in DOMAIN outQ[r] /\ m = outQ[r][1]
          /\ \A i \in DOMAIN outQ'[r] : i + 1 \in DOMAIN outQ[r] /\ outQ'[r][i] = outQ[r][i + 1]
        BY <2>1, TakenAt
    <2>3. m.event.kind # "register"
        BY <1>i, <2>2
    <2> HIDE DEF m
    <2>4. Contents(m).kind = "register" => m.from \in Remote
        BY <1>i, <2>3 DEF Contents
    <2>5. ASSUME NEW x \in Receivers PROVE OfQueue(x)'
        <3>1. CASE x = r
            BY <1>i, <2>2, <3>1
        <3>2. CASE x # r
            BY <1>i, <2>2, <3>2
        <3>3. QED
            BY <3>1, <3>2
    <2>6. ASSUME NEW x \in Receivers PROVE OfAt(x)'
        <3>1. at \in [Receivers -> Message]
            BY DEF TypeInv, TypeOK
        <3>2. CASE x = r
            <4>1. at'[x].from = m.from /\ at'[x].event = Contents(m)
                BY <2>1, <3>1, <3>2 DEF Entry
            <4>2. QED
                BY <2>4, <4>1
        <3>3. CASE x # r
            BY <1>i, <2>1, <3>1, <3>3
        <3>4. QED
            BY <3>2, <3>3
    <2>7. QED
        BY <2>1, <2>5, <2>6
<1>8. ASSUME NEW r \in Receivers, Handled(r)
      PROVE  OfEvents' /\ msg' = msg /\ routing' = routing /\ outQ' = outQ
             /\ \A x \in Receivers : OfAt(x)'
    <2>1. /\ at' = [at EXCEPT ![r] = Idle] /\ msg' = msg /\ routing' = routing /\ outQ' = outQ
          /\ \A x \in Devices : event'[x].kind = event[x].kind
        BY <1>8, HandledEffect
    <2>2. at \in [Receivers -> Message] /\ Idle.event = None
        BY DEF TypeInv, TypeOK, Idle, Entry
    <2>3. \A x \in Receivers : OfAt(x)'
        BY <1>i, <1>none, <2>1, <2>2
    <2>4. OfEvents'
        BY <1>i, <2>1
    <2>5. QED
        BY <2>1, <2>3, <2>4
<1>9. ASSUME UNCHANGED vars
      PROVE  event' = event /\ msg' = msg /\ routing' = routing /\ outQ' = outQ /\ at' = at
    BY <1>9 DEF vars, input
<1> HIDE DEF OfQueue, OfEvents, OfMsgs, OfRouting, OfAt
<1>10. QED
    BY Steps, <1>ev, <1>ms, <1>ro, <1>qu, <1>at, <1>1, <1>2, <1>3, <1>4, <1>5, <1>6, <1>7, <1>8, <1>9

\* A remote device waits, and its events are not copied.
LEMMA RemoteFacts ==
    ASSUME PhoneWaits, PathInv, NEW d \in Remote
    PROVE  /\ d \in Devices /\ d \in Patient /\ d \notin Copied /\ d \notin Requests
           /\ d # Algorithm /\ d # "nobody" /\ d # "lpm"
           /\ OneMessage(d) /\ \A r \in Receivers : OnePointer(d, r)
           /\ {} \notin Lists[d]
<1>1. d \in Devices /\ d \in Patient /\ d \notin Copied /\ d \notin Requests
    BY Sets DEF PhoneWaits, Patient
<1>2. OneMessage(d) /\ \A r \in Receivers : OnePointer(d, r)
    BY <1>1 DEF PathInv
<1>3. {} \notin Lists[d]
    BY Sets
<1>4. QED
    BY <1>1, <1>2, <1>3, Names

\* While an event is reported, in the queue of the input manager, being forwarded
\* or with a receiver, it is nowhere else.
LEMMA OnePlace ==
    ASSUME PhoneWaits, PathInv, NEW d \in Remote, OneHandler(d)
    PROVE  /\ toReport[d] # {} => /\ ~InQueue(d) /\ routing.from # d
                                  /\ \A r \in Receivers : ~Pointed(r, d)
           /\ InQueue(d) => routing.from # d /\ \A r \in Receivers : ~Pointed(r, d)
           /\ routing.from = d => \A r \in Receivers : ~Pointed(r, d)
BY RemoteFacts DEF OneMessage, OnePointer, OneHandler

\* Who points to the event of a device after a message was taken.
LEMMA TakePath ==
    ASSUME TypeInv, NEW r \in Receivers, Take(r), NEW x \in Receivers, NEW d \in Devices
    PROVE  Pointed(x, d)' <=> Pointed(x, d)
<1>1. /\ at[r] = Idle /\ outQ[r] # << >> /\ Taken(r)
      /\ at' = [at EXCEPT ![r] = Entry(Head(outQ[r]).from, Head(outQ[r]).copied,
                                       Contents(Head(outQ[r])))]
    BY TakeEffect
<1>2. at \in [Receivers -> Message]
    BY DEF TypeInv, TypeOK
<1>3. at[r].from # d
    BY <1>1, Names DEF Idle, Entry
<1>4. /\ Holds(x, d)' => Holds(x, d)
      /\ Holds(x, d) => Holds(x, d)' \/ (x = r /\ Head(outQ[r]).from = d)
      /\ x = r /\ Head(outQ[r]).from = d => Holds(x, d)
    BY <1>1, TakenHolds
<1>5. CASE x = r
    <2>1. at'[x].from = Head(outQ[r]).from
        BY <1>1, <1>2, <1>5 DEF Entry
    <2>2. QED
        BY <1>3, <1>4, <1>5, <2>1 DEF Pointed
<1>6. CASE x # r
    <2>1. at'[x] = at[x]
        BY <1>1, <1>2, <1>6
    <2>2. QED
        BY <1>4, <1>6, <2>1 DEF Pointed
<1>7. QED
    BY <1>5, <1>6

\* And after one was handled.
LEMMA HandledPath ==
    ASSUME TypeInv, NEW r \in Receivers, Handled(r), NEW x \in Receivers, NEW d \in Devices
    PROVE  /\ Holds(x, d)' <=> Holds(x, d)
           /\ x # r => at'[x] = at[x] /\ (Pointed(x, d)' <=> Pointed(x, d))
           /\ at'[r] = Idle /\ at'[r].from # d
           /\ Pointed(r, d)' <=> Holds(r, d)
           /\ at[r].from # d => (Pointed(r, d)' <=> Pointed(r, d))
<1>1. at' = [at EXCEPT ![r] = Idle] /\ outQ' = outQ /\ at \in [Receivers -> Message]
    BY HandledEffect DEF TypeInv, TypeOK
<1>2. Idle.from # d
    BY Names DEF Idle, Entry
<1>3. \A y \in Receivers : Holds(y, d)' <=> Holds(y, d)
    BY <1>1, SamePath
<1>4. at'[r] = Idle /\ (x # r => at'[x] = at[x])
    BY <1>1
<1>5. QED
    BY <1>2, <1>3, <1>4 DEF Pointed

\* A remote device has one receiver at a time.
LEMMA ListStep ==
    ASSUME PhoneWaits, TypeInv, PathInv, [Next]_vars, NEW d \in Remote, OneOnList(d)
    PROVE  OneOnList(d)'
<1>d. /\ d \in Devices /\ d # "nobody" /\ OneMessage(d) /\ Shapes /\ {} \notin Lists[d]
      /\ {VisionAlgo} # {} /\ {Output} # {}
    BY RemoteFacts DEF PathInv
<1>t. toReport \in [Devices -> SUBSET Receivers]
    BY DEF TypeInv, TypeOK
<1>1. ASSUME NEW e \in Devices, Writes(e) PROVE OneOnList(d)'
    <2>1. /\ inQ' = inQ /\ msg' = msg /\ routing' = routing
          /\ e # d => toReport'[d] = toReport[d]
          /\ e = d => toReport'[d] \in One
        BY <1>1, <1>d, WriteEffect
    <2>2. InQueue(d)' <=> InQueue(d)
        BY <2>1, SamePath
    <2>3. QED
        BY <2>1, <2>2 DEF OneOnList
<1>2. ASSUME NEW e \in Devices, Reports(e) \/ ReportToNobody(e) PROVE OneOnList(d)'
    <2>1. routing' = routing /\ inQ' = Put(inQ, e)
        BY <1>2, ReportEffect, PressEffect
    <2>2. CASE e = d
        <3>1. Reports(d)
            BY <1>2, <1>d, <2>2, PressEffect
        <3>2. toReport[d] # {} /\ msg'[d].to = toReport[d] /\ toReport'[d] = {}
            BY <1>d, <1>t, <3>1, ReportEffect
        <3>3. QED
            BY <2>1, <3>2 DEF OneOnList
    <2>3. CASE e # d
        <3>1. (toReport' = [toReport EXCEPT ![e] = {}] \/ toReport' = toReport) /\ msg'[d] = msg[d]
            BY <1>2, <1>d, <2>3, ReportEffect, PressEffect
        <3>2. toReport'[d] = toReport[d] /\ (InQueue(d)' => InQueue(d))
            BY <1>d, <1>t, <2>1, <2>3, <3>1, QueueAt
        <3>3. QED
            BY <2>1, <3>1, <3>2 DEF OneOnList
    <2>4. QED
        BY <2>2, <2>3
<1>3. ASSUME Receive PROVE OneOnList(d)'
    <2>1. toReport' = toReport /\ msg' = msg
        BY <1>3 DEF Receive, input
    <2>2. /\ InQueue(d)' => InQueue(d)
          /\ routing'.from = d => InQueue(d) /\ routing'.left = msg[d].to
        BY <1>3, <1>d, ReceivePath
    <2>3. QED
        BY <2>1, <2>2 DEF OneOnList
<1>4. ASSUME Forward PROVE OneOnList(d)'
    <2>1. inQ' = inQ /\ toReport' = toReport /\ msg' = msg
        BY <1>4, <1>d, ForwardEffect DEF input
    <2>2. PICK r \in Receivers :
              /\ RoutedTo(r, routing.from)
              /\ routing'.from = d => routing.from = d /\ routing.left # {r}
        BY <1>4, <1>d, ForwardPath
    <2>3. routing'.from # d
        <3> SUFFICES ASSUME routing'.from = d PROVE FALSE
            OBVIOUS
        <3>1. routing.left \in One /\ r \in routing.left /\ routing.left # {r}
            BY <2>2 DEF OneOnList, RoutedTo
        <3>2. QED
            BY <3>1 DEF One
    <2>4. InQueue(d)' <=> InQueue(d)
        BY <2>1, SamePath
    <2>5. QED
        BY <2>1, <2>3, <2>4 DEF OneOnList
<1>5. ASSUME Result \/ PreEnterSleep \/ (\E r \in Receivers : Take(r) \/ Handled(r)) \/ UNCHANGED vars
      PROVE  OneOnList(d)'
    <2>1. toReport' = toReport /\ inQ' = inQ /\ msg' = msg /\ routing' = routing
        BY <1>5 DEF Result, PreEnterSleep, Take, Handled, input, vars
    <2>2. InQueue(d)' <=> InQueue(d)
        BY <2>1, SamePath
    <2>3. QED
        BY <2>1, <2>2 DEF OneOnList
<1>6. QED
    BY Steps, <1>1, <1>2, <1>3, <1>4, <1>5

\* The event of a remote device stays with one receiver, as it was written.
LEMMA HandlerStep ==
    ASSUME PhoneWaits, TypeInv, PathInv, [Next]_vars, NEW d \in Remote,
           OneOnList(d), OneHandler(d)
    PROVE  OneHandler(d)'
<1>d. /\ d \in Devices /\ d \in Patient /\ d \notin Copied /\ d # "nobody" /\ d # "lpm"
      /\ d # Algorithm
      /\ OneMessage(d) /\ Shapes /\ \A r \in Receivers : OnePointer(d, r)
    BY RemoteFacts DEF PathInv
<1>t. at \in [Receivers -> Message]
    BY DEF TypeInv, TypeOK
<1>keep. ASSUME \A x \in Receivers : Pointed(x, d)' => Pointed(x, d),
                at' = at, event'[d] = event[d],
                routing'.from = d => \A x \in Receivers : ~Pointed(x, d)
         PROVE  OneHandler(d)'
    BY <1>keep DEF OneHandler
<1>1. ASSUME NEW e \in Devices, Writes(e) PROVE OneHandler(d)'
    <2>1. outQ' = outQ /\ at' = at /\ routing' = routing /\ MayWrite(e)
        BY <1>1, WriteEffect
    <2>2. \A x \in Receivers : Pointed(x, d)' <=> Pointed(x, d)
        BY <2>1, SamePath
    <2>3. CASE e = d
        <3>1. \A x \in Receivers : ~Pointed(x, d)
            BY <1>d, <2>1, <2>3, WriteWaits
        <3>2. \A x \in Receivers : at'[x].from # d
            BY <2>1, <3>1 DEF Pointed
        <3>3. QED
            BY <2>2, <3>1, <3>2 DEF OneHandler
    <2>4. CASE e # d
        <3>1. event'[d] = event[d]
            BY <1>1, <1>d, <2>4, WriteEffect
        <3>2. QED
            BY <1>keep, <2>1, <2>2, <3>1 DEF OneHandler
    <2>5. QED
        BY <2>3, <2>4
<1>2. ASSUME NEW e \in Devices, Reports(e) \/ ReportToNobody(e) PROVE OneHandler(d)'
    <2>1. outQ' = outQ /\ at' = at /\ routing' = routing /\ event' = event
        BY <1>2, ReportEffect, PressEffect
    <2>2. \A x \in Receivers : Pointed(x, d)' <=> Pointed(x, d)
        BY <2>1, SamePath
    <2>3. QED
        BY <1>keep, <2>1, <2>2 DEF OneHandler
<1>3. ASSUME Receive PROVE OneHandler(d)'
    <2>1. outQ' = outQ /\ at' = at /\ event' = event
        BY <1>3 DEF Receive, input
    <2>2. \A x \in Receivers : Pointed(x, d)' <=> Pointed(x, d)
        BY <2>1, SamePath
    <2>3. routing'.from = d => InQueue(d)
        BY <1>3, <1>d, ReceivePath
    <2>4. QED
        BY <1>keep, <1>d, <2>1, <2>2, <2>3 DEF OnePointer
<1>4. ASSUME Forward PROVE OneHandler(d)'
    <2>1. PICK r \in Receivers :
              /\ Sent(r, Forwarded) /\ RoutedTo(r, routing.from)
              /\ routing'.from = d => routing.from = d /\ routing.left # {r}
        BY <1>4, <1>d, ForwardPath
    <2>2. /\ Forwarded \in Message /\ Forwarded.from = routing.from /\ at' = at /\ event' = event
        BY <1>4, <1>d, ForwardEffect DEF input
    <2>3. routing'.from # d
        <3> SUFFICES ASSUME routing'.from = d PROVE FALSE
            OBVIOUS
        <3>1. routing.left \in One /\ r \in routing.left /\ routing.left # {r}
            BY <2>1 DEF OneOnList, RoutedTo
        <3>2. QED
            BY <3>1 DEF One
    <2>4. \A x \in Receivers : Pointed(x, d)' => Pointed(x, d) \/ (x = r /\ routing.from = d)
        <3> SUFFICES ASSUME NEW x \in Receivers, Pointed(x, d)'
                     PROVE  Pointed(x, d) \/ (x = r /\ routing.from = d)
            OBVIOUS
        <3>1. Holds(x, d)' => Holds(x, d) \/ (x = r /\ Forwarded.from = d)
            BY <2>1, <2>2, SentHolds
        <3>2. QED
            BY <2>2, <3>1 DEF Pointed
    <2>5. CASE routing.from = d
        <3>1. \A x \in Receivers : ~Pointed(x, d)
            BY <2>5 DEF OneHandler
        <3>2. \A x \in Receivers : at'[x].from # d
            BY <2>2, <3>1 DEF Pointed
        <3>3. QED
            BY <2>3, <2>4, <3>1, <3>2 DEF OneHandler
    <2>6. CASE routing.from # d
        BY <1>keep, <2>2, <2>3, <2>4, <2>6
    <2>7. QED
        BY <2>5, <2>6
<1>5. ASSUME Result \/ PreEnterSleep PROVE OneHandler(d)'
    <2>1. PICK m \in Message : Sent(Output, m) /\ m.from # d
        <3>1. CASE Result
            BY <1>d, <3>1, ResultEffect DEF Entry
        <3>2. CASE PreEnterSleep
            BY <1>d, <3>2, NoneType DEF PreEnterSleep, Sent, Sleep, Entry
        <3>3. QED
            BY <1>5, <3>1, <3>2
    <2>2. at' = at /\ event' = event /\ routing' = routing
        BY <1>5 DEF Result, PreEnterSleep, input
    <2>3. \A x \in Receivers : Pointed(x, d)' => Pointed(x, d)
        <3> SUFFICES ASSUME NEW x \in Receivers, Pointed(x, d)' PROVE Pointed(x, d)
            OBVIOUS
        <3>1. Holds(x, d)' => Holds(x, d)
            BY <2>1, SentHolds, Names
        <3>2. QED
            BY <2>2, <3>1 DEF Pointed
    <2>4. QED
        BY <1>keep, <2>2, <2>3 DEF OneHandler
<1>6. ASSUME NEW r \in Receivers, Take(r) PROVE OneHandler(d)'
    <2> DEFINE m == Head(outQ[r])
    <2>1. /\ outQ[r] # << >> /\ Taken(r)
          /\ at' = [at EXCEPT ![r] = Entry(m.from, m.copied, Contents(m))]
          /\ event' = event /\ routing' = routing
        BY <1>6, TakeEffect DEF input
    <2>2. \A x \in Receivers : Pointed(x, d)' <=> Pointed(x, d)
        BY <1>6, <1>d, TakePath
    <2>3. 1 \in DOMAIN outQ[r] /\ m = outQ[r][1]
        BY <2>1, TakenAt
    <2>4. m.from = d => ~m.copied
        BY <1>d, <2>3 DEF Shapes, EntryRight
    <2> HIDE DEF m
    <2>5. m.from = d => Contents(m) = event[d]
        BY <1>d, <2>4 DEF Contents
    <2>6. ASSUME NEW x \in Receivers, at'[x].from = d PROVE at'[x].event = event'[d]
        <3>1. CASE x = r
            BY <1>t, <2>1, <2>5, <2>6, <3>1 DEF Entry
        <3>2. CASE x # r
            BY <1>t, <2>1, <2>6, <3>2 DEF OneHandler
        <3>3. QED
            BY <3>1, <3>2
    <2>7. QED
        BY <2>1, <2>2, <2>6 DEF OneHandler
<1>7. ASSUME NEW r \in Receivers, Handled(r) PROVE OneHandler(d)'
    <2>1. /\ routing' = routing /\ (at[r].from # d => event'[d] = event[d])
        BY <1>7, <1>d, HandledEffect
    <2>2. \A x \in Receivers : Pointed(x, d)' => Pointed(x, d)
        <3> SUFFICES ASSUME NEW x \in Receivers, Pointed(x, d)' PROVE Pointed(x, d)
            OBVIOUS
        <3>1. CASE x = r
            <4>1. Holds(r, d)
                BY <1>7, <1>d, <3>1, HandledPath
            <4>2. QED
                BY <3>1, <4>1 DEF Pointed
        <3>2. CASE x # r
            BY <1>7, <1>d, <3>2, HandledPath
        <3>3. QED
            BY <3>1, <3>2
    <2>3. ASSUME NEW x \in Receivers, at'[x].from = d PROVE at'[x].event = event'[d]
        <3>1. x # r /\ at'[x] = at[x]
            BY <1>7, <1>d, <2>3, HandledPath
        <3>2. at[r].from # d
            BY <2>3, <3>1 DEF OneHandler, Pointed
        <3>3. QED
            BY <2>1, <2>3, <3>1, <3>2 DEF OneHandler
    <2>4. QED
        BY <2>1, <2>2, <2>3 DEF OneHandler
<1>8. ASSUME UNCHANGED vars PROVE OneHandler(d)'
    <2>1. outQ' = outQ /\ at' = at /\ routing' = routing /\ event' = event
        BY <1>8 DEF vars, input
    <2>2. \A x \in Receivers : Pointed(x, d)' <=> Pointed(x, d)
        BY <2>1, SamePath
    <2>3. QED
        BY <1>keep, <2>1, <2>2 DEF OneHandler
<1>9. QED
    BY Steps, <1>1, <1>2, <1>3, <1>4, <1>5, <1>6, <1>7, <1>8

\* What is under way stays so, and is under way to the vision algorithm if it was,
\* until a device writes its next event or its receiver is done.
LEMMA UnderwayStep ==
    ASSUME PhoneWaits, Room, TypeInv, PathInv, [Next]_vars, NEW d \in Remote,
           OneOnList(d), OneHandler(d),
           ~Writes(d), \A r \in Receivers : Handled(r) => at[r].from # d
    PROVE  (Registering(d) => Registering(d)') /\ (Busy(d)' => Busy(d))
<1>d. /\ d \in Devices /\ d \in Patient /\ d \notin Copied /\ d # "nobody" /\ d # "lpm"
      /\ d # Algorithm /\ {} \notin Lists[d]
      /\ OneMessage(d) /\ Shapes /\ \A r \in Receivers : OnePointer(d, r)
      /\ VisionAlgo \in Receivers
    BY RemoteFacts, Names DEF PathInv
<1>t. toReport \in [Devices -> SUBSET Receivers] /\ at \in [Receivers -> Message]
    BY DEF TypeInv, TypeOK
<1>keep. ASSUME \A x \in Receivers : Pointed(x, d)' <=> Pointed(x, d),
                InQueue(d)' <=> InQueue(d), msg'[d] = msg[d], toReport'[d] = toReport[d],
                routing' = routing
         PROVE  (Registering(d) => Registering(d)') /\ (Busy(d)' => Busy(d))
    BY <1>keep, <1>d DEF Registering, Busy
<1>1. ASSUME NEW e \in Devices, Writes(e)
      PROVE  (Registering(d) => Registering(d)') /\ (Busy(d)' => Busy(d))
    <2>1. /\ outQ' = outQ /\ at' = at /\ inQ' = inQ /\ routing' = routing /\ msg' = msg
          /\ toReport'[d] = toReport[d]
        BY <1>1, <1>d, WriteEffect
    <2>2. (InQueue(d)' <=> InQueue(d)) /\ \A x \in Receivers : Pointed(x, d)' <=> Pointed(x, d)
        BY <2>1, SamePath
    <2>3. QED
        BY <1>keep, <2>1, <2>2
<1>2. ASSUME NEW e \in Devices, Reports(e) \/ ReportToNobody(e)
      PROVE  (Registering(d) => Registering(d)') /\ (Busy(d)' => Busy(d))
    <2>1. outQ' = outQ /\ at' = at /\ routing' = routing /\ inQ' = Put(inQ, e)
        BY <1>2, ReportEffect, PressEffect
    <2>2. \A x \in Receivers : Pointed(x, d)' <=> Pointed(x, d)
        BY <2>1, SamePath
    <2>3. CASE e = d
        <3>1. Reports(d)
            BY <1>2, <1>d, <2>3, PressEffect
        <3>2. toReport[d] # {} /\ msg'[d].to = toReport[d] /\ toReport'[d] = {}
            BY <1>d, <1>t, <3>1, ReportEffect
        <3>3. InQueue(d)'
            BY <1>d, <2>1, <2>3, QueueAt
        <3>4. ~InQueue(d) /\ routing.from # d /\ ~Pointed(VisionAlgo, d)
            BY <1>d, <3>2, OnePlace
        <3>5. Registering(d) => msg'[d].to = {VisionAlgo}
            BY <3>2, <3>4 DEF Registering
        <3>6. QED
            BY <3>2, <3>3, <3>5 DEF Registering, Busy
    <2>4. CASE e # d
        <3>1. (toReport' = [toReport EXCEPT ![e] = {}] \/ toReport' = toReport) /\ msg'[d] = msg[d]
            BY <1>2, <1>d, <2>4, ReportEffect, PressEffect
        <3>2. toReport'[d] = toReport[d] /\ (InQueue(d)' <=> InQueue(d))
            BY <1>d, <1>t, <2>1, <2>4, <3>1, QueueAt
        <3>3. QED
            BY <1>keep, <2>1, <2>2, <3>1, <3>2
    <2>5. QED
        BY <2>3, <2>4
<1>3. ASSUME Receive PROVE (Registering(d) => Registering(d)') /\ (Busy(d)' => Busy(d))
    <2>1. toReport' = toReport /\ msg' = msg /\ outQ' = outQ /\ at' = at
        BY <1>3 DEF Receive, input
    <2>2. \A x \in Receivers : Pointed(x, d)' <=> Pointed(x, d)
        BY <2>1, SamePath
    <2>3. /\ routing.from # d
          /\ routing'.from = d => InQueue(d) /\ routing'.left = msg[d].to
          /\ InQueue(d)' => InQueue(d)
          /\ InQueue(d) => d = Head(inQ) \/ InQueue(d)'
        BY <1>3, <1>d, ReceivePath
    <2>4. d = Head(inQ) /\ msg[d].to = {VisionAlgo} =>
              routing'.from = d /\ routing'.left = {VisionAlgo}
        BY <1>3, <1>d, ReceiveEffect
    <2>5. QED
        BY <1>d, <2>1, <2>2, <2>3, <2>4 DEF Registering, Busy
<1>4. ASSUME Forward PROVE (Registering(d) => Registering(d)') /\ (Busy(d)' => Busy(d))
    <2>1. PICK r \in Receivers :
              /\ Sent(r, Forwarded) /\ RoutedTo(r, routing.from)
              /\ routing'.from = d =>
                     routing.from = d /\ routing'.left = routing.left \ {r} /\ routing.left # {r}
        BY <1>4, <1>d, ForwardPath
    <2>2. /\ Forwarded \in Message /\ Forwarded.from = routing.from /\ at' = at
          /\ toReport' = toReport /\ msg' = msg /\ inQ' = inQ
        BY <1>4, <1>d, ForwardEffect DEF input
    <2>3. InQueue(d)' <=> InQueue(d)
        BY <2>2, SamePath
    <2>4. \A x \in Receivers : /\ Pointed(x, d)' => Pointed(x, d) \/ routing.from = d
                               /\ Pointed(x, d) => Pointed(x, d)'
        <3> TAKE x \in Receivers
        <3>1. /\ Holds(x, d)' => Holds(x, d) \/ (x = r /\ Forwarded.from = d)
              /\ Holds(x, d) => Holds(x, d)'
            BY <2>1, <2>2, SentHolds
        <3>2. QED
            BY <2>2, <3>1 DEF Pointed
    <2>5. Busy(d)' => Busy(d)
        BY <2>1, <2>2, <2>3, <2>4 DEF Busy
    <2>6. routing.from = d /\ routing.left = {VisionAlgo} => Pointed(VisionAlgo, d)'
        <3> SUFFICES ASSUME routing.from = d, routing.left = {VisionAlgo}
                     PROVE  Pointed(VisionAlgo, d)'
            OBVIOUS
        <3>1. r = VisionAlgo
            BY <2>1 DEF RoutedTo
        <3>2. Holds(VisionAlgo, d)'
            BY <2>1, <2>2, <3>1, SentHolds
        <3>3. QED
            BY <3>2 DEF Pointed
    <2>7. Registering(d) => Registering(d)'
        BY <1>d, <2>2, <2>3, <2>4, <2>6 DEF Registering
    <2>8. QED
        BY <2>5, <2>7
<1>5. ASSUME Result \/ PreEnterSleep
      PROVE  (Registering(d) => Registering(d)') /\ (Busy(d)' => Busy(d))
    <2>1. PICK m \in Message : Sent(Output, m) /\ m.from # d
        <3>1. CASE Result
            BY <1>d, <3>1, ResultEffect DEF Entry
        <3>2. CASE PreEnterSleep
            BY <1>d, <3>2, NoneType DEF PreEnterSleep, Sent, Sleep, Entry
        <3>3. QED
            BY <1>5, <3>1, <3>2
    <2>2. at' = at /\ toReport' = toReport /\ msg' = msg /\ inQ' = inQ /\ routing' = routing
        BY <1>5 DEF Result, PreEnterSleep, input
    <2>3. \A x \in Receivers : Pointed(x, d)' <=> Pointed(x, d)
        <3> TAKE x \in Receivers
        <3>1. Holds(x, d)' <=> Holds(x, d)
            BY <2>1, SentHolds, Names
        <3>2. QED
            BY <2>2, <3>1 DEF Pointed
    <2>4. InQueue(d)' <=> InQueue(d)
        BY <2>2, SamePath
    <2>5. QED
        BY <1>keep, <2>2, <2>3, <2>4
<1>6. ASSUME NEW r \in Receivers, Take(r) \/ Handled(r)
      PROVE  (Registering(d) => Registering(d)') /\ (Busy(d)' => Busy(d))
    <2>1. toReport' = toReport /\ msg' = msg /\ inQ' = inQ /\ routing' = routing
        BY <1>6 DEF Take, Handled, input
    <2>2. \A x \in Receivers : Pointed(x, d)' <=> Pointed(x, d)
        <3>1. CASE Take(r)
            BY <1>d, <3>1, TakePath
        <3>2. CASE Handled(r)
            <4> TAKE x \in Receivers
            <4>1. at[r].from # d
                BY <3>2
            <4>2. QED
                BY <1>d, <3>2, <4>1, HandledPath
        <3>3. QED
            BY <1>6, <3>1, <3>2
    <2>3. InQueue(d)' <=> InQueue(d)
        BY <2>1, SamePath
    <2>4. QED
        BY <1>keep, <2>1, <2>2, <2>3
<1>7. ASSUME UNCHANGED vars
      PROVE  (Registering(d) => Registering(d)') /\ (Busy(d)' => Busy(d))
    <2>1. /\ outQ' = outQ /\ at' = at /\ inQ' = inQ /\ routing' = routing /\ msg' = msg
          /\ toReport' = toReport
        BY <1>7 DEF vars, input
    <2>2. (InQueue(d)' <=> InQueue(d)) /\ \A x \in Receivers : Pointed(x, d)' <=> Pointed(x, d)
        BY <2>1, SamePath
    <2>3. QED
        BY <1>keep, <2>1, <2>2
<1>8. QED
    BY Steps, <1>1, <1>2, <1>3, <1>4, <1>5, <1>6, <1>7

\* The answer to a registration frees the block of that registration: the event
\* of its device still is the one the receiver took.
LEMMA AnswerRight ==
    ASSUME PhoneWaits, TypeInv, PathInv, MemoryInv, NEW r \in Receivers,
           Handled(r), Registers(at[r], r)
    PROVE  LET d == at[r].from IN
           /\ d \in Remote /\ r = VisionAlgo /\ at[r].event = event[d]
           /\ <<d, event[d].data>> \in heap
           /\ ~misused' /\ heap' = heap \ {<<d, event[d].data>>}
<1> DEFINE d == at[r].from
<1>1. r = VisionAlgo /\ at[r].event.kind = "register"
    BY DEF Registers
<1>2. d \in Remote
    BY <1>1 DEF MemoryInv, KindsRight
<1>3. OneHandler(d) /\ BlockInUse(d) /\ ~misused
    BY <1>2 DEF MemoryInv
<1>4. at[r].event = event[d]
    BY <1>3 DEF OneHandler
<1>5. Busy(d)
    BY DEF Busy, Pointed
<1>6. <<d, event[d].data>> \in heap
    BY <1>1, <1>3, <1>4, <1>5 DEF BlockInUse
<1>7. /\ misused' = (misused \/ <<d, at[r].event.data>> \notin heap
                             \/ (event[d].data # 0 /\ <<d, event[d].data>> \notin heap))
      /\ heap' = heap \ {<<d, event[d].data>>}
    BY DEF Handled, Answer
<1>8. ~misused'
    BY <1>3, <1>4, <1>6, <1>7
<1>9. QED
    BY <1>1, <1>2, <1>4, <1>6, <1>7, <1>8

\* When a receiver is done with the event of a remote device, nothing of it is
\* under way.
LEMMA HandledRests ==
    ASSUME PhoneWaits, TypeInv, PathInv, NEW d \in Remote, OneHandler(d),
           NEW r \in Receivers, Handled(r), at[r].from = d
    PROVE  ~Busy(d)' /\ (Registering(d) => r = VisionAlgo)
<1>1. Pointed(r, d) /\ d \in Devices /\ OnePointer(d, r) /\ VisionAlgo \in Receivers
    BY RemoteFacts, Names DEF Pointed
<1>2. toReport[d] = {} /\ ~InQueue(d) /\ routing.from # d
    BY <1>1, OnePlace
<1>3. toReport' = toReport /\ inQ' = inQ /\ routing' = routing
    BY HandledEffect
<1>4. ~InQueue(d)'
    BY <1>2, <1>3, SamePath
<1>5. ASSUME NEW x \in Receivers PROVE ~Pointed(x, d)'
    <2>1. CASE x = r
        <3>1. ~Holds(r, d)
            BY <1>1 DEF OnePointer
        <3>2. QED
            BY <1>1, <2>1, <3>1, HandledPath
    <2>2. CASE x # r
        <3>1. ~Pointed(x, d)
            BY <1>1, <2>2 DEF OneHandler
        <3>2. QED
            BY <1>1, <2>2, <3>1, HandledPath
    <2>3. QED
        BY <2>1, <2>2
<1>6. Registering(d) => r = VisionAlgo
    <2>1. Registering(d) => Pointed(VisionAlgo, d)
        BY <1>2, Names DEF Registering
    <2>2. QED
        BY <1>1, <2>1 DEF OneHandler
<1>7. QED
    BY <1>2, <1>3, <1>4, <1>5, <1>6 DEF Busy

\* A block stays allocated while its registration is under way, and no longer.
LEMMA BlockStep ==
    ASSUME PhoneWaits, Room, TypeInv, PathInv, MemoryInv, [Next]_vars, NEW d \in Remote
    PROVE  BlockInUse(d)'
<1>d. d \in Devices /\ d \in Patient /\ d \notin Copied /\ VisionAlgo \in Receivers
    BY RemoteFacts, Names
<1>i. OneOnList(d) /\ OneHandler(d) /\ BlockInUse(d)
    BY DEF MemoryInv
<1>idle. Registering(d) => Busy(d)
    BY <1>d DEF Registering, Busy
<1>1. CASE Writes(d)
    <2>1. /\ MayWrite(d) /\ toReport'[d] # {}
        BY <1>1, <1>d, WriteEffect
    <2>2. ~Busy(d)
        BY <1>d, <2>1, WriteWaits DEF Busy
    <2>3. \A n \in 1..MaxEvents : <<d, n>> \notin heap
        BY <1>i, <1>idle, <2>2 DEF BlockInUse
    <2>4. CASE event'[d].kind = "register"
        <3>1. /\ toReport'[d] = {VisionAlgo} /\ heap' = heap \cup {<<d, event'[d].data>>}
              /\ event'[d].data \in 1..MaxEvents
            BY <1>1, <1>d, <2>4, WriteKind
        <3>2. \A n \in 1..MaxEvents : <<d, n>> \in heap' => n = event'[d].data
            BY <2>3, <3>1
        <3>3. Registering(d)'
            BY <3>1 DEF Registering
        <3>4. QED
            BY <2>4, <3>1, <3>2, <3>3 DEF BlockInUse
    <2>5. CASE event'[d].kind # "register"
        <3>1. heap' = heap
            BY <1>1, <1>d, <2>5, WriteKind
        <3>2. QED
            BY <2>3, <2>5, <3>1 DEF BlockInUse
    <2>6. QED
        BY <2>4, <2>5
<1>2. ASSUME NEW r \in Receivers, Handled(r), at[r].from = d PROVE BlockInUse(d)'
    <2>1. ~Busy(d)' /\ (Registering(d) => r = VisionAlgo)
        BY <1>2, <1>i, HandledRests
    <2>2. CASE Registers(at[r], r)
        <3>1. heap' = heap \ {<<d, event[d].data>>}
            BY <1>2, <2>2, AnswerRight
        <3>2. \A n \in 1..MaxEvents : <<d, n>> \notin heap'
            BY <1>i, <3>1 DEF BlockInUse
        <3>3. QED
            BY <2>1, <3>2 DEF BlockInUse
    <2>3. CASE ~Registers(at[r], r)
        <3>1. heap' = heap
            BY <1>2, <2>3, HandledEffect
        <3>2. at[r].event = event[d]
            BY <1>2, <1>i DEF OneHandler
        <3>3. ~(event[d].kind = "register" /\ Registering(d))
            BY <2>1, <2>3, <3>2 DEF Registers
        <3>4. \A n \in 1..MaxEvents : <<d, n>> \notin heap'
            BY <1>i, <3>1, <3>3 DEF BlockInUse
        <3>5. QED
            BY <2>1, <3>4 DEF BlockInUse
    <2>4. QED
        BY <2>2, <2>3
<1>3. CASE ~Writes(d) /\ \A r \in Receivers : Handled(r) => at[r].from # d
    <2>1. (Registering(d) => Registering(d)') /\ (Busy(d)' => Busy(d))
        BY <1>3, <1>i, UnderwayStep
    <2>2. event'[d] = event[d] /\ \A n : <<d, n>> \in heap' <=> <<d, n>> \in heap
        <3>1. ASSUME NEW e \in Devices, Writes(e)
              PROVE  event'[d] = event[d] /\ \A n : <<d, n>> \in heap' <=> <<d, n>> \in heap
            <4>1. e # d
                BY <1>3, <3>1
            <4>2. event'[d] = event[d]
                BY <1>d, <3>1, <4>1, WriteEffect
            <4>3. heap' = heap \/ heap' = heap \cup {<<e, event'[e].data>>}
                BY <3>1, WriteKind
            <4>4. QED
                BY <4>1, <4>2, <4>3
        <3>2. ASSUME NEW r \in Receivers, Handled(r)
              PROVE  event'[d] = event[d] /\ \A n : <<d, n>> \in heap' <=> <<d, n>> \in heap
            <4>1. at[r].from # d
                BY <1>3, <3>2
            <4>2. event'[d] = event[d]
                BY <1>d, <3>2, <4>1, HandledEffect
            <4>3. heap' = heap \/ heap' = heap \ {<<at[r].from, event[at[r].from].data>>}
                BY <3>2, AnswerRight, HandledEffect
            <4>4. QED
                BY <4>1, <4>2, <4>3
        <3>3. ASSUME NEW e \in Devices, Reports(e) \/ ReportToNobody(e)
              PROVE  event' = event /\ heap' = heap
            BY <3>3, ReportEffect, PressEffect DEF memory
        <3>4. ASSUME Receive \/ Forward \/ Result \/ PreEnterSleep \/ UNCHANGED vars
              PROVE  event' = event /\ heap' = heap
            BY <3>4 DEF Receive, Forward, Result, PreEnterSleep, vars, input, memory
        <3>5. ASSUME NEW r \in Receivers, Take(r)
              PROVE  event' = event /\ heap' = heap
            BY <3>5 DEF Take, input, memory
        <3>6. QED
            BY Steps, <3>1, <3>2, <3>3, <3>4, <3>5
    <2>3. QED
        BY <1>i, <2>1, <2>2 DEF BlockInUse
<1>4. QED
    BY <1>1, <1>2, <1>3

\* No block is freed that is not allocated.
LEMMA MisusedStep ==
    ASSUME PhoneWaits, TypeInv, PathInv, MemoryInv, [Next]_vars
    PROVE  ~misused'
<1>i. ~misused
    BY DEF MemoryInv
<1>1. ASSUME NEW d \in Devices, Writes(d) \/ Reports(d) \/ ReportToNobody(d) PROVE misused' = misused
    BY <1>1, WriteEffect, ReportEffect, PressEffect DEF memory
<1>2. ASSUME Receive \/ Forward \/ Result \/ PreEnterSleep \/ UNCHANGED vars PROVE misused' = misused
    BY <1>2 DEF Receive, Forward, Result, PreEnterSleep, vars, memory
<1>3. ASSUME NEW r \in Receivers, Take(r) PROVE misused' = misused
    BY <1>3 DEF Take, memory
<1>4. ASSUME NEW r \in Receivers, Handled(r) PROVE ~misused'
    <2>1. CASE Registers(at[r], r)
        BY <1>4, <2>1, AnswerRight
    <2>2. CASE ~Registers(at[r], r)
        BY <1>4, <1>i, <2>2, HandledEffect
    <2>3. QED
        BY <2>1, <2>2
<1>5. QED
    BY Steps, <1>i, <1>1, <1>2, <1>3, <1>4

\* Every message and every block of the heap is freed once.
LEMMA MemoryStep ==
    ASSUME PhoneWaits, Room, TypeInv, PathInv, MemoryInv, [Next]_vars
    PROVE  MemoryInv'
<1>1. KindsRight'
    BY KindsStep DEF MemoryInv
<1>2. \A d \in Remote : OneOnList(d)' /\ OneHandler(d)' /\ BlockInUse(d)'
    BY ListStep, HandlerStep, BlockStep DEF MemoryInv
<1>3. ~misused'
    BY MisusedStep
<1>4. ASSUME NEW r \in Receivers PROVE copies'[r] = Owned(r)'
    <2>1. /\ copies' \in [Receivers -> Nat] /\ copies[r] + Owned(r)' = copies'[r] + Owned(r)
          /\ copies[r] = Owned(r) /\ Owned(r) \in Nat
        BY OwnedStep, OwnedType DEF MemoryInv, PathInv
    <2>2. TypeInv'
        BY TypeStep DEF PathInv
    <2>3. Owned(r)' \in Nat
        <3>1. Cardinality(OnHeap(outQ'[r])) \in Nat
            BY <2>2, HeapFinite DEF TypeInv, TypeOK
        <3>2. QED
            BY <3>1 DEF Owned
    <2> HIDE DEF Owned
    <2>4. copies'[r] \in Nat
        BY <2>1
    <2>5. QED
        BY <2>1, <2>3, <2>4
<1>5. QED
    BY <1>1, <1>2, <1>3, <1>4 DEF MemoryInv

\* At the start nothing is allocated.
LEMMA MemoryInit == Init => MemoryInv
<1> SUFFICES ASSUME Init PROVE MemoryInv
    OBVIOUS
<1>1. KindsRight
    BY DEF Init, KindsRight, None, NotRouting, Idle, Entry
<1>2. /\ inQ = << >> /\ routing.from = "nobody" /\ heap = {} /\ misused = FALSE
      /\ \A d \in Devices : toReport[d] = {}
      /\ \A r \in Receivers : outQ[r] = << >> /\ at[r].from = "nobody" /\ copies[r] = 0
    BY DEF Init, NotRouting, Idle, Entry
<1>3. ASSUME NEW d \in Remote PROVE OneOnList(d) /\ OneHandler(d) /\ BlockInUse(d)
    <2>1. /\ d \in Devices /\ d # "nobody" /\ toReport[d] = {} /\ ~InQueue(d) /\ routing.from # d
          /\ \A r \in Receivers : at[r].from # d /\ ~Pointed(r, d)
        BY <1>2, Sets, Names DEF InQueue, Pointed, Holds
    <2>2. OneOnList(d) /\ OneHandler(d)
        BY <2>1 DEF OneOnList, OneHandler
    <2>3. ~Busy(d)
        BY <2>1 DEF Busy
    <2>4. QED
        BY <1>2, <2>2, <2>3 DEF BlockInUse
<1>4. ASSUME NEW r \in Receivers PROVE copies[r] = Owned(r)
    <2>1. OnHeap(outQ[r]) = {} /\ at[r].from \notin Sources
        BY <1>2, Names DEF OnHeap
    <2>2. QED
        BY <1>2, <2>1, FS_EmptySet DEF Owned
<1>5. QED
    BY <1>1, <1>2, <1>3, <1>4 DEF MemoryInv

\* If the phone waits for the answers, and as long as no queue is full, a block is
\* neither read nor freed after it was freed, and none is lost.
THEOREM FreedOnceHolds ==
    ASSUME PhoneWaits
    PROVE  Spec /\ []Room => []FreedOnce
<1> DEFINE Inv == TypeInv /\ PathInv /\ MemoryInv
<1>1. Init => Inv
    BY InitType, PathInit, MemoryInit
<1>2. Inv /\ Room /\ [Next]_vars => Inv'
    BY TypeStep, PathStep, MemoryStep DEF PathInv
<1>3. Inv => FreedOnce
    <2> SUFFICES ASSUME Inv PROVE FreedOnce
        OBVIOUS
    <2>1. NoBadFree
        BY DEF MemoryInv, NoBadFree
    <2>2. ASSUME NEW r \in Receivers
          PROVE  copies[r] = Cardinality({i \in DOMAIN outQ[r] : outQ[r][i].from \in Sources})
                             + (IF at[r].from \in Sources THEN 1 ELSE 0)
        BY DEF MemoryInv, Owned, OnHeap
    <2>3. ASSUME NEW block \in heap PROVE event[block[1]].data = block[2]
        <3>1. heap \subseteq Remote \X (1..MaxEvents)
            BY DEF TypeInv, TypeOK
        <3>2. PICK d \in Remote, n \in 1..MaxEvents : block = <<d, n>>
            BY <3>1
        <3>3. event[d].data = n
            BY <3>2 DEF MemoryInv, BlockInUse
        <3>4. QED
            BY <3>2, <3>3
    <2>4. QED
        BY <2>1, <2>2, <2>3 DEF FreedOnce, NoLeak
<1>4. QED
    BY <1>1, <1>2, <1>3, PTL DEF Spec

-------------------------------------------------------------------------------
(* The bus that the devices see that wait.                                     *)

\* What is undelivered, told by the path.
LEMMA UndeliveredDue ==
    ASSUME TypeInv, PathInv
    PROVE  UndeliveredIsDue
<1> SUFFICES ASSUME NEW r \in Receivers
             PROVE  Undelivered(r) = {e \in Patient \X Nat : Due(r, e[1], e[2])}
    BY DEF UndeliveredIsDue
<1> DEFINE A == {<<d, Queued(d)>> : d \in {x \in Patient : /\ x \in {inQ[i] : i \in DOMAIN inQ}
                                                           /\ r \in msg[x].to}}
           B == {<<d, Forwarded.event.id>> :
                    d \in {x \in {routing.from} \cap Patient :
                               r \in routing.left /\ Forwarded.copied}}
           C == {<<d, event[d].id>> :
                    d \in {x \in {routing.from} \cap Patient :
                               r \in routing.left /\ ~Forwarded.copied}}
           D == {<<m.from, Contents(m).id>> :
                    m \in {outQ[r][i] : i \in {j \in DOMAIN outQ[r] : outQ[r][j].from \in Patient}}}
           E == {e \in Patient \X Nat : Due(r, e[1], e[2])}
<1>0. Undelivered(r) = A \cup B \cup C \cup D
    BY DEF Undelivered
<1>p. ASSUME NEW d \in Patient
      PROVE  /\ d \in Devices /\ event[d].id \in Nat
             /\ RequestCurrent(d)
    BY Bounds DEF Patient, TypeInv, PathInv
<1>q. ASSUME NEW d \in Patient, InQueue(d) PROVE Queued(d) = event[d].id
    BY <1>p, <1>q DEF Queued, RequestCurrent
<1>f. ASSUME routing.from \in Patient, Forwarded.copied
      PROVE  Forwarded.event.id = event[routing.from].id
    BY <1>p, <1>f DEF Forwarded, Entry, RequestCurrent
<1>m. ASSUME NEW i \in DOMAIN outQ[r], outQ[r][i].from \in Patient
      PROVE  /\ Contents(outQ[r][i]).id = Number(outQ[r][i])
             /\ Number(outQ[r][i]) \in Nat
    <2>1. outQ[r][i].from \in Devices
        BY <1>m DEF Patient
    <2>2. outQ[r][i].event.id \in Nat
        <3>1. outQ[r][i] \in Message
            BY DEF TypeInv, TypeOK
        <3>2. QED
            BY <3>1, Bounds DEF Message, Event
    <2>3. QED
        BY <1>m, <1>p, <2>1, <2>2 DEF Contents, Number
<1>1. A \subseteq E
    <2> SUFFICES ASSUME NEW d \in Patient, d \in {inQ[i] : i \in DOMAIN inQ}, r \in msg[d].to
                 PROVE  <<d, Queued(d)>> \in E
        OBVIOUS
    <2>1. InQueue(d)
        BY DEF InQueue
    <2>2. QED
        BY <1>p, <1>q, <2>1 DEF Due, Promised
<1>2. B \subseteq E /\ C \subseteq E
    BY <1>p, <1>f DEF Due, Promised, RoutedTo
<1>3. D \subseteq E
    BY <1>m DEF Due, Mailed
<1>4. ASSUME NEW d \in Patient, NEW n \in Nat, Due(r, d, n) PROVE <<d, n>> \in A \cup B \cup C \cup D
    <2>1. CASE InQueue(d) /\ r \in msg[d].to /\ n = event[d].id
        <3>1. n = Queued(d)
            BY <1>q, <2>1
        <3>2. <<d, n>> \in A
            BY <2>1, <3>1 DEF InQueue
        <3>3. QED
            BY <3>2
    <2>2. CASE RoutedTo(r, d) /\ n = event[d].id
        <3>1. CASE Forwarded.copied
            BY <1>f, <2>2, <3>1 DEF RoutedTo
        <3>2. CASE ~Forwarded.copied
            BY <2>2, <3>2 DEF RoutedTo
        <3>3. QED
            BY <3>1, <3>2
    <2>3. CASE Mailed(r, d, n)
        <3>1. PICK i \in DOMAIN outQ[r] : outQ[r][i].from = d /\ n = Number(outQ[r][i])
            BY <2>3 DEF Mailed
        <3>2. <<d, n>> = <<outQ[r][i].from, Contents(outQ[r][i]).id>>
            BY <1>m, <3>1
        <3>3. <<d, n>> \in D
            BY <3>1, <3>2
        <3>4. QED
            BY <3>3
    <2>4. QED
        BY <1>4, <2>1, <2>2, <2>3 DEF Due, Promised
<1> HIDE DEF A, B, C, D
<1>5. E \subseteq A \cup B \cup C \cup D
    BY <1>4
<1>6. QED
    BY <1>0, <1>1, <1>2, <1>3, <1>5

\* What a queue holds for a receiver, while the queue stays.
LEMMA MailedSame ==
    ASSUME outQ' = outQ, NEW d, NEW x \in Receivers, NEW n,
           \/ event'[d].id = event[d].id
           \/ \A i \in DOMAIN outQ[x] : outQ[x][i].from = d => outQ[x][i].copied
    PROVE  Mailed(x, d, n)' <=> Mailed(x, d, n)
BY DEF Mailed, Number

\* After a message was put on a queue, and after one was taken.
LEMMA MailedSent ==
    ASSUME TypeInv, Room, NEW r \in Receivers, NEW m \in Message, Sent(r, m), event' = event,
           NEW x \in Receivers, NEW d, NEW n
    PROVE  Mailed(x, d, n)' <=> \/ Mailed(x, d, n)
                                \/ x = r /\ m.from = d /\ n = Number(m)
<1>1. /\ \A i \in DOMAIN outQ'[x] :
             \/ i \in DOMAIN outQ[x] /\ outQ'[x][i] = outQ[x][i]
             \/ x = r /\ i = Len(outQ[r]) + 1 /\ outQ'[x][i] = m
      /\ \A i \in DOMAIN outQ[x] : i \in DOMAIN outQ'[x] /\ outQ'[x][i] = outQ[x][i]
      /\ Len(outQ[r]) + 1 \in DOMAIN outQ'[r] /\ outQ'[r][Len(outQ[r]) + 1] = m
    BY SendAt
<1>2. QED
    BY <1>1 DEF Mailed, Number

\* What a queue holds, before and after its first message is taken.
LEMMA MailedTaken ==
    ASSUME TypeInv, NEW r \in Receivers, outQ[r] # << >>, Taken(r), event' = event,
           NEW x \in Receivers, NEW d, NEW n
    PROVE  /\ x # r => (Mailed(x, d, n)' <=> Mailed(x, d, n))
           /\ x = r => (Mailed(x, d, n) <=>
                            \/ Mailed(x, d, n)'
                            \/ Head(outQ[r]).from = d /\ n = Number(Head(outQ[r])))
<1>1. /\ \A y \in Receivers \ {r} : outQ'[y] = outQ[y]
      /\ 1 \in DOMAIN outQ[r] /\ Head(outQ[r]) = outQ[r][1]
      /\ \A i \in DOMAIN outQ'[r] : i + 1 \in DOMAIN outQ[r] /\ outQ'[r][i] = outQ[r][i + 1]
      /\ \A i \in DOMAIN outQ[r] :
             i = 1 \/ (i - 1 \in DOMAIN outQ'[r] /\ outQ'[r][i - 1] = outQ[r][i])
    BY TakenAt
<1>2. CASE x # r
    BY <1>1, <1>2 DEF Mailed, Number
<1>3. CASE x = r
    BY <1>1, <1>3 DEF Mailed, Number
<1>4. QED
    BY <1>2, <1>3

\* To write an event delivers nothing, and changes nothing that is under way.
LEMMA WriteDue ==
    ASSUME TypeInv, PathInv, NEW e \in Devices, Writes(e),
           NEW d \in Patient, NEW x \in Receivers, NEW n
    PROVE  Reported(d)' = Reported(d) /\ (Due(x, d, n)' <=> Due(x, d, n))
<1>1. /\ inQ' = inQ /\ msg' = msg /\ routing' = routing /\ outQ' = outQ /\ MayWrite(e)
      /\ event'[e].id = event[e].id + 1 /\ toReport'[e] # {}
    BY WriteEffect
<1>2. d \in Devices /\ event[d].id \in Nat /\ Shapes
    BY Bounds DEF Patient, TypeInv, PathInv
<1>3. Promised(x, d)' <=> Promised(x, d)
    BY <1>1, SamePath DEF Promised
<1>4. CASE d = e
    <2>1. toReport[d] = {} /\ ~Promised(x, d) /\ (d \notin Copied => ~Pointed(x, d))
        BY <1>1, <1>4, WriteWaits DEF Promised, RoutedTo
    <2>2. Reported(d)' = Reported(d)
        BY <1>1, <1>2, <1>4, <2>1 DEF Reported
    <2>3. \A i \in DOMAIN outQ[x] : outQ[x][i].from = d => outQ[x][i].copied
        BY <1>2, <2>1 DEF Shapes, EntryRight, Pointed, Holds
    <2>4. Mailed(x, d, n)' <=> Mailed(x, d, n)
        BY <1>1, <2>3, MailedSame
    <2>5. QED
        BY <1>3, <2>1, <2>2, <2>4 DEF Due
<1>5. CASE d # e
    <2>1. event'[d] = event[d] /\ toReport'[d] = toReport[d]
        BY <1>2, <1>5, WriteEffect
    <2>2. Mailed(x, d, n)' <=> Mailed(x, d, n)
        BY <1>1, <2>1, MailedSame
    <2>3. QED
        BY <1>3, <2>1, <2>2 DEF Due, Reported
<1>6. QED
    BY <1>4, <1>5

\* To report it promises it to the receivers on its list.
LEMMA ReportDue ==
    ASSUME TypeInv, PathInv, Room, NEW e \in Devices, Reports(e),
           NEW d \in Patient, NEW x \in Receivers, NEW n
    PROVE  /\ d # e => Reported(d)' = Reported(d) /\ (Due(x, d, n)' <=> Due(x, d, n))
           /\ d = e => /\ Reported(d) = event[d].id - 1 /\ Reported(d)' = event[d].id
                       /\ Due(x, d, n)' <=> \/ Due(x, d, n)
                                            \/ x \in toReport[d] /\ n = event[d].id
<1>1. /\ toReport[e] # {} /\ toReport' = [toReport EXCEPT ![e] = {}]
      /\ msg'[e].to = toReport[e] /\ \A y \in Devices \ {e} : msg'[y] = msg[y]
      /\ inQ' = Put(inQ, e) /\ event' = event /\ routing' = routing /\ outQ' = outQ
    BY ReportEffect
<1>2. d \in Devices /\ OneMessage(d) /\ toReport \in [Devices -> SUBSET Receivers]
    BY DEF Patient, TypeInv, TypeOK, PathInv
<1>3. (Mailed(x, d, n)' <=> Mailed(x, d, n)) /\ (RoutedTo(x, d)' <=> RoutedTo(x, d))
    BY <1>1, MailedSame, SamePath
<1>4. CASE d # e
    <2>1. toReport'[d] = toReport[d] /\ msg'[d] = msg[d] /\ (InQueue(d)' <=> InQueue(d))
        BY <1>1, <1>2, <1>4, QueueAt
    <2>2. QED
        BY <1>1, <1>3, <1>4, <2>1 DEF Due, Promised, Reported
<1>5. CASE d = e
    <2>1. toReport'[d] = {} /\ toReport[d] # {} /\ msg'[d].to = toReport[d]
        BY <1>1, <1>2, <1>5
    <2>2. Reported(d) = event[d].id - 1 /\ Reported(d)' = event[d].id
        BY <1>1, <2>1 DEF Reported
    <2>3. InQueue(d)' /\ ~InQueue(d) /\ ~RoutedTo(x, d)
        BY <1>1, <1>2, <1>5, <2>1, QueueAt DEF OneMessage, RoutedTo
    <2>4. (Promised(x, d)' <=> x \in toReport[d]) /\ ~Promised(x, d)
        BY <1>3, <2>1, <2>3 DEF Promised
    <2>5. QED
        BY <1>1, <1>3, <1>5, <2>2, <2>4 DEF Due
<1>6. QED
    BY <1>4, <1>5

\* The steps between the report and the receiver deliver nothing.
LEMMA BetweenDue ==
    ASSUME TypeInv, PathInv, Room, NEW d \in Patient, NEW x \in Receivers, NEW n,
           \/ \E e \in Devices : ReportToNobody(e)
           \/ Receive \/ Forward \/ Result \/ PreEnterSleep
           \/ \E r \in Receivers : Handled(r)
           \/ UNCHANGED vars
    PROVE  Reported(d)' = Reported(d) /\ (Due(x, d, n)' <=> Due(x, d, n))
<1>d. /\ d \in Devices /\ OneMessage(d) /\ RequestCurrent(d) /\ Shapes
      /\ d # Algorithm /\ d # "lpm"
    BY Names DEF Patient, PathInv
<1>1. ASSUME NEW e \in Devices, ReportToNobody(e)
      PROVE  Reported(d)' = Reported(d) /\ (Due(x, d, n)' <=> Due(x, d, n))
    <2>1. /\ MayWrite(e) /\ msg'[e].to = {} /\ (\A y \in Devices \ {e} : msg'[y] = msg[y])
          /\ inQ' = Put(inQ, e) /\ event' = event /\ routing' = routing /\ outQ' = outQ
          /\ toReport' = toReport
        BY <1>1, PressEffect
    <2>2. (Mailed(x, d, n)' <=> Mailed(x, d, n)) /\ (RoutedTo(x, d)' <=> RoutedTo(x, d))
        BY <2>1, MailedSame, SamePath
    <2>3. Promised(x, d)' <=> Promised(x, d)
        <3>1. CASE d = e
            <4>1. ~InQueue(d) /\ ~RoutedTo(x, d)
                BY <2>1, <3>1, WriteWaits DEF RoutedTo
            <4>2. QED
                BY <2>1, <2>2, <3>1, <4>1 DEF Promised
        <3>2. CASE d # e
            <4>1. msg'[d] = msg[d] /\ (InQueue(d)' <=> InQueue(d))
                BY <1>d, <2>1, <3>2, QueueAt
            <4>2. QED
                BY <2>2, <4>1 DEF Promised
        <3>3. QED
            BY <3>1, <3>2
    <2>4. QED
        BY <2>1, <2>2, <2>3 DEF Due, Reported
<1>2. ASSUME Receive PROVE Reported(d)' = Reported(d) /\ (Due(x, d, n)' <=> Due(x, d, n))
    <2>1. event' = event /\ toReport' = toReport /\ msg' = msg /\ outQ' = outQ
        BY <1>2 DEF Receive, input
    <2>2. Mailed(x, d, n)' <=> Mailed(x, d, n)
        BY <2>1, MailedSame
    <2>3. /\ ~RoutedTo(x, d) /\ (RoutedTo(x, d)' <=> (d = Head(inQ) /\ x \in msg[d].to))
          /\ InQueue(Head(inQ)) /\ (InQueue(d)' => InQueue(d))
          /\ InQueue(d) => d = Head(inQ) \/ InQueue(d)'
        BY <1>2, <1>d, ReceivePath
    <2>4. Promised(x, d)' <=> Promised(x, d)
        BY <2>1, <2>3 DEF Promised
    <2>5. QED
        BY <2>1, <2>2, <2>4 DEF Due, Reported
<1>3. ASSUME Forward PROVE Reported(d)' = Reported(d) /\ (Due(x, d, n)' <=> Due(x, d, n))
    <2>1. PICK r \in Receivers :
              /\ Sent(r, Forwarded) /\ RoutedTo(r, routing.from)
              /\ RoutedTo(x, d)' <=> RoutedTo(x, d) /\ x # r
        BY <1>3, <1>d, ForwardPath
    <2>2. /\ Forwarded \in Message /\ Forwarded.from = routing.from
          /\ event' = event /\ toReport' = toReport /\ msg' = msg /\ inQ' = inQ
        BY <1>3, <1>d, ForwardEffect DEF input
    <2>3. Mailed(x, d, n)' <=> \/ Mailed(x, d, n)
                               \/ x = r /\ routing.from = d /\ n = Number(Forwarded)
        BY <2>1, <2>2, MailedSent
    <2>4. routing.from = d => Number(Forwarded) = event[d].id
        BY <1>d, <2>2 DEF Number, Forwarded, Entry, RequestCurrent
    <2>5. InQueue(d)' <=> InQueue(d)
        BY <2>2, SamePath
    <2>6. Due(x, d, n)' <=> Due(x, d, n)
        <3>1. CASE x = r /\ routing.from = d
            <4>1. Promised(x, d)
                BY <2>1, <3>1 DEF Promised
            <4>2. ~Promised(x, d)'
                BY <1>d, <2>1, <2>5, <3>1 DEF Promised, OneMessage
            <4>3. QED
                BY <2>3, <2>4, <3>1, <4>1, <4>2 DEF Due
        <3>2. CASE ~(x = r /\ routing.from = d)
            <4>1. RoutedTo(x, d)' <=> RoutedTo(x, d)
                BY <2>1, <3>2 DEF RoutedTo
            <4>2. Promised(x, d)' <=> Promised(x, d)
                BY <2>2, <2>5, <4>1 DEF Promised
            <4>3. QED
                BY <2>2, <2>3, <3>2, <4>2 DEF Due
        <3>3. QED
            BY <3>1, <3>2
    <2>7. QED
        BY <2>2, <2>6 DEF Reported
<1>4. ASSUME Result \/ PreEnterSleep
      PROVE  Reported(d)' = Reported(d) /\ (Due(x, d, n)' <=> Due(x, d, n))
    <2>1. PICK m \in Message : Sent(Output, m) /\ m.from # d
        <3>1. CASE Result
            BY <1>d, <3>1, ResultEffect DEF Entry
        <3>2. CASE PreEnterSleep
            BY <1>d, <3>2, NoneType DEF PreEnterSleep, Sent, Sleep, Entry
        <3>3. QED
            BY <1>4, <3>1, <3>2
    <2>2. event' = event /\ toReport' = toReport /\ msg' = msg /\ inQ' = inQ /\ routing' = routing
        BY <1>4 DEF Result, PreEnterSleep, input
    <2>3. Mailed(x, d, n)' <=> Mailed(x, d, n)
        BY <2>1, <2>2, MailedSent, Names
    <2>4. Promised(x, d)' <=> Promised(x, d)
        BY <2>2, SamePath DEF Promised
    <2>5. QED
        BY <2>2, <2>3, <2>4 DEF Due, Reported
<1>5. ASSUME NEW r \in Receivers, Handled(r)
      PROVE  Reported(d)' = Reported(d) /\ (Due(x, d, n)' <=> Due(x, d, n))
    <2>1. /\ outQ' = outQ /\ event'[d].id = event[d].id /\ toReport' = toReport /\ msg' = msg
          /\ inQ' = inQ /\ routing' = routing
        BY <1>5, <1>d, HandledEffect
    <2>2. Mailed(x, d, n)' <=> Mailed(x, d, n)
        BY <2>1, MailedSame
    <2>3. Promised(x, d)' <=> Promised(x, d)
        BY <2>1, SamePath DEF Promised
    <2>4. QED
        BY <2>1, <2>2, <2>3 DEF Due, Reported
<1>6. ASSUME UNCHANGED vars PROVE Reported(d)' = Reported(d) /\ (Due(x, d, n)' <=> Due(x, d, n))
    <2>1. /\ outQ' = outQ /\ event' = event /\ toReport' = toReport /\ msg' = msg
          /\ inQ' = inQ /\ routing' = routing
        BY <1>6 DEF vars, input
    <2>2. Mailed(x, d, n)' <=> Mailed(x, d, n)
        BY <2>1, MailedSame
    <2>3. Promised(x, d)' <=> Promised(x, d)
        BY <2>1, SamePath DEF Promised
    <2>4. QED
        BY <2>1, <2>2, <2>3 DEF Due, Reported
<1>7. QED
    BY <1>1, <1>2, <1>3, <1>4, <1>5, <1>6

\* A receiver that takes a message is told of that event, and of no other.
LEMMA TakeDue ==
    ASSUME TypeInv, PathInv, NEW r \in Receivers, Take(r),
           NEW d \in Patient, NEW x \in Receivers, NEW n
    PROVE  LET m == Head(outQ[r]) IN
           /\ Reported(d)' = Reported(d)
           /\ x # r \/ m.from # d => (Due(x, d, n)' <=> Due(x, d, n))
           /\ x = r /\ m.from = d => /\ Due(x, d, n)' <=> (Due(x, d, n) /\ n # Number(m))
                                     /\ Due(x, d, Number(m)) /\ Number(m) \in Nat
<1> DEFINE m == Head(outQ[r])
<1>d. /\ d \in Devices /\ Shapes
      /\ d \notin Copied => OnePointer(d, x)
      /\ d \in Copied => CopiesInOrder(d, x)
    BY DEF Patient, PathInv
<1>1. /\ outQ[r] # << >> /\ Taken(r) /\ event' = event /\ toReport' = toReport /\ msg' = msg
      /\ inQ' = inQ /\ routing' = routing /\ m \in Message
    BY TakeEffect DEF input
<1>2. Promised(x, d)' <=> Promised(x, d)
    BY <1>1, SamePath DEF Promised
<1>3. /\ x # r => (Mailed(x, d, n)' <=> Mailed(x, d, n))
      /\ x = r => (Mailed(x, d, n) <=> Mailed(x, d, n)' \/ (m.from = d /\ n = Number(m)))
    BY <1>1, MailedTaken
<1>4. Reported(d)' = Reported(d)
    BY <1>1 DEF Reported
<1>5. CASE x # r \/ m.from # d
    BY <1>1, <1>2, <1>3, <1>4, <1>5 DEF Due
<1>6. CASE x = r /\ m.from = d
    <2>1. /\ 1 \in DOMAIN outQ[r] /\ m = outQ[r][1]
          /\ \A i \in DOMAIN outQ'[r] :
                 i \in Nat \ {0} /\ i + 1 \in DOMAIN outQ[r] /\ outQ'[r][i] = outQ[r][i + 1]
        BY <1>1, TakenAt
    <2>2. Mailed(x, d, Number(m))
        BY <1>6, <2>1 DEF Mailed
    <2>3. \A i \in DOMAIN outQ[r] : outQ[r][i].from = d =>
              /\ outQ[r][i].copied <=> d \in Copied
              /\ outQ[r][i].event.id \in Nat
        <3>1. \A i \in DOMAIN outQ[r] : outQ[r][i] \in Message
            BY DEF TypeInv, TypeOK
        <3>2. QED
            BY <1>d, <3>1, Bounds DEF Shapes, EntryRight, Message, Event
    <2>t. event[d].id \in Nat
        BY <1>d, Bounds DEF TypeInv
    <2>4. CASE d \notin Copied
        <3>1. ~Promised(x, d)
            <4>1. Holds(r, d)
                BY <1>6, <2>1 DEF Holds
            <4>2. Pointed(x, d)
                BY <1>6, <4>1 DEF Pointed
            <4>3. QED
                BY <1>d, <2>4, <4>2 DEF OnePointer, Promised
        <3>2. \A i, j \in DOMAIN outQ[r] : outQ[r][i].from = d /\ outQ[r][j].from = d => i = j
            BY <1>6, <1>d, <2>4 DEF OnePointer
        <3>3. ~Mailed(x, d, n)'
            <4> SUFFICES ASSUME NEW i \in DOMAIN outQ'[r], outQ'[r][i].from = d PROVE FALSE
                BY <1>6 DEF Mailed
            <4>1. i \in Nat \ {0} /\ i + 1 = 1
                BY <1>6, <2>1, <3>2
            <4>2. QED
                BY <4>1
        <3>4. Number(m) = event[d].id
            BY <1>6, <2>1, <2>3, <2>4 DEF Number
        <3>5. QED
            BY <1>2, <1>3, <1>4, <1>6, <2>2, <2>t, <3>1, <3>3, <3>4 DEF Due
    <2>5. CASE d \in Copied
        <3>1. Number(m) = m.event.id /\ Number(m) \in Nat
            BY <1>6, <2>1, <2>3, <2>5 DEF Number
        <3>2. Promised(x, d) => Number(m) < event[d].id
            BY <1>6, <1>d, <2>1, <2>5, <3>1 DEF CopiesInOrder
        <3>3. ASSUME Mailed(x, d, n)' PROVE n # Number(m)
            <4>1. PICK i \in DOMAIN outQ'[r] : outQ'[r][i].from = d /\ n = Number(outQ[r][i])'
                BY <1>6, <3>3 DEF Mailed
            <4>2. i \in Nat \ {0} /\ i + 1 \in DOMAIN outQ[r] /\ outQ'[r][i] = outQ[r][i + 1]
                BY <2>1
            <4>3. 1 < i + 1
                BY <4>2
            <4>4. m.event.id < outQ[r][i + 1].event.id
                BY <1>6, <1>d, <2>1, <2>5, <4>1, <4>2, <4>3 DEF CopiesInOrder
            <4>5. /\ n = outQ[r][i + 1].event.id
                  /\ outQ[r][i + 1].event.id \in Nat
                BY <2>3, <2>5, <4>1, <4>2 DEF Number
            <4>6. QED
                BY <3>1, <4>4, <4>5
        <3>4. Mailed(x, d, n)' => n # Number(m)
            BY <3>3
        <3>5. Promised(x, d) => event[d].id # Number(m)
            BY <2>t, <3>1, <3>2
        <3>6. Due(x, d, n)' <=> (Due(x, d, n) /\ n # Number(m))
            BY <1>1, <1>2, <1>3, <1>6, <3>4, <3>5 DEF Due
        <3>7. QED
            BY <1>4, <1>6, <2>2, <3>1, <3>6 DEF Due
    <2>6. QED
        BY <2>4, <2>5
<1>7. QED
    BY <1>5, <1>6

\* A step that changes nothing of what is reported or due is a stutter of the bus.
LEMMA BusSame ==
    ASSUME UndeliveredIsDue, UndeliveredIsDue',
           \A d \in Patient : Reported(d)' = Reported(d),
           \A d \in Patient, x \in Receivers, n \in Nat : Due(x, d, n)' <=> Due(x, d, n)
    PROVE  UNCHANGED Bus!vars
<1>1. \A x \in Receivers : Undelivered(x)' = Undelivered(x)
    BY DEF UndeliveredIsDue
<1>2. QED
    BY <1>1 DEF Bus!vars

\* Every step is a report, a receiver that is told, or a stutter of the bus.
LEMMA BusStep ==
    ASSUME TypeInv, PathInv, Room, UndeliveredIsDue, UndeliveredIsDue', [Next]_vars
    PROVE  [Bus!Next]_(Bus!vars)
<1> DEFINE last == [d \in Patient |-> Reported(d)]
           pending == [r \in Receivers |-> Undelivered(r)]
<1>p. \A d \in Patient : d \in Devices /\ event[d].id \in 0..MaxEvents
    BY DEF Patient, TypeInv
<1>u. \A x \in Receivers : /\ Undelivered(x) = {e \in Patient \X Nat : Due(x, e[1], e[2])}
                           /\ Undelivered(x)' = {e \in Patient \X Nat : Due(x, e[1], e[2])'}
    BY DEF UndeliveredIsDue
<1>1. ASSUME NEW e \in Devices, Reports(e) PROVE [Bus!Next]_(Bus!vars)
    <2>r. \A d \in Patient \ {e} :
              /\ Reported(d)' = Reported(d)
              /\ \A x \in Receivers, n \in Nat : Due(x, d, n)' <=> Due(x, d, n)
        <3> SUFFICES ASSUME NEW d \in Patient \ {e}
                     PROVE  /\ Reported(d)' = Reported(d)
                            /\ \A x \in Receivers, n \in Nat : Due(x, d, n)' <=> Due(x, d, n)
            OBVIOUS
        <3>1. ASSUME NEW x \in Receivers, NEW n \in Nat
              PROVE  Reported(d)' = Reported(d) /\ (Due(x, d, n)' <=> Due(x, d, n))
            BY <1>1, ReportDue
        <3>2. Output \in Receivers /\ 0 \in Nat
            BY Names
        <3>3. QED
            BY <3>1, <3>2
    <2>1. CASE e \notin Patient
        <3>1. UNCHANGED Bus!vars
            BY <2>1, <2>r, BusSame
        <3>2. QED
            BY <3>1
    <2>2. CASE e \in Patient
        <3> DEFINE list == toReport[e]
        <3>1. list # {} /\ list \in SUBSET Receivers
            BY <1>1, ReportEffect DEF TypeInv, TypeOK
        <3>2. /\ Reported(e) = event[e].id - 1 /\ Reported(e)' = event[e].id
              /\ event[e].id \in 0..MaxEvents
            <4>1. CASE Receivers = {}
                BY <4>1, <3>1
            <4>2. CASE Receivers # {}
                BY <1>1, <1>p, <2>2, <4>2, ReportDue
            <4>3. QED
                BY <4>1, <4>2
        <3>3. \A x \in Receivers, n \in Nat :
                  Due(x, e, n)' <=> (Due(x, e, n) \/ (x \in list /\ n = event[e].id))
            BY <1>1, <2>2, ReportDue
        <3>4. last[e] < MaxEvents /\ last' = [last EXCEPT ![e] = @ + 1] /\ last'[e] = event[e].id
            <4>1. Reported(e) < MaxEvents /\ Reported(e)' = Reported(e) + 1
                BY <3>2, Bounds
            <4>2. \A d \in Patient : Reported(d)' = IF d = e THEN Reported(d) + 1 ELSE Reported(d)
                BY <2>r, <4>1
            <4>3. QED
                BY <2>2, <3>2, <4>1, <4>2
        <3>5. pending' = [x \in Receivers |->
                  pending[x] \cup IF x \in list THEN {<<e, event[e].id>>} ELSE {}]
            <4>1. \A x \in Receivers :
                      Undelivered(x)' = Undelivered(x) \cup
                          IF x \in list THEN {<<e, event[e].id>>} ELSE {}
                <5> SUFFICES ASSUME NEW x \in Receivers
                             PROVE  Undelivered(x)' = Undelivered(x) \cup
                                        IF x \in list THEN {<<e, event[e].id>>} ELSE {}
                    OBVIOUS
                <5>1. <<e, event[e].id>> \in Patient \X Nat
                    BY <2>2, <3>2, Bounds
                <5>2. ASSUME NEW d \in Patient, NEW n \in Nat
                      PROVE  Due(x, d, n)' <=>
                                 (Due(x, d, n) \/ (x \in list /\ <<d, n>> = <<e, event[e].id>>))
                    BY <2>r, <3>3
                <5> HIDE DEF list
                <5>3. QED
                    BY <1>u, <5>1, <5>2
            <4>2. QED
                BY <4>1
        <3>6. Bus!Report(e)
            <4>2. pending' = [x \in Receivers |->
                      pending[x] \cup IF x \in list THEN {<<e, last'[e]>>} ELSE {}]
                BY <3>4, <3>5
            <4> HIDE DEF list
            <4>1. list \in (SUBSET Receivers) \ {{}}
                BY <3>1
            <4>3. QED
                BY <3>4, <4>1, <4>2 DEF Bus!Report
        <3>7. QED
            BY <2>2, <3>6 DEF Bus!Next
    <2>3. QED
        BY <2>1, <2>2
<1>2. ASSUME NEW r \in Receivers, Take(r) PROVE [Bus!Next]_(Bus!vars)
    <2>1. PICK m, y, k : m = Head(outQ[r]) /\ y = m.from /\ k = Number(m)
        OBVIOUS
    <2>2. ASSUME NEW d \in Patient, NEW x \in Receivers, NEW n \in Nat
          PROVE  /\ Reported(d)' = Reported(d)
                 /\ x # r \/ y # d => (Due(x, d, n)' <=> Due(x, d, n))
                 /\ x = r /\ y = d => /\ Due(x, d, n)' <=> (Due(x, d, n) /\ n # k)
                                      /\ Due(x, d, k) /\ k \in Nat
        BY <1>2, <2>1, TakeDue
    <2>s. \A d \in Patient : Reported(d)' = Reported(d)
        <3>1. Output \in Receivers /\ 0 \in Nat
            BY Names
        <3>2. QED
            BY <2>2, <3>1
    <2>3. CASE y \notin Patient
        <3>1. \A d \in Patient, x \in Receivers, n \in Nat : Due(x, d, n)' <=> Due(x, d, n)
            BY <2>2, <2>3
        <3>2. UNCHANGED Bus!vars
            BY <2>s, <3>1, BusSame
        <3>3. QED
            BY <3>2
    <2>4. CASE y \in Patient
        <3>1. /\ \A n \in Nat : Due(r, y, n)' <=> (Due(r, y, n) /\ n # k)
              /\ Due(r, y, k) /\ k \in Nat
            <4>1. \A n \in Nat : /\ Due(r, y, n)' <=> (Due(r, y, n) /\ n # k)
                                 /\ Due(r, y, k) /\ k \in Nat
                BY <2>2, <2>4
            <4>2. 0 \in Nat
                OBVIOUS
            <4>3. QED
                BY <4>1, <4>2
        <3>2. <<y, k>> \in Undelivered(r)
            BY <1>u, <2>4, <3>1
        <3>3. Undelivered(r)' = Undelivered(r) \ {<<y, k>>}
            <4>1. ASSUME NEW d \in Patient, NEW n \in Nat
                  PROVE  Due(r, d, n)' <=> (Due(r, d, n) /\ <<d, n>> # <<y, k>>)
                <5>1. CASE d = y
                    BY <3>1, <5>1
                <5>2. CASE d # y
                    BY <2>2, <5>2
                <5>3. QED
                    BY <5>1, <5>2
            <4>2. QED
                BY <1>u, <4>1
        <3>4. \A x \in Receivers \ {r} : Undelivered(x)' = Undelivered(x)
            BY <1>u, <2>2
        <3>5. pending' = [pending EXCEPT ![r] = @ \ {<<y, k>>}]
            BY <3>3, <3>4
        <3>6. last' = last
            BY <2>s
        <3>7. Bus!Tell(r)
            BY <3>2, <3>5, <3>6 DEF Bus!Tell
        <3>8. QED
            BY <3>7 DEF Bus!Next
    <2>5. QED
        BY <2>3, <2>4
<1>3. ASSUME NEW e \in Devices, Writes(e) PROVE [Bus!Next]_(Bus!vars)
    <2>0. Receivers # {}
        BY Names
    <2>1. UNCHANGED Bus!vars
        BY <1>3, <2>0, WriteDue, BusSame
    <2>2. QED
        BY <2>1
<1>4. ASSUME \/ \E e \in Devices : ReportToNobody(e)
             \/ Receive \/ Forward \/ Result \/ PreEnterSleep
             \/ \E r \in Receivers : Handled(r)
             \/ UNCHANGED vars
      PROVE  [Bus!Next]_(Bus!vars)
    <2>0. Receivers # {}
        BY Names
    <2>1. UNCHANGED Bus!vars
        BY <1>4, <2>0, BetweenDue, BusSame
    <2>2. QED
        BY <2>1
<1>5. QED
    BY Steps, <1>1, <1>2, <1>3, <1>4

\* At the beginning nothing is reported, and nothing is due.
LEMMA BusInit == Init => Bus!Init
<1> SUFFICES ASSUME Init PROVE Bus!Init
    OBVIOUS
<1>1. TypeInv /\ PathInv
    BY InitType, PathInit
<1>2. UndeliveredIsDue
    BY <1>1, UndeliveredDue
<1>3. \A d \in Patient : Reported(d) = 0
    BY DEF Init, Reported, Patient, None
<1>4. ASSUME NEW r \in Receivers PROVE Undelivered(r) = {}
    <2>1. inQ = << >> /\ routing.left = {} /\ outQ[r] = << >>
        BY DEF Init, NotRouting
    <2>2. \A d, n : ~Due(r, d, n)
        BY <2>1 DEF Due, Mailed, Promised, InQueue, RoutedTo
    <2>3. QED
        BY <1>2, <2>2 DEF UndeliveredIsDue
<1>5. QED
    BY <1>3, <1>4 DEF Bus!Init

\* As long as no queue is full, the devices that wait see a bus that copies every
\* event when it is reported, and delivers it to each receiver on its list once.
THEOREM RoutingIsBus == Spec /\ []Room => ImplementsBus
<1> DEFINE Inv == TypeInv /\ PathInv
<1>1. Init => Inv
    BY InitType, PathInit
<1>2. Inv /\ [Next]_vars => Inv'
    BY TypeStep, PathStep DEF PathInv
<1>3. Inv => UndeliveredIsDue
    BY UndeliveredDue
<1>4. Inv /\ Room /\ UndeliveredIsDue /\ UndeliveredIsDue' /\ [Next]_vars => [Bus!Next]_(Bus!vars)
    BY BusStep
<1>5. QED
    BY <1>1, <1>2, <1>3, <1>4, BusInit, PTL DEF Spec, ImplementsBus, Bus!Spec
================================================================================
