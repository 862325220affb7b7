------------------------- MODULE FramePipeline_proofs -------------------------
(***************************************************************************)
(* Proofs about the frame pipeline.  For any displays and kinds of frame,  *)
(* any ring of buffers and any queue length, the variables keep their      *)
(* types.  While the panel's interrupts wait for the blit operator, the    *)
(* algorithm is not restarted and the source of the display is not         *)
(* changed, no frame is written while it is read; and if the queue of the  *)
(* camera manager has room for a request of every slot, for the buffers    *)
(* the driver can fill and for the other messages, then every filled       *)
(* buffer is announced.                                                    *)
(***************************************************************************)
EXTENDS FramePipeline, FiniteSetTheorems, SequenceTheorems, TLAPS

(* The driver never accounts for more buffers than it has. *)
Ring == Empty >= 0

(* What is drawn is the buffer of a pending request. *)
Drawn == drawing # None => pending[drawing] # None

(* The vision algorithm is answered about frames only. *)
FramesAnswered ==
  \A i \in DOMAIN algoQ : algoQ[i].id = "answer" => algoQ[i].slot \in Frames

(* While a panel's blit runs its answer stays the display manager's first  *)
(* message.                                                                *)
Blitting == \A d \in Panels : blit[d] # 0 => Shows(d)

TypeInv == TypeOK /\ Ring /\ Drawn /\ FramesAnswered /\ Blitting

(* The bounds under which every slot is in one place at a time. *)
Calm == ~Interruptible /\ MaxRestarts = 0 /\ MaxChanges = 0

(* The camera manager's queue has room for all its messages. *)
Fits == Cardinality(Slots) + BufferCount + MaxOthers <= QueueLength + 1

-----------------------------------------------------------------------------
(* The inductive invariant. *)

(* Which messages the queues hold. *)
CameraMessages == {RequestFor(s) : s \in Slots} \cup {Msg("dequeue"), Msg("other")}
DisplayAnswers == {AnswerTo(d) : d \in Displays}
FrameAnswers   == {AnswerTo(s) : s \in Frames}

Quiet ==
  /\ ToSet(cameraQ) \subseteq CameraMessages
  /\ ToSet(displayQ) \subseteq DisplayAnswers
  /\ ToSet(algoQ) \subseteq FrameAnswers

(* A queue holds a message at most once. *)
Once(q, m) == \A i, j \in DOMAIN q : q[i] = m /\ q[j] = m => i = j

Single(s) ==
  /\ Once(cameraQ, RequestFor(s))
  /\ Once(displayQ, AnswerTo(s)) /\ Once(algoQ, AnswerTo(s))

(* A slot is requested, pending, answered or kept by its owner: a frame    *)
(* the algorithm has, a buffer the panel's interrupt is to take.           *)
Asked(s) == RequestFor(s) \in ToSet(cameraQ)

Kept(s) == s \in ready \/ (s \in Panels /\ blit[s] = 0 /\ newBuffer[s])

Exclusive(s) ==
  /\ Asked(s) => pending[s] = None
  /\ Asked(s) \/ pending[s] # None => ~Answered(s)
  /\ Asked(s) \/ pending[s] # None \/ Answered(s) => ~Kept(s)

(* The algorithm runs when it has all the frames. *)
Working == inferring => ready = Frames

(* A requested buffer of a panel is neither shown nor about to be. *)
Shown(d) ==
  /\ blit[d] # 0 => newBuffer[d]
  /\ blit[d] = 2 => current[d] = responseMsg[d]
  /\ blit[d] = 0 /\ newBuffer[d] => current[d] = next[d]
  /\ Asked(d) \/ pending[d] # None => requestMsg[d].buffer \notin {next[d], scanned[d]}
  /\ pending[d] # None => pending[d].buffer = requestMsg[d].buffer

TurnInv ==
  /\ Quiet /\ Working
  /\ \A s \in Slots : Single(s) /\ Exclusive(s)
  /\ \A d \in Panels : Shown(d)

(* Every filled buffer is announced, and there are not too many others. *)
CountInv == EveryFrameAnnounced /\ Waiting(cameraQ, "other") <= MaxOthers

-----------------------------------------------------------------------------
(***************************************************************************)
(* Lemmas about the queues.                                                *)
(***************************************************************************)

(* What a send does to a queue: r is q followed by distinct messages of a  *)
(* set A, those that fit.                                                  *)
Adds(q, r, A) ==
  /\ DOMAIN q \subseteq DOMAIN r
  /\ \A i \in DOMAIN q : r[i] = q[i]
  /\ \A i \in DOMAIN r \ DOMAIN q : r[i] \in A
  /\ \A i, j \in DOMAIN r \ DOMAIN q : r[i] = r[j] => i = j

(* A queue of the bounded length. *)
Queue(q) == q \in Seq(Message) /\ Len(q) <= QueueLength

(* Putting a message adds it, or drops it. *)
LEMMA PutAdds ==
  ASSUME NEW q, Queue(q), NEW m \in Message
  PROVE  Queue(Put(q, m)) /\ Adds(q, Put(q, m), {m})
<1>1. CASE Len(q) < QueueLength
  <2> DEFINE r == Append(q, m)
  <2>1. /\ r \in Seq(Message) /\ Len(r) = Len(q) + 1
        /\ \A i \in 1 .. Len(q) : r[i] = q[i]
        /\ r[Len(q) + 1] = m
    BY AppendProperties DEF Queue
  <2>2. /\ Len(q) \in Nat /\ DOMAIN q = 1 .. Len(q) /\ DOMAIN r = 1 .. Len(q) + 1
    BY <2>1, LenProperties DEF Queue
  <2>3. Put(q, m) = r
    BY <1>1 DEF Put
  <2> HIDE DEF r
  <2>4. DOMAIN r \ DOMAIN q = {Len(q) + 1}
    BY <2>2
  <2>5. Adds(q, r, {m})
    BY <2>1, <2>2, <2>4 DEF Adds
  <2>6. Len(r) <= QueueLength
    BY <1>1, <2>1, <2>2, BufferAssumption
  <2>7. QED
    BY <2>1, <2>3, <2>5, <2>6 DEF Queue
<1>2. CASE ~(Len(q) < QueueLength)
  BY <1>2 DEF Put, Adds, Queue
<1>3. QED
  BY <1>1, <1>2

(* The order in which slots are asked for names each of them once. *)
LEMMA OrderIs ==
  ASSUME NEW slots, slots \subseteq Slots
  PROVE  /\ IsFiniteSet(slots) /\ Cardinality(slots) \in Nat
         /\ SetToSeq(slots) \in [1 .. Cardinality(slots) -> slots]
         /\ \A i, j \in 1 .. Cardinality(slots) :
              SetToSeq(slots)[i] = SetToSeq(slots)[j] => i = j
<1>1. IsFiniteSet(slots)
  BY SlotsAssumption, FS_Subset
<1>2. Cardinality(slots) \in Nat /\ ExistsBijection(1 .. Cardinality(slots), slots)
  BY <1>1, FS_CardinalityType
<1>3. \E f \in [1 .. Cardinality(slots) -> slots] : IsInjective(f)
  BY <1>2 DEF ExistsBijection, Bijection, Injection
<1>4. /\ SetToSeq(slots) \in [1 .. Cardinality(slots) -> slots]
      /\ IsInjective(SetToSeq(slots))
  BY <1>3 DEF SetToSeq
<1>5. QED
  BY <1>1, <1>2, <1>4 DEF IsInjective

(* Asking for slots adds a request for each of them, or drops some. *)
LEMMA AskAdds ==
  ASSUME NEW q, Queue(q), NEW slots, slots \subseteq Slots
  PROVE  /\ Queue(Ask(q, slots))
         /\ Adds(q, Ask(q, slots), {RequestFor(s) : s \in slots})
<1> DEFINE n == Cardinality(slots)
           order == SetToSeq(slots)
           requests == [i \in 1 .. n |-> RequestFor(order[i])]
           asked == q \o requests
           A == {RequestFor(s) : s \in slots}
<1>1. /\ n \in Nat /\ order \in [1 .. n -> slots]
      /\ \A i, j \in 1 .. n : order[i] = order[j] => i = j
  BY OrderIs
<1>2. \A s \in Slots : RequestFor(s) \in Message
  BY DEF RequestFor, Message
<1>3. \A s, z \in Slots : RequestFor(s) = RequestFor(z) => s = z
  BY DEF RequestFor
<1> HIDE DEF n, order
<1>4. /\ requests \in [1 .. n -> Message] /\ requests \in Seq(Message) /\ Len(requests) = n
      /\ \A i \in 1 .. n : requests[i] \in A
      /\ \A i, j \in 1 .. n : requests[i] = requests[j] => i = j
  <2>1. \A i \in 1 .. n : order[i] \in slots /\ order[i] \in Slots
    BY <1>1
  <2>2. requests \in [1 .. n -> Message]
    BY <1>2, <2>1
  <2>3. requests \in Seq(Message)
    BY <1>1, <2>2, SeqDef
  <2>4. Len(requests) = n
    BY <1>1, <2>3, LenProperties
  <2>5. \A i, j \in 1 .. n : requests[i] = requests[j] => i = j
    BY <1>1, <1>3, <2>1
  <2>6. \A i \in 1 .. n : requests[i] \in A
    BY <2>1
  <2>7. QED
    BY <2>2, <2>3, <2>4, <2>5, <2>6
<1>5. q \in Seq(Message) /\ Len(q) \in Nat /\ DOMAIN q = 1 .. Len(q) /\ Len(q) <= QueueLength
  BY LenProperties DEF Queue
<1> HIDE DEF requests, A
<1>6. /\ asked \in Seq(Message) /\ Len(asked) = Len(q) + n
      /\ \A i \in 1 .. Len(q) + n :
           asked[i] = IF i <= Len(q) THEN q[i] ELSE requests[i - Len(q)]
  <2>1. requests \in Seq(Message) /\ q \in Seq(Message) /\ Len(requests) = n
    BY <1>4, <1>5
  <2>2. /\ asked \in Seq(Message) /\ Len(asked) = Len(q) + Len(requests)
        /\ \A i \in 1 .. Len(q) + Len(requests) :
             asked[i] = IF i <= Len(q) THEN q[i] ELSE requests[i - Len(q)]
    BY <2>1, ConcatProperties
  <2> HIDE DEF asked
  <2>3. QED
    BY <2>1, <2>2
<1>7. Ask(q, slots) = IF Len(asked) <= QueueLength THEN asked ELSE SubSeq(asked, 1, QueueLength)
  BY DEF Ask, asked, requests, n, order
<1> HIDE DEF asked
<1> DEFINE r == Ask(q, slots)
<1>8. /\ r \in Seq(Message) /\ Len(r) <= QueueLength /\ Len(r) <= Len(q) + n /\ Len(q) <= Len(r)
      /\ \A i \in 1 .. Len(r) : r[i] = asked[i]
  <2>1. CASE Len(asked) <= QueueLength
    <3>1. r = asked
      BY <1>7, <2>1
    <3> HIDE DEF r
    <3>2. Len(r) = Len(q) + n /\ Len(r) <= QueueLength /\ r \in Seq(Message)
      BY <1>6, <2>1, <3>1
    <3>3. QED
      BY <1>1, <1>5, <3>1, <3>2
  <2>2. CASE ~(Len(asked) <= QueueLength)
    <3>1. QueueLength \in Nat /\ QueueLength >= 1 /\ QueueLength < Len(q) + n
      BY <1>1, <1>5, <1>6, <2>2, BufferAssumption
    <3>2. r = SubSeq(asked, 1, QueueLength)
      BY <1>7, <2>2
    <3>3. \A i \in 1 .. QueueLength : asked[i] \in Message
      BY <1>1, <1>5, <1>6, <3>1, ElementOfSeq
    <3> HIDE DEF r
    <3>4. /\ r \in Seq(Message) /\ Len(r) = QueueLength
          /\ \A i \in 1 .. QueueLength : r[i] = asked[i]
      BY <3>1, <3>2, <3>3, SubSeqProperties
    <3>5. QED
      BY <1>1, <1>5, <3>1, <3>4
  <2>3. QED
    BY <2>1, <2>2
<1>9. Len(r) \in Nat /\ DOMAIN r = 1 .. Len(r)
  BY <1>8, LenProperties
<1> HIDE DEF r
<1>10. \A i \in DOMAIN r \ DOMAIN q : /\ i \in Int /\ i - Len(q) \in 1 .. n
                                      /\ r[i] = requests[i - Len(q)]
  BY <1>1, <1>5, <1>6, <1>8, <1>9
<1>11. Adds(q, r, A)
  <2>1. DOMAIN q \subseteq DOMAIN r /\ \A i \in DOMAIN q : r[i] = q[i]
    BY <1>1, <1>5, <1>6, <1>8, <1>9
  <2>2. \A i \in DOMAIN r \ DOMAIN q : r[i] \in A
    BY <1>4, <1>10
  <2>3. ASSUME NEW i \in DOMAIN r \ DOMAIN q, NEW j \in DOMAIN r \ DOMAIN q, r[i] = r[j]
        PROVE  i = j
    <3>1. i - Len(q) = j - Len(q)
      BY <1>4, <1>10, <2>3
    <3>2. QED
      BY <1>5, <1>10, <3>1
  <2>4. QED
    BY <2>1, <2>2, <2>3 DEF Adds
<1>12. QED
  BY <1>8, <1>11 DEF r, A, Queue

(* After a send, what is on a queue was there or has been sent ... *)
LEMMA AddsIn ==
  ASSUME NEW q, NEW r, NEW A, Adds(q, r, A), NEW x
  PROVE  /\ x \in ToSet(r) => x \in ToSet(q) \/ x \in A
         /\ x \in ToSet(q) => x \in ToSet(r)
BY DEF Adds, ToSet

(* ... and no message is there twice, unless it was there when it was sent. *)
LEMMA AddsOnce ==
  ASSUME NEW q, NEW r, NEW A, Adds(q, r, A), NEW x, Once(q, x), x \in A => x \notin ToSet(q)
  PROVE  Once(r, x)
<1> SUFFICES ASSUME NEW i \in DOMAIN r, NEW j \in DOMAIN r, r[i] = x, r[j] = x PROVE i = j
  BY DEF Once
<1>1. CASE i \in DOMAIN q /\ j \in DOMAIN q
  BY <1>1 DEF Adds, Once
<1>2. CASE i \notin DOMAIN q /\ j \notin DOMAIN q
  BY <1>2 DEF Adds
<1>3. CASE i \in DOMAIN q /\ j \notin DOMAIN q
  BY <1>3 DEF Adds, ToSet
<1>4. CASE i \notin DOMAIN q /\ j \in DOMAIN q
  BY <1>4 DEF Adds, ToSet
<1>5. QED
  BY <1>1, <1>2, <1>3, <1>4

(* The first message stays the first. *)
LEMMA AddsHead ==
  ASSUME NEW q, Queue(q), NEW r, Queue(r), NEW A, Adds(q, r, A), q # <<>>
  PROVE  r # <<>> /\ Head(r) = Head(q)
<1>1. /\ Len(q) \in Nat /\ DOMAIN q = 1 .. Len(q) /\ Len(q) # 0
      /\ Len(r) \in Nat /\ DOMAIN r = 1 .. Len(r)
  BY LenProperties, EmptySeq DEF Queue
<1>2. 1 \in DOMAIN q /\ 1 \in DOMAIN r /\ r[1] = q[1]
  BY <1>1 DEF Adds
<1>3. r # <<>>
  BY <1>1, <1>2, EmptySeq
<1>4. QED
  BY <1>2, <1>3 DEF Queue

(* Taking the first message of a queue. *)
LEMMA TailIs ==
  ASSUME NEW q, Queue(q), q # <<>>
  PROVE  /\ Queue(Tail(q)) /\ Head(q) \in Message /\ Head(q) \in ToSet(q)
         /\ 1 \in DOMAIN q /\ Head(q) = q[1]
         /\ \A i \in DOMAIN Tail(q) : /\ i \in Nat \ {0} /\ i + 1 \in DOMAIN q
                                      /\ Tail(q)[i] = q[i + 1]
         /\ \A i \in DOMAIN q : i = 1 \/ (i \in Nat /\ i - 1 \in DOMAIN Tail(q))
<1>1. /\ Len(q) \in Nat \ {0} /\ DOMAIN q = 1 .. Len(q) /\ q \in Seq(Message)
  BY LenProperties, EmptySeq DEF Queue
<1>2. /\ Head(q) \in Message /\ Tail(q) \in Seq(Message) /\ Len(Tail(q)) = Len(q) - 1
      /\ \A i \in 1 .. Len(Tail(q)) : Tail(q)[i] = q[i + 1]
  BY <1>1, HeadTailProperties
<1>3. DOMAIN Tail(q) = 1 .. Len(q) - 1
  BY <1>2, LenProperties
<1>4. Head(q) = q[1]
  BY <1>1
<1>5. 1 \in DOMAIN q /\ Head(q) \in ToSet(q)
  BY <1>1, <1>4 DEF ToSet
<1>6. Queue(Tail(q))
  BY <1>1, <1>2, BufferAssumption DEF Queue
<1>7. \A i \in DOMAIN Tail(q) : /\ i \in Nat \ {0} /\ i + 1 \in DOMAIN q
                                /\ Tail(q)[i] = q[i + 1]
  BY <1>1, <1>2, <1>3
<1>8. \A i \in DOMAIN q : i = 1 \/ (i \in Nat /\ i - 1 \in DOMAIN Tail(q))
  BY <1>1, <1>3
<1>9. QED
  BY <1>2, <1>4, <1>5, <1>6, <1>7, <1>8

(* What is left was there before, once if it was there once, and a message *)
(* that was there once is gone when it has been taken.                     *)
LEMMA TailLeaves ==
  ASSUME NEW q, Queue(q), q # <<>>, NEW x
  PROVE  /\ x \in ToSet(Tail(q)) => x \in ToSet(q)
         /\ x \in ToSet(q) => x \in ToSet(Tail(q)) \/ x = Head(q)
         /\ Once(q, x) => Once(Tail(q), x)
         /\ Once(q, x) /\ x = Head(q) => x \notin ToSet(Tail(q))
<1>1. /\ 1 \in DOMAIN q /\ Head(q) = q[1]
      /\ \A i \in DOMAIN Tail(q) : /\ i \in Nat \ {0} /\ i + 1 \in DOMAIN q
                                   /\ Tail(q)[i] = q[i + 1]
      /\ \A i \in DOMAIN q : i = 1 \/ (i \in Nat /\ i - 1 \in DOMAIN Tail(q))
  BY TailIs
<1> DEFINE t == Tail(q)
<1> HIDE DEF t
<1>2. x \in ToSet(t) => x \in ToSet(q)
  BY <1>1 DEF ToSet, t
<1>3. x \in ToSet(q) => x \in ToSet(t) \/ x = Head(q)
  <2> SUFFICES ASSUME NEW i \in DOMAIN q, x = q[i], i # 1 PROVE x \in ToSet(t)
    BY <1>1 DEF ToSet
  <2>1. i \in Nat /\ i - 1 \in DOMAIN t
    BY <1>1 DEF t
  <2>2. t[i - 1] = q[(i - 1) + 1] /\ (i - 1) + 1 = i
    BY <1>1, <2>1 DEF t
  <2>3. QED
    BY <2>1, <2>2 DEF ToSet
<1>4. ASSUME Once(q, x) PROVE Once(t, x)
  <2> SUFFICES ASSUME NEW i \in DOMAIN t, NEW j \in DOMAIN t, t[i] = x, t[j] = x PROVE i = j
    BY DEF Once
  <2>1. i \in Nat /\ j \in Nat /\ i + 1 \in DOMAIN q /\ j + 1 \in DOMAIN q
        /\ q[i + 1] = x /\ q[j + 1] = x
    BY <1>1 DEF t
  <2>2. i + 1 = j + 1
    BY <1>4, <2>1 DEF Once
  <2>3. QED
    BY <2>1, <2>2
<1>5. ASSUME Once(q, x), x = Head(q), x \in ToSet(t) PROVE FALSE
  <2>1. PICK i \in DOMAIN t : x = t[i]
    BY <1>5 DEF ToSet
  <2>2. i \in Nat \ {0} /\ i + 1 \in DOMAIN q /\ q[i + 1] = x
    BY <1>1, <2>1 DEF t
  <2>3. i + 1 = 1
    BY <1>1, <1>5, <2>2 DEF Once
  <2>4. QED
    BY <2>2, <2>3
<1>6. QED
  BY <1>2, <1>3, <1>4, <1>5 DEF t

(* A queue has as many places as its length says. *)
LEMMA Places ==
  ASSUME NEW q, Queue(q)
  PROVE  /\ Len(q) \in Nat /\ DOMAIN q = 1 .. Len(q)
         /\ IsFiniteSet(DOMAIN q) /\ Cardinality(DOMAIN q) = Len(q)
         /\ \A i \in DOMAIN q : q[i] \in Message
<1>1. q \in Seq(Message) /\ Len(q) \in Nat /\ DOMAIN q = 1 .. Len(q)
  BY LenProperties DEF Queue
<1>2. \A i \in 1 .. Len(q) : q[i] \in Message
  BY <1>1, ElementOfSeq
<1>3. 1 \in Int /\ Len(q) \in Int
  BY <1>1
<1>4. /\ IsFiniteSet(1 .. Len(q))
      /\ Cardinality(1 .. Len(q)) = IF 1 > Len(q) THEN 0 ELSE Len(q) - 1 + 1
  BY <1>3, FS_Interval
<1>5. Cardinality(1 .. Len(q)) = Len(q)
  BY <1>1, <1>4
<1>6. QED
  BY <1>1, <1>2, <1>4, <1>5

(* Counting the messages of one kind on a queue. *)
At(q, id) == {i \in DOMAIN q : q[i].id = id}

(* Their number is a natural number, at most the length of the queue.     *)
LEMMA WaitingIs ==
  ASSUME NEW q, Queue(q), NEW id
  PROVE  /\ Waiting(q, id) = Cardinality(At(q, id)) /\ IsFiniteSet(At(q, id))
         /\ Waiting(q, id) \in Nat /\ Waiting(q, id) <= Len(q)
<1>2. IsFiniteSet(DOMAIN q) /\ Cardinality(DOMAIN q) = Len(q) /\ Len(q) \in Nat
  BY Places
<1>3. At(q, id) \subseteq DOMAIN q
  BY DEF At
<1>4. IsFiniteSet(At(q, id)) /\ Cardinality(At(q, id)) <= Len(q)
  BY <1>2, <1>3, FS_Subset
<1>5. Cardinality(At(q, id)) \in Nat
  BY <1>4, FS_CardinalityType
<1>6. QED
  BY <1>4, <1>5 DEF Waiting, At

(* A message that fits is one more of its kind. *)
LEMMA PutWaiting ==
  ASSUME NEW q, Queue(q), NEW m \in Message, NEW id
  PROVE  Waiting(Put(q, m), id) =
           IF Len(q) < QueueLength /\ m.id = id THEN Waiting(q, id) + 1 ELSE Waiting(q, id)
<1>1. CASE Len(q) < QueueLength
  <2> DEFINE r == Append(q, m)
  <2>1. /\ r \in Seq(Message) /\ Len(r) = Len(q) + 1
        /\ \A i \in 1 .. Len(q) : r[i] = q[i]
        /\ r[Len(q) + 1] = m
    BY AppendProperties DEF Queue
  <2>2. /\ Len(q) \in Nat /\ DOMAIN q = 1 .. Len(q) /\ DOMAIN r = 1 .. Len(q) + 1
    BY <2>1, LenProperties DEF Queue
  <2>3. Put(q, m) = r
    BY <1>1 DEF Put
  <2> HIDE DEF r
  <2>4. At(r, id) = IF m.id = id THEN At(q, id) \cup {Len(q) + 1} ELSE At(q, id)
    BY <2>1, <2>2 DEF At
  <2>5. Len(q) + 1 \notin At(q, id)
    BY <2>2 DEF At
  <2>6. Waiting(r, id) = Cardinality(At(r, id))
    BY DEF Waiting, At
  <2>7. Cardinality(At(q, id) \cup {Len(q) + 1}) = Cardinality(At(q, id)) + 1
    BY <2>5, WaitingIs, FS_AddElement
  <2>8. QED
    BY <1>1, <2>3, <2>4, <2>6, <2>7, WaitingIs
<1>2. CASE ~(Len(q) < QueueLength)
  BY <1>2 DEF Put
<1>3. QED
  BY <1>1, <1>2

(* Requests do not count among the other messages. *)
LEMMA AskWaiting ==
  ASSUME NEW q, Queue(q), NEW slots, slots \subseteq Slots, NEW id, id # "request"
  PROVE  Waiting(Ask(q, slots), id) = Waiting(q, id)
<1> DEFINE r == Ask(q, slots)
           A == {RequestFor(s) : s \in slots}
<1>1. Adds(q, r, A)
  BY AskAdds
<1>2. \A m \in A : m.id = "request"
  BY DEF RequestFor
<1> HIDE DEF r, A
<1>3. At(r, id) = At(q, id)
  BY <1>1, <1>2 DEF At, Adds
<1>4. QED
  BY <1>3 DEF r, Waiting, At

(* The message that is taken was one of its kind. *)
LEMMA TailWaiting ==
  ASSUME NEW q, Queue(q), q # <<>>, NEW id
  PROVE  Waiting(q, id) = Waiting(Tail(q), id) + (IF Head(q).id = id THEN 1 ELSE 0)
<1> DEFINE t == Tail(q)
           f == [i \in At(t, id) |-> i + 1]
<1>1. /\ Queue(t) /\ 1 \in DOMAIN q /\ Head(q) = q[1]
      /\ \A i \in DOMAIN t : i \in Nat \ {0} /\ i + 1 \in DOMAIN q /\ t[i] = q[i + 1]
      /\ \A i \in DOMAIN q : i = 1 \/ (i \in Nat /\ i - 1 \in DOMAIN t)
  BY TailIs
<1> HIDE DEF t
<1>2. \A i \in At(t, id) : i \in Nat /\ i + 1 \in At(q, id) \ {1}
  BY <1>1 DEF At
<1>3. \A k \in At(q, id) \ {1} : k \in Nat /\ k - 1 \in At(t, id) /\ (k - 1) + 1 = k
  <2> SUFFICES ASSUME NEW k \in At(q, id) \ {1}
               PROVE  k \in Nat /\ k - 1 \in At(t, id) /\ (k - 1) + 1 = k
    OBVIOUS
  <2>1. k \in DOMAIN q /\ q[k].id = id /\ k \in Nat /\ k - 1 \in DOMAIN t
    BY <1>1 DEF At
  <2>2. (k - 1) + 1 = k /\ t[k - 1] = q[(k - 1) + 1]
    BY <1>1, <2>1
  <2>3. QED
    BY <2>1, <2>2 DEF At
<1>4. f \in Bijection(At(t, id), At(q, id) \ {1})
  <2>1. f \in [At(t, id) -> At(q, id) \ {1}]
    BY <1>2
  <2>2. \A i, j \in At(t, id) : f[i] = f[j] => i = j
    BY <1>2
  <2>3. \A k \in At(q, id) \ {1} : \E i \in At(t, id) : f[i] = k
    <3> SUFFICES ASSUME NEW k \in At(q, id) \ {1} PROVE \E i \in At(t, id) : f[i] = k
      OBVIOUS
    <3>1. k - 1 \in At(t, id) /\ f[k - 1] = k
      BY <1>3
    <3>2. QED
      BY <3>1
  <2> HIDE DEF f
  <2>4. f \in Injection(At(t, id), At(q, id) \ {1})
    BY <2>1, <2>2 DEF Injection, IsInjective
  <2>5. f \in Surjection(At(t, id), At(q, id) \ {1})
    BY <2>1, <2>3 DEF Surjection
  <2>6. QED
    BY <2>4, <2>5 DEF Bijection
<1>5. ExistsBijection(At(t, id), At(q, id) \ {1})
  BY <1>4 DEF ExistsBijection
<1>6. Cardinality(At(q, id) \ {1}) = Cardinality(At(t, id))
  BY <1>1, <1>5, WaitingIs, FS_Bijection
<1>7. Cardinality(At(q, id) \ {1}) =
        IF 1 \in At(q, id) THEN Cardinality(At(q, id)) - 1 ELSE Cardinality(At(q, id))
  BY WaitingIs, FS_RemoveElement
<1>8. 1 \in At(q, id) <=> Head(q).id = id
  BY <1>1 DEF At
<1>9. /\ Waiting(q, id) = Cardinality(At(q, id)) /\ Waiting(q, id) \in Nat
      /\ Waiting(t, id) = Cardinality(At(t, id)) /\ Waiting(t, id) \in Nat
  BY <1>1, WaitingIs
<1>10. QED
  <2>1. CASE Head(q).id = id
    BY <1>6, <1>7, <1>8, <1>9, <2>1 DEF t
  <2>2. CASE Head(q).id # id
    BY <1>6, <1>7, <1>8, <1>9, <2>2 DEF t
  <2>3. QED
    BY <2>1, <2>2

(* A queue that asks for no slot twice holds at most a request of every    *)
(* slot, besides its other messages.                                       *)
LEMMA QueueIsShort ==
  ASSUME NEW q, Queue(q), \A s \in Slots : Once(q, RequestFor(s)),
         \A i \in DOMAIN q : q[i].id \in {"request", "dequeue", "other"}
  PROVE  Len(q) <= Cardinality(Slots) + Waiting(q, "dequeue") + Waiting(q, "other")
<1> DEFINE R == At(q, "request")
           D == At(q, "dequeue")
           O == At(q, "other")
           f == [i \in R |-> q[i].slot]
<1>1. Len(q) \in Nat /\ DOMAIN q = 1 .. Len(q) /\ \A i \in DOMAIN q : q[i] \in Message
  BY Places
<1>2. Cardinality(DOMAIN q) = Len(q)
  BY Places
<1>3. DOMAIN q = R \cup (D \cup O)
  BY <1>1 DEF At
<1>4. \A i \in R : q[i].slot \in Slots /\ q[i] = RequestFor(q[i].slot)
  <2> SUFFICES ASSUME NEW i \in R PROVE q[i].slot \in Slots /\ q[i] = RequestFor(q[i].slot)
    OBVIOUS
  <2>1. q[i] \in Message /\ q[i].id = "request"
    BY <1>1 DEF At
  <2>2. QED
    BY <2>1 DEF Message, RequestFor
<1>5. f \in [R -> Slots]
  BY <1>4
<1>6. \A i, j \in R : f[i] = f[j] => i = j
  <2> SUFFICES ASSUME NEW i \in R, NEW j \in R, q[i].slot = q[j].slot PROVE i = j
    OBVIOUS
  <2>1. i \in DOMAIN q /\ j \in DOMAIN q
    BY DEF At
  <2>2. q[i] = RequestFor(q[i].slot) /\ q[j] = RequestFor(q[i].slot) /\ q[i].slot \in Slots
    BY <1>4
  <2>3. QED
    BY <2>1, <2>2 DEF Once
<1>7. f \in Injection(R, Slots)
  BY <1>5, <1>6 DEF Injection, IsInjective
<1> HIDE DEF f, R, D, O
<1>8. Cardinality(R) <= Cardinality(Slots)
  BY <1>7, SlotsAssumption, FS_Injection
<1>9. /\ IsFiniteSet(R) /\ IsFiniteSet(D) /\ IsFiniteSet(O)
      /\ Cardinality(R) \in Nat /\ Cardinality(D) \in Nat /\ Cardinality(O) \in Nat
      /\ Cardinality(D) = Waiting(q, "dequeue") /\ Cardinality(O) = Waiting(q, "other")
  BY WaitingIs DEF R, D, O
<1>10. /\ IsFiniteSet(D \cup O) /\ Cardinality(D \cup O) \in Nat
       /\ Cardinality(D \cup O) <= Cardinality(D) + Cardinality(O)
  <2>1. /\ IsFiniteSet(D \cup O) /\ IsFiniteSet(D \cap O)
        /\ Cardinality(D \cup O) = Cardinality(D) + Cardinality(O) - Cardinality(D \cap O)
    BY <1>9, FS_Union, FS_Subset
  <2>2. Cardinality(D \cap O) \in Nat /\ Cardinality(D \cup O) \in Nat
    BY <2>1, FS_CardinalityType
  <2>3. QED
    BY <1>9, <2>1, <2>2
<1>11. Cardinality(R \cup (D \cup O)) <= Cardinality(R) + Cardinality(D \cup O)
  <2>1. /\ IsFiniteSet(R \cap (D \cup O))
        /\ Cardinality(R \cup (D \cup O)) =
             Cardinality(R) + Cardinality(D \cup O) - Cardinality(R \cap (D \cup O))
    BY <1>9, <1>10, FS_Union, FS_Subset
  <2>2. Cardinality(R \cap (D \cup O)) \in Nat
    BY <2>1, FS_CardinalityType
  <2>3. QED
    BY <1>9, <1>10, <2>1, <2>2
<1>12. Cardinality(Slots) \in Nat
  BY SlotsAssumption, FS_CardinalityType
<1>13. QED
  BY <1>1, <1>2, <1>3, <1>8, <1>9, <1>10, <1>11, <1>12

-----------------------------------------------------------------------------
(***************************************************************************)
(* The types.                                                              *)
(***************************************************************************)

(* None is no slot, buffer, format or request. *)
LEMMA Names ==
  /\ \A s \in Slots : s # None /\ RequestFor(s) \in Message /\ AnswerTo(s) \in Message
  /\ \A id \in {"dequeue", "other", "stop", "start", "source"} : Msg(id) \in Message
  /\ \A b \in Buffers : b # None
  /\ \A r \in Request : r # None
  /\ \A f \in Formats : f # None
  /\ Displays \subseteq Slots /\ Frames \subseteq Slots /\ Panels \subseteq Displays
  /\ Screens \subseteq Displays
BY NoneAssumption DEF RequestFor, AnswerTo, Msg, Message, Slots, Displays

(* A blit goes on while its answer stays first: nothing is taken from the  *)
(* display manager's queue, though a message may be added.                 *)
LEMMA BlittingSame == Blitting /\ blit' = blit /\ displayQ' = displayQ => Blitting'
BY DEF Blitting, Shows

(* A message that is added leaves the first one where it is.              *)
LEMMA BlittingAdds ==
  ASSUME Blitting, blit' = blit, Queue(displayQ), Queue(displayQ'),
         NEW A, Adds(displayQ, displayQ', A)
  PROVE  Blitting'
<1> SUFFICES ASSUME NEW d \in Panels, blit[d] # 0 PROVE Shows(d)'
  BY DEF Blitting
<1>1. displayQ # <<>> /\ Head(displayQ) = AnswerTo(d)
  BY DEF Blitting, Shows
<1>2. displayQ' # <<>> /\ Head(displayQ') = Head(displayQ)
  BY <1>1, AddsHead
<1>3. QED
  BY <1>1, <1>2 DEF Shows

(* The empty queue is a queue. *)
LEMMA EmptyIsQueue == Queue(<<>>)
BY EmptySeq, BufferAssumption DEF Queue

(* Nothing is on its way or drawn at the beginning. *)
LEMMA TypeInit == Init => TypeInv
<1> SUFFICES ASSUME Init PROVE TypeInv
  OBVIOUS
<1>1. Queue(cameraQ) /\ Queue(displayQ) /\ Queue(algoQ)
  BY EmptyIsQueue, AskAdds DEF Init
<1>2. \A s \in Displays : Source[s] \in Formats
  BY SourceAssumption DEF Slots
<1>3. TypeOK
  <2>1. /\ requestMsg \in [Displays -> Request]
        /\ source \in [Displays -> Formats]
    BY <1>2 DEF Init, Request, Buffers
  <2>2. /\ responseMsg \in [Displays -> Buffers]
        /\ next \in [Panels -> Buffers] /\ scanned \in [Panels -> Buffers]
        /\ current \in [Panels -> Buffers \cup {None}] /\ blit \in [Panels -> 0 .. 2]
        /\ newBuffer \in [Panels -> BOOLEAN]
        /\ pending \in [Slots -> Request \cup {None}]
    BY DEF Init, Buffers
  <2>3. /\ filled \in 0 .. BufferCount /\ active \in 1 .. 2
        /\ restarts \in 0 .. MaxRestarts /\ changes \in 0 .. MaxChanges
    BY BufferAssumption, BoundAssumption DEF Init
  <2>4. /\ serving \in Formats \cup {None} /\ drawing \in Slots \cup {None}
        /\ ready \subseteq Frames /\ running \in BOOLEAN /\ inferring \in BOOLEAN
    BY DEF Init
  <2>5. QED
    BY <1>1, <2>1, <2>2, <2>3, <2>4 DEF TypeOK, Queue
<1>4. Ring
  BY BufferAssumption DEF Init, Ring, Empty
<1>5. Drawn /\ FramesAnswered /\ Blitting
  BY EmptySeq DEF Init, Drawn, FramesAnswered, Blitting
<1>6. QED
  BY <1>3, <1>4, <1>5 DEF TypeInv

(* The frame interrupt keeps a buffer with the CSI and takes another one   *)
(* only when the driver has one.                                           *)
LEMMA CaptureType ==
  ASSUME TypeInv, CaptureFrame
  PROVE  TypeInv'
<1> DEFINE captured == IF active = 2 THEN 1 ELSE 0
           refilled == IF active - captured < 2 /\ Empty > 0 THEN 1 ELSE 0
<1>1. /\ filled' = filled + captured
      /\ active' = active - captured + refilled
      /\ cameraQ' = IF captured = 1 THEN Put(cameraQ, Msg("dequeue")) ELSE cameraQ
      /\ UNCHANGED <<displayQ, algoQ, camera, algo, panel, msgs>>
  BY DEF CaptureFrame
<1>2. Queue(cameraQ')
  <2>1. Queue(cameraQ)
    BY DEF TypeInv, TypeOK, Queue
  <2>2. QED
    BY <1>1, <2>1, PutAdds, Names
<1>3. /\ filled \in 0 .. BufferCount /\ active \in {1, 2} /\ Empty >= 0 /\ BufferCount \in Nat
      /\ serving' = serving
  BY <1>1, BufferAssumption DEF TypeInv, TypeOK, Ring, camera
<1>4. filled' \in 0 .. BufferCount /\ active' \in 1 .. 2 /\ Empty' >= 0
  <2>1. CASE serving = None
    <3>1. Empty = BufferCount - filled - active - 0 /\ Empty' = BufferCount - filled' - active' - 0
      BY <1>3, <2>1 DEF Empty
    <3>2. CASE active = 1
      BY <1>1, <1>3, <3>1, <3>2
    <3>3. CASE active = 2
      BY <1>1, <1>3, <3>1, <3>3
    <3>4. QED
      BY <1>3, <3>2, <3>3
  <2>2. CASE serving # None
    <3>1. Empty = BufferCount - filled - active - 1 /\ Empty' = BufferCount - filled' - active' - 1
      BY <1>3, <2>2 DEF Empty
    <3>2. CASE active = 1
      BY <1>1, <1>3, <3>1, <3>2
    <3>3. CASE active = 2
      BY <1>1, <1>3, <3>1, <3>3
    <3>4. QED
      BY <1>3, <3>2, <3>3
  <2>3. QED
    BY <2>1, <2>2
<1>5. TypeOK'
  BY <1>1, <1>2, <1>4 DEF TypeInv, TypeOK, Queue, camera, algo, panel, msgs
<1>6. Ring' /\ Drawn' /\ FramesAnswered' /\ Blitting'
  BY <1>1, <1>4, BlittingSame DEF TypeInv, Ring, Drawn, FramesAnswered, camera, panel
<1>7. QED
  BY <1>5, <1>6 DEF TypeInv

(* The camera manager's first steps take a message or a buffer. *)
LEMMA TakeType ==
  ASSUME TypeInv, TakeRequest \/ TakeOther \/ \E format \in Formats : Dequeue(format)
  PROVE  TypeInv'
<1>1. Queue(cameraQ) /\ cameraQ # <<>> /\ cameraQ' = Tail(cameraQ) /\ serving = None
  BY DEF TypeInv, TypeOK, Queue, TakeRequest, TakeOther, Dequeue, Receive
<1>2. Queue(cameraQ') /\ Head(cameraQ) \in Message
  BY <1>1, TailIs
<1>3. CASE TakeRequest
  <2> DEFINE s == Head(cameraQ).slot
             request == IF s \in Displays THEN requestMsg[s]
                        ELSE [buffer |-> 0, source |-> Source[s]]
  <2>1. s \in Slots
    BY <1>2, <1>3 DEF TakeRequest, Receive, Message
  <2>2. request \in Request
    BY <2>1, SourceAssumption DEF TypeInv, TypeOK, Request, Buffers
  <2>3. /\ pending' = IF pending[s] = None THEN [pending EXCEPT ![s] = request] ELSE pending
        /\ UNCHANGED <<displayQ, algoQ, csi, serving, drawing, algo, panel, msgs>>
    BY <1>3 DEF TakeRequest
  <2> HIDE DEF request
  <2> HIDE DEF s
  <2>4. pending' \in [Slots -> Request \cup {None}]
    BY <2>1, <2>2, <2>3 DEF TypeInv, TypeOK
  <2>5. TypeOK'
    BY <1>2, <2>3, <2>4 DEF TypeInv, TypeOK, Queue, csi, algo, panel, msgs
  <2>6. Drawn'
    <3>1. \A z \in Slots : pending[z] # None => pending'[z] # None
      BY <2>1, <2>2, <2>3, Names DEF TypeInv, TypeOK
    <3>2. drawing' = drawing /\ drawing \in Slots \cup {None}
      BY <2>3 DEF TypeInv, TypeOK
    <3>3. QED
      BY <3>1, <3>2 DEF TypeInv, Drawn
  <2>7. Ring' /\ FramesAnswered' /\ Blitting'
    BY <2>3, BlittingSame DEF TypeInv, Ring, Empty, FramesAnswered, csi, panel
  <2>8. QED
    BY <2>5, <2>6, <2>7 DEF TypeInv
<1>4. CASE TakeOther
  <2>1. UNCHANGED <<displayQ, algoQ, csi, camera, algo, panel, msgs>>
    BY <1>4 DEF TakeOther
  <2>2. TypeOK'
    BY <1>2, <2>1 DEF TypeInv, TypeOK, Queue, csi, camera, algo, panel, msgs
  <2>3. Ring' /\ Drawn' /\ FramesAnswered' /\ Blitting'
    BY <2>1, BlittingSame DEF TypeInv, Ring, Empty, Drawn, FramesAnswered, csi, camera, panel
  <2>4. QED
    BY <2>2, <2>3 DEF TypeInv
<1>5. ASSUME NEW format \in Formats, Dequeue(format) PROVE TypeInv'
  <2>1. /\ filled > 0 /\ filled' = filled - 1 /\ serving' = format
        /\ UNCHANGED <<displayQ, algoQ, active, pending, drawing, algo, panel, msgs>>
    BY <1>5 DEF Dequeue
  <2>2. filled' \in 0 .. BufferCount
    BY <2>1, BufferAssumption DEF TypeInv, TypeOK
  <2>3. TypeOK'
    BY <1>2, <2>1, <2>2 DEF TypeInv, TypeOK, Queue, algo, panel, msgs
  <2>4. Ring'
    <3>1. format # None
      BY Names
    <3>2. Empty = BufferCount - filled - active - 0
      BY <1>1 DEF Empty
    <3>3. Empty' = BufferCount - filled' - active' - 1
      BY <2>1, <3>1 DEF Empty
    <3>4. filled \in Int /\ active \in Int /\ BufferCount \in Int
      BY BufferAssumption DEF TypeInv, TypeOK
    <3>5. QED
      BY <2>1, <3>2, <3>3, <3>4 DEF TypeInv, Ring
  <2>5. Drawn' /\ FramesAnswered' /\ Blitting'
    BY <2>1, BlittingSame DEF TypeInv, Drawn, FramesAnswered, panel
  <2>6. QED
    BY <2>3, <2>4, <2>5 DEF TypeInv
<1>6. QED
  BY <1>3, <1>4, <1>5

(* Handing out a frame answers requests that are pending. *)
LEMMA HandType ==
  ASSUME TypeInv, Hand
  PROVE  TypeInv'
<1>q. Queue(displayQ) /\ Queue(algoQ)
  BY DEF TypeInv, TypeOK, Queue
<1>1. ASSUME NEW s \in Slots, Draw(s) PROVE TypeInv'
  <2>1. /\ Matches(s) /\ drawing' = s
        /\ UNCHANGED <<queues, csi, pending, serving, algo, panel, msgs>>
    BY <1>1 DEF Draw
  <2>2. TypeOK'
    BY <2>1 DEF TypeInv, TypeOK, queues, csi, algo, panel, msgs
  <2>3. Drawn'
    BY <2>1 DEF Matches, Drawn
  <2>4. Ring' /\ FramesAnswered' /\ Blitting'
    BY <2>1, BlittingSame DEF TypeInv, Ring, Empty, FramesAnswered, queues, csi, panel
  <2>5. QED
    BY <2>2, <2>3, <2>4 DEF TypeInv
<1>2. ASSUME NEW s \in Slots, Answer(s) PROVE TypeInv'
  <2>1. /\ drawing = s /\ pending' = [pending EXCEPT ![s] = None] /\ drawing' = None
        /\ UNCHANGED <<cameraQ, csi, serving, algo, panel, requestMsg>>
    BY <1>2 DEF Answer
  <2>2. AnswerTo(s) \in Message /\ s # None
    BY Names
  <2>3. pending[s] \in Request /\ pending[s].buffer \in Buffers
    BY <2>1, <2>2 DEF TypeInv, TypeOK, Drawn, Request
  <2>4. pending' \in [Slots -> Request \cup {None}]
    BY <2>1 DEF TypeInv, TypeOK
  <2>5. Ring' /\ Drawn'
    BY <2>1 DEF TypeInv, Ring, Empty, Drawn, csi
  <2>6. CASE s \in Displays
    <3>1. /\ responseMsg' = [responseMsg EXCEPT ![s] = pending[s].buffer]
          /\ displayQ' = Put(displayQ, AnswerTo(s)) /\ algoQ' = algoQ
      BY <1>2, <2>6 DEF Answer
    <3>2. /\ Queue(displayQ') /\ responseMsg' \in [Displays -> Buffers]
          /\ Adds(displayQ, displayQ', {AnswerTo(s)})
      BY <1>q, <2>2, <2>3, <3>1, PutAdds DEF TypeInv, TypeOK
    <3>3. TypeOK'
      BY <2>1, <2>4, <3>1, <3>2 DEF TypeInv, TypeOK, Queue, csi, algo, panel
    <3>4. Blitting'
      BY <1>q, <2>1, <3>2, BlittingAdds DEF TypeInv, panel
    <3>5. QED
      BY <2>5, <3>1, <3>3, <3>4 DEF TypeInv, FramesAnswered
  <2>7. CASE s \notin Displays
    <3>1. /\ algoQ' = Put(algoQ, AnswerTo(s)) /\ UNCHANGED <<responseMsg, displayQ>>
      BY <1>2, <2>7 DEF Answer
    <3>2. Queue(algoQ') /\ Adds(algoQ, algoQ', {AnswerTo(s)})
      BY <1>q, <2>2, <3>1, PutAdds
    <3>3. TypeOK'
      BY <2>1, <2>4, <3>1, <3>2 DEF TypeInv, TypeOK, Queue, csi, algo, panel
    <3>4. s \in Frames
      BY <2>7 DEF Slots
    <3>5. FramesAnswered'
      BY <3>2, <3>4 DEF TypeInv, FramesAnswered, Adds, AnswerTo
    <3>6. Blitting'
      BY <2>1, <3>1, BlittingSame DEF TypeInv, panel
    <3>7. QED
      BY <2>5, <3>3, <3>5, <3>6 DEF TypeInv
  <2>8. QED
    BY <2>6, <2>7
<1>3. CASE Enqueue
  <2>1. /\ serving # None /\ drawing = None /\ serving' = None
        /\ UNCHANGED <<queues, csi, pending, drawing, algo, panel, msgs>>
    BY <1>3 DEF Enqueue
  <2>2. TypeOK'
    BY <2>1 DEF TypeInv, TypeOK, queues, csi, algo, panel, msgs
  <2>3. Ring'
    <3>1. Empty = BufferCount - filled - active - 1
      BY <2>1 DEF Empty
    <3>2. Empty' = BufferCount - filled - active - 0
      BY <2>1 DEF Empty, csi
    <3>3. filled \in Int /\ active \in Int /\ BufferCount \in Int
      BY BufferAssumption DEF TypeInv, TypeOK
    <3>4. QED
      BY <3>1, <3>2, <3>3 DEF TypeInv, Ring
  <2>4. Drawn' /\ FramesAnswered' /\ Blitting'
    BY <2>1, BlittingSame DEF TypeInv, Drawn, FramesAnswered, queues, panel
  <2>5. QED
    BY <2>2, <2>3, <2>4 DEF TypeInv
<1>4. QED
  BY <1>1, <1>2, <1>3 DEF Hand

(* The vision algorithm manager counts frames as ready when it is answered. *)
LEMMA AlgoType ==
  ASSUME TypeInv, AlgoManager
  PROVE  TypeInv'
<1>q. Queue(algoQ) /\ Queue(cameraQ)
  BY DEF TypeInv, TypeOK, Queue
<1>r. UNCHANGED <<displayQ, csi, camera, restarts, panel, msgs>>
  BY DEF AlgoManager, FrameReady, RunReturns, OasisStop, OasisStart
<1>1. CASE FrameReady
  <2>1. /\ algoQ # <<>> /\ Head(algoQ).id = "answer" /\ algoQ' = Tail(algoQ)
        /\ ready' = ready \cup {Head(algoQ).slot} /\ inferring' = (ready' = Frames)
        /\ cameraQ' = cameraQ /\ running' = running
    BY <1>1 DEF FrameReady, Event
  <2>2. /\ Queue(algoQ') /\ 1 \in DOMAIN algoQ /\ Head(algoQ) = algoQ[1]
        /\ \A i \in DOMAIN algoQ' : i + 1 \in DOMAIN algoQ /\ algoQ'[i] = algoQ[i + 1]
    BY <1>q, <2>1, TailIs
  <2>3. Head(algoQ).slot \in Frames /\ FramesAnswered'
    BY <2>1, <2>2 DEF TypeInv, FramesAnswered
  <2>4. ready' \subseteq Frames
    BY <2>1, <2>3 DEF TypeInv, TypeOK
  <2>5. inferring' \in BOOLEAN
    BY <2>1
  <2>6. TypeOK'
    BY <1>r, <2>1, <2>2, <2>4, <2>5 DEF TypeInv, TypeOK, Queue, csi, camera, panel, msgs
  <2>7. QED
    BY <1>r, <2>3, <2>6, BlittingSame DEF TypeInv, Ring, Empty, Drawn, csi, camera, panel
<1>2. CASE RunReturns
  <2>1. /\ inferring' = FALSE /\ ready' = {} /\ algoQ' = algoQ /\ running' = running
        /\ cameraQ' = IF running THEN Ask(cameraQ, Frames) ELSE cameraQ
    BY <1>2 DEF RunReturns
  <2>2. Queue(cameraQ')
    BY <1>q, <2>1, AskAdds, Names
  <2>3. TypeOK'
    BY <1>r, <2>1, <2>2 DEF TypeInv, TypeOK, Queue, csi, camera, panel, msgs
  <2>4. QED
    BY <1>r, <2>1, <2>3, BlittingSame
    DEF TypeInv, Ring, Empty, Drawn, FramesAnswered, csi, camera, panel
<1>3. CASE OasisStop \/ OasisStart
  <2>1. /\ algoQ # <<>> /\ algoQ' = Tail(algoQ) /\ UNCHANGED <<ready, inferring>>
        /\ running' \in BOOLEAN
        /\ cameraQ' = cameraQ \/ cameraQ' = Ask(cameraQ, Frames)
    BY <1>3 DEF OasisStop, OasisStart, Event
  <2>2. Queue(cameraQ')
    BY <1>q, <2>1, AskAdds, Names
  <2>3. /\ Queue(algoQ')
        /\ \A i \in DOMAIN algoQ' : i + 1 \in DOMAIN algoQ /\ algoQ'[i] = algoQ[i + 1]
    BY <1>q, <2>1, TailIs
  <2>4. TypeOK'
    BY <1>r, <2>1, <2>2, <2>3 DEF TypeInv, TypeOK, Queue, csi, camera, panel, msgs
  <2>5. FramesAnswered'
    BY <2>3 DEF TypeInv, FramesAnswered
  <2>6. QED
    BY <1>r, <2>4, <2>5, BlittingSame DEF TypeInv, Ring, Empty, Drawn, csi, camera, panel
<1>4. QED
  BY <1>1, <1>2, <1>3 DEF AlgoManager

(* The display manager and the panel handle buffers of their own. *)
LEMMA DisplayType ==
  ASSUME TypeInv, NEW d \in Displays, DisplayManager(d)
  PROVE  TypeInv'
<1>q. Queue(displayQ) /\ Queue(cameraQ)
  BY DEF TypeInv, TypeOK, Queue
<1>r. /\ UNCHANGED <<csi, camera, algo, msgs>> /\ algoQ' = algoQ
  BY DEF DisplayManager, BlitScreen, BlitSetsFlag, BlitSetsCurrent, BlitSetsNext, SetSource,
         queues
<1>s. Ring' /\ Drawn' /\ FramesAnswered'
  BY <1>r DEF TypeInv, Ring, Empty, Drawn, FramesAnswered, csi, camera
<1>t. /\ \A p \in Panels : blit[p] # 0 => displayQ # <<>> /\ Head(displayQ) = AnswerTo(p)
      /\ \A p \in Panels : p # d => AnswerTo(p) # AnswerTo(d)
  BY DEF TypeInv, Blitting, Shows, AnswerTo
<1>1. CASE BlitScreen(d)
  <2>1. /\ d \in Screens /\ Shows(d) /\ displayQ # <<>> /\ displayQ' = Tail(displayQ)
        /\ cameraQ' = Put(cameraQ, RequestFor(d)) /\ UNCHANGED panel
    BY <1>1 DEF BlitScreen, Shows
  <2>2. Queue(displayQ') /\ Queue(cameraQ')
    BY <1>q, <2>1, TailIs, PutAdds, Names
  <2>3. TypeOK'
    BY <1>r, <2>1, <2>2 DEF TypeInv, TypeOK, Queue, csi, camera, algo, panel, msgs
  <2>4. \A p \in Panels : blit[p] = 0
    BY <1>t, <2>1, SlotsAssumption DEF Shows
  <2>5. QED
    BY <1>s, <2>1, <2>3, <2>4 DEF TypeInv, Blitting, panel
<1>2. CASE d \in Panels /\ (BlitSetsFlag(d) \/ BlitSetsCurrent(d))
  <2>1. /\ displayQ' = displayQ /\ cameraQ' = cameraQ
        /\ UNCHANGED <<source, changes, next, scanned>>
        /\ newBuffer' \in [Panels -> BOOLEAN]
        /\ blit' \in [Panels -> 0 .. 2]
        /\ current' \in [Panels -> Buffers \cup {None}]
    <3>1. CASE BlitSetsFlag(d)
      BY <1>2, <3>1 DEF BlitSetsFlag, queues, TypeInv, TypeOK
    <3>2. CASE BlitSetsCurrent(d)
      <4>1. responseMsg[d] \in Buffers
        BY DEF TypeInv, TypeOK
      <4>2. QED
        BY <1>2, <3>2, <4>1 DEF BlitSetsCurrent, queues, TypeInv, TypeOK
    <3>3. QED
      BY <1>2, <3>1, <3>2
  <2>2. TypeOK'
    BY <1>r, <2>1 DEF TypeInv, TypeOK, csi, camera, algo, msgs
  <2>3. Blitting'
    <3>1. /\ \A p \in Panels : p # d => blit'[p] = blit[p]
          /\ Shows(d) \/ (blit[d] # 0 /\ d \in Panels)
      BY <1>2 DEF BlitSetsFlag, BlitSetsCurrent, TypeInv, TypeOK
    <3>2. Shows(d)
      BY <3>1 DEF TypeInv, Blitting
    <3>3. QED
      BY <2>1, <3>1, <3>2 DEF TypeInv, Blitting, Shows
  <2>4. QED
    BY <1>s, <2>2, <2>3 DEF TypeInv
<1>3. CASE d \in Panels /\ BlitSetsNext(d)
  <2>1. /\ displayQ' = Tail(displayQ) /\ cameraQ' = cameraQ /\ blit[d] = 2
        /\ UNCHANGED <<source, changes, newBuffer, current, scanned>>
        /\ blit' = [blit EXCEPT ![d] = 0] /\ next' = [next EXCEPT ![d] = responseMsg[d]]
    BY <1>3 DEF BlitSetsNext
  <2>2. blit' \in [Panels -> 0 .. 2] /\ next' \in [Panels -> Buffers]
    BY <1>3, <2>1 DEF TypeInv, TypeOK
  <2>3. displayQ # <<>> /\ Head(displayQ) = AnswerTo(d)
    BY <1>3, <1>t, <2>1
  <2>4. Queue(displayQ')
    BY <1>q, <2>1, <2>3, TailIs
  <2>5. TypeOK'
    BY <1>r, <2>1, <2>2, <2>4 DEF TypeInv, TypeOK, Queue, csi, camera, algo, msgs
  <2>6. \A p \in Panels : blit'[p] = 0
    BY <1>3, <1>t, <2>1, <2>3 DEF TypeInv, TypeOK
  <2>7. QED
    BY <1>s, <2>5, <2>6 DEF TypeInv, Blitting
<1>4. CASE SetSource(d)
  <2>1. /\ displayQ # <<>> /\ displayQ' = Tail(displayQ) /\ cameraQ' = cameraQ
        /\ UNCHANGED <<changes, blit, current, next, scanned>>
        /\ source' \in [Displays -> Formats] /\ newBuffer' \in [Panels -> BOOLEAN]
    BY <1>4 DEF SetSource, TypeInv, TypeOK
  <2>2. Queue(displayQ')
    BY <1>q, <2>1, TailIs
  <2>3. TypeOK'
    BY <1>r, <2>1, <2>2 DEF TypeInv, TypeOK, Queue, csi, camera, algo, msgs
  <2>4. \A p \in Panels : blit[p] = 0
    BY <1>4, <1>t DEF SetSource, AnswerTo
  <2>5. QED
    BY <1>s, <2>1, <2>3, <2>4 DEF TypeInv, Blitting
<1>5. QED
  BY <1>1, <1>2, <1>3, <1>4 DEF DisplayManager

(* An interrupt of the panel touches no queue but the camera manager's. *)
LEMMA PanelType ==
  ASSUME TypeInv, NEW d \in Panels, PanelFrameDone(d)
  PROVE  TypeInv'
<1>q. Queue(cameraQ) /\ d \in Displays
  BY Names DEF TypeInv, TypeOK, Queue
<1>1. /\ scanned' = [scanned EXCEPT ![d] = next[d]]
      /\ newBuffer' = [newBuffer EXCEPT ![d] = FALSE]
      /\ UNCHANGED <<displayQ, algoQ, csi, camera, algo, responseMsg>>
      /\ UNCHANGED <<source, changes, blit, current, next>>
  BY DEF PanelFrameDone
<1>2. scanned' \in [Panels -> Buffers] /\ newBuffer' \in [Panels -> BOOLEAN]
  BY <1>1 DEF TypeInv, TypeOK
<1>3. Queue(cameraQ') /\ requestMsg' \in [Displays -> Request]
  <2>1. CASE newBuffer[d] /\ current[d] # None
    <3>1. /\ requestMsg' = [requestMsg EXCEPT ![d] =
                              [buffer |-> 1 - current[d], source |-> source[d]]]
          /\ cameraQ' = Put(cameraQ, RequestFor(d))
      BY <2>1 DEF PanelFrameDone
    <3>2. current[d] \in {0, 1} /\ source[d] \in Formats
      BY <1>q, <2>1 DEF TypeInv, TypeOK, Buffers
    <3>3. 1 - current[d] \in Buffers
      BY <3>2 DEF Buffers
    <3>4. [buffer |-> 1 - current[d], source |-> source[d]] \in Request
      BY <3>2, <3>3 DEF Request
    <3>5. QED
      BY <1>q, <3>1, <3>4, PutAdds, Names DEF TypeInv, TypeOK
  <2>2. CASE ~(newBuffer[d] /\ current[d] # None)
    BY <1>q, <2>2 DEF PanelFrameDone, TypeInv, TypeOK
  <2>3. QED
    BY <2>1, <2>2
<1>4. TypeOK'
  BY <1>1, <1>2, <1>3 DEF TypeInv, TypeOK, Queue, csi, camera, algo
<1>5. QED
  BY <1>1, <1>4, BlittingSame
  DEF TypeInv, Ring, Empty, Drawn, FramesAnswered, csi, camera

(* The user's steps and the other tasks add messages. *)
LEMMA UserType ==
  ASSUME TypeInv, User
  PROVE  TypeInv'
<1>q. Queue(cameraQ) /\ Queue(displayQ) /\ Queue(algoQ)
  BY DEF TypeInv, TypeOK, Queue
<1>1. CASE PostOther
  <2>1. /\ cameraQ' = Put(cameraQ, Msg("other"))
        /\ UNCHANGED <<displayQ, algoQ, csi, camera, algo, panel, msgs>>
    BY <1>1 DEF PostOther
  <2>2. Queue(cameraQ')
    BY <1>q, <2>1, PutAdds, Names
  <2>3. TypeOK'
    BY <2>1, <2>2 DEF TypeInv, TypeOK, Queue, csi, camera, algo, panel, msgs
  <2>4. QED
    BY <2>1, <2>3, BlittingSame
    DEF TypeInv, Ring, Empty, Drawn, FramesAnswered, csi, camera, panel
<1>2. CASE PostStop \/ PostStart
  <2>1. PICK m \in {Msg("stop"), Msg("start")} : algoQ' = Put(algoQ, m)
    BY <1>2 DEF PostStop, PostStart
  <2>2. /\ UNCHANGED <<cameraQ, displayQ, csi, camera, ready, running, inferring, panel, msgs>>
        /\ restarts' \in 0 .. MaxRestarts
    BY <1>2, BoundAssumption DEF PostStop, PostStart, algo, TypeInv, TypeOK
  <2>3. Queue(algoQ') /\ Adds(algoQ, algoQ', {m})
    BY <1>q, <2>1, PutAdds, Names
  <2>4. TypeOK'
    BY <2>2, <2>3 DEF TypeInv, TypeOK, Queue, csi, camera, panel, msgs
  <2>5. FramesAnswered'
    BY <2>3 DEF TypeInv, FramesAnswered, Adds, Msg
  <2>6. QED
    BY <2>2, <2>4, <2>5, BlittingSame DEF TypeInv, Ring, Empty, Drawn, csi, camera, panel
<1>3. CASE PostSource
  <2>1. /\ displayQ' = Put(displayQ, Msg("source")) /\ changes' = changes + 1
        /\ UNCHANGED <<cameraQ, algoQ, csi, camera, algo, msgs>>
        /\ UNCHANGED <<source, blit, newBuffer, current, next, scanned>>
        /\ changes < MaxChanges
    BY <1>3 DEF PostSource
  <2>2. Queue(displayQ') /\ Adds(displayQ, displayQ', {Msg("source")})
    BY <1>q, <2>1, PutAdds, Names
  <2>3. changes' \in 0 .. MaxChanges
    BY <2>1, BoundAssumption DEF TypeInv, TypeOK
  <2>4. TypeOK'
    BY <2>1, <2>2, <2>3 DEF TypeInv, TypeOK, Queue, csi, camera, algo, msgs
  <2>5. Blitting'
    BY <1>q, <2>1, <2>2, BlittingAdds DEF TypeInv
  <2>6. QED
    BY <2>1, <2>4, <2>5 DEF TypeInv, Ring, Empty, Drawn, FramesAnswered, csi, camera
<1>4. QED
  BY <1>1, <1>2, <1>3 DEF User

(* Every step keeps the types. *)
LEMMA TypeStep == TypeInv /\ [Next]_vars => TypeInv'
<1> SUFFICES ASSUME TypeInv, [Next]_vars PROVE TypeInv'
  OBVIOUS
<1>1. CASE CaptureFrame
  BY <1>1, CaptureType
<1>2. CASE CameraManager \/ \E format \in Formats : Dequeue(format)
  BY <1>2, TakeType, HandType DEF CameraManager
<1>3. CASE AlgoManager
  BY <1>3, AlgoType
<1>4. CASE \E d \in Displays : DisplayManager(d)
  BY <1>4, DisplayType
<1>5. CASE \E d \in Panels : PanelFrameDone(d)
  BY <1>5, PanelType
<1>6. CASE User
  BY <1>6, UserType
<1>7. CASE UNCHANGED vars
  <2>1. TypeOK'
    BY <1>7 DEF TypeInv, TypeOK, vars, queues, csi, camera, algo, panel, msgs
  <2>2. QED
    BY <1>7, <2>1, BlittingSame
    DEF TypeInv, Ring, Empty, Drawn, FramesAnswered, vars, queues, csi, camera, panel
<1>8. QED
  BY <1>1, <1>2, <1>3, <1>4, <1>5, <1>6, <1>7 DEF Next

(* The variables of the managers, the driver and the panel keep their      *)
(* types: the ring of buffers never overflows, a queue keeps its length,   *)
(* and an answer that is shown is not taken from the queue twice.          *)
THEOREM FramesTypeCorrect == Spec => []TypeOK
<1>1. TypeInv => TypeOK
  BY DEF TypeInv
<1>2. QED
  BY <1>1, TypeInit, TypeStep, PTL DEF Spec

-----------------------------------------------------------------------------
(***************************************************************************)
(* One place at a time.                                                    *)
(***************************************************************************)

(* Nothing is added about a message x between q and r. *)
Follows(q, r, x) ==
  /\ Once(q, x) => Once(r, x)
  /\ x \in ToSet(r) => x \in ToSet(q)

(* A queue that stays as it is has nothing added.                         *)
LEMMA FollowsSame == ASSUME NEW q, NEW x PROVE Follows(q, q, x)
BY DEF Follows

(* Taking a message adds nothing, and sending others adds nothing about it. *)
LEMMA FollowsTail == ASSUME NEW q, Queue(q), q # <<>>, NEW x PROVE Follows(q, Tail(q), x)
BY TailLeaves DEF Follows

(* Other messages are added.                                              *)
LEMMA FollowsAdds ==
  ASSUME NEW q, NEW r, NEW A, Adds(q, r, A), NEW x, x \notin A
  PROVE  Follows(q, r, x)
BY AddsIn, AddsOnce DEF Follows

(* Messages of different kinds, and about different slots, differ. *)
LEMMA Different ==
  /\ \A s, z \in Slots : /\ s # z => RequestFor(s) # RequestFor(z)
                         /\ s # z => AnswerTo(s) # AnswerTo(z)
                         /\ RequestFor(s) # AnswerTo(z)
  /\ \A s \in Slots, id \in {"dequeue", "other", "stop", "start", "source"} :
       RequestFor(s) # Msg(id) /\ AnswerTo(s) # Msg(id)
BY DEF RequestFor, AnswerTo, Msg

(* A slot about which nothing is added stays in one place. *)
LEMMA SlotKeeps ==
  ASSUME NEW s \in Slots, Single(s), Exclusive(s),
         Follows(cameraQ, cameraQ', RequestFor(s)),
         Follows(displayQ, displayQ', AnswerTo(s)),
         Follows(algoQ, algoQ', AnswerTo(s)),
         pending'[s] # None => pending[s] # None,
         Kept(s)' => Kept(s)
  PROVE  Single(s)' /\ Exclusive(s)'
<1>1. Single(s)'
  BY DEF Single, Follows
<1>2. Asked(s)' => Asked(s)
  BY DEF Asked, Follows
<1>3. Answered(s)' => Answered(s)
  BY DEF Answered, Follows
<1>4. Exclusive(s)'
  BY <1>2, <1>3 DEF Exclusive
<1>5. QED
  BY <1>1, <1>4

(* What a panel shows is safe while nothing of it changes but that a       *)
(* request is taken back or answered.                                      *)
LEMMA ShownKeeps ==
  ASSUME NEW d \in Panels, Shown(d),
         blit'[d] = blit[d] /\ newBuffer'[d] = newBuffer[d] /\ current'[d] = current[d],
         next'[d] = next[d] /\ scanned'[d] = scanned[d],
         requestMsg'[d] = requestMsg[d],
         responseMsg'[d] = responseMsg[d] \/ blit[d] # 2,
         Asked(d)' => Asked(d),
         pending'[d] = pending[d] \/ pending'[d] = None
  PROVE  Shown(d)'
<1>1. blit'[d] # 0 => newBuffer'[d]
  BY DEF Shown
<1>2. blit'[d] = 2 => current'[d] = responseMsg'[d]
  BY DEF Shown
<1>3. blit'[d] = 0 /\ newBuffer'[d] => current'[d] = next'[d]
  BY DEF Shown
<1>4. Asked(d)' \/ pending'[d] # None => requestMsg'[d].buffer \notin {next'[d], scanned'[d]}
  BY DEF Shown
<1>5. pending'[d] # None => pending'[d].buffer = requestMsg'[d].buffer
  BY DEF Shown
<1>6. QED
  BY <1>1, <1>2, <1>3, <1>4, <1>5 DEF Shown

(* Which messages a queue holds, after one is taken and after some are sent. *)
LEMMA QuietTail ==
  ASSUME NEW q, Queue(q), q # <<>>, NEW P, ToSet(q) \subseteq P
  PROVE  ToSet(Tail(q)) \subseteq P /\ Head(q) \in P
BY TailIs, TailLeaves

(* Messages of the same kinds are added.                                  *)
LEMMA QuietAdds ==
  ASSUME NEW q, NEW r, NEW A, Adds(q, r, A), NEW P, ToSet(q) \subseteq P, A \subseteq P
  PROVE  ToSet(r) \subseteq P
BY AddsIn

(* Only the managers' own steps are possible while nobody interferes. *)
LEMMA CalmSteps ==
  ASSUME Calm, TypeInv, Quiet, Next
  PROVE  \/ CaptureFrame \/ TakeRequest \/ TakeOther \/ Hand \/ PostOther
         \/ \E format \in Formats : Dequeue(format)
         \/ FrameReady \/ RunReturns
         \/ \E d \in Screens : BlitScreen(d)
         \/ \E d \in Panels : BlitSetsFlag(d) \/ BlitSetsCurrent(d) \/ BlitSetsNext(d)
         \/ \E d \in Panels : PanelFrameDone(d) /\ blit[d] = 0
<1>q. Queue(displayQ) /\ Queue(algoQ) /\ Queue(cameraQ)
  BY DEF TypeInv, TypeOK, Queue
<1>1. restarts = 0 /\ changes = 0
  BY DEF Calm, TypeInv, TypeOK
<1>2. ~PostStop /\ ~PostStart /\ ~PostSource
  BY <1>1 DEF PostStop, PostStart, PostSource, Calm
<1>3. ~OasisStop /\ ~OasisStart
  <2> SUFFICES ASSUME algoQ # <<>>, Head(algoQ).id \in {"stop", "start"} PROVE FALSE
    BY DEF OasisStop, OasisStart, Event
  <2>1. Head(algoQ) \in FrameAnswers
    BY <1>q, QuietTail DEF Quiet
  <2>2. \A m \in FrameAnswers : m.id = "answer"
    BY DEF FrameAnswers, AnswerTo
  <2>3. QED
    BY <2>1, <2>2
<1>4. ASSUME NEW d \in Displays, SetSource(d) PROVE FALSE
  <2>1. displayQ # <<>> /\ Head(displayQ).id = "source"
    BY <1>4 DEF SetSource
  <2>2. Head(displayQ) \in DisplayAnswers
    BY <1>q, <2>1, QuietTail DEF Quiet
  <2>3. \A m \in DisplayAnswers : m.id = "answer"
    BY DEF DisplayAnswers, AnswerTo
  <2>4. QED
    BY <2>1, <2>2, <2>3
<1>5. ASSUME NEW d \in Panels, PanelFrameDone(d) PROVE blit[d] = 0
  BY <1>5 DEF PanelFrameDone, Calm
<1>6. \A d \in Displays : BlitScreen(d) => d \in Screens
  BY DEF BlitScreen
<1>7. QED
  BY <1>2, <1>3, <1>4, <1>5, <1>6
  DEF Next, CameraManager, AlgoManager, DisplayManager, User

(* At the beginning every slot is asked for at most once, and has nothing. *)
LEMMA TurnInit == Init => TurnInv
<1> SUFFICES ASSUME Init PROVE TurnInv
  OBVIOUS
<1>1. /\ cameraQ = Ask(<<>>, Slots) /\ displayQ = <<>> /\ algoQ = <<>>
      /\ ready = {} /\ ~inferring
      /\ \A s \in Slots : pending[s] = None
      /\ \A d \in Panels : blit[d] = 0 /\ ~newBuffer[d] /\ next[d] = 0 /\ scanned[d] = 0
      /\ \A d \in Displays : requestMsg[d].buffer = 1
  BY DEF Init
<1>2. ToSet(<<>>) = {} /\ \A x : Once(<<>>, x)
  BY DEF ToSet, Once
<1>3. Adds(<<>>, cameraQ, {RequestFor(s) : s \in Slots})
  BY <1>1, EmptyIsQueue, AskAdds
<1>4. Quiet
  <2>1. ToSet(cameraQ) \subseteq CameraMessages
    BY <1>2, <1>3, AddsIn DEF CameraMessages
  <2>2. QED
    BY <1>1, <1>2, <2>1 DEF Quiet
<1>5. ASSUME NEW s \in Slots PROVE Single(s) /\ Exclusive(s)
  <2>1. Once(cameraQ, RequestFor(s))
    BY <1>2, <1>3, AddsOnce
  <2>2. ~Answered(s)
    BY <1>1, <1>2 DEF Answered
  <2>3. ~Kept(s)
    BY <1>1 DEF Kept
  <2>4. QED
    BY <1>1, <1>2, <2>1, <2>2, <2>3 DEF Single, Exclusive
<1>6. ASSUME NEW d \in Panels PROVE Shown(d)
  <2>1. d \in Displays /\ d \in Slots
    BY Names
  <2>2. QED
    BY <1>1, <2>1 DEF Shown
<1>7. Working
  BY <1>1 DEF Working
<1>8. QED
  BY <1>4, <1>5, <1>6, <1>7 DEF TurnInv

(* The camera's interrupt and the other tasks send messages about no slot. *)
LEMMA SendTurn ==
  ASSUME TypeInv, TurnInv, CaptureFrame \/ PostOther
  PROVE  TurnInv'
<1>1. /\ UNCHANGED <<displayQ, algoQ, camera, algo, panel, msgs>>
      /\ \/ cameraQ' = cameraQ
         \/ \E id \in {"dequeue", "other"} : cameraQ' = Put(cameraQ, Msg(id))
  BY DEF CaptureFrame, PostOther
<1>2. Queue(cameraQ)
  BY DEF TypeInv, TypeOK, Queue
<1>3. /\ ToSet(cameraQ') \subseteq CameraMessages
      /\ \A s \in Slots : Follows(cameraQ, cameraQ', RequestFor(s))
  <2>1. CASE cameraQ' = cameraQ
    BY <2>1, FollowsSame DEF TurnInv, Quiet
  <2>2. ASSUME NEW id \in {"dequeue", "other"}, cameraQ' = Put(cameraQ, Msg(id))
        PROVE  /\ ToSet(cameraQ') \subseteq CameraMessages
               /\ \A s \in Slots : Follows(cameraQ, cameraQ', RequestFor(s))
    <3>1. Adds(cameraQ, cameraQ', {Msg(id)})
      BY <1>2, <2>2, PutAdds, Names
    <3>2. {Msg(id)} \subseteq CameraMessages
      BY DEF CameraMessages
    <3>3. \A s \in Slots : RequestFor(s) \notin {Msg(id)}
      BY Different
    <3>4. QED
      BY <3>1, <3>2, <3>3, QuietAdds, FollowsAdds DEF TurnInv, Quiet
  <2>3. QED
    BY <1>1, <2>1, <2>2
<1>4. Quiet' /\ Working'
  BY <1>1, <1>3 DEF TurnInv, Quiet, Working, algo
<1>5. ASSUME NEW s \in Slots PROVE Single(s)' /\ Exclusive(s)'
  <2>1. Single(s) /\ Exclusive(s)
    BY DEF TurnInv
  <2>2. pending' = pending /\ displayQ' = displayQ /\ algoQ' = algoQ /\ Kept(s)' = Kept(s)
    BY <1>1 DEF Kept, camera, algo, panel
  <2>3. Follows(displayQ, displayQ', AnswerTo(s)) /\ Follows(algoQ, algoQ', AnswerTo(s))
    BY <2>2, FollowsSame
  <2>4. QED
    BY <1>3, <2>1, <2>2, <2>3, SlotKeeps
<1>6. ASSUME NEW d \in Panels PROVE Shown(d)'
  <2>1. Shown(d) /\ d \in Slots
    BY Names DEF TurnInv
  <2>2. Asked(d)' => Asked(d)
    BY <1>3, <2>1 DEF Follows, Asked
  <2>3. /\ pending' = pending /\ requestMsg' = requestMsg /\ responseMsg' = responseMsg
        /\ blit' = blit /\ newBuffer' = newBuffer /\ current' = current /\ next' = next
        /\ scanned' = scanned
    BY <1>1 DEF camera, panel, msgs
  <2>4. QED
    BY <2>1, <2>2, <2>3, ShownKeeps
<1>7. QED
  BY <1>4, <1>5, <1>6 DEF TurnInv

(* Taking a request moves it from the queue to the pending ones; taking    *)
(* another message moves nothing.                                          *)
LEMMA TakeTurn ==
  ASSUME TypeInv, TurnInv, TakeRequest \/ TakeOther \/ \E format \in Formats : Dequeue(format)
  PROVE  TurnInv'
<1>1. /\ cameraQ # <<>> /\ cameraQ' = Tail(cameraQ) /\ Queue(cameraQ)
      /\ UNCHANGED <<displayQ, algoQ, drawing, algo, panel, msgs>>
  BY DEF TakeRequest, TakeOther, Dequeue, Receive, camera, TypeInv, TypeOK, Queue
<1>2. /\ ToSet(cameraQ') \subseteq CameraMessages
      /\ \A x : Follows(cameraQ, cameraQ', x)
  BY <1>1, QuietTail, FollowsTail DEF TurnInv, Quiet
<1>3. Quiet' /\ Working'
  BY <1>1, <1>2 DEF TurnInv, Quiet, Working, algo
<1>4. \/ pending' = pending
      \/ \E s \in Slots : /\ Head(cameraQ) = RequestFor(s)
                          /\ s \in Displays => pending' = [pending EXCEPT ![s] = requestMsg[s]]
                          /\ \A z \in Slots \ {s} : pending'[z] = pending[z]
  <2>1. CASE TakeRequest
    <3> DEFINE s == Head(cameraQ).slot
    <3>1. Head(cameraQ) \in Message /\ Head(cameraQ).id = "request"
      BY <1>1, <2>1, TailIs DEF TakeRequest, Receive
    <3>2. s \in Slots /\ Head(cameraQ) = RequestFor(s)
      BY <3>1 DEF Message, RequestFor
    <3>3. \/ pending' = pending
          \/ pending' = [pending EXCEPT ![s] =
                           IF s \in Displays THEN requestMsg[s]
                           ELSE [buffer |-> 0, source |-> Source[s]]]
      BY <2>1 DEF TakeRequest
    <3>4. pending \in [Slots -> Request \cup {None}]
      BY DEF TypeInv, TypeOK
    <3> HIDE DEF s
    <3>5. QED
      BY <3>2, <3>3, <3>4
  <2>2. CASE TakeOther \/ \E format \in Formats : Dequeue(format)
    BY <2>2 DEF TakeOther, Dequeue, camera
  <2>3. QED
    BY <2>1, <2>2
<1>5. ASSUME NEW s \in Slots, Head(cameraQ) = RequestFor(s)
      PROVE  Asked(s) /\ ~Asked(s)'
  BY <1>1, <1>5, TailIs, TailLeaves DEF Asked, TurnInv, Single
<1>6. ASSUME NEW s \in Slots PROVE Single(s)' /\ Exclusive(s)'
  <2>1. Single(s) /\ Exclusive(s)
    BY DEF TurnInv
  <2>2. Kept(s)' = Kept(s) /\ Answered(s)' = Answered(s)
    BY <1>1 DEF Kept, Answered, algo, panel
  <2>3. Follows(displayQ, displayQ', AnswerTo(s)) /\ Follows(algoQ, algoQ', AnswerTo(s))
    BY <1>1, FollowsSame
  <2>4. CASE pending'[s] # None => pending[s] # None
    BY <1>2, <2>1, <2>2, <2>3, <2>4, SlotKeeps
  <2>5. CASE ~(pending'[s] # None => pending[s] # None)
    <3>1. Head(cameraQ) = RequestFor(s)
      BY <1>4, <2>5
    <3>2. Asked(s) /\ ~Asked(s)'
      BY <1>5, <3>1
    <3>3. Single(s)'
      BY <1>1, <1>2, <2>1 DEF Single, Follows
    <3>4. Exclusive(s)'
      BY <2>1, <2>2, <3>2 DEF Exclusive
    <3>5. QED
      BY <3>3, <3>4
  <2>6. QED
    BY <2>4, <2>5
<1>7. ASSUME NEW d \in Panels PROVE Shown(d)'
  <2>1. Shown(d) /\ d \in Slots /\ d \in Displays /\ (Asked(d)' => Asked(d))
    BY <1>2, Names DEF TurnInv, Follows, Asked
  <2>2. /\ requestMsg' = requestMsg /\ responseMsg' = responseMsg
        /\ blit' = blit /\ newBuffer' = newBuffer /\ current' = current /\ next' = next
        /\ scanned' = scanned
    BY <1>1 DEF panel, msgs
  <2>3. CASE pending'[d] = pending[d]
    BY <2>1, <2>2, <2>3, ShownKeeps
  <2>4. CASE pending'[d] # pending[d]
    <3>1. Head(cameraQ) = RequestFor(d) /\ pending' = [pending EXCEPT ![d] = requestMsg[d]]
      BY <1>4, <2>1, <2>4
    <3>2. Asked(d) /\ pending'[d] = requestMsg[d]
      BY <1>5, <2>1, <3>1 DEF TypeInv, TypeOK
    <3>3. QED
      BY <2>1, <2>2, <3>2 DEF Shown
  <2>5. QED
    BY <2>3, <2>4
<1>8. QED
  BY <1>3, <1>6, <1>7 DEF TurnInv

(* An answer moves a slot from the pending requests to a queue. *)
LEMMA HandTurn ==
  ASSUME TypeInv, TurnInv, Hand
  PROVE  TurnInv'
<1>q. Queue(displayQ) /\ Queue(algoQ)
  BY DEF TypeInv, TypeOK, Queue
<1>1. CASE Enqueue \/ \E s \in Slots : Draw(s)
  <2>1. UNCHANGED <<queues, pending, algo, panel, msgs>>
    BY <1>1 DEF Enqueue, Draw
  <2>2. Quiet' /\ Working'
    BY <2>1 DEF TurnInv, Quiet, Working, algo, queues
  <2>3. ASSUME NEW s \in Slots PROVE Single(s)' /\ Exclusive(s)'
    BY <2>1 DEF TurnInv, Single, Exclusive, Asked, Answered, Kept, queues, algo, panel
  <2>4. ASSUME NEW d \in Panels PROVE Shown(d)'
    BY <2>1 DEF TurnInv, Shown, Asked, queues, panel, msgs
  <2>5. QED
    BY <2>2, <2>3, <2>4 DEF TurnInv
<1>2. ASSUME NEW z \in Slots, Answer(z) PROVE TurnInv'
  <2>1. /\ drawing = z /\ pending' = [pending EXCEPT ![z] = None]
        /\ UNCHANGED <<cameraQ, algo, panel, requestMsg>>
        /\ IF z \in Displays
           THEN /\ responseMsg' = [responseMsg EXCEPT ![z] = pending[z].buffer]
                /\ displayQ' = Put(displayQ, AnswerTo(z)) /\ algoQ' = algoQ
           ELSE /\ algoQ' = Put(algoQ, AnswerTo(z))
                /\ responseMsg' = responseMsg /\ displayQ' = displayQ
    BY <1>2 DEF Answer
  <2>2. /\ pending'[z] = None /\ \A s \in Slots \ {z} : pending'[s] = pending[s]
        /\ \A s \in Displays : s # z => responseMsg'[s] = responseMsg[s]
    BY <2>1 DEF TypeInv, TypeOK
  <2>3. pending[z] # None /\ AnswerTo(z) \in Message
    BY <2>1, Names DEF TypeInv, Drawn
  <2>4. ~Asked(z) /\ ~Answered(z) /\ ~Kept(z) /\ Single(z)
    BY <2>3 DEF TurnInv, Exclusive
  <2>5. \/ Adds(displayQ, displayQ', {AnswerTo(z)}) /\ algoQ' = algoQ /\ z \in Displays
        \/ Adds(algoQ, algoQ', {AnswerTo(z)}) /\ displayQ' = displayQ /\ z \in Frames
    BY <1>q, <2>1, <2>3, PutAdds DEF Slots
  <2>6. Quiet'
    <3>1. ToSet(displayQ') \subseteq DisplayAnswers /\ ToSet(algoQ') \subseteq FrameAnswers
      <4>1. CASE Adds(displayQ, displayQ', {AnswerTo(z)}) /\ algoQ' = algoQ /\ z \in Displays
        <5>1. {AnswerTo(z)} \subseteq DisplayAnswers
          BY <4>1 DEF DisplayAnswers
        <5>2. QED
          BY <4>1, <5>1, QuietAdds DEF TurnInv, Quiet
      <4>2. CASE Adds(algoQ, algoQ', {AnswerTo(z)}) /\ displayQ' = displayQ /\ z \in Frames
        <5>1. {AnswerTo(z)} \subseteq FrameAnswers
          BY <4>2 DEF FrameAnswers
        <5>2. QED
          BY <4>2, <5>1, QuietAdds DEF TurnInv, Quiet
      <4>3. QED
        BY <2>5, <4>1, <4>2
    <3>2. QED
      BY <2>1, <3>1 DEF TurnInv, Quiet
  <2>7. Working'
    BY <2>1 DEF TurnInv, Working, algo
  <2>8. ASSUME NEW s \in Slots PROVE Single(s)' /\ Exclusive(s)'
    <3>1. Single(s) /\ Exclusive(s) /\ Kept(s)' = Kept(s) /\ Asked(s)' = Asked(s)
      BY <2>1 DEF TurnInv, Kept, Asked, algo, panel
    <3>2. CASE s = z
      <4>1. AnswerTo(z) \notin ToSet(displayQ) /\ AnswerTo(z) \notin ToSet(algoQ)
        BY <2>4 DEF Answered
      <4>2. Once(displayQ', AnswerTo(z)) /\ Once(algoQ', AnswerTo(z))
        BY <2>4, <2>5, <4>1, AddsOnce DEF Single
      <4>3. Single(s)'
        BY <2>1, <3>1, <3>2, <4>2 DEF Single
      <4>4. Exclusive(s)'
        BY <2>2, <2>4, <3>1, <3>2 DEF Exclusive
      <4>5. QED
        BY <4>3, <4>4
    <3>3. CASE s # z
      <4>1. AnswerTo(s) \notin {AnswerTo(z)}
        BY <3>3, Different
      <4>2. Follows(displayQ, displayQ', AnswerTo(s)) /\ Follows(algoQ, algoQ', AnswerTo(s))
        BY <2>5, <4>1, FollowsAdds, FollowsSame
      <4>3. Follows(cameraQ, cameraQ', RequestFor(s))
        BY <2>1, FollowsSame
      <4>4. pending'[s] = pending[s]
        BY <2>2, <3>3
      <4>5. QED
        BY <3>1, <4>2, <4>3, <4>4, SlotKeeps
    <3>4. QED
      BY <3>2, <3>3
  <2>9. ASSUME NEW d \in Panels PROVE Shown(d)'
    <3>1. Shown(d) /\ d \in Slots /\ d \in Displays /\ Asked(d)' = Asked(d)
      BY <2>1, Names DEF TurnInv, Asked
    <3>2. responseMsg'[d] = responseMsg[d] \/ blit[d] # 2
      <4> SUFFICES ASSUME d = z, blit[d] = 2 PROVE FALSE
        BY <2>2, <3>1
      <4>1. Shows(d)
        BY DEF TypeInv, Blitting
      <4>2. Answered(d)
        BY <1>q, <4>1, TailIs DEF Shows, Answered
      <4>3. QED
        BY <2>4, <4>2
    <3>3. pending'[d] = pending[d] \/ pending'[d] = None
      BY <2>2, <3>1
    <3>4. /\ requestMsg' = requestMsg /\ blit' = blit /\ newBuffer' = newBuffer
          /\ current' = current /\ next' = next /\ scanned' = scanned
      BY <2>1 DEF panel
    <3>5. QED
      BY <3>1, <3>2, <3>3, <3>4, ShownKeeps
  <2>10. QED
    BY <2>6, <2>7, <2>8, <2>9 DEF TurnInv
<1>3. QED
  BY <1>1, <1>2 DEF Hand

(* A frame that is answered becomes ready. *)
LEMMA ReadyTurn ==
  ASSUME TypeInv, TurnInv, FrameReady
  PROVE  TurnInv'
<1>1. /\ algoQ # <<>> /\ algoQ' = Tail(algoQ) /\ Queue(algoQ)
      /\ ready' = ready \cup {Head(algoQ).slot} /\ inferring' = (ready' = Frames)
      /\ UNCHANGED <<cameraQ, displayQ, camera, panel, msgs>>
  BY DEF FrameReady, Event, TypeInv, TypeOK, Queue
<1>2. ToSet(algoQ') \subseteq FrameAnswers /\ Head(algoQ) \in FrameAnswers
  BY <1>1, QuietTail DEF TurnInv, Quiet
<1>3. PICK z \in Frames : Head(algoQ) = AnswerTo(z)
  BY <1>2 DEF FrameAnswers
<1>4. z \in Slots /\ z \notin Displays /\ Head(algoQ).slot = z
  BY <1>3, SlotsAssumption, Names DEF AnswerTo
<1>5. /\ AnswerTo(z) \in ToSet(algoQ) /\ AnswerTo(z) \notin ToSet(algoQ')
      /\ AnswerTo(z) \notin ToSet(displayQ')
  <2>1. AnswerTo(z) \in ToSet(algoQ)
    BY <1>1, <1>3, TailIs
  <2>2. Once(algoQ, AnswerTo(z))
    BY <1>4 DEF TurnInv, Single
  <2>3. AnswerTo(z) \notin ToSet(algoQ')
    BY <1>1, <1>3, <2>2, TailLeaves
  <2>4. AnswerTo(z) \notin DisplayAnswers
    <3>1. \A d \in Displays : d \in Slots /\ d # z
      BY <1>4, Names
    <3>2. QED
      BY <1>4, <3>1, Different DEF DisplayAnswers
  <2>5. QED
    BY <1>1, <2>1, <2>3, <2>4 DEF TurnInv, Quiet
<1>6. Quiet' /\ Working'
  BY <1>1, <1>2 DEF TurnInv, Quiet, Working
<1>7. ASSUME NEW s \in Slots PROVE Single(s)' /\ Exclusive(s)'
  <2>1. Single(s) /\ Exclusive(s) /\ Asked(s)' = Asked(s) /\ pending' = pending
    BY <1>1 DEF TurnInv, Asked, camera
  <2>2. /\ Follows(cameraQ, cameraQ', RequestFor(s)) /\ Follows(displayQ, displayQ', AnswerTo(s))
        /\ Follows(algoQ, algoQ', AnswerTo(s))
    BY <1>1, FollowsSame, FollowsTail
  <2>3. CASE s = z
    <3>1. Answered(s) /\ ~Answered(s)'
      BY <1>5, <2>3 DEF Answered
    <3>2. Single(s)'
      BY <2>1, <2>2 DEF Single, Follows
    <3>3. Exclusive(s)'
      BY <2>1, <3>1 DEF Exclusive
    <3>4. QED
      BY <3>2, <3>3
  <2>4. CASE s # z
    <3>1. Kept(s)' => Kept(s)
      BY <1>1, <1>4, <2>4 DEF Kept, panel
    <3>2. QED
      BY <2>1, <2>2, <3>1, SlotKeeps
  <2>5. QED
    BY <2>3, <2>4
<1>8. ASSUME NEW d \in Panels PROVE Shown(d)'
  BY <1>1 DEF TurnInv, Shown, Asked, camera, panel, msgs
<1>9. QED
  BY <1>6, <1>7, <1>8 DEF TurnInv

(* When the algorithm is done all the frames it kept are asked for. *)
LEMMA ReturnTurn ==
  ASSUME TypeInv, TurnInv, RunReturns
  PROVE  TurnInv'
<1>1. /\ inferring /\ ~inferring' /\ ready' = {} /\ Queue(cameraQ)
      /\ cameraQ' = cameraQ \/ cameraQ' = Ask(cameraQ, Frames)
      /\ UNCHANGED <<displayQ, algoQ, camera, panel, msgs>>
  BY DEF RunReturns, TypeInv, TypeOK, Queue
<1>2. ready = Frames /\ Frames \subseteq Slots /\ \A s \in Frames : s \notin Displays
  BY <1>1, SlotsAssumption, Names DEF TurnInv, Working
<1>3. PICK A \in SUBSET {RequestFor(s) : s \in Frames} : Adds(cameraQ, cameraQ', A)
  <2>1. CASE cameraQ' = cameraQ
    <3>1. Adds(cameraQ, cameraQ', {})
      BY <2>1 DEF Adds
    <3>2. QED
      BY <3>1
  <2>2. CASE cameraQ' = Ask(cameraQ, Frames)
    BY <1>1, <1>2, <2>2, AskAdds
  <2>3. QED
    BY <1>1, <2>1, <2>2
<1>4. \A s \in Slots : s \notin Frames => RequestFor(s) \notin A
  BY <1>2, <1>3, Different
<1>5. Quiet' /\ Working'
  <2>1. A \subseteq CameraMessages
    BY <1>2, <1>3 DEF CameraMessages
  <2>2. ToSet(cameraQ') \subseteq CameraMessages
    BY <1>3, <2>1, QuietAdds DEF TurnInv, Quiet
  <2>3. QED
    BY <1>1, <2>2 DEF TurnInv, Quiet, Working
<1>6. ASSUME NEW s \in Slots PROVE Single(s)' /\ Exclusive(s)'
  <2>1. Single(s) /\ Exclusive(s) /\ Answered(s)' = Answered(s) /\ pending' = pending
    BY <1>1 DEF TurnInv, Answered, camera
  <2>2. Kept(s)' => Kept(s)
    BY <1>1 DEF Kept, panel
  <2>3. CASE s \in Frames
    <3>1. Kept(s) /\ ~Kept(s)'
      BY <1>1, <1>2, <2>3, Names DEF Kept
    <3>2. ~Asked(s) /\ pending[s] = None /\ ~Answered(s)
      BY <2>1, <3>1 DEF Exclusive
    <3>3. Once(cameraQ', RequestFor(s))
      BY <1>3, <2>1, <3>2, AddsOnce DEF Single, Asked
    <3>4. Single(s)'
      BY <1>1, <2>1, <3>3 DEF Single
    <3>5. Exclusive(s)'
      BY <2>1, <3>1, <3>2 DEF Exclusive
    <3>6. QED
      BY <3>4, <3>5
  <2>4. CASE s \notin Frames
    <3>1. Follows(cameraQ, cameraQ', RequestFor(s))
      BY <1>3, <1>4, <2>4, FollowsAdds
    <3>2. Follows(displayQ, displayQ', AnswerTo(s)) /\ Follows(algoQ, algoQ', AnswerTo(s))
      BY <1>1, FollowsSame
    <3>3. QED
      BY <2>1, <2>2, <3>1, <3>2, SlotKeeps
  <2>5. QED
    BY <2>3, <2>4
<1>7. ASSUME NEW d \in Panels PROVE Shown(d)'
  <2>1. Shown(d) /\ d \in Slots /\ d \notin Frames
    BY <1>2, Names DEF TurnInv
  <2>2. Asked(d)' => Asked(d)
    BY <1>3, <1>4, <2>1, AddsIn DEF Asked
  <2>3. /\ pending' = pending /\ requestMsg' = requestMsg /\ responseMsg' = responseMsg
        /\ blit' = blit /\ newBuffer' = newBuffer /\ current' = current /\ next' = next
        /\ scanned' = scanned
    BY <1>1 DEF camera, panel, msgs
  <2>4. QED
    BY <2>1, <2>2, <2>3, ShownKeeps
<1>8. QED
  BY <1>5, <1>6, <1>7 DEF TurnInv

(* An answer that the display manager takes, of a display d, leaves its    *)
(* queue without an answer to d.                                           *)
LEMMA ShownTaken ==
  ASSUME TypeInv, TurnInv, NEW d \in Displays, Shows(d), displayQ' = Tail(displayQ),
         algoQ' = algoQ
  PROVE  /\ d \in Slots /\ d \notin Frames /\ Answered(d) /\ ~Answered(d)'
         /\ ~Asked(d) /\ pending[d] = None /\ ~Kept(d)
         /\ ToSet(displayQ') \subseteq DisplayAnswers
         /\ \A x : Follows(displayQ, displayQ', x)
<1>1. /\ Queue(displayQ) /\ displayQ # <<>> /\ Head(displayQ) = AnswerTo(d)
      /\ d \in Slots /\ d \notin Frames
  BY Names, SlotsAssumption DEF TypeInv, TypeOK, Queue, Shows
<1>2. AnswerTo(d) \in ToSet(displayQ) /\ Once(displayQ, AnswerTo(d))
  BY <1>1, TailIs DEF TurnInv, Single
<1>3. AnswerTo(d) \notin ToSet(displayQ')
  BY <1>1, <1>2, TailLeaves
<1>4. AnswerTo(d) \notin FrameAnswers
  <2>1. \A s \in Frames : s \in Slots /\ s # d
    BY <1>1, Names
  <2>2. QED
    BY <1>1, <2>1, Different DEF FrameAnswers
<1>5. Answered(d) /\ ~Answered(d)'
  BY <1>2, <1>3, <1>4 DEF Answered, TurnInv, Quiet
<1>6. ~Asked(d) /\ pending[d] = None /\ ~Kept(d)
  BY <1>1, <1>5 DEF TurnInv, Exclusive
<1>7. ToSet(displayQ') \subseteq DisplayAnswers /\ \A x : Follows(displayQ, displayQ', x)
  BY <1>1, QuietTail, FollowsTail DEF TurnInv, Quiet
<1>8. QED
  BY <1>1, <1>5, <1>6, <1>7

(* A screen that has been shown a frame is asked for again. *)
LEMMA ScreenTurn ==
  ASSUME TypeInv, TurnInv, NEW z \in Screens, BlitScreen(z)
  PROVE  TurnInv'
<1>1. /\ Shows(z) /\ displayQ' = Tail(displayQ) /\ algoQ' = algoQ
      /\ cameraQ' = Put(cameraQ, RequestFor(z))
      /\ UNCHANGED <<camera, algo, panel, msgs>>
      /\ z \in Displays /\ z \notin Panels /\ Queue(cameraQ)
  BY SlotsAssumption, Names DEF BlitScreen, TypeInv, TypeOK, Queue
<1>2. /\ z \in Slots /\ z \notin Frames /\ ~Answered(z)'
      /\ ~Asked(z) /\ pending[z] = None /\ ~Kept(z)
      /\ ToSet(displayQ') \subseteq DisplayAnswers
      /\ \A x : Follows(displayQ, displayQ', x)
  BY <1>1, ShownTaken
<1>3. Adds(cameraQ, cameraQ', {RequestFor(z)})
  BY <1>1, <1>2, PutAdds, Names
<1>4. Quiet' /\ Working'
  <2>1. {RequestFor(z)} \subseteq CameraMessages
    BY <1>2 DEF CameraMessages
  <2>2. ToSet(cameraQ') \subseteq CameraMessages
    BY <1>3, <2>1, QuietAdds DEF TurnInv, Quiet
  <2>3. QED
    BY <1>1, <1>2, <2>2 DEF TurnInv, Quiet, Working, algo
<1>5. ASSUME NEW s \in Slots PROVE Single(s)' /\ Exclusive(s)'
  <2>1. Single(s) /\ Exclusive(s) /\ Kept(s)' = Kept(s) /\ pending' = pending
    BY <1>1 DEF TurnInv, Kept, camera, algo, panel
  <2>2. CASE s = z
    <3>1. Once(cameraQ', RequestFor(s))
      BY <1>2, <1>3, <2>1, <2>2, AddsOnce DEF Single, Asked
    <3>2. Single(s)'
      BY <1>1, <1>2, <2>1, <3>1 DEF Single, Follows
    <3>3. Exclusive(s)'
      BY <1>2, <2>1, <2>2 DEF Exclusive
    <3>4. QED
      BY <3>2, <3>3
  <2>3. CASE s # z
    <3>1. RequestFor(s) \notin {RequestFor(z)}
      BY <1>2, <2>3, Different
    <3>2. Follows(cameraQ, cameraQ', RequestFor(s)) /\ Follows(algoQ, algoQ', AnswerTo(s))
      BY <1>1, <1>3, <3>1, FollowsAdds, FollowsSame
    <3>3. QED
      BY <1>2, <2>1, <3>2, SlotKeeps
  <2>4. QED
    BY <2>2, <2>3
<1>6. ASSUME NEW d \in Panels PROVE Shown(d)'
  <2>1. Shown(d) /\ d \in Slots /\ d # z
    BY <1>1, Names DEF TurnInv
  <2>2. RequestFor(d) \notin {RequestFor(z)}
    BY <1>2, <2>1, Different
  <2>3. Asked(d)' => Asked(d)
    BY <1>3, <2>2, AddsIn DEF Asked
  <2>4. /\ pending' = pending /\ requestMsg' = requestMsg /\ responseMsg' = responseMsg
        /\ blit' = blit /\ newBuffer' = newBuffer /\ current' = current /\ next' = next
        /\ scanned' = scanned
    BY <1>1 DEF camera, panel, msgs
  <2>5. QED
    BY <2>1, <2>3, <2>4, ShownKeeps
<1>7. QED
  BY <1>4, <1>5, <1>6 DEF TurnInv

(* The stores of a panel's blit hand its answer to the interrupt, which    *)
(* takes it when the blit has returned.                                    *)
LEMMA BlitTurn ==
  ASSUME TypeInv, TurnInv, NEW z \in Panels,
         BlitSetsFlag(z) \/ BlitSetsCurrent(z) \/ BlitSetsNext(z)
  PROVE  TurnInv'
<1>z. z \in Displays /\ z \in Slots
  BY Names
<1>t. /\ blit \in [Panels -> 0 .. 2] /\ newBuffer \in [Panels -> BOOLEAN]
      /\ DOMAIN current = Panels /\ DOMAIN next = Panels
  BY DEF TypeInv, TypeOK
<1>1. CASE BlitSetsFlag(z) \/ BlitSetsCurrent(z)
  <2>1. /\ UNCHANGED <<queues, camera, algo, next, scanned, msgs>>
        /\ blit'[z] # 0 /\ \A d \in Panels \ {z} : blit'[d] = blit[d]
        /\ \A d \in Panels \ {z} : newBuffer'[d] = newBuffer[d] /\ current'[d] = current[d]
        /\ \/ blit'[z] = 1 /\ newBuffer'[z]
           \/ blit[z] = 1 /\ newBuffer'[z] = newBuffer[z] /\ current'[z] = responseMsg[z]
    BY <1>1, <1>t DEF BlitSetsFlag, BlitSetsCurrent
  <2>2. Quiet' /\ Working'
    BY <2>1 DEF TurnInv, Quiet, Working, algo, queues
  <2>3. ASSUME NEW s \in Slots PROVE Single(s)' /\ Exclusive(s)'
    <3>1. Kept(s)' => Kept(s)
      BY <2>1 DEF Kept, algo
    <3>2. /\ Single(s) /\ Exclusive(s) /\ pending' = pending
          /\ cameraQ' = cameraQ /\ displayQ' = displayQ /\ algoQ' = algoQ
      BY <2>1 DEF TurnInv, queues, camera
    <3>3. QED
      BY <3>1, <3>2, SlotKeeps, FollowsSame
  <2>4. ASSUME NEW d \in Panels PROVE Shown(d)'
    <3>1. Shown(d) /\ Asked(d)' = Asked(d) /\ pending' = pending /\ next' = next
          /\ scanned' = scanned /\ requestMsg' = requestMsg /\ responseMsg' = responseMsg
      BY <2>1 DEF TurnInv, Asked, queues, camera, msgs
    <3>2. CASE d = z
      BY <2>1, <3>1, <3>2 DEF Shown
    <3>3. CASE d # z
      BY <2>1, <3>1, <3>3, ShownKeeps
    <3>4. QED
      BY <3>2, <3>3
  <2>5. QED
    BY <2>2, <2>3, <2>4 DEF TurnInv
<1>2. CASE BlitSetsNext(z)
  <2>1. /\ displayQ' = Tail(displayQ) /\ blit[z] = 2
        /\ UNCHANGED <<cameraQ, algoQ, camera, algo, msgs>>
        /\ UNCHANGED <<newBuffer, current, scanned>>
        /\ blit'[z] = 0 /\ next'[z] = responseMsg[z]
        /\ \A d \in Panels \ {z} : blit'[d] = blit[d] /\ next'[d] = next[d]
    BY <1>2, <1>t DEF BlitSetsNext
  <2>2. Shows(z)
    BY <2>1 DEF TypeInv, Blitting
  <2>3. /\ ~Answered(z)' /\ ~Asked(z) /\ pending[z] = None
        /\ ToSet(displayQ') \subseteq DisplayAnswers
        /\ \A x : Follows(displayQ, displayQ', x)
    BY <1>z, <2>1, <2>2, ShownTaken
  <2>4. Quiet' /\ Working'
    BY <2>1, <2>3 DEF TurnInv, Quiet, Working, algo
  <2>5. ASSUME NEW s \in Slots PROVE Single(s)' /\ Exclusive(s)'
    <3>1. Single(s) /\ Exclusive(s) /\ pending' = pending /\ Asked(s)' = Asked(s)
      BY <2>1 DEF TurnInv, Asked, camera
    <3>2. Follows(cameraQ, cameraQ', RequestFor(s)) /\ Follows(algoQ, algoQ', AnswerTo(s))
      BY <2>1, FollowsSame
    <3>3. CASE s = z
      <4>1. Single(s)'
        BY <2>3, <3>1, <3>2 DEF Single, Follows
      <4>2. Exclusive(s)'
        BY <2>3, <3>1, <3>3 DEF Exclusive
      <4>3. QED
        BY <4>1, <4>2
    <3>4. CASE s # z
      <4>1. Kept(s)' => Kept(s)
        BY <2>1, <3>4 DEF Kept, algo
      <4>2. QED
        BY <2>3, <3>1, <3>2, <4>1, SlotKeeps
    <3>5. QED
      BY <3>3, <3>4
  <2>6. ASSUME NEW d \in Panels PROVE Shown(d)'
    <3>1. Shown(d) /\ Asked(d)' = Asked(d) /\ pending' = pending
          /\ newBuffer' = newBuffer /\ current' = current
          /\ scanned' = scanned /\ requestMsg' = requestMsg /\ responseMsg' = responseMsg
      BY <2>1 DEF TurnInv, Asked, camera, msgs
    <3>2. CASE d = z
      BY <2>1, <2>3, <3>1, <3>2 DEF Shown
    <3>3. CASE d # z
      BY <2>1, <3>1, <3>3, ShownKeeps
    <3>4. QED
      BY <3>2, <3>3
  <2>7. QED
    BY <2>4, <2>5, <2>6 DEF TurnInv
<1>3. QED
  BY <1>1, <1>2

(* The interrupt between two blits asks for the buffer that is not shown.  *)
LEMMA PanelTurn ==
  ASSUME TypeInv, TurnInv, NEW z \in Panels, PanelFrameDone(z), blit[z] = 0
  PROVE  TurnInv'
<1>1. /\ UNCHANGED <<displayQ, algoQ, camera, algo, responseMsg>>
      /\ UNCHANGED <<blit, current, next>>
      /\ scanned'[z] = next[z] /\ ~newBuffer'[z] /\ Queue(cameraQ)
      /\ \A d \in Panels \ {z} : scanned'[d] = scanned[d] /\ newBuffer'[d] = newBuffer[d]
      /\ z \in Displays /\ z \in Slots /\ Shown(z) /\ Exclusive(z)
      /\ z \notin Frames
  BY Names, SlotsAssumption DEF PanelFrameDone, TypeInv, TypeOK, Queue, TurnInv
<1>2. next[z] \in {0, 1} /\ z \notin ready
  BY <1>1 DEF TypeInv, TypeOK, Buffers
<1>3. CASE ~newBuffer[z]
  <2>1. cameraQ' = cameraQ /\ requestMsg' = requestMsg
    BY <1>3 DEF PanelFrameDone
  <2>2. Quiet' /\ Working'
    BY <1>1, <2>1 DEF TurnInv, Quiet, Working, algo
  <2>3. ASSUME NEW s \in Slots PROVE Single(s)' /\ Exclusive(s)'
    <3>1. Kept(s)' => Kept(s)
      BY <1>1 DEF Kept, algo
    <3>2. Single(s) /\ Exclusive(s) /\ pending' = pending
      BY <1>1 DEF TurnInv, camera
    <3>3. QED
      BY <1>1, <2>1, <3>1, <3>2, SlotKeeps, FollowsSame
  <2>4. ASSUME NEW d \in Panels PROVE Shown(d)'
    <3>1. Shown(d) /\ Asked(d)' = Asked(d) /\ pending' = pending
      BY <1>1, <2>1 DEF TurnInv, Asked, camera
    <3>2. CASE d = z
      BY <1>1, <1>3, <2>1, <3>1, <3>2 DEF Shown
    <3>3. CASE d # z
      BY <1>1, <2>1, <3>1, <3>3, ShownKeeps
    <3>4. QED
      BY <3>2, <3>3
  <2>5. QED
    BY <2>2, <2>3, <2>4 DEF TurnInv
<1>4. CASE newBuffer[z]
  <2>1. Kept(z) /\ ~Asked(z) /\ pending[z] = None /\ ~Answered(z)
    BY <1>1, <1>4 DEF Kept, Exclusive
  <2>2. current[z] = next[z]
    BY <1>1, <1>4 DEF Shown
  <2>3. /\ requestMsg' = [requestMsg EXCEPT ![z] =
                            [buffer |-> 1 - current[z], source |-> source[z]]]
        /\ cameraQ' = Put(cameraQ, RequestFor(z))
    BY <1>2, <1>4, <2>2, Names DEF PanelFrameDone, Buffers
  <2>4. /\ requestMsg'[z].buffer = 1 - next[z]
        /\ \A d \in Displays \ {z} : requestMsg'[d] = requestMsg[d]
    BY <1>1, <2>2, <2>3 DEF TypeInv, TypeOK
  <2>5. Adds(cameraQ, cameraQ', {RequestFor(z)})
    BY <1>1, <2>3, PutAdds, Names
  <2>6. Quiet' /\ Working'
    <3>1. {RequestFor(z)} \subseteq CameraMessages
      BY <1>1 DEF CameraMessages
    <3>2. ToSet(cameraQ') \subseteq CameraMessages
      BY <2>5, <3>1, QuietAdds DEF TurnInv, Quiet
    <3>3. QED
      BY <1>1, <3>2 DEF TurnInv, Quiet, Working, algo
  <2>7. ASSUME NEW s \in Slots PROVE Single(s)' /\ Exclusive(s)'
    <3>1. Single(s) /\ Exclusive(s) /\ pending' = pending /\ Answered(s)' = Answered(s)
      BY <1>1 DEF TurnInv, Answered, camera
    <3>2. Kept(s)' => Kept(s)
      BY <1>1 DEF Kept, algo
    <3>3. CASE s = z
      <4>1. Once(cameraQ', RequestFor(s))
        BY <2>1, <2>5, <3>1, <3>3, AddsOnce DEF Single, Asked
      <4>2. Single(s)'
        BY <1>1, <3>1, <4>1 DEF Single
      <4>3. ~Kept(s)'
        BY <1>1, <1>2, <3>3 DEF Kept, algo
      <4>4. Exclusive(s)'
        BY <2>1, <3>1, <3>3, <4>3 DEF Exclusive
      <4>5. QED
        BY <4>2, <4>4
    <3>4. CASE s # z
      <4>1. RequestFor(s) \notin {RequestFor(z)}
        BY <1>1, <3>4, Different
      <4>2. /\ Follows(cameraQ, cameraQ', RequestFor(s))
            /\ Follows(displayQ, displayQ', AnswerTo(s)) /\ Follows(algoQ, algoQ', AnswerTo(s))
        BY <1>1, <2>5, <4>1, FollowsAdds, FollowsSame
      <4>3. QED
        BY <3>1, <3>2, <4>2, SlotKeeps
    <3>5. QED
      BY <3>3, <3>4
  <2>8. ASSUME NEW d \in Panels PROVE Shown(d)'
    <3>1. Shown(d) /\ pending' = pending /\ d \in Displays /\ d \in Slots
      BY <1>1, Names DEF TurnInv, camera
    <3>2. CASE d = z
      <4>1. requestMsg'[d].buffer \notin {next[d]}
        BY <1>2, <2>4, <3>2
      <4>2. QED
        BY <1>1, <2>1, <3>1, <3>2, <4>1 DEF Shown
    <3>3. CASE d # z
      <4>1. RequestFor(d) \notin {RequestFor(z)}
        BY <1>1, <3>1, <3>3, Different
      <4>2. Asked(d)' => Asked(d)
        BY <2>5, <4>1, AddsIn DEF Asked
      <4>3. QED
        BY <1>1, <2>4, <3>1, <3>3, <4>2, ShownKeeps
    <3>4. QED
      BY <3>2, <3>3
  <2>9. QED
    BY <2>6, <2>7, <2>8 DEF TurnInv
<1>5. newBuffer[z] \in BOOLEAN
  BY DEF TypeInv, TypeOK
<1>6. QED
  BY <1>3, <1>4, <1>5

(* Every step keeps a slot in one place. *)
LEMMA TurnStep == Calm /\ TypeInv /\ TurnInv /\ [Next]_vars => TurnInv'
<1> SUFFICES ASSUME Calm, TypeInv, TurnInv, [Next]_vars PROVE TurnInv'
  OBVIOUS
<1>1. CASE Next
  <2>1. \/ CaptureFrame \/ TakeRequest \/ TakeOther \/ Hand \/ PostOther
        \/ \E format \in Formats : Dequeue(format)
        \/ FrameReady \/ RunReturns
        \/ \E d \in Screens : BlitScreen(d)
        \/ \E d \in Panels : BlitSetsFlag(d) \/ BlitSetsCurrent(d) \/ BlitSetsNext(d)
        \/ \E d \in Panels : PanelFrameDone(d) /\ blit[d] = 0
    BY <1>1, CalmSteps DEF TurnInv
  <2>2. QED
    BY <2>1, SendTurn, TakeTurn, HandTurn, ReadyTurn, ReturnTurn, ScreenTurn, BlitTurn, PanelTurn
<1>2. CASE UNCHANGED vars
  <2>1. UNCHANGED <<queues, pending, algo, panel, msgs>>
    BY <1>2 DEF vars, camera
  <2>2. Quiet' /\ Working'
    BY <2>1 DEF TurnInv, Quiet, Working, algo, queues
  <2>3. ASSUME NEW s \in Slots PROVE Single(s)' /\ Exclusive(s)'
    BY <2>1 DEF TurnInv, Single, Exclusive, Asked, Answered, Kept, queues, algo, panel
  <2>4. ASSUME NEW d \in Panels PROVE Shown(d)'
    BY <2>1 DEF TurnInv, Shown, Asked, queues, panel, msgs
  <2>5. QED
    BY <2>2, <2>3, <2>4 DEF TurnInv
<1>3. QED
  BY <1>1, <1>2

(* While the interrupt does not come in the middle of a blit, and the      *)
(* algorithm and the source are left alone, no frame is written while the  *)
(* algorithm or the panel reads it, whatever is dropped from full queues.  *)
THEOREM FramesNotTorn ==
  ASSUME Calm
  PROVE  Spec => []NotTorn
<1> DEFINE Inv == TypeInv /\ TurnInv
<1>1. Init => Inv
  BY TypeInit, TurnInit
<1>2. Inv /\ [Next]_vars => Inv'
  BY TypeStep, TurnStep
<1>3. Inv => NotTorn
  <2> SUFFICES ASSUME Inv PROVE NotTorn
    OBVIOUS
  <2>1. FrameNotTorn
    <3> SUFFICES ASSUME drawing \in Frames, drawing \in ready PROVE FALSE
      BY DEF FrameNotTorn
    <3>1. drawing \in Slots /\ pending[drawing] # None
      BY Names DEF TypeInv, Drawn
    <3>2. QED
      BY <3>1 DEF TurnInv, Exclusive, Kept
  <2>2. PanelNotTorn
    <3> SUFFICES ASSUME drawing \in Panels
                 PROVE  pending[drawing].buffer \notin {scanned[drawing], next[drawing]}
      BY DEF PanelNotTorn
    <3>1. pending[drawing] # None
      BY Names DEF TypeInv, Drawn
    <3>2. QED
      BY <3>1 DEF TurnInv, Shown
  <2>3. QED
    BY <2>1, <2>2 DEF NotTorn
<1>4. QED
  BY <1>1, <1>2, <1>3, PTL DEF Spec

-----------------------------------------------------------------------------
(***************************************************************************)
(* Every captured frame is announced.                                      *)
(***************************************************************************)

(* A message of another kind changes no count, and one that is taken       *)
(* changes that of its own.                                                *)
LEMMA CountSame ==
  ASSUME NEW q, Queue(q), NEW m \in Message, NEW id, m.id # id
  PROVE  Waiting(Put(q, m), id) = Waiting(q, id)
BY PutWaiting

(* The camera manager's queue has room for one more announcement. *)
LEMMA RoomToAnnounce ==
  ASSUME Fits, TypeInv, TurnInv, CountInv, active = 2
  PROVE  Len(cameraQ) < QueueLength
<1>1. Queue(cameraQ) /\ \A s \in Slots : Once(cameraQ, RequestFor(s))
  BY DEF TypeInv, TypeOK, Queue, TurnInv, Single
<1>2. \A m \in CameraMessages : m.id \in {"request", "dequeue", "other"}
  BY DEF CameraMessages, RequestFor, Msg
<1>3. \A i \in DOMAIN cameraQ : cameraQ[i].id \in {"request", "dequeue", "other"}
  BY <1>2 DEF TurnInv, Quiet, ToSet
<1>4. Len(cameraQ) <= Cardinality(Slots) + Waiting(cameraQ, "dequeue") + Waiting(cameraQ, "other")
  BY <1>1, <1>3, QueueIsShort
<1>5. /\ Len(cameraQ) \in Nat /\ Waiting(cameraQ, "other") \in Nat
      /\ Waiting(cameraQ, "dequeue") = filled /\ Waiting(cameraQ, "other") <= MaxOthers
  BY <1>1, Places, WaitingIs DEF CountInv, EveryFrameAnnounced
<1>6. Cardinality(Slots) \in Nat
  BY SlotsAssumption, FS_CardinalityType
<1>7. filled \in Nat /\ BufferCount \in Nat /\ MaxOthers \in Nat /\ QueueLength \in Nat
  BY BufferAssumption, BoundAssumption DEF TypeInv, TypeOK
<1>8. filled + 2 <= BufferCount
  <2>1. CASE serving = None
    <3>1. Empty = BufferCount - filled - 2 - 0
      BY <2>1 DEF Empty
    <3>2. QED
      BY <1>7, <3>1 DEF TypeInv, Ring
  <2>2. CASE serving # None
    <3>1. Empty = BufferCount - filled - 2 - 1
      BY <2>2 DEF Empty
    <3>2. QED
      BY <1>7, <3>1 DEF TypeInv, Ring
  <2>3. QED
    BY <2>1, <2>2
<1>9. QED
  BY <1>4, <1>5, <1>6, <1>7, <1>8 DEF Fits

(* Every step keeps the announcements and the full buffers in step. *)
LEMMA CountStep ==
  Calm /\ Fits /\ TypeInv /\ TurnInv /\ CountInv /\ [Next]_vars => CountInv'
<1> SUFFICES ASSUME Calm, Fits, TypeInv, TurnInv, CountInv, [Next]_vars PROVE CountInv'
  OBVIOUS
<1>q. /\ Queue(cameraQ) /\ filled \in Nat /\ MaxOthers \in Nat
      /\ Waiting(cameraQ, "dequeue") = filled
      /\ Waiting(cameraQ, "other") \in Nat /\ Waiting(cameraQ, "other") <= MaxOthers
  <2>1. Queue(cameraQ) /\ filled \in Nat /\ MaxOthers \in Nat
    BY BufferAssumption, BoundAssumption DEF TypeInv, TypeOK, Queue
  <2>2. QED
    BY <2>1, WaitingIs DEF CountInv, EveryFrameAnnounced
<1>m. /\ \A id \in {"dequeue", "other"} : Msg(id) \in Message /\ Msg(id).id = id
      /\ \A s \in Slots : RequestFor(s) \in Message /\ RequestFor(s).id = "request"
  BY Names DEF Msg, RequestFor
<1>s. /\ filled' = filled /\ Waiting(cameraQ', "dequeue") = Waiting(cameraQ, "dequeue")
      /\ Waiting(cameraQ', "other") = Waiting(cameraQ, "other")
      => CountInv'
  BY <1>q DEF CountInv, EveryFrameAnnounced
<1>1. CASE CaptureFrame
  <2>1. CASE active = 2
    <3>1. filled' = filled + 1 /\ cameraQ' = Put(cameraQ, Msg("dequeue"))
      BY <1>1, <2>1 DEF CaptureFrame
    <3>2. Len(cameraQ) < QueueLength
      BY <2>1, RoomToAnnounce
    <3>3. Waiting(cameraQ', "dequeue") = filled'
      BY <1>q, <1>m, <3>1, <3>2, PutWaiting
    <3>4. Waiting(cameraQ', "other") = Waiting(cameraQ, "other")
      BY <1>q, <1>m, <3>1, CountSame
    <3>5. QED
      BY <1>q, <3>3, <3>4 DEF CountInv, EveryFrameAnnounced
  <2>2. CASE active # 2
    <3>1. filled' = filled + 0 /\ cameraQ' = cameraQ
      BY <1>1, <2>2 DEF CaptureFrame
    <3>2. QED
      BY <1>q, <1>s, <3>1
  <2>3. QED
    BY <2>1, <2>2
<1>2. CASE TakeRequest \/ TakeOther \/ \E format \in Formats : Dequeue(format)
  <2>1. cameraQ # <<>> /\ cameraQ' = Tail(cameraQ)
    BY <1>2 DEF TakeRequest, TakeOther, Dequeue, Receive
  <2>2. Queue(cameraQ')
    BY <1>q, <2>1, TailIs
  <2>3. \A id : /\ Waiting(cameraQ', id) \in Nat
                /\ Waiting(cameraQ, id) =
                     Waiting(cameraQ', id) + (IF Head(cameraQ).id = id THEN 1 ELSE 0)
    BY <1>q, <2>1, <2>2, TailWaiting, WaitingIs
  <2>4. CASE TakeRequest
    <3>1. Head(cameraQ).id = "request" /\ filled' = filled
      BY <2>4 DEF TakeRequest, Receive, csi
    <3>2. QED
      BY <1>q, <1>s, <2>3, <3>1
  <2>5. CASE TakeOther
    <3>1. Head(cameraQ).id = "other" /\ filled' = filled
      BY <2>5 DEF TakeOther, Receive, csi
    <3>2. Waiting(cameraQ', "dequeue") = filled'
      BY <1>q, <2>3, <3>1
    <3>3. Waiting(cameraQ', "other") <= MaxOthers
      BY <1>q, <2>3, <3>1
    <3>4. QED
      BY <3>2, <3>3 DEF CountInv, EveryFrameAnnounced
  <2>6. CASE \E format \in Formats : Dequeue(format)
    <3>1. Head(cameraQ).id = "dequeue" /\ filled' = filled - 1
      BY <2>6 DEF Dequeue, Receive
    <3>2. Waiting(cameraQ', "dequeue") = filled'
      BY <1>q, <2>3, <3>1
    <3>3. Waiting(cameraQ', "other") <= MaxOthers
      BY <1>q, <2>3, <3>1
    <3>4. QED
      BY <3>2, <3>3 DEF CountInv, EveryFrameAnnounced
  <2>7. QED
    BY <1>2, <2>4, <2>5, <2>6
<1>3. CASE PostOther
  <2>1. /\ cameraQ' = Put(cameraQ, Msg("other")) /\ filled' = filled
        /\ Waiting(cameraQ, "other") < MaxOthers
    BY <1>3 DEF PostOther, csi
  <2>2. Waiting(cameraQ', "dequeue") = filled'
    BY <1>q, <1>m, <2>1, CountSame
  <2>3. Waiting(cameraQ', "other") <= Waiting(cameraQ, "other") + 1
    BY <1>q, <1>m, <2>1, PutWaiting
  <2>4. Waiting(cameraQ', "other") <= MaxOthers
    <3>1. Queue(cameraQ')
      BY <1>q, <1>m, <2>1, PutAdds
    <3>2. Waiting(cameraQ', "other") \in Nat
      BY <3>1, WaitingIs
    <3>3. QED
      BY <1>q, <2>1, <2>3, <3>2
  <2>5. QED
    BY <2>2, <2>4 DEF CountInv, EveryFrameAnnounced
<1>4. CASE RunReturns
  <2>1. /\ filled' = filled /\ Frames \subseteq Slots
        /\ cameraQ' = cameraQ \/ cameraQ' = Ask(cameraQ, Frames)
    BY <1>4, Names DEF RunReturns, csi
  <2>2. QED
    BY <1>q, <1>s, <2>1, AskWaiting
<1>5. CASE \/ \E d \in Screens : BlitScreen(d)
           \/ \E d \in Panels : PanelFrameDone(d)
  <2>1. PICK d \in Slots : cameraQ' = cameraQ \/ cameraQ' = Put(cameraQ, RequestFor(d))
    BY <1>5, Names DEF BlitScreen, PanelFrameDone
  <2>2. filled' = filled
    BY <1>5 DEF BlitScreen, PanelFrameDone, csi
  <2>3. QED
    BY <1>q, <1>m, <1>s, <2>1, <2>2, CountSame
<1>6. CASE \/ Hand \/ FrameReady \/ UNCHANGED vars
           \/ \E d \in Panels : BlitSetsFlag(d) \/ BlitSetsCurrent(d) \/ BlitSetsNext(d)
  <2>1. cameraQ' = cameraQ /\ filled' = filled
    BY <1>6 DEF Hand, Draw, Answer, Enqueue, FrameReady, BlitSetsFlag, BlitSetsCurrent,
                BlitSetsNext, vars, queues, csi
  <2>2. QED
    BY <1>s, <2>1
<1>7. CASE Next
  <2>1. \/ CaptureFrame \/ TakeRequest \/ TakeOther \/ Hand \/ PostOther
        \/ \E format \in Formats : Dequeue(format)
        \/ FrameReady \/ RunReturns
        \/ \E d \in Screens : BlitScreen(d)
        \/ \E d \in Panels : BlitSetsFlag(d) \/ BlitSetsCurrent(d) \/ BlitSetsNext(d)
        \/ \E d \in Panels : PanelFrameDone(d) /\ blit[d] = 0
    BY <1>7, CalmSteps DEF TurnInv
  <2>2. QED
    BY <2>1, <1>1, <1>2, <1>3, <1>4, <1>5, <1>6
<1>8. QED
  BY <1>6, <1>7

(* At the beginning no buffer is full, and only requests wait. *)
LEMMA CountInit == Init => CountInv
<1> SUFFICES ASSUME Init PROVE CountInv
  OBVIOUS
<1>1. cameraQ = Ask(<<>>, Slots) /\ filled = 0
  BY DEF Init
<1>2. ASSUME NEW id PROVE Waiting(<<>>, id) = 0
  <2>1. At(<<>>, id) = {}
    BY DEF At
  <2>2. QED
    BY <2>1, FS_EmptySet, WaitingIs, EmptyIsQueue
<1>3. Waiting(cameraQ, "dequeue") = 0 /\ Waiting(cameraQ, "other") = 0
  BY <1>1, <1>2, EmptyIsQueue, AskWaiting
<1>4. QED
  BY <1>1, <1>3, BoundAssumption DEF CountInv, EveryFrameAnnounced

(* If the camera manager's queue is long enough for a request of every     *)
(* slot, all but one of the driver's buffers and the other messages, then  *)
(* every frame the interrupt captured is announced by one message: none is *)
(* lost, and the driver gets every buffer back.                            *)
THEOREM FramesAnnounced ==
  ASSUME Calm, Fits
  PROVE  Spec => []EveryFrameAnnounced
<1> DEFINE Inv == TypeInv /\ TurnInv /\ CountInv
<1>1. Init => Inv
  BY TypeInit, TurnInit, CountInit
<1>2. Inv /\ [Next]_vars => Inv'
  BY TypeStep, TurnStep, CountStep
<1>3. Inv => EveryFrameAnnounced
  BY DEF CountInv
<1>4. QED
  BY <1>1, <1>2, <1>3, PTL DEF Spec

=============================================================================
