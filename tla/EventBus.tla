--------------------------------- MODULE EventBus ---------------------------------
(* What the input manager promises a device: an event it reports reaches every *)
(* receiver on its list, once, with the contents it was reported with.         *)
EXTENDS Naturals

CONSTANTS
    Devices,    \* the input devices the promise is made to
    Receivers,  \* the managers that receive events
    MaxEvents   \* bound: events of one device

VARIABLES
    last,     \* the number of each device's last event
    pending   \* the events each receiver has still to be told of

vars == <<last, pending>>

Init ==
    /\ last = [d \in Devices |-> 0]
    /\ pending = [r \in Receivers |-> {}]

\* A device reports its next event to the receivers on its list.
Report(d) ==
    /\ last[d] < MaxEvents
    /\ last' = [last EXCEPT ![d] = @ + 1]
    /\ \E list \in (SUBSET Receivers) \ {{}} :
           pending' = [r \in Receivers |->
               pending[r] \cup IF r \in list THEN {<<d, last'[d]>>} ELSE {}]

\* A receiver is told of one of them.
Tell(r) ==
    /\ \E e \in pending[r] : pending' = [pending EXCEPT ![r] = @ \ {e}]
    /\ UNCHANGED last

Next == (\E d \in Devices : Report(d)) \/ (\E r \in Receivers : Tell(r))

Spec == Init /\ [][Next]_vars

================================================================================
