------------------------------ MODULE FirmwareBanks ------------------------------
(* What the two application banks of the bootloader promise.  There is always  *)
(* one whole image to boot.  An update is prepared in the spare bank only, in  *)
(* any number of steps and with any number of interruptions; it becomes the    *)
(* active image in one step, and only when it is whole; and the image it       *)
(* replaces stays behind, whole, as the spare.                                 *)

CONSTANTS
    Images,   \* the firmware images there are
    Factory,  \* the one the device was made with
    NoImage   \* a bank that holds no whole image

VARIABLES
    active,  \* the image the next boot runs
    spare    \* the whole image in the other bank, or none

vars == <<active, spare>>

Init == active = Factory /\ spare = NoImage

\* Something is erased or written in the spare bank.
Prepare ==
    /\ spare' \in Images \cup {NoImage}
    /\ UNCHANGED active

\* The banks change places.
Activate ==
    /\ spare \in Images
    /\ active' = spare
    /\ spare' = active

Next == Prepare \/ Activate

Spec == Init /\ [][Next]_vars

================================================================================
