---------------------------- MODULE MCFirmwareUpdate ----------------------------
(* Banks of two sectors; the factory image of bank A, an update for each bank  *)
(* and a file for bank A that is too long for it.                              *)
EXTENDS FirmwareUpdate

CONSTANTS factory, updateA, updateB, tooLong

MCImages == {factory, updateA, updateB, tooLong}
MCFor == [i \in MCImages |-> IF i = updateB THEN "B" ELSE "A"]
MCLength == [i \in MCImages |->
              CASE i = factory -> 1 [] i = tooLong -> 3 [] OTHER -> 2]

\* What the directory entry of a copy says: the length, after a zero.
MCEntries == [i \in MCImages |-> {0, MCLength[i]}]

\* The same, and what the entry says while the copy is under way.
MCPartialEntries == [i \in MCImages |-> 0 .. MCLength[i]]

================================================================================
