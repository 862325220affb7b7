---------------------------- MODULE MCOasisLite ----------------------------
(* TLC instances of OasisLite: the kinds of events that arrive. *)
EXTENDS OasisLite

Modal    == {"startRec", "stopRec", "addUser", "stopReg", "delUser", "stopDereg"}
Blocking == {"recordStart", "recordStop", "oasisStart", "oasisStop"}
Power    == {"lpmOn", "lpmOff"}
All      == Modal \cup Blocking \cup Power \cup {"addUserRemote"}
=============================================================================
