---------------------------- MODULE SettingsStore ----------------------------
(***************************************************************************)
(* What the configuration store promises: one durable value per setting.   *)
(* A request takes effect at one point between its start and its answer,   *)
(* alone or together with others; it is answered "Ok" only once power loss *)
(* can no longer undo it; and a new firmware resets the settings of a file *)
(* only if it changes the version of that file.  Nothing is promised after *)
(* an operation on the flash has failed.                                   *)
(***************************************************************************)
EXTENDS Naturals

CONSTANTS
  Tasks,      \* tasks that change settings
  Fields,     \* settings
  FileOf,     \* the file each setting is in
  Values,     \* values of a setting that pass its range check
  Invalid,    \* a value that does not
  Default,    \* factory value of each setting
  MaxVersion, \* bound: versions of a file over all firmwares
  NoReq       \* no request

VARIABLES
  stored,     \* the value of each setting after a reboot
  version,    \* version of each file in the running firmware
  up,         \* the store is open
  req,        \* the request of each task
  resp,       \* the answer to the last one
  spoiled     \* an operation on the flash has failed

vars == <<stored, version, up, req, resp, spoiled>>

Files   == {FileOf[f] : f \in Fields}
Request == [field : Fields, value : Values \cup {Invalid}]

Init ==
  /\ stored = Default
  /\ version \in [Files -> 1 .. MaxVersion]
  /\ up = FALSE
  /\ req = [t \in Tasks |-> NoReq]
  /\ resp = [t \in Tasks |-> "none"]
  /\ spoiled = FALSE

Open ==
  /\ ~up
  /\ up' = TRUE
  /\ UNCHANGED <<stored, version, req, resp, spoiled>>

Call(t) ==
  /\ up /\ req[t] = NoReq
  /\ \E r \in Request : req' = [req EXCEPT ![t] = r]
  /\ resp' = [resp EXCEPT ![t] = "none"]
  /\ UNCHANGED <<stored, version, up, spoiled>>

(* Requests whose effect becomes durable in one step. *)
Apply(S) ==
  /\ \A t \in S : req[t] # NoReq /\ req[t].value # Invalid
  /\ \A f \in Fields :
       \/ stored'[f] = stored[f] /\ \A t \in S : req[t].field # f
       \/ \E t \in S : req[t].field = f /\ stored'[f] = req[t].value
  /\ UNCHANGED <<version, up, req, resp, spoiled>>

Respond(t) ==
  /\ req[t] # NoReq
  /\ \/ resp' = [resp EXCEPT ![t] = "Ok"] /\ stored[req[t].field] = req[t].value
     \/ resp' = [resp EXCEPT ![t] = "Error"] /\ req[t].value = Invalid
  /\ req' = [req EXCEPT ![t] = NoReq]
  /\ UNCHANGED <<stored, version, up, spoiled>>

(* Power is lost; the next firmware may be a later one. *)
PowerLoss ==
  /\ \A file \in Files : version'[file] >= version[file]
  /\ stored' = [f \in Fields |->
       IF version'[FileOf[f]] = version[FileOf[f]] THEN stored[f] ELSE Default[f]]
  /\ up' = FALSE
  /\ req' = [t \in Tasks |-> NoReq]
  /\ resp' = [t \in Tasks |-> "none"]
  /\ UNCHANGED spoiled

Next ==
  \/ ~spoiled /\ ( \/ Open \/ PowerLoss
                   \/ \E t \in Tasks : Call(t) \/ Respond(t)
                   \/ \E S \in SUBSET Tasks : S # {} /\ Apply(S) )
  \/ spoiled'

Spec == Init /\ [][Next]_vars
=============================================================================
