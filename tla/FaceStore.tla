------------------------------ MODULE FaceStore ------------------------------
(***************************************************************************)
(* What the face database promises its caller when every save is           *)
(* automatic: a persistent map from slots to faces.  A call changes only   *)
(* the slots it is about, a call that reports success has made its change  *)
(* durable, a power loss leaves each slot as it was before or after the    *)
(* call in progress, and nothing but a change of firmware version discards *)
(* the faces.  FaceDb implements this specification.                       *)
(***************************************************************************)
CONSTANTS Slots, Entry, Versions, NoEntry, NoId, NoMeta

VARIABLES
  faces,    \* the face a reboot would find in each slot
  written,  \* version of the store, NoMeta before the first boot ends
  version,  \* version of the running firmware
  phase,    \* "off" (down or booting), "failed", "idle", "busy"
  req,      \* the last call
  resp      \* its status

vars == <<faces, written, version, phase, req, resp>>

Nobody == [id \in Slots |-> NoEntry]
NoReq  == [op |-> "none", id |-> NoId, entry |-> NoEntry]
Ops    == {"add", "update", "delete", "deleteAll", "save"}

Init ==
  /\ faces = Nobody
  /\ written = NoMeta
  /\ version \in Versions
  /\ phase = "off"
  /\ req = NoReq
  /\ resp = "none"

(* The store is opened, or found unusable. *)
Open ==
  /\ phase = "off"
  /\ phase' = "idle"
  /\ faces' = IF written = version THEN faces ELSE Nobody
  /\ written' = version
  /\ UNCHANGED <<version, req, resp>>

OpenFails ==
  /\ phase = "off"
  /\ phase' = "failed"
  /\ UNCHANGED <<faces, written, version, req, resp>>

(* The faces of another version are discarded. *)
Discard ==
  /\ phase = "off"
  /\ written # version
  /\ faces' = Nobody
  /\ written' = version
  /\ UNCHANGED <<version, phase, req, resp>>

Call ==
  /\ phase = "idle"
  /\ phase' = "busy"
  /\ \E op \in Ops, id \in Slots \cup {NoId}, e \in Entry \cup {NoEntry} :
       req' = [op |-> op, id |-> id, entry |-> e]
  /\ resp' = "none"
  /\ UNCHANGED <<faces, written, version>>

(* A new face never takes the slot of a stored one. *)
Choose ==
  /\ phase = "busy" /\ req.op = "add" /\ req.id = NoId
  /\ \E id \in Slots : faces[id] = NoEntry /\ req' = [req EXCEPT !.id = id]
  /\ UNCHANGED <<faces, written, version, phase, resp>>

(* The value the call in progress may give to a slot. *)
Allowed(id) ==
  CASE req.op = "add" /\ id = req.id /\ faces[id] = NoEntry    -> {req.entry}
    [] req.op = "update" /\ id = req.id /\ faces[id] # NoEntry -> {req.entry}
    [] req.op = "delete" /\ id = req.id                        -> {NoEntry}
    [] req.op = "deleteAll"                                    -> {NoEntry}
    [] OTHER                                                   -> {}

(* The effect of a call becomes durable, one slot at a time. *)
Apply(id) == \E e \in Allowed(id) : faces' = [faces EXCEPT ![id] = e]

ApplyOne ==
  /\ phase = "busy"
  /\ \E id \in Slots : Apply(id)
  /\ UNCHANGED <<written, version, phase, req, resp>>

Done ==
  CASE req.op = "add"       -> req.id \in Slots /\ faces[req.id] = req.entry
    [] req.op = "update"    -> faces[req.id] \in {req.entry, NoEntry}
    [] req.op = "delete"    -> faces[req.id] = NoEntry
    [] req.op = "deleteAll" -> faces = Nobody
    [] OTHER                -> TRUE

(* Success is only reported once the effect is durable, and "Full" only    *)
(* when there is a face in every slot.                                     *)
Return ==
  /\ phase = "busy"
  /\ phase' = "idle"
  /\ resp' \in {"Success", "Failed", "Full"}
  /\ faces' = faces \/ (req.op = "add" /\ req.id \in Slots /\ Apply(req.id))
                    \/ (req.op = "update" /\ Apply(req.id))
  /\ resp' = "Success" => Done'
  /\ resp' = "Full" => \A id \in Slots : faces[id] # NoEntry
  /\ UNCHANGED <<written, version, req>>

PowerLoss ==
  /\ version' \in Versions
  /\ phase' = "off"
  /\ req' = NoReq
  /\ resp' = "none"
  /\ UNCHANGED <<faces, written>>

Next == \/ Open \/ OpenFails \/ Discard \/ Call \/ Choose \/ ApplyOne \/ Return
        \/ PowerLoss

Spec == Init /\ [][Next]_vars
=============================================================================
