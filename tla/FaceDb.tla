------------------------------- MODULE FaceDb -------------------------------
(***************************************************************************)
(* The face database of the smart lock                                     *)
(* (src/smart_lock/HAL/face_rec/hal_sln_facedb.c).  A table of MaxFaces    *)
(* entries lives in RAM beside a metadata record; in flash there is one    *)
(* file per face and one metadata file, each replaced atomically by the    *)
(* file system, but never both at once.  Every call of the API holds the   *)
(* database mutex; all callers run in the vision algorithm task, so there  *)
(* is one call in progress at a time, and power may be lost between any    *)
(* two of its flash operations.                                            *)
(***************************************************************************)
EXTENDS Naturals, FiniteSets

CONSTANTS
  MaxFaces,    \* MAX_FACE_DB_SIZE, the number of slots
  CountMax,    \* UINT16_MAX, the largest value of the 16 bit count of faces
  Names,       \* user names
  Faces,       \* face features
  Versions,    \* values of <<FEATURE_VERSION, MODEL_VERSION>> over firmwares
  AutosaveVersions, \* those built with AUTOSAVE 1, which save every change at once
  Faults,      \* kinds of flash operation that may fail: "write", "remove", "read"
  Interrupts,  \* windows in which power may be lost: "firstBoot", "delete";
               \* it may be lost at every other point in any case
  NoEntry,     \* a cleared entry, a missing file
  NoMeta,      \* the metadata file does not exist
  NoId         \* INVALID_ID

ASSUME MaxFacesAssumption ==
  CountMax \in Nat /\ MaxFaces \in Nat \ {0} /\ MaxFaces < CountMax
ASSUME OptionsAssumption ==
  /\ AutosaveVersions \subseteq Versions
  /\ Faults \subseteq {"write", "remove", "read"}
  /\ Interrupts \subseteq {"firstBoot", "delete"}
ASSUME SentinelAssumption ==
  /\ NoEntry \notin [name : Names, face : Faces]
  /\ NoId \notin 0 .. MaxFaces - 1
  /\ NoMeta \notin [version : Versions, numberFaces : 0 .. CountMax,
                    mapping : [0 .. MaxFaces - 1 -> SUBSET {"Saved", "Updated"}]]

VARIABLES
  entry,        \* s_FaceDB
  mapping,      \* s_OasisMetadata.faceMapping, a set of flags per slot
  numberFaces,  \* s_OasisMetadata.numberFaces, 16 bits
  dir,          \* the directory OASIS_DIR exists
  meta,         \* contents of METADATA_FILE_NAME
  file,         \* contents of the file of each slot
  version,      \* version built into the running firmware
  locked,       \* s_FaceDBLock is taken
  pc,           \* point reached by the vision algorithm task
  req,          \* the call it makes, kept until the next one
  resp,         \* the status that call returned
  loop          \* locals of the loops over all slots

ram   == <<entry, mapping, numberFaces>>
flash == <<dir, meta, file>>
task  == <<locked, pc, req, resp, loop>>
vars  == <<entry, mapping, numberFaces, dir, meta, file, version,
           locked, pc, req, resp, loop>>

Slots == 0 .. MaxFaces - 1

(* The AUTOSAVE build option of the running firmware. *)
Autosave == version \in AutosaveVersions
Entry == [name : Names, face : Faces]

(***************************************************************************)
(* Flags of a slot.  The metadata file never holds the flag "Used".        *)
(***************************************************************************)
Flags     == {"Saved", "Updated", "Used"}
InFlash   == {"Saved", "Updated"}
Used(id)  == "Used" \in mapping[id]
UsedIds   == {id \in Slots : Used(id)}
Stored(m, id) == m[id] \cap InFlash # {}

Least(S) == CHOOSE id \in S : \A other \in S : id <= other

(* numberFaces wraps at 0 and at CountMax. *)
Inc(n)    == IF n = CountMax THEN 0 ELSE n + 1
Sub(n, k) == IF k <= n THEN n - k ELSE (n + CountMax + 1) - k
Dec(n)    == Sub(n, 1)

Meta == [version : Versions, numberFaces : 0 .. CountMax,
         mapping : [Slots -> SUBSET InFlash]]

(* _Facedb_SetMetaDataDefault *)
DefaultMeta == [version |-> version, numberFaces |-> 0,
                mapping |-> [id \in Slots |-> {}]]

(* The record _Facedb_UpdateMetadata writes: no "Used" flags, and faces    *)
(* that are only in RAM are not counted.                                   *)
RamOnly == {id \in Slots : mapping[id] = {"Used"}}
(* Seeded bug: the flag "Used" is written.                                 *)
SnapshotWithUsed == [version |-> version,
                     numberFaces |-> Sub(numberFaces, Cardinality(RamOnly)),
                     mapping |-> mapping]

MetaSnapshot == [version |-> version,
                 numberFaces |-> Sub(numberFaces, Cardinality(RamOnly)),
                 mapping |-> [id \in Slots |-> mapping[id] \ {"Used"}]]

(* Calls. *)
NoReq   == [op |-> "none", id |-> NoId, entry |-> NoEntry]
Ops     == {"none", "add", "update", "delete", "deleteAll", "save"}
Request == [op : Ops, id : Slots \cup {NoId}, entry : Entry \cup {NoEntry}]
Status  == {"none", "Success", "Failed", "Full"}
NoLoop  == [todo |-> {}, last |-> "Success", dirty |-> FALSE]
Loop    == [todo : SUBSET Slots, last : {"Success", "NotExist", "Fail"},
            dirty : BOOLEAN]
PCs     == {"off", "format", "load", "failed", "idle", "enter", "addFile",
            "updateFile", "deleteFile", "deleteAll", "saveAll", "meta"}

TypeOK ==
  /\ entry \in [Slots -> Entry \cup {NoEntry}]
  /\ mapping \in [Slots -> SUBSET Flags]
  /\ numberFaces \in 0 .. CountMax
  /\ dir \in BOOLEAN
  /\ meta \in Meta \cup {NoMeta}
  /\ file \in [Slots -> Entry \cup {NoEntry}]
  /\ version \in Versions
  /\ locked \in BOOLEAN
  /\ pc \in PCs
  /\ req \in Request
  /\ resp \in Status
  /\ loop \in Loop

Cleared ==
  /\ entry' = [id \in Slots |-> NoEntry]
  /\ mapping' = [id \in Slots |-> {}]
  /\ numberFaces' = 0

(***************************************************************************)
(* A device leaves the factory with an empty file system.                  *)
(***************************************************************************)
Init ==
  /\ entry = [id \in Slots |-> NoEntry]
  /\ mapping = [id \in Slots |-> {}]
  /\ numberFaces = 0
  /\ dir = FALSE
  /\ meta = NoMeta
  /\ file = [id \in Slots |-> NoEntry]
  /\ version \in Versions
  /\ locked = FALSE
  /\ pc = "off"
  /\ req = NoReq
  /\ resp = "none"
  /\ loop = NoLoop

-----------------------------------------------------------------------------
(***************************************************************************)
(* Boot: HAL_Facedb_Init, _Facedb_Init and _Facedb_Load.  When it fails    *)
(* the vision algorithm task never leaves its initialisation ("failed").   *)
(***************************************************************************)
(* Seeded bug: the database is formatted although the directory exists.    *)
BootAlwaysFormats ==
  /\ pc = "off"
  /\ dir' = TRUE
  /\ pc' = "format"
  /\ UNCHANGED <<ram, meta, file, version, locked, req, resp, loop>>

BootMakeDir ==
  /\ pc = "off"
  /\ dir' = TRUE
  /\ pc' = IF dir THEN "load" ELSE "format"
  /\ UNCHANGED <<ram, meta, file, version, locked, req, resp, loop>>

BootMakeDirFails ==
  /\ pc = "off"
  /\ "write" \in Faults /\ ~dir
  /\ pc' = "failed"
  /\ UNCHANGED <<ram, flash, version, locked, req, resp, loop>>

(* First boot, or the last step of a change of version.  The status of     *)
(* the write is ignored.                                                   *)
BootFormat ==
  /\ pc = "format"
  /\ Cleared
  /\ \/ meta' = DefaultMeta
     \/ "write" \in Faults /\ meta' = meta
  /\ pc' = "idle"
  /\ UNCHANGED <<dir, file, version, locked, req, resp, loop>>

BootNoMeta ==
  /\ pc = "load"
  /\ meta = NoMeta \/ "read" \in Faults
  /\ pc' = "failed"
  /\ UNCHANGED <<ram, flash, version, locked, req, resp, loop>>

(* _Facedb_DeleteAllFaces on the metadata of another version: no slot has  *)
(* the flag "Used", so no file is removed; the metadata is reset when it   *)
(* counts a face.                                                          *)
BootOtherVersion ==
  /\ pc = "load"
  /\ meta # NoMeta
  /\ meta.version # version
  /\ meta' = IF meta.numberFaces = 0 THEN meta ELSE DefaultMeta
  /\ pc' = "format"
  /\ UNCHANGED <<ram, dir, file, version, locked, req, resp, loop>>

StoredIds  == {id \in Slots : Stored(meta.mapping, id)}
MissingIds == {id \in StoredIds : file[id] = NoEntry}

(* Seeded bugs: slots whose file is missing stay in use, or stay counted.  *)
BootLoadWith(kept, dropped) ==
  /\ pc = "load"
  /\ meta # NoMeta
  /\ meta.version = version
  /\ \A id \in MissingIds : \E later \in StoredIds \ MissingIds : id < later
  /\ entry' = [id \in Slots |-> IF id \in StoredIds THEN file[id] ELSE NoEntry]
  /\ mapping' = [id \in Slots |-> IF id \in kept THEN {"Saved", "Used"} ELSE {}]
  /\ numberFaces' = Sub(meta.numberFaces, Cardinality(dropped))
  /\ pc' = "meta"
  /\ UNCHANGED <<flash, version, locked, req, resp, loop>>
BootLoadKeepsMissing  == BootLoadWith(StoredIds, {})
BootLoadCountsMissing == BootLoadWith(StoredIds \ MissingIds, {})

(* _Facedb_Load succeeds: the status it returns is that of the last file   *)
(* read.  Slots whose file is missing are dropped, and the metadata is     *)
(* rewritten when a slot was dropped or held an unsaved update.            *)
BootLoad ==
  /\ pc = "load"
  /\ meta # NoMeta
  /\ meta.version = version
  /\ \A id \in MissingIds : \E later \in StoredIds \ MissingIds : id < later
  /\ entry' = [id \in Slots |-> IF id \in StoredIds THEN file[id] ELSE NoEntry]
  /\ mapping' = [id \in Slots |-> IF id \in StoredIds \ MissingIds
                                    THEN {"Saved", "Used"} ELSE {}]
  /\ numberFaces' = Sub(meta.numberFaces, Cardinality(MissingIds))
  /\ pc' = IF \E id \in StoredIds : \/ id \in MissingIds
                                    \/ "Saved" \notin meta.mapping[id]
             THEN "meta" ELSE "idle"
  /\ UNCHANGED <<flash, version, locked, req, resp, loop>>

(* _Facedb_Load fails: on a read error, or because the file of the last    *)
(* slot it reads is missing.                                               *)
BootLoadFails ==
  /\ pc = "load"
  /\ meta # NoMeta
  /\ meta.version = version
  /\ \/ \E id \in MissingIds : \A later \in StoredIds \ MissingIds : later < id
     \/ "read" \in Faults /\ StoredIds # {}
  /\ pc' = "failed"
  /\ UNCHANGED <<ram, flash, version, locked, req, resp, loop>>

(* Power is lost, or the device sleeps: only the flash survives.  The      *)
(* firmware may be another one at the next boot.                           *)
PowerLoss ==
  /\ pc # "off"
  /\ "firstBoot" \in Interrupts \/ ~(pc = "format" /\ meta = NoMeta)
  /\ "delete" \in Interrupts \/ ~(/\ req.op \in {"delete", "deleteAll"}
                                  /\ pc \in {"deleteAll", "meta"})
  /\ Cleared
  /\ version' \in Versions
  /\ locked' = FALSE
  /\ pc' = "off"
  /\ req' = NoReq
  /\ resp' = "none"
  /\ loop' = NoLoop
  /\ UNCHANGED flash

-----------------------------------------------------------------------------
(***************************************************************************)
(* Calls.  A call waits at "enter" until the mutex is free.                *)
(***************************************************************************)
Call(op, id, e) ==
  /\ pc = "idle"
  /\ req' = [op |-> op, id |-> id, entry |-> e]
  /\ resp' = "none"
  /\ pc' = "enter"
  /\ UNCHANGED <<ram, flash, version, locked, loop>>

(* The library registers a face it does not know: GenId, then AddFace.     *)
CallAdd == \E e \in Entry : Call("add", NoId, e)

(* The library refreshes the features of a known face.                     *)
CallUpdateFace ==
  \E id \in UsedIds, e \in Entry :
    /\ entry[id] # NoEntry => e.name = entry[id].name
    /\ Call("update", id, e)

(* A user is renamed, by an id that comes from outside.                    *)
CallUpdateName ==
  \E id \in Slots, e \in Entry :
    /\ entry[id] # NoEntry => e.face = entry[id].face
    /\ Call("update", id, e)

CallDelete == \E id \in Slots : Call("delete", id, NoEntry)

(* HAL_Facedb_DelFaceWithName: the first slot that holds the name.         *)
CallDeleteName ==
  \E n \in Names :
    LET match == {id \in Slots : entry[id] # NoEntry /\ entry[id].name = n}
    IN  match # {} /\ Call("delete", Least(match), NoEntry)

CallDeleteAll == Call("deleteAll", NoId, NoEntry)

(* HAL_VisionAlgoDev_OasisLite_Deinit, or the event SaveUserList.          *)
CallSave == Call("save", NoId, NoEntry)

Entering(op) == pc = "enter" /\ req.op = op /\ ~locked

(* The call returns and gives the mutex back. *)
Return(status) ==
  /\ pc' = "idle"
  /\ resp' = status
  /\ locked' = FALSE
  /\ loop' = NoLoop
  /\ UNCHANGED req

Continue(next) ==
  /\ pc' = next
  /\ locked' = TRUE
  /\ UNCHANGED <<req, resp>>

(***************************************************************************)
(* HAL_Facedb_GenId, then HAL_Facedb_AddFace on the slot it found.  No     *)
(* other task calls in between, so that slot is still free.                *)
(***************************************************************************)
GenIdFull ==
  /\ Entering("add") /\ req.id = NoId
  /\ numberFaces = MaxFaces
  /\ Return("Full")
  /\ UNCHANGED <<ram, flash, version>>

(* The count says there is room, and no slot is free. *)
GenIdNone ==
  /\ Entering("add") /\ req.id = NoId
  /\ numberFaces # MaxFaces
  /\ UsedIds = Slots
  /\ Return("Failed")
  /\ UNCHANGED <<ram, flash, version>>

(* Seeded bug: the count is taken for the first free slot.                 *)
GenIdFromCount ==
  /\ Entering("add") /\ req.id = NoId
  /\ numberFaces # MaxFaces
  /\ req' = [req EXCEPT !.id = numberFaces]
  /\ UNCHANGED <<ram, flash, version, locked, pc, resp, loop>>

GenId ==
  /\ Entering("add") /\ req.id = NoId
  /\ numberFaces # MaxFaces
  /\ UsedIds # Slots
  /\ req' = [req EXCEPT !.id = Least(Slots \ UsedIds)]
  /\ UNCHANGED <<ram, flash, version, locked, pc, resp, loop>>

AddFace ==
  /\ Entering("add") /\ req.id # NoId
  /\ entry' = [entry EXCEPT ![req.id] = req.entry]
  /\ mapping' = [mapping EXCEPT ![req.id] = {"Used"}]
  /\ numberFaces' = Inc(numberFaces)
  /\ IF Autosave THEN Continue("addFile") /\ UNCHANGED loop ELSE Return("Success")
  /\ UNCHANGED <<flash, version>>

(* _Facedb_SaveFace(id) *)
SaveFile(id) ==
  /\ file' = [file EXCEPT ![id] = entry[id]]
  /\ mapping' = [mapping EXCEPT ![id] = {"Saved", "Used"}]
  /\ UNCHANGED <<entry, numberFaces, dir, meta, version>>

SaveFileFails ==
  /\ "write" \in Faults
  /\ UNCHANGED <<ram, flash, version>>

(* Seeded bug: the metadata is not written after the file of a new face.   *)
AddFileOnly ==
  /\ pc = "addFile"
  /\ \/ SaveFile(req.id) /\ Return("Success")
     \/ SaveFileFails /\ Return("Failed")

AddFile ==
  /\ pc = "addFile"
  /\ \/ SaveFile(req.id) /\ Continue("meta") /\ UNCHANGED loop
     \/ SaveFileFails /\ Return("Failed")

(* Seeded bug: the write is repeated as long as it succeeds.               *)
WriteMetaForever ==
  /\ pc = "meta"
  /\ meta' = MetaSnapshot
  /\ UNCHANGED <<ram, dir, file, version, task>>

(* _Facedb_UpdateMetadata, retried until the write succeeds, and the       *)
(* return of the call (or of the boot) that ends with it.                  *)
WriteMeta ==
  /\ pc = "meta"
  /\ meta' = MetaSnapshot
  /\ pc' = "idle"
  /\ resp' = IF req.op = "none" THEN "none" ELSE "Success"
  /\ locked' = (req.op = "save")
  /\ loop' = NoLoop
  /\ UNCHANGED <<ram, dir, file, version, req>>

(***************************************************************************)
(* HAL_Facedb_UpdateFace and HAL_Facedb_UpdateName.                        *)
(***************************************************************************)
UpdateUnused ==
  /\ Entering("update")
  /\ ~Used(req.id)
  /\ Return("Success")
  /\ UNCHANGED <<ram, flash, version>>

Update ==
  /\ Entering("update")
  /\ Used(req.id)
  /\ entry' = [entry EXCEPT ![req.id] = req.entry]
  /\ IF Autosave
       THEN Continue("updateFile") /\ UNCHANGED <<mapping, loop>>
       ELSE /\ Return("Success")
            /\ mapping' = IF "Saved" \in mapping[req.id]
                            THEN [mapping EXCEPT ![req.id] = (@ \ {"Saved"}) \cup {"Updated"}]
                            ELSE mapping
  /\ UNCHANGED <<numberFaces, flash, version>>

(* The status of the save only chooses what is logged. *)
UpdateFile ==
  /\ pc = "updateFile"
  /\ SaveFile(req.id) \/ SaveFileFails
  /\ Return("Success")

(***************************************************************************)
(* HAL_Facedb_DelFaceWithID and _Facedb_DeleteFace.                        *)
(***************************************************************************)
DropFromRam(id) ==
  /\ entry' = [entry EXCEPT ![id] = NoEntry]
  /\ numberFaces' = Dec(numberFaces)

DeleteUnused ==
  /\ Entering("delete")
  /\ ~Used(req.id)
  /\ Return("Success")
  /\ UNCHANGED <<ram, flash, version>>

(* Seeded bug: the flags are cleared before they are looked at. *)
DeleteClearsFirst ==
  /\ Entering("delete")
  /\ Used(req.id)
  /\ DropFromRam(req.id)
  /\ mapping' = [mapping EXCEPT ![req.id] = {}]
  /\ Return("Success")
  /\ UNCHANGED <<flash, version>>

Delete ==
  /\ Entering("delete")
  /\ Used(req.id)
  /\ DropFromRam(req.id)
  /\ mapping' = [mapping EXCEPT ![req.id] = @ \ {"Used"}]
  /\ IF Stored(mapping, req.id) THEN Continue("deleteFile") /\ UNCHANGED loop
                                ELSE Return("Success")
  /\ UNCHANGED <<flash, version>>

(* _Facedb_DeleteFaceFromFlash: a missing file counts as removed. *)
DeleteFile ==
  /\ pc = "deleteFile"
  /\ mapping' = [mapping EXCEPT ![req.id] = @ \ InFlash]
  /\ file' = [file EXCEPT ![req.id] = NoEntry]
  /\ Continue("meta")
  /\ UNCHANGED <<entry, numberFaces, dir, meta, version, loop>>

DeleteFileFails ==
  /\ pc = "deleteFile"
  /\ "remove" \in Faults
  /\ Return("Failed")
  /\ UNCHANGED <<ram, flash, version>>

(***************************************************************************)
(* _Facedb_DeleteAllFaces.  loop.last is the status of the last removal.   *)
(***************************************************************************)
DeleteAll ==
  /\ Entering("deleteAll")
  /\ Continue("deleteAll")
  /\ loop' = [NoLoop EXCEPT !.todo = UsedIds]
  /\ UNCHANGED <<ram, flash, version>>

DeleteAllRamOnly ==
  /\ pc = "deleteAll" /\ loop.todo # {}
  /\ LET id == Least(loop.todo) IN
       /\ ~Stored(mapping, id)
       /\ DropFromRam(id)
       /\ mapping' = [mapping EXCEPT ![id] = @ \ {"Used"}]
       /\ loop' = [loop EXCEPT !.todo = @ \ {id}]
  /\ UNCHANGED <<flash, version, locked, pc, req, resp>>

DeleteAllFile ==
  /\ pc = "deleteAll" /\ loop.todo # {}
  /\ LET id == Least(loop.todo) IN
       /\ Stored(mapping, id)
       /\ DropFromRam(id)
       /\ mapping' = [mapping EXCEPT ![id] = {}]
       /\ file' = [file EXCEPT ![id] = NoEntry]
       /\ loop' = [todo |-> loop.todo \ {id}, dirty |-> TRUE,
                   last |-> IF file[id] = NoEntry THEN "NotExist" ELSE "Success"]
  /\ UNCHANGED <<dir, meta, version, locked, pc, req, resp>>

DeleteAllFileFails ==
  /\ pc = "deleteAll" /\ loop.todo # {}
  /\ "remove" \in Faults
  /\ LET id == Least(loop.todo) IN
       /\ Stored(mapping, id)
       /\ DropFromRam(id)
       /\ mapping' = [mapping EXCEPT ![id] = @ \ {"Used"}]
       /\ loop' = [loop EXCEPT !.todo = @ \ {id}, !.last = "Fail"]
  /\ UNCHANGED <<flash, version, locked, pc, req, resp>>

DeleteAllDone ==
  /\ pc = "deleteAll" /\ loop.todo = {}
  /\ LET wrong == numberFaces # 0 \/ loop.last # "Success" IN
       /\ IF wrong THEN Cleared ELSE UNCHANGED ram
       /\ IF loop.last # "Success" THEN Return("Failed")
          ELSE IF wrong \/ loop.dirty THEN Continue("meta") /\ UNCHANGED loop
          ELSE Return("Success")
  /\ UNCHANGED <<flash, version>>

(***************************************************************************)
(* HAL_Facedb_SaveFace: saves every face that is not in flash.  It takes   *)
(* the mutex and returns without giving it back.                           *)
(***************************************************************************)
(* Seeded bug: only faces that never were in flash are saved. *)
SaveNewOnly ==
  /\ Entering("save")
  /\ Continue("saveAll")
  /\ loop' = [NoLoop EXCEPT !.todo = RamOnly]
  /\ UNCHANGED <<ram, flash, version>>

Save ==
  /\ Entering("save")
  /\ Continue("saveAll")
  /\ loop' = [NoLoop EXCEPT !.todo = {id \in UsedIds : "Saved" \notin mapping[id]}]
  /\ UNCHANGED <<ram, flash, version>>

SaveNext ==
  /\ pc = "saveAll" /\ loop.todo # {}
  /\ LET id == Least(loop.todo) IN
       \/ /\ SaveFile(id)
          /\ loop' = [todo |-> loop.todo \ {id}, last |-> "Success", dirty |-> TRUE]
       \/ /\ SaveFileFails
          /\ loop' = [loop EXCEPT !.todo = @ \ {id}, !.last = "Fail"]
  /\ UNCHANGED <<locked, pc, req, resp>>

SaveDone ==
  /\ pc = "saveAll" /\ loop.todo = {}
  /\ IF loop.last = "Success" /\ loop.dirty
       THEN Continue("meta") /\ UNCHANGED loop
       ELSE /\ pc' = "idle"
            /\ resp' = IF loop.last = "Success" THEN "Success" ELSE "Failed"
            /\ loop' = NoLoop
            /\ UNCHANGED <<locked, req>>
  /\ UNCHANGED <<ram, flash, version>>

-----------------------------------------------------------------------------
Boot ==
  \/ BootMakeDir \/ BootMakeDirFails \/ BootFormat \/ BootNoMeta
  \/ BootOtherVersion \/ BootLoad \/ BootLoadFails

Calls ==
  \/ CallAdd \/ CallUpdateFace \/ CallUpdateName \/ CallDelete
  \/ CallDeleteName \/ CallDeleteAll \/ CallSave

Step ==
  \/ GenIdFull \/ GenIdNone \/ GenId \/ AddFace \/ AddFile
  \/ UpdateUnused \/ Update \/ UpdateFile
  \/ DeleteUnused \/ Delete \/ DeleteFile \/ DeleteFileFails
  \/ DeleteAll \/ DeleteAllRamOnly \/ DeleteAllFile \/ DeleteAllFileFails
  \/ DeleteAllDone
  \/ Save \/ SaveNext \/ SaveDone
  \/ WriteMeta

Next == Boot \/ Calls \/ Step \/ PowerLoss

Spec == Init /\ [][Next]_vars
-----------------------------------------------------------------------------
(***************************************************************************)
(* Properties.                                                             *)
(***************************************************************************)

(* The face a reboot of the same firmware would load for a slot. *)
StoredFaces == [id \in Slots |-> IF meta # NoMeta /\ id \in StoredIds
                                    THEN file[id] ELSE NoEntry]

Returned(op, status) == pc = "idle" /\ req.op = op /\ resp = status

(* numberFaces is the number of slots in use, which facedb_get_count       *)
(* reports, GenId compares with the capacity and the callers size their    *)
(* arrays with.                                                            *)
CountCorrect == numberFaces = Cardinality(UsedIds)

(* CountCorrect is inductive only with what the flash counts, with the     *)
(* absence of slots that are in flash and not in use, and with what each   *)
(* point of a call knows of the slots it works on.                         *)
MetaCounted == meta # NoMeta => meta.numberFaces = Cardinality(StoredIds)

NoZombie == \A id \in Slots :
              Stored(mapping, id) =>
                Used(id) \/ (pc = "deleteFile" /\ id = req.id)

CallKnows ==
  /\ pc = "enter" /\ req.op = "add" /\ req.id # NoId => ~Used(req.id)
  /\ pc = "enter" /\ req.op \in {"update", "delete"} => req.id # NoId
  /\ pc \in {"addFile", "updateFile"} => req.id # NoId /\ Used(req.id)
  /\ pc = "deleteFile" => req.id # NoId /\ ~Used(req.id)
  /\ pc = "deleteAll" => loop.todo = UsedIds
  /\ pc = "saveAll" => loop.todo \subseteq UsedIds

CountInv == CountCorrect /\ MetaCounted /\ NoZombie /\ CallKnows

(* A slot in use never holds a cleared entry, which the matching library   *)
(* would be given as a template.                                           *)
UsedHasFace ==
  \A id \in Slots : Used(id) => entry[id] # NoEntry

(* Between calls, HAL_Facedb_GetSaveStatus says "saved" only of a face     *)
(* that a reboot would bring back as it is in RAM.                         *)
SavedMeansStored ==
  pc = "idle" =>
    \A id \in UsedIds : "Saved" \in mapping[id] => StoredFaces[id] = entry[id]

(* A registration that reported success survives a reboot. *)
AddIsDurable ==
  Autosave /\ Returned("add", "Success") => StoredFaces[req.id] = req.entry

(* A user whose removal reported success is not back after a reboot. *)
DeleteIsDurable ==
  Returned("delete", "Success") => StoredFaces[req.id] = NoEntry

(* When the removal of all users reports success none is back after a      *)
(* reboot.                                                                 *)
DeleteAllIsDurable ==
  Returned("deleteAll", "Success") => \A id \in Slots : StoredFaces[id] = NoEntry

(* When HAL_Facedb_SaveFace reports success every face in RAM is in flash. *)
SaveIsDurable ==
  Returned("save", "Success") =>
    \A id \in UsedIds : StoredFaces[id] = entry[id]

(* What HAL_Facedb_GetSaveStatus and HAL_Facedb_SaveFace report as saved   *)
(* is in flash, also for a firmware that does not save every change.       *)
SavedIsStored == SavedMeansStored /\ SaveIsDurable

(* The database opens at every boot. *)
DatabaseOpens == pc # "failed"

(* The mutex is free between calls. *)
LockReleased == pc = "idle" => ~locked

(* A stored face disappears only by the removal of that user or of all     *)
(* users, or because the firmware's version is not the store's.            *)
StoredFaceKept ==
  [][\A id \in Slots :
       StoredFaces[id] # NoEntry /\ StoredFaces'[id] = NoEntry =>
         \/ req.op = "delete" /\ req.id = id
         \/ req.op = "deleteAll"
         \/ meta.version # version]_vars

(* The database implements the persistent map. *)
Phase == CASE pc \in {"off", "format", "load"}   -> "off"
           [] pc = "meta" /\ req.op = "none"     -> "off"
           [] pc = "failed"                      -> "failed"
           [] pc = "idle"                        -> "idle"
           [] OTHER                              -> "busy"

Store == INSTANCE FaceStore WITH
           faces   <- StoredFaces,
           written <- IF meta = NoMeta THEN NoMeta ELSE meta.version,
           phase   <- Phase

ImplementsStore == Store!Spec

(* The task keeps running once it has the processor.  WriteMeta's fairness *)
(* is the assumption that a retried flash write succeeds in the end.       *)
FairSpec == Spec /\ WF_vars(Boot) /\ WF_vars(Step)

(* Every call that gets the mutex returns, unless power is lost. *)
CallReturns == (pc = "enter" /\ ~locked) ~> (pc \in {"idle", "off"})

(* Once power stays on the database has been opened, for good. *)
BootOpens ==
  <>[][~PowerLoss]_vars => <>[](pc \notin {"off", "format", "load", "failed"})

(* The vision algorithm task does not hang in the database, nor stay in    *)
(* its initialisation.                                                     *)
NeverStuck == CallReturns /\ BootOpens
=============================================================================
