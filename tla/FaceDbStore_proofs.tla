-------------------------- MODULE FaceDbStore_proofs --------------------------
(***************************************************************************)
(* The face database implements FaceStore, the persistent map from slots   *)
(* to faces, for every capacity, every set of users and every sequence of  *)
(* firmwares, if power may be lost anywhere and files may be unreadable,   *)
(* but a write or a removal does what it says, and every firmware saves at *)
(* once.                                                                   *)
(***************************************************************************)
EXTENDS FaceDb_proofs

Sound == Faults \subseteq {"read"} /\ AutosaveVersions = Versions

(* What the flash would hold of a slot after the metadata is written. *)
Marked(id) == IF Stored(mapping, id) THEN file[id] ELSE NoEntry
Adding(id) == req.op = "add" /\ id = req.id

(* An open store has metadata of this firmware. *)
MetaIsOurs == pc \notin Booting => meta # NoMeta /\ meta.version = version

(* RAM and flash agree about every slot but the one being added. *)
Mirrors ==
  pc \notin Booting =>
    \A id \in Slots : StoredFaces[id] = Marked(id) \/ (pc = "meta" /\ Adding(id))

(* A face in RAM has its file. *)
AllSaved ==
  pc \notin Booting =>
    \A id \in UsedIds :
      \/ "Saved" \in mapping[id] /\ file[id] # NoEntry
      \/ pc = "addFile" /\ Adding(id)

(* What each point of a call knows besides. *)
AtPoint ==
  /\ pc = "addFile" => StoredFaces[req.id] = NoEntry
  /\ pc = "meta" => req.op \in {"none", "add", "delete", "deleteAll"}
  /\ pc = "meta" /\ req.op = "add" => StoredFaces[req.id] \in {NoEntry, req.entry}
  /\ pc = "meta" /\ req.op = "deleteAll" => UsedIds = {}
  /\ pc = "updateFile" => entry[req.id] = req.entry
  /\ pc = "deleteAll" => loop.last = "Success"
  /\ pc = "saveAll" => loop.todo = {} /\ ~loop.dirty

StoreInv == MetaIsOurs /\ Mirrors /\ AllSaved /\ AtPoint

(* There is no answer before the first call. *)
BeforeCalls == req.op = "none" => resp = "none"

Known == TypeOK /\ CountInv /\ FaceInv /\ AddInv /\ FlashInv /\ BeforeCalls

-----------------------------------------------------------------------------
(* No call, no answer: a loss of power forgets both, and a boot sets none. *)
LEMMA NoAnswerYet == Spec => []BeforeCalls
<1>1. Init => BeforeCalls
  BY DEF Init, BeforeCalls
<1>2. TypeOK /\ FaceInv /\ BeforeCalls /\ [Next]_vars => BeforeCalls'
  <2> SUFFICES ASSUME TypeOK, FaceInv, BeforeCalls, [Next]_vars PROVE BeforeCalls'
    OBVIOUS
  <2> USE DEF BeforeCalls, Return, Continue, Entering, Call
  <2>1. CASE Boot \/ PowerLoss \/ UNCHANGED vars
    BY <2>1 DEF Boot, BootMakeDir, BootMakeDirFails, BootFormat, BootNoMeta,
                BootOtherVersion, BootLoad, BootLoadFails, PowerLoss, vars
  <2>2. CASE Step
    <3>1. CASE WriteMeta
      BY <3>1 DEF WriteMeta
    <3>2. CASE SaveNext \/ DeleteAllRamOnly \/ DeleteAllFile \/ DeleteAllFileFails
      BY <3>2 DEF SaveNext, DeleteAllRamOnly, DeleteAllFile, DeleteAllFileFails
    <3>3. CASE ~ (WriteMeta \/ SaveNext \/ DeleteAllRamOnly \/ DeleteAllFile
                    \/ DeleteAllFileFails)
      <4>1. req.op # "none" /\ req'.op = req.op
        BY <2>2, <3>3 DEF Step, GenIdFull, GenIdNone, GenId, AddFace, AddFile,
           UpdateUnused, Update, UpdateFile, DeleteUnused, Delete, DeleteFile,
           DeleteFileFails, DeleteAll, DeleteAllDone, Save, SaveDone, FaceInv,
           PointOfCall, TypeOK, Request
      <4>2. QED
        BY <4>1
    <3>4. QED
      BY <3>1, <3>2, <3>3
  <2>3. Calls => BeforeCalls'
    BY DEF Calls, CallAdd, CallUpdateFace, CallUpdateName, CallDelete,
           CallDeleteName, CallDeleteAll, CallSave
  <2> QED
    BY <2>1, <2>2, <2>3 DEF Next
<1>3. QED
  BY <1>1, <1>2, TypeCorrect, FaceInvariant, PTL DEF Spec

(***************************************************************************)
(* The invariant.                                                          *)
(***************************************************************************)

(* A step between two calls that changes neither a flag nor a file. *)
LEMMA StoreSame ==
  ASSUME StoreInv, pc \in {"idle", "enter"}, pc' \in {"idle", "enter"},
         UNCHANGED <<mapping, meta, file, version>>
  PROVE  StoreInv'
<1>1. StoredFaces' = StoredFaces
  BY DEF StoredFaces, StoredIds, Stored
<1>2. MetaIsOurs'
  BY DEF StoreInv, MetaIsOurs, Booting
<1>3. Mirrors'
  BY <1>1 DEF StoreInv, Mirrors, Booting, Marked, Stored
<1>4. AllSaved' /\ AtPoint'
  BY DEF StoreInv, AllSaved, AtPoint, Booting, UsedIds, Used
<1>5. QED
  BY <1>2, <1>3, <1>4 DEF StoreInv

(* The boot. *)
LEMMA StoreBoot ==
  ASSUME Sound, Known, Boot
  PROVE  StoreInv'
<1> USE DEF ram, flash
<1>1. CASE pc' \in Booting
  BY <1>1 DEF Booting, StoreInv, MetaIsOurs, Mirrors, AllSaved, AtPoint
<1>2. CASE BootFormat
  <2>1. meta' = DefaultMeta /\ meta' # NoMeta /\ pc' = "idle"
    BY <1>2, RecordTypes, NoMetaIsNone DEF BootFormat, Sound, Known, TypeOK
  <2>2. \A id \in Slots : StoredFaces'[id] = NoEntry
    BY <2>1 DEF StoredFaces, StoredIds, Stored, DefaultMeta
  <2>3. \A id \in Slots : mapping'[id] = {}
    BY <1>2 DEF BootFormat, Cleared
  <2>4. MetaIsOurs'
    BY <1>2, <2>1 DEF MetaIsOurs, BootFormat, DefaultMeta
  <2>5. Mirrors'
    BY <2>2, <2>3 DEF Mirrors, Marked, Stored
  <2>6. AllSaved' /\ AtPoint'
    BY <2>1, <2>3 DEF AllSaved, AtPoint, UsedIds, Used
  <2>7. QED
    BY <2>4, <2>5, <2>6 DEF StoreInv
<1>3. CASE BootLoad
  <2>1. req.op = "none" /\ req' = req /\ pc' \in {"idle", "meta"}
    BY <1>3 DEF BootLoad, Known, FaceInv, PointOfCall, Booting
  <2>2. StoredFaces' = StoredFaces /\ file' = file
    BY <1>3, SameFlash DEF BootLoad
  <2>3. \A id \in Slots : mapping'[id] = IF id \in StoredIds \ MissingIds
                                            THEN {"Saved", "Used"} ELSE {}
    BY <1>3 DEF BootLoad
  <2>4. \A id \in Slots : Stored(mapping', id) <=> id \in StoredIds \ MissingIds
    BY <2>3 DEF Stored, InFlash
  <2>5. Mirrors'
    BY <1>3, <2>2, <2>4 DEF Mirrors, Marked, StoredFaces, MissingIds, BootLoad
  <2>6. AllSaved'
    BY <2>2, <2>3 DEF AllSaved, UsedIds, Used, MissingIds, StoredIds
  <2>7. MetaIsOurs' /\ AtPoint'
    BY <1>3, <2>1 DEF BootLoad, MetaIsOurs, AtPoint
  <2>8. QED
    BY <2>5, <2>6, <2>7 DEF StoreInv
<1>4. QED
  BY <1>1, <1>2, <1>3 DEF Boot, BootMakeDir, BootMakeDirFails, BootNoMeta,
     BootOtherVersion, BootLoadFails, Booting

(* The steps of a registration. *)
LEMMA StoreAdd ==
  ASSUME Sound, Known, StoreInv, GenIdFull \/ GenIdNone \/ GenId \/ AddFace \/ AddFile
  PROVE  StoreInv'
<1> USE DEF ram, flash, Return, Continue, Entering
<1>1. CASE GenIdFull \/ GenIdNone \/ GenId
  BY <1>1, StoreSame DEF GenIdFull, GenIdNone, GenId
<1>2. CASE AddFace
  <2>1. /\ req.id \in Slots /\ ~Used(req.id)
        /\ pc = "enter" /\ pc' = "addFile" /\ req' = req /\ req.op = "add"
    BY <1>2 DEF AddFace, Known, TypeOK, Request, CountInv, CallKnows, Sound, Autosave
  <2>2. StoredFaces[req.id] = NoEntry
    BY <2>1, UnusedIsGone DEF Known, FlashInv, Booting
  <2>3. StoredFaces' = StoredFaces
    BY <1>2, SameFlash DEF AddFace
  <2>4. /\ \A id \in Slots \ {req.id} : mapping'[id] = mapping[id]
        /\ mapping'[req.id] = {"Used"}
    BY <1>2, <2>1 DEF AddFace, Known, TypeOK
  <2>5. Mirrors'
    BY <1>2, <2>1, <2>2, <2>3, <2>4
       DEF AddFace, StoreInv, Mirrors, Marked, Stored, InFlash, Booting
  <2>6. AllSaved'
    BY <1>2, <2>1, <2>4 DEF AddFace, StoreInv, AllSaved, Adding, UsedIds, Used, Booting
  <2>7. MetaIsOurs' /\ AtPoint'
    BY <1>2, <2>1, <2>2, <2>3 DEF AddFace, StoreInv, MetaIsOurs, AtPoint, Booting
  <2>8. QED
    BY <2>5, <2>6, <2>7 DEF StoreInv
<1>3. CASE AddFile
  <2>1. /\ req.op = "add" /\ req.id \in Slots /\ entry[req.id] = req.entry
        /\ entry[req.id] # NoEntry /\ pc = "addFile"
    BY <1>3 DEF AddFile, Known, FaceInv, PointOfCall, AddInv, AddFiled, SavesUsed,
                UsedHasFace
  <2>2. SaveFile(req.id) /\ pc' = "meta" /\ req' = req
    BY <1>3 DEF AddFile, SaveFileFails, Sound
  <2>3. /\ \A id \in Slots \ {req.id} :
              mapping'[id] = mapping[id] /\ file'[id] = file[id]
        /\ mapping'[req.id] = {"Saved", "Used"} /\ file'[req.id] = entry[req.id]
        /\ UNCHANGED <<meta, version>>
    BY <2>1, <2>2 DEF SaveFile, Known, TypeOK
  <2>4. \A id \in Slots \ {req.id} : StoredFaces'[id] = StoredFaces[id]
    BY <2>3 DEF StoredFaces, StoredIds, Stored
  <2>5. Mirrors'
    BY <2>1, <2>2, <2>3, <2>4 DEF StoreInv, Mirrors, Marked, Stored, Adding, Booting
  <2>6. AllSaved'
    BY <2>1, <2>2, <2>3 DEF StoreInv, AllSaved, Adding, UsedIds, Used, Booting
  <2>7. StoredFaces'[req.id] \in {NoEntry, req.entry}
    BY <2>1, <2>3 DEF StoredFaces
  <2>8. MetaIsOurs' /\ AtPoint'
    BY <2>1, <2>2, <2>3, <2>7 DEF StoreInv, MetaIsOurs, AtPoint, Booting
  <2>9. QED
    BY <2>5, <2>6, <2>8 DEF StoreInv
<1>4. QED
  BY <1>1, <1>2, <1>3

(* A face in use that is not being added is in flash, as its file has it. *)
LEMMA UsedIsStored ==
  ASSUME Known, StoreInv, pc \notin Booting, pc \notin {"addFile", "meta"},
         NEW id \in UsedIds
  PROVE  /\ Stored(mapping, id) /\ id \in StoredIds /\ meta # NoMeta
         /\ StoredFaces[id] = file[id] /\ file[id] # NoEntry
<1>1. id \in Slots /\ "Saved" \in mapping[id] /\ file[id] # NoEntry
  BY DEF StoreInv, AllSaved, UsedIds
<1>2. Stored(mapping, id)
  BY <1>1 DEF Stored, InFlash
<1>3. StoredFaces[id] = file[id]
  BY <1>1, <1>2 DEF StoreInv, Mirrors, Marked
<1>4. QED
  BY <1>1, <1>2, <1>3 DEF StoredFaces

(* The steps of an update. *)
LEMMA StoreUpdate ==
  ASSUME Sound, Known, StoreInv, UpdateUnused \/ Update \/ UpdateFile
  PROVE  StoreInv'
<1> USE DEF ram, flash, Return, Continue, Entering
<1>1. CASE UpdateUnused
  BY <1>1, StoreSame DEF UpdateUnused
<1>2. CASE Update
  <2>1. /\ req.id \in Slots /\ pc = "enter" /\ pc' = "updateFile"
        /\ req' = req /\ UNCHANGED <<mapping, meta, file, version>>
        /\ entry'[req.id] = req.entry
    BY <1>2 DEF Update, Known, TypeOK, FaceInv, Given, Sound, Autosave
  <2>2. StoredFaces' = StoredFaces
    BY <1>2, SameFlash DEF Update
  <2>3. QED
    BY <2>1, <2>2 DEF StoreInv, MetaIsOurs, Mirrors, AllSaved, AtPoint, Marked, Stored,
                      UsedIds, Used, Booting
<1>3. CASE UpdateFile
  <2>1. /\ req.id \in UsedIds /\ req.id \in Slots /\ entry[req.id] # NoEntry
        /\ pc = "updateFile"
    BY <1>3 DEF UpdateFile, Known, FaceInv, PointOfCall, Given, SavesUsed, UsedHasFace,
                UsedIds
  <2>2. SaveFile(req.id) /\ pc' = "idle"
    BY <1>3 DEF UpdateFile, SaveFileFails, Sound
  <2>3. /\ \A id \in Slots \ {req.id} :
              mapping'[id] = mapping[id] /\ file'[id] = file[id]
        /\ mapping'[req.id] = {"Saved", "Used"} /\ file'[req.id] = entry[req.id]
        /\ UNCHANGED <<meta, version>>
    BY <2>1, <2>2 DEF SaveFile, Known, TypeOK
  <2>4. \A id \in Slots \ {req.id} : StoredFaces'[id] = StoredFaces[id]
    BY <2>3 DEF StoredFaces, StoredIds, Stored
  <2>5. StoredFaces'[req.id] = file'[req.id]
    BY <2>1, <2>3, UsedIsStored DEF StoredFaces, StoredIds, Stored, Booting
  <2>6. Mirrors'
    BY <2>1, <2>2, <2>3, <2>4, <2>5 DEF StoreInv, Mirrors, Marked, Stored, InFlash, Booting
  <2>7. AllSaved'
    BY <2>1, <2>2, <2>3 DEF StoreInv, AllSaved, UsedIds, Used, Booting
  <2>8. MetaIsOurs' /\ AtPoint'
    BY <2>1, <2>2, <2>3 DEF StoreInv, MetaIsOurs, AtPoint, Booting
  <2>9. QED
    BY <2>6, <2>7, <2>8 DEF StoreInv
<1>4. QED
  BY <1>1, <1>2, <1>3

(* One user's removal. *)
LEMMA StoreDelete ==
  ASSUME Sound, Known, StoreInv, DeleteUnused \/ Delete \/ DeleteFile \/ DeleteFileFails
  PROVE  StoreInv'
<1> USE DEF ram, flash, Return, Continue, Entering
<1>1. CASE DeleteUnused
  BY <1>1, StoreSame DEF DeleteUnused
<1>2. CASE Delete
  <2>1. /\ pc = "enter" /\ pc' \in {"deleteFile", "idle"}
        /\ UNCHANGED <<meta, file, version>>
    BY <1>2 DEF Delete
  <2>2. \A id \in Slots : (Stored(mapping', id) <=> Stored(mapping, id))
                          /\ mapping'[id] \subseteq mapping[id]
                          /\ ("Saved" \in mapping[id] => "Saved" \in mapping'[id])
    BY <1>2 DEF Delete, Known, TypeOK, Stored, InFlash
  <2>3. StoredFaces' = StoredFaces
    BY <1>2, SameFlash DEF Delete
  <2>4. Mirrors'
    BY <2>1, <2>2, <2>3 DEF StoreInv, Mirrors, Marked, Booting
  <2>5. AllSaved'
    BY <2>1, <2>2 DEF StoreInv, AllSaved, UsedIds, Used, Booting
  <2>6. QED
    BY <2>1, <2>4, <2>5 DEF StoreInv, MetaIsOurs, AtPoint, Booting
<1>3. CASE DeleteFile
  <2>1. /\ pc = "deleteFile" /\ pc' = "meta" /\ req.op = "delete" /\ req' = req
        /\ req.id \in Slots /\ UNCHANGED <<meta, version>>
    BY <1>3 DEF DeleteFile, Known, FaceInv, PointOfCall, Given
  <2>2. /\ \A id \in Slots \ {req.id} :
              mapping'[id] = mapping[id] /\ file'[id] = file[id]
        /\ mapping'[req.id] = mapping[req.id] \ InFlash /\ file'[req.id] = NoEntry
    BY <1>3, <2>1 DEF DeleteFile, Known, TypeOK
  <2>3. /\ \A id \in Slots \ {req.id} : StoredFaces'[id] = StoredFaces[id]
        /\ StoredFaces'[req.id] = NoEntry
    BY <2>1, <2>2 DEF StoredFaces, StoredIds, Stored
  <2>4. Mirrors'
    BY <2>1, <2>2, <2>3 DEF StoreInv, Mirrors, Marked, Stored, Booting
  <2>5. ~Used(req.id)
    BY <2>1 DEF Known, CountInv, CallKnows
  <2>6. AllSaved'
    BY <2>1, <2>2, <2>5 DEF StoreInv, AllSaved, UsedIds, Used, Booting
  <2>7. QED
    BY <2>1, <2>4, <2>6 DEF StoreInv, MetaIsOurs, AtPoint, Booting
<1>4. QED
  BY <1>1, <1>2, <1>3 DEF DeleteFileFails, Sound

(* When no slot is in use nothing is stored. *)
LEMMA NothingStored ==
  ASSUME Known, pc = "deleteAll", UsedIds = {}
  PROVE  /\ \A id \in Slots : StoredFaces[id] = NoEntry /\ ~Stored(mapping, id)
         /\ numberFaces = 0
<1>1. numberFaces = 0
  BY FS_EmptySet DEF Known, CountInv, CountCorrect
<1>2. \A id \in Slots : StoredFaces[id] = NoEntry /\ ~Stored(mapping, id)
  BY UnusedIsGone DEF Known, FlashInv, Booting, UsedIds
<1>3. QED
  BY <1>1, <1>2

(* The removal of all users. *)
LEMMA StoreDeleteAll ==
  ASSUME Sound, Known, StoreInv,
         \/ DeleteAll \/ DeleteAllRamOnly \/ DeleteAllFile \/ DeleteAllFileFails
         \/ DeleteAllDone
  PROVE  StoreInv'
<1> USE DEF ram, flash, Return, Continue, Entering
<1>1. CASE DeleteAll
  <2>1. /\ pc = "enter" /\ pc' = "deleteAll" /\ loop'.last = "Success"
        /\ UNCHANGED <<mapping, meta, file, version>>
    BY <1>1 DEF DeleteAll, NoLoop
  <2>2. StoredFaces' = StoredFaces
    BY <1>1, SameFlash DEF DeleteAll
  <2>3. QED
    BY <2>1, <2>2 DEF StoreInv, MetaIsOurs, Mirrors, AllSaved, AtPoint, Marked, Stored,
                      UsedIds, Used, Booting
<1>2. CASE DeleteAllRamOnly
  <2> DEFINE gone == Least(loop.todo)
  <2>1. gone \in UsedIds
    BY <1>2, LeastIn DEF DeleteAllRamOnly, Known, CountInv, CallKnows, UsedIds
  <2>2. ~Stored(mapping, gone) /\ pc = "deleteAll"
    BY <1>2 DEF DeleteAllRamOnly
  <2> HIDE DEF gone
  <2>3. QED
    BY <2>1, <2>2, UsedIsStored DEF Booting
<1>3. CASE DeleteAllFile
  <2> DEFINE gone == Least(loop.todo)
  <2>1. gone \in UsedIds
    BY <1>3, LeastIn DEF DeleteAllFile, Known, CountInv, CallKnows, UsedIds
  <2>2. /\ file' = [file EXCEPT ![gone] = NoEntry]
        /\ mapping' = [mapping EXCEPT ![gone] = {}]
        /\ pc = "deleteAll" /\ pc' = pc /\ UNCHANGED <<meta, version>>
        /\ loop'.last = IF file[gone] = NoEntry THEN "NotExist" ELSE "Success"
    BY <1>3 DEF DeleteAllFile
  <2> HIDE DEF gone
  <2>3. gone \in Slots /\ file[gone] # NoEntry
    BY <2>1, <2>2, UsedIsStored DEF UsedIds, Booting
  <2>4. /\ \A id \in Slots \ {gone} :
              mapping'[id] = mapping[id] /\ file'[id] = file[id]
        /\ mapping'[gone] = {} /\ file'[gone] = NoEntry
    BY <2>2, <2>3 DEF Known, TypeOK
  <2>5. /\ \A id \in Slots \ {gone} : StoredFaces'[id] = StoredFaces[id]
        /\ StoredFaces'[gone] = NoEntry
    BY <2>2, <2>3, <2>4 DEF StoredFaces, StoredIds, Stored
  <2>6. Mirrors'
    BY <2>2, <2>4, <2>5 DEF StoreInv, Mirrors, Marked, Stored, Booting
  <2>7. AllSaved'
    BY <2>2, <2>4 DEF StoreInv, AllSaved, UsedIds, Used, Booting
  <2>8. QED
    BY <2>2, <2>3, <2>6, <2>7 DEF StoreInv, MetaIsOurs, AtPoint, Booting
<1>4. CASE DeleteAllDone
  <2>1. pc = "deleteAll" /\ UsedIds = {} /\ loop.last = "Success"
    BY <1>4 DEF DeleteAllDone, Known, CountInv, CallKnows, StoreInv, AtPoint
  <2>2. /\ numberFaces = 0
        /\ \A id \in Slots : StoredFaces[id] = NoEntry /\ ~Stored(mapping, id)
    BY <2>1, NothingStored
  <2>3. UNCHANGED <<mapping, flash, version>> /\ pc' \in {"meta", "idle"} /\ req' = req
    BY <1>4, <2>1, <2>2 DEF DeleteAllDone
  <2>4. StoredFaces' = StoredFaces /\ UsedIds' = {}
    BY <2>1, <2>3, SameFlash DEF UsedIds, Used
  <2>5. req.op = "deleteAll"
    BY <2>1 DEF Known, FaceInv, PointOfCall
  <2>6. Mirrors' /\ AllSaved'
    BY <2>2, <2>3, <2>4 DEF Mirrors, AllSaved, Marked, Stored
  <2>7. MetaIsOurs' /\ AtPoint'
    BY <2>1, <2>3, <2>4, <2>5 DEF StoreInv, MetaIsOurs, AtPoint, Booting
  <2>8. QED
    BY <2>6, <2>7 DEF StoreInv
<1>5. QED
  BY <1>1, <1>2, <1>3, <1>4 DEF DeleteAllFileFails, Sound

(* The save of all faces finds nothing to save; and the metadata. *)
LEMMA StoreSave ==
  ASSUME Sound, Known, StoreInv, Save \/ SaveNext \/ SaveDone \/ WriteMeta
  PROVE  StoreInv'
<1> USE DEF ram, flash, Continue, Entering
<1>1. CASE Save
  <2>1. /\ pc = "enter" /\ pc' = "saveAll" /\ UNCHANGED <<mapping, meta, file, version>>
        /\ loop' = [NoLoop EXCEPT !.todo = {id \in UsedIds : "Saved" \notin mapping[id]}]
    BY <1>1 DEF Save
  <2>2. {id \in UsedIds : "Saved" \notin mapping[id]} = {}
    BY <2>1 DEF StoreInv, AllSaved, Booting
  <2>3. loop'.todo = {} /\ ~loop'.dirty
    BY <2>1, <2>2 DEF NoLoop
  <2>4. StoredFaces' = StoredFaces
    BY <1>1, SameFlash DEF Save
  <2>5. QED
    BY <2>1, <2>3, <2>4 DEF StoreInv, MetaIsOurs, Mirrors, AllSaved, AtPoint, Marked,
                            Stored, UsedIds, Used, Booting
<1>2. CASE SaveNext
  BY <1>2 DEF SaveNext, StoreInv, AtPoint
<1>3. CASE SaveDone
  <2>1. pc = "saveAll" /\ pc' = "idle" /\ UNCHANGED <<mapping, meta, file, version>>
    BY <1>3 DEF SaveDone, StoreInv, AtPoint
  <2>2. StoredFaces' = StoredFaces
    BY <1>3, SameFlash DEF SaveDone
  <2>3. QED
    BY <2>1, <2>2 DEF StoreInv, MetaIsOurs, Mirrors, AllSaved, AtPoint, Marked, Stored,
                      UsedIds, Used, Booting
<1>4. CASE WriteMeta
  <2>1. /\ pc = "meta" /\ pc' = "idle" /\ UNCHANGED <<mapping, file, version>>
        /\ meta' = MetaSnapshot
    BY <1>4 DEF WriteMeta
  <2>2. \A id \in Slots : StoredFaces'[id] = Marked(id)
    BY <1>4, WrittenSlot DEF Known, Marked
  <2>3. meta' # NoMeta /\ meta'.version = version
    BY <2>1, SnapshotType, NoMetaIsNone DEF Known, MetaSnapshot
  <2>4. Mirrors'
    BY <2>1, <2>2 DEF Mirrors, Marked, Stored
  <2>5. AllSaved'
    BY <2>1 DEF StoreInv, AllSaved, UsedIds, Used, Booting
  <2>6. QED
    BY <2>1, <2>3, <2>4, <2>5 DEF StoreInv, MetaIsOurs, AtPoint
<1>5. QED
  BY <1>1, <1>2, <1>3, <1>4

(* Every step keeps the invariant. *)
LEMMA StoreStep ==
  ASSUME Sound, Known, StoreInv, [Next]_vars
  PROVE  StoreInv'
<1>1. CASE Boot
  BY <1>1, StoreBoot
<1>2. CASE Calls
  <2>1. pc = "idle" /\ pc' = "enter" /\ UNCHANGED <<ram, flash, version>>
    BY <1>2 DEF Calls, CallAdd, CallUpdateFace, CallUpdateName, CallDelete,
                CallDeleteName, CallDeleteAll, CallSave, Call
  <2>2. QED
    BY <2>1, StoreSame DEF ram, flash
<1>3. CASE Step
  BY <1>3, StoreAdd, StoreUpdate, StoreDelete, StoreDeleteAll, StoreSave DEF Step
<1>4. CASE PowerLoss
  BY <1>4 DEF PowerLoss, StoreInv, MetaIsOurs, Mirrors, AllSaved, AtPoint, Booting
<1>5. CASE UNCHANGED vars
  <2>1. StoredFaces' = StoredFaces
    BY <1>5, SameFlash DEF vars, flash
  <2>2. QED
    BY <1>5, <2>1 DEF vars, StoreInv, MetaIsOurs, Mirrors, AllSaved, AtPoint, Marked,
                      Adding, Stored, UsedIds, Used, Booting
<1>6. QED
  BY <1>1, <1>2, <1>3, <1>4, <1>5 DEF Next

(* The invariant, and those of the other modules. *)
LEMMA StoreInvariant ==
  ASSUME Sound
  PROVE  Spec => [](Known /\ StoreInv)
<1>1. Init => StoreInv /\ AddInv
  BY DEF Init, StoreInv, MetaIsOurs, Mirrors, AllSaved, AtPoint, Booting, AddInv,
         AddFiled, AddIsDurable, Returned
<1>2. "remove" \notin Faults
  BY DEF Sound
<1>3. TypeOK /\ FaceInv /\ AddInv /\ [Next]_vars => AddInv'
  BY AddStep
<1>4. Known /\ StoreInv /\ [Next]_vars => StoreInv'
  BY StoreStep
<1>5. Known <=> TypeOK /\ CountInv /\ FaceInv /\ AddInv /\ FlashInv /\ BeforeCalls
  BY DEF Known
<1>6. QED
  BY <1>1, <1>2, <1>3, <1>4, <1>5, NoAnswerYet, TypeCorrect, CountInvariant, FaceInvariant,
     FlashInvariant, PTL DEF Spec

-----------------------------------------------------------------------------
(***************************************************************************)
(* The refinement: each step is a step of FaceStore, or changes nothing    *)
(* that FaceStore sees.                                                    *)
(***************************************************************************)
Written == IF meta = NoMeta THEN NoMeta ELSE meta.version
Implements == [Store!Next]_(Store!vars)

(* A step that FaceStore does not see. *)
LEMMA Stutters ==
  ASSUME StoredFaces' = StoredFaces, Phase' = Phase, UNCHANGED <<meta, version, req, resp>>
  PROVE  Implements
BY DEF Implements, Store!vars

(* The return of a call. *)
LEMMA Returns ==
  ASSUME pc \notin Booting, pc # "idle", pc = "meta" => req.op # "none", pc' = "idle",
         Written' = Written, UNCHANGED <<version, req>>,
         resp' \in {"Success", "Failed", "Full"},
         \/ StoredFaces' = StoredFaces
         \/ req.op = "add" /\ req.id \in Slots /\ Store!Apply(req.id)
         \/ req.op = "update" /\ Store!Apply(req.id),
         resp' = "Success" => Store!Done',
         resp' = "Full" => \A id \in Slots : StoredFaces[id] # NoEntry
  PROVE  Implements
<1>1. Phase = "busy" /\ Phase' = "idle"
  BY DEF Phase, Booting
<1>2. Store!Return
  BY <1>1 DEF Store!Return, Written
<1>3. QED
  BY <1>2 DEF Implements, Store!Next

(* The boot: up to its last step the store is down. *)
LEMMA ImplementsBoot ==
  ASSUME Sound, Known, StoreInv, Boot
  PROVE  Implements
<1> USE DEF ram, flash
<1>0. req.op = "none" /\ req' = req /\ resp' = resp /\ version' = version /\ pc \in Booting
  BY DEF Boot, BootMakeDir, BootMakeDirFails, BootFormat, BootNoMeta, BootOtherVersion,
         BootLoad, BootLoadFails, Known, FaceInv, PointOfCall, Booting
<1>1. CASE BootMakeDir
  <2>1. Phase = "off" /\ Phase' = "off"
    BY <1>1 DEF BootMakeDir, Phase
  <2>2. StoredFaces' = StoredFaces /\ meta' = meta
    BY <1>1 DEF BootMakeDir, StoredFaces, StoredIds, Stored
  <2>3. QED
    BY <1>0, <2>1, <2>2, Stutters
<1>2. CASE BootFormat
  <2>1. meta' = DefaultMeta /\ meta' # NoMeta /\ Phase = "off" /\ Phase' = "idle"
    BY <1>2, RecordTypes, NoMetaIsNone DEF BootFormat, Sound, Known, TypeOK, Phase
  <2>2. StoredFaces' = Store!Nobody
    BY <2>1 DEF StoredFaces, StoredIds, Stored, DefaultMeta, Store!Nobody
  <2>3. StoredFaces = Store!Nobody
    BY <1>2 DEF BootFormat, Known, FlashInv, FlashKnown, StoredFaces, Store!Nobody
  <2>4. Store!Open
    BY <1>0, <2>1, <2>2, <2>3 DEF Store!Open, DefaultMeta
  <2>5. QED
    BY <2>4 DEF Implements, Store!Next
<1>3. CASE BootNoMeta \/ BootLoadFails
  <2>1. Phase = "off" /\ Phase' = "failed" /\ meta' = meta
    BY <1>3 DEF BootNoMeta, BootLoadFails, Phase
  <2>2. StoredFaces' = StoredFaces
    BY <1>3, SameFlash DEF BootNoMeta, BootLoadFails
  <2>3. Store!OpenFails
    BY <1>0, <2>1, <2>2 DEF Store!OpenFails
  <2>4. QED
    BY <2>3 DEF Implements, Store!Next
<1>4. CASE BootOtherVersion
  <2>1. Phase = "off" /\ Phase' = "off" /\ meta # NoMeta /\ meta.version # version
    BY <1>4 DEF BootOtherVersion, Phase
  <2>2. CASE meta' = meta
    BY <1>0, <1>4, <2>1, <2>2, Stutters, SameFlash DEF BootOtherVersion
  <2>3. CASE meta' = DefaultMeta
    <3>1. meta' # NoMeta
      BY <2>3, RecordTypes, NoMetaIsNone DEF Known, TypeOK
    <3>2. StoredFaces' = Store!Nobody
      BY <2>3, <3>1 DEF StoredFaces, StoredIds, Stored, DefaultMeta, Store!Nobody
    <3>3. Store!Discard
      BY <1>0, <2>1, <2>3, <3>1, <3>2 DEF Store!Discard, DefaultMeta
    <3>4. QED
      BY <3>3 DEF Implements, Store!Next
  <2>4. QED
    BY <1>4, <2>2, <2>3 DEF BootOtherVersion
<1>5. CASE BootLoad
  <2>1. StoredFaces' = StoredFaces /\ meta' = meta /\ meta # NoMeta /\ meta.version = version
    BY <1>5, SameFlash DEF BootLoad
  <2>2. Phase = "off" /\ pc' \in {"idle", "meta"}
    BY <1>5 DEF BootLoad, Phase
  <2>3. CASE pc' = "meta"
    <3>1. Phase' = "off"
      BY <1>0, <2>3 DEF Phase
    <3>2. QED
      BY <1>0, <2>1, <2>2, <3>1, Stutters
  <2>4. CASE pc' = "idle"
    <3>1. Phase' = "idle"
      BY <2>4 DEF Phase
    <3>2. Store!Open
      BY <1>0, <2>1, <2>2, <3>1 DEF Store!Open
    <3>3. QED
      BY <3>2 DEF Implements, Store!Next
  <2>5. QED
    BY <2>2, <2>3, <2>4
<1>6. QED
  BY <1>1, <1>2, <1>3, <1>4, <1>5 DEF Boot, BootMakeDirFails, Sound

(* The start of a call, and a power loss. *)
LEMMA ImplementsCalls ==
  ASSUME Known, StoreInv, Calls \/ PowerLoss
  PROVE  Implements
<1> USE DEF ram, flash
<1>1. ASSUME NEW op \in Store!Ops, NEW id \in Slots \cup {NoId},
             NEW e \in Entry \cup {NoEntry}, Call(op, id, e)
      PROVE  Implements
  <2>1. Phase = "idle" /\ Phase' = "busy"
    BY <1>1 DEF Call, Phase
  <2>2. StoredFaces' = StoredFaces
    BY <1>1, SameFlash DEF Call
  <2>3. Store!Call
    BY <1>1, <2>1, <2>2 DEF Call, Store!Call
  <2>4. QED
    BY <2>3 DEF Implements, Store!Next
<1>2. CASE Calls
  <2> USE DEF Store!Ops
  <2>1. CASE CallAdd \/ CallDeleteAll \/ CallSave
    BY <1>1, <2>1 DEF CallAdd, CallDeleteAll, CallSave
  <2>2. CASE CallUpdateFace \/ CallUpdateName \/ CallDelete
    BY <1>1, <2>2 DEF CallUpdateFace, CallUpdateName, CallDelete, UsedIds
  <2>3. CASE CallDeleteName
    <3>1. PICK n \in Names :
            LET match == {id \in Slots : entry[id] # NoEntry /\ entry[id].name = n}
            IN  match # {} /\ Call("delete", Least(match), NoEntry)
      BY <2>3 DEF CallDeleteName
    <3> DEFINE match == {id \in Slots : entry[id] # NoEntry /\ entry[id].name = n}
    <3>2. Least(match) \in Slots
      BY <3>1, LeastIn
    <3>3. QED
      BY <1>1, <3>1, <3>2
  <2>4. QED
    BY <1>2, <2>1, <2>2, <2>3 DEF Calls
<1>3. CASE PowerLoss
  <2>1. StoredFaces' = StoredFaces /\ Phase' = "off"
    BY <1>3, SameFlash DEF PowerLoss, Phase
  <2>2. Store!PowerLoss
    BY <1>3, <2>1 DEF PowerLoss, Store!PowerLoss, NoReq, Store!NoReq
  <2>3. QED
    BY <2>2 DEF Implements, Store!Next
<1>4. QED
  BY <1>2, <1>3

(* The steps of a registration: the slot is chosen, the file may make the  *)
(* face durable if the metadata still names the slot, and the metadata     *)
(* does in any case (with WriteMeta).                                      *)
LEMMA ImplementsAdd ==
  ASSUME Sound, Known, StoreInv, GenIdFull \/ GenIdNone \/ GenId \/ AddFace \/ AddFile
  PROVE  Implements
<1> USE DEF ram, flash
<1>1. CASE GenIdFull
  <2>1. UsedIds = Slots
    <3>1. IsFiniteSet(Slots) /\ Cardinality(Slots) = MaxFaces
      BY FS_Interval, MaxFacesAssumption DEF Slots
    <3>2. Cardinality(UsedIds) = MaxFaces
      BY <1>1 DEF GenIdFull, Known, CountInv, CountCorrect
    <3>3. UsedIds \subseteq Slots
      BY DEF UsedIds
    <3>4. QED
      BY <3>1, <3>2, <3>3, FS_Subset
  <2>2. \A id \in Slots : StoredFaces[id] # NoEntry
    BY <1>1, <2>1, UsedIsStored DEF GenIdFull, Entering, Booting
  <2>3. StoredFaces' = StoredFaces
    BY <1>1, SameFlash DEF GenIdFull
  <2>4. QED
    BY <1>1, <2>2, <2>3, Returns DEF GenIdFull, Entering, Return, Booting, Written
<1>2. CASE GenIdNone
  BY <1>2, SameFlash, Returns DEF GenIdNone, Entering, Return, Booting, Written
<1>3. CASE GenId
  <2> DEFINE id == Least(Slots \ UsedIds)
  <2>1. id \in Slots /\ ~Used(id)
    BY <1>3, LeastIn DEF GenId, UsedIds
  <2>2. /\ pc = "enter" /\ req.op = "add" /\ req.id = NoId /\ pc' = "enter"
        /\ req' = [req EXCEPT !.id = id] /\ UNCHANGED <<version, resp, meta>>
    BY <1>3 DEF GenId, Entering
  <2>3. StoredFaces' = StoredFaces
    BY <1>3, SameFlash DEF GenId
  <2> HIDE DEF id
  <2>4. StoredFaces[id] = NoEntry
    BY <2>1, <2>2, UnusedIsGone DEF Known, FlashInv, Booting
  <2>5. Phase = "busy" /\ Phase' = "busy"
    BY <2>2 DEF Phase
  <2>6. Store!Choose
    BY <2>1, <2>2, <2>3, <2>4, <2>5 DEF Store!Choose
  <2>7. QED
    BY <2>6 DEF Implements, Store!Next
<1>4. CASE AddFace
  <2>1. pc = "enter" /\ pc' = "addFile" /\ UNCHANGED <<flash, version, req, resp>>
    BY <1>4 DEF AddFace, Entering, Continue, Known, TypeOK, Sound, Autosave
  <2>2. Phase = "busy" /\ Phase' = "busy"
    BY <2>1 DEF Phase
  <2>3. QED
    BY <2>1, <2>2, SameFlash, Stutters
<1>5. CASE AddFile
  <2>1. /\ req.op = "add" /\ req.id \in Slots /\ entry[req.id] = req.entry
        /\ pc = "addFile" /\ StoredFaces[req.id] = NoEntry
    BY <1>5 DEF AddFile, Known, FaceInv, PointOfCall, AddInv, AddFiled, StoreInv, AtPoint
  <2>2. /\ pc' = "meta" /\ UNCHANGED <<meta, version, req, resp>>
        /\ file' = [file EXCEPT ![req.id] = req.entry]
    BY <1>5, <2>1 DEF AddFile, SaveFile, SaveFileFails, Continue, Sound
  <2>3. Phase = "busy" /\ Phase' = "busy"
    BY <2>1, <2>2 DEF Phase
  <2>4. \/ StoredFaces' = StoredFaces
        \/ StoredFaces' = [StoredFaces EXCEPT ![req.id] = req.entry]
    BY <2>1, <2>2 DEF StoredFaces, StoredIds, Stored, Known, TypeOK
  <2>5. CASE StoredFaces' = StoredFaces
    BY <2>2, <2>3, <2>5, Stutters
  <2>6. CASE StoredFaces' = [StoredFaces EXCEPT ![req.id] = req.entry]
    <3>1. Store!Apply(req.id)
      BY <2>1, <2>6 DEF Store!Apply, Store!Allowed
    <3>2. Store!ApplyOne
      BY <2>1, <2>2, <2>3, <3>1 DEF Store!ApplyOne
    <3>3. QED
      BY <3>2 DEF Implements, Store!Next
  <2>7. QED
    BY <2>4, <2>5, <2>6
<1>6. QED
  BY <1>1, <1>2, <1>3, <1>4, <1>5

(* The steps of an update: the file makes it durable. *)
LEMMA ImplementsUpdate ==
  ASSUME Sound, Known, StoreInv, UpdateUnused \/ Update \/ UpdateFile
  PROVE  Implements
<1> USE DEF ram, flash
<1>1. CASE UpdateUnused
  <2>1. req.id \in Slots /\ ~Used(req.id) /\ pc = "enter" /\ req.op = "update"
    BY <1>1 DEF UpdateUnused, Entering, Known, FaceInv, Given
  <2>2. StoredFaces[req.id] = NoEntry
    BY <2>1, UnusedIsGone DEF Known, FlashInv, Booting
  <2>3. StoredFaces' = StoredFaces /\ req' = req /\ pc' = "idle" /\ resp' = "Success"
    BY <1>1, SameFlash DEF UpdateUnused, Return
  <2>4. Store!Done'
    BY <2>1, <2>2, <2>3 DEF Store!Done
  <2>5. QED
    BY <1>1, <2>1, <2>3, <2>4, Returns DEF UpdateUnused, Booting, Written
<1>2. CASE Update
  <2>1. pc = "enter" /\ pc' = "updateFile" /\ UNCHANGED <<flash, version, req, resp>>
    BY <1>2 DEF Update, Entering, Continue, Known, TypeOK, Sound, Autosave
  <2>2. Phase = "busy" /\ Phase' = "busy"
    BY <2>1 DEF Phase
  <2>3. QED
    BY <2>1, <2>2, SameFlash, Stutters
<1>3. CASE UpdateFile
  <2>1. /\ req.op = "update" /\ req.id \in UsedIds /\ req.id \in Slots
        /\ pc = "updateFile" /\ entry[req.id] = req.entry
    BY <1>3 DEF UpdateFile, Known, FaceInv, PointOfCall, Given, SavesUsed, UsedIds,
                StoreInv, AtPoint
  <2>2. /\ pc' = "idle" /\ resp' = "Success" /\ UNCHANGED <<meta, version, req>>
        /\ file' = [file EXCEPT ![req.id] = req.entry]
    BY <1>3, <2>1 DEF UpdateFile, SaveFile, SaveFileFails, Return, Sound
  <2>3. req.id \in StoredIds /\ meta # NoMeta /\ StoredFaces[req.id] # NoEntry
    BY <2>1, UsedIsStored DEF Booting
  <2>4. StoredFaces' = [StoredFaces EXCEPT ![req.id] = req.entry]
    BY <2>1, <2>2, <2>3 DEF StoredFaces, StoredIds, Stored, Known, TypeOK
  <2>5. Store!Apply(req.id)
    BY <2>1, <2>3, <2>4 DEF Store!Apply, Store!Allowed
  <2>6. StoredFaces'[req.id] = req.entry
    BY <2>1, <2>4 DEF StoredFaces
  <2>7. Store!Done'
    BY <2>1, <2>2, <2>6 DEF Store!Done
  <2>8. QED
    BY <2>1, <2>2, <2>5, <2>7, Returns DEF Booting, Written
<1>4. QED
  BY <1>1, <1>2, <1>3

(* One user's removal: it is durable with the file. *)
LEMMA ImplementsDelete ==
  ASSUME Sound, Known, StoreInv, DeleteUnused \/ Delete \/ DeleteFile \/ DeleteFileFails
  PROVE  Implements
<1> USE DEF ram, flash
<1>1. req.id \in Slots /\ req.op = "delete"
  BY DEF DeleteUnused, Delete, DeleteFile, DeleteFileFails, Entering, Known, FaceInv,
         PointOfCall, Given
<1>2. ASSUME pc = "enter", Return("Success"), UNCHANGED <<flash, version>>,
             StoredFaces[req.id] = NoEntry
      PROVE  Implements
  <2>1. StoredFaces' = StoredFaces /\ req' = req
    BY <1>2, SameFlash DEF Return
  <2>2. Store!Done'
    BY <1>1, <1>2, <2>1 DEF Store!Done
  <2>3. QED
    BY <1>2, <2>1, <2>2, Returns DEF Return, Booting, Written
<1>3. CASE DeleteUnused
  <2>1. StoredFaces[req.id] = NoEntry
    BY <1>1, <1>3, UnusedIsGone DEF DeleteUnused, Entering, Known, FlashInv, Booting
  <2>2. QED
    BY <1>2, <1>3, <2>1 DEF DeleteUnused, Entering
<1>4. CASE Delete
  <2>1. CASE Stored(mapping, req.id)
    <3>1. pc = "enter" /\ pc' = "deleteFile" /\ UNCHANGED <<flash, version, req, resp>>
      BY <1>4, <2>1 DEF Delete, Entering, Continue
    <3>2. Phase = "busy" /\ Phase' = "busy"
      BY <3>1 DEF Phase
    <3>3. QED
      BY <3>1, <3>2, SameFlash, Stutters
  <2>2. CASE ~Stored(mapping, req.id)
    <3>1. StoredFaces[req.id] = NoEntry
      BY <1>1, <1>4, <2>2 DEF Delete, Entering, StoreInv, Mirrors, Marked, Booting
    <3>2. QED
      BY <1>2, <1>4, <2>2, <3>1 DEF Delete, Entering
  <2>3. QED
    BY <2>1, <2>2
<1>5. CASE DeleteFile
  <2>1. /\ pc = "deleteFile" /\ pc' = "meta" /\ UNCHANGED <<meta, version, req, resp>>
        /\ file' = [file EXCEPT ![req.id] = NoEntry]
    BY <1>5 DEF DeleteFile, Continue
  <2>2. Phase = "busy" /\ Phase' = "busy"
    BY <1>1, <2>1 DEF Phase
  <2>3. StoredFaces' = [StoredFaces EXCEPT ![req.id] = NoEntry]
    BY <1>1, <2>1 DEF StoredFaces, StoredIds, Stored, Known, TypeOK
  <2>4. Store!Apply(req.id)
    BY <1>1, <2>3 DEF Store!Apply, Store!Allowed
  <2>5. Store!ApplyOne
    BY <1>1, <2>1, <2>2, <2>4 DEF Store!ApplyOne
  <2>6. QED
    BY <2>5 DEF Implements, Store!Next
<1>6. QED
  BY <1>3, <1>4, <1>5 DEF DeleteFileFails, Sound

(* The removal of all users, one file after the other. *)
LEMMA ImplementsDeleteAll ==
  ASSUME Sound, Known, StoreInv,
         \/ DeleteAll \/ DeleteAllRamOnly \/ DeleteAllFile \/ DeleteAllFileFails
         \/ DeleteAllDone
  PROVE  Implements
<1> USE DEF ram, flash
<1>1. CASE DeleteAll \/ DeleteAllRamOnly
  <2>1. /\ pc \in {"enter", "deleteAll"} /\ pc' = "deleteAll"
        /\ UNCHANGED <<flash, version, req, resp>>
    BY <1>1 DEF DeleteAll, DeleteAllRamOnly, Entering, Continue
  <2>2. Phase = "busy" /\ Phase' = "busy"
    BY <2>1 DEF Phase
  <2>3. QED
    BY <2>1, <2>2, SameFlash, Stutters
<1>2. CASE DeleteAllFile
  <2> DEFINE gone == Least(loop.todo)
  <2>1. gone \in Slots
    BY <1>2, LeastIn DEF DeleteAllFile, Known, TypeOK, Loop
  <2>2. /\ pc = "deleteAll" /\ pc' = pc /\ UNCHANGED <<meta, version, req, resp>>
        /\ file' = [file EXCEPT ![gone] = NoEntry]
    BY <1>2 DEF DeleteAllFile
  <2> HIDE DEF gone
  <2>3. req.op = "deleteAll" /\ Phase = "busy" /\ Phase' = "busy"
    BY <2>2 DEF Phase, Known, FaceInv, PointOfCall
  <2>4. StoredFaces' = [StoredFaces EXCEPT ![gone] = NoEntry]
    BY <2>1, <2>2 DEF StoredFaces, StoredIds, Stored, Known, TypeOK
  <2>5. Store!Apply(gone)
    BY <2>1, <2>3, <2>4 DEF Store!Apply, Store!Allowed
  <2>6. Store!ApplyOne
    BY <2>1, <2>2, <2>3, <2>5 DEF Store!ApplyOne
  <2>7. QED
    BY <2>6 DEF Implements, Store!Next
<1>3. CASE DeleteAllDone
  <2>1. pc = "deleteAll" /\ UsedIds = {} /\ loop.last = "Success"
    BY <1>3 DEF DeleteAllDone, Known, CountInv, CallKnows, StoreInv, AtPoint
  <2>2. req.op = "deleteAll" /\ StoredFaces' = StoredFaces
        /\ UNCHANGED <<meta, version, req>>
    BY <1>3, <2>1, SameFlash DEF DeleteAllDone, Return, Continue, Known, FaceInv,
       PointOfCall
  <2>3. \A id \in Slots : StoredFaces[id] = NoEntry
    BY <2>1, NothingStored
  <2>4. CASE Continue("meta")
    <3>1. Phase = "busy" /\ Phase' = "busy" /\ resp' = resp
      BY <2>1, <2>2, <2>4 DEF Phase, Continue
    <3>2. QED
      BY <2>2, <3>1, Stutters
  <2>5. CASE Return("Success")
    <3>1. StoredFaces' = Store!Nobody
      BY <2>2, <2>3 DEF StoredFaces, Store!Nobody
    <3>2. Store!Done'
      BY <2>2, <3>1 DEF Store!Done, Store!Nobody
    <3>3. QED
      BY <2>1, <2>2, <2>5, <3>2, Returns DEF Return, Booting, Written
  <2>6. QED
    BY <1>3, <2>1, <2>4, <2>5 DEF DeleteAllDone
<1>4. QED
  BY <1>1, <1>2, <1>3 DEF DeleteAllFileFails, Sound

(* The save of all faces finds them saved. *)
LEMMA ImplementsSave ==
  ASSUME Sound, Known, StoreInv, Save \/ SaveNext \/ SaveDone
  PROVE  Implements
<1> USE DEF ram, flash
<1>1. CASE Save
  <2>1. pc = "enter" /\ pc' = "saveAll" /\ UNCHANGED <<flash, version, req, resp>>
    BY <1>1 DEF Save, Entering, Continue
  <2>2. Phase = "busy" /\ Phase' = "busy"
    BY <2>1 DEF Phase
  <2>3. QED
    BY <2>1, <2>2, SameFlash, Stutters
<1>2. CASE SaveDone
  <2>1. /\ pc = "saveAll" /\ pc' = "idle" /\ UNCHANGED <<flash, version, req>>
        /\ resp' \in {"Success", "Failed"} /\ req.op = "save"
    BY <1>2 DEF SaveDone, StoreInv, AtPoint, Known, FaceInv, PointOfCall
  <2>2. Store!Done'
    BY <2>1 DEF Store!Done
  <2>3. StoredFaces' = StoredFaces
    BY <2>1, SameFlash
  <2>4. QED
    BY <2>1, <2>2, <2>3, Returns DEF Booting, Written
<1>3. QED
  BY <1>1, <1>2 DEF SaveNext, StoreInv, AtPoint

(* The metadata ends a boot, a registration or a removal. *)
LEMMA ImplementsMeta ==
  ASSUME Sound, Known, StoreInv, WriteMeta
  PROVE  Implements
<1> USE DEF ram
<1>1. /\ pc = "meta" /\ pc' = "idle" /\ UNCHANGED <<mapping, dir, file, version, req>>
      /\ meta' = MetaSnapshot /\ resp' = IF req.op = "none" THEN "none" ELSE "Success"
  BY DEF WriteMeta
<1>2. meta # NoMeta /\ meta.version = version /\ meta' # NoMeta /\ meta'.version = version
  BY <1>1, SnapshotType, NoMetaIsNone DEF Known, MetaSnapshot, StoreInv, MetaIsOurs,
     Booting
<1>3. \A id \in Slots : StoredFaces'[id] = Marked(id)
  BY WrittenSlot DEF Known, Marked
<1>4. CASE req.op = "add"
  <2>1. req.id \in Slots /\ file[req.id] = req.entry /\ Stored(mapping, req.id)
    BY <1>1, <1>4 DEF Known, AddInv, AddFiled, Stored, InFlash
  <2>2. StoredFaces[req.id] \in {NoEntry, req.entry}
    BY <1>1, <1>4 DEF StoreInv, AtPoint
  <2>3. StoredFaces' = [StoredFaces EXCEPT ![req.id] = req.entry]
    <3>1. \A id \in Slots \ {req.id} : StoredFaces'[id] = StoredFaces[id]
      BY <1>1, <1>3 DEF StoreInv, Mirrors, Adding, Booting
    <3>2. StoredFaces'[req.id] = req.entry
      BY <1>3, <2>1 DEF Marked
    <3>3. QED
      BY <3>1, <3>2 DEF StoredFaces
  <2>4. StoredFaces' = StoredFaces \/ Store!Apply(req.id)
    <3>1. CASE StoredFaces[req.id] = req.entry
      BY <2>3, <3>1 DEF StoredFaces
    <3>2. CASE StoredFaces[req.id] = NoEntry
      BY <1>4, <2>3, <3>2 DEF Store!Apply, Store!Allowed
    <3>3. QED
      BY <2>2, <3>1, <3>2
  <2>5. Store!Done'
    BY <1>1, <1>3, <1>4, <2>1 DEF Store!Done, Marked
  <2>6. QED
    BY <1>1, <1>2, <1>4, <2>1, <2>4, <2>5, Returns DEF Booting, Written
<1>5. CASE req.op # "add"
  <2>1. StoredFaces' = StoredFaces
    BY <1>1, <1>3, <1>5 DEF StoreInv, Mirrors, Adding, Booting, StoredFaces
  <2>2. CASE req.op = "none"
    <3>1. Phase = "off" /\ Phase' = "idle"
      BY <1>1, <2>2 DEF Phase
    <3>2. resp' = resp
      BY <1>1, <2>2 DEF Known, BeforeCalls
    <3>3. Store!Open
      BY <1>1, <1>2, <2>1, <3>1, <3>2 DEF Store!Open
    <3>4. QED
      BY <3>3 DEF Implements, Store!Next
  <2>3. CASE req.op = "delete"
    <3>1. req.id \in Slots /\ StoredFaces'[req.id] = NoEntry
      BY <1>1, <1>3, <2>3 DEF Known, FaceInv, Given, FlashInv, DeleteFiled, Marked
    <3>2. Store!Done'
      BY <1>1, <2>3, <3>1 DEF Store!Done
    <3>3. QED
      BY <1>1, <1>2, <2>1, <2>3, <3>2, Returns DEF Booting, Written
  <2>4. CASE req.op = "deleteAll"
    <3>1. \A id \in Slots : StoredFaces'[id] = NoEntry
      BY <1>1, <1>3, <2>4, UnusedIsGone
         DEF StoreInv, AtPoint, Known, FlashInv, Booting, Marked, UsedIds
    <3>2. StoredFaces' = Store!Nobody
      BY <3>1 DEF StoredFaces, Store!Nobody
    <3>3. Store!Done'
      BY <1>1, <2>4, <3>2 DEF Store!Done, Store!Nobody
    <3>4. QED
      BY <1>1, <1>2, <2>1, <2>4, <3>3, Returns DEF Booting, Written
  <2>5. QED
    BY <1>1, <1>5, <2>2, <2>3, <2>4 DEF StoreInv, AtPoint
<1>6. QED
  BY <1>4, <1>5

(* The face database is the persistent map of FaceStore, if writes and     *)
(* removals do what they say and every firmware saves at once: whatever    *)
(* the order of calls, wherever power is lost, whichever file cannot be    *)
(* read, and for every capacity.                                           *)
THEOREM StoreIsMap ==
  ASSUME Sound
  PROVE  Spec => ImplementsStore
<1>1. Init => Store!Init
  BY DEF Init, Store!Init, StoredFaces, Store!Nobody, Phase, NoReq, Store!NoReq
<1>2. Known /\ StoreInv /\ [Next]_vars => [Store!Next]_(Store!vars)
  <2> SUFFICES ASSUME Known, StoreInv, [Next]_vars PROVE Implements
    BY DEF Implements
  <2>1. CASE Boot
    BY <2>1, ImplementsBoot
  <2>2. CASE Calls \/ PowerLoss
    BY <2>2, ImplementsCalls
  <2>3. CASE Step
    BY <2>3, ImplementsAdd, ImplementsUpdate, ImplementsDelete, ImplementsDeleteAll,
       ImplementsSave, ImplementsMeta DEF Step
  <2>4. CASE UNCHANGED vars
    <3>1. StoredFaces' = StoredFaces /\ Phase' = Phase
      BY <2>4, SameFlash DEF vars, flash, Phase
    <3>2. QED
      BY <2>4, <3>1, Stutters DEF vars
  <2>5. QED
    BY <2>1, <2>2, <2>3, <2>4 DEF Next
<1>3. QED
  BY <1>1, <1>2, StoreInvariant, PTL DEF Spec, ImplementsStore, Store!Spec
=============================================================================
